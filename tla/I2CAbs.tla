------------------------------- MODULE I2CAbs -------------------------------
(***************************************************************************)
(* What i2c_transfer() promises: one caller at a time has the bus, the     *)
(* slave sees its messages from the start, byte by byte and in order, as   *)
(* often as it is tried, and success is reported for a try that was seen   *)
(* to its end.  Messages that cannot be sent are an error of their own.    *)
(***************************************************************************)
EXTENDS Integers, Sequences

CONSTANTS
  Callers, Nobody,
  Bytes(_),         \* the commands of a row of messages
  Refused(_)        \* is there one among them that cannot be sent

VARIABLES owner, msgs, wire, rval

busVars == <<owner, msgs, wire, rval>>

BusInit ==
  owner = Nobody /\ msgs = <<>> /\ wire = <<>> /\ rval = [t \in Callers |-> "none"]

Take(t) ==
  /\ owner = Nobody /\ owner' = t
  /\ rval' = [rval EXCEPT ![t] = "none"]
  /\ UNCHANGED wire

Try == owner # Nobody /\ rval[owner] # "num" /\ wire' = <<>> /\ UNCHANGED <<owner, msgs, rval>>

Move ==
  /\ owner # Nobody /\ Len(wire) < Len(Bytes(msgs))
  /\ wire' = Append(wire, Bytes(msgs)[Len(wire) + 1])
  /\ UNCHANGED <<owner, msgs, rval>>

Succeed(t) ==
  /\ owner = t /\ wire = Bytes(msgs) /\ ~Refused(msgs)
  /\ rval' = [rval EXCEPT ![t] = "num"]
  /\ UNCHANGED <<owner, msgs, wire>>

Fail(t) ==
  /\ owner = t /\ rval[t] # "num"
  /\ \E error \in {"EIO", "ETIMEDOUT", "EINVAL"} :
       /\ error = "EINVAL" => Refused(msgs)
       /\ rval' = [rval EXCEPT ![t] = error]
  /\ UNCHANGED <<owner, msgs, wire>>

Release(t) ==
  /\ owner = t /\ rval[t] # "none"
  /\ owner' = Nobody
  /\ UNCHANGED <<msgs, wire, rval>>

BusNext ==
  \/ Try \/ Move
  \/ \E t \in Callers : Take(t) \/ Succeed(t) \/ Fail(t) \/ Release(t)

BusSpec == BusInit /\ [][BusNext]_busVars
=============================================================================
