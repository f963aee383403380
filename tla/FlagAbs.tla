------------------------------- MODULE FlagAbs -------------------------------
(***************************************************************************)
(* What os_flag.c promises its callers: a call of OSFlagPend() that has to *)
(* wait is granted the flags that meet its request at the moment a post    *)
(* makes them so, together with every other call they satisfy, and takes   *)
(* them from the group when it returns.                                    *)
(***************************************************************************)
CONSTANTS Waiters, Groups, Asks, Masks

VARIABLES
  live, flags,
  call          \* the call of OSFlagPend() of each task

absVars == <<live, flags, call>>

Idle == [state |-> "idle"]
Waiting(g, r) == [state |-> "waiting", on |-> g, ask |-> r]
Granted(c, got) == [state |-> "granted", on |-> c.on, ask |-> c.ask, got |-> got]

AbsInit ==
  /\ live = [g \in Groups |-> FALSE]
  /\ flags = [g \in Groups |-> {}]
  /\ call = [t \in Waiters |-> Idle]

(* The part of the request r that the flags fs fulfil.                     *)
Part(r, fs) == {f \in r.flags : f \in fs <=> r.type \in {"SET_ALL", "SET_ANY"}}
Fulfilled(r, fs) ==
  \/ r.type \in {"SET_ALL", "CLR_ALL"} /\ r.flags = Part(r, fs)
  \/ r.type \in {"SET_ANY", "CLR_ANY"} /\ Part(r, fs) # {}

After(r, fs, got) ==
  CASE ~r.consume                                       -> fs
    [] r.consume /\ r.type \in {"SET_ALL", "SET_ANY"}   -> fs \ got
    [] r.consume /\ r.type \in {"CLR_ALL", "CLR_ANY"}   -> fs \cup got

(* A call that timed out can still be granted until the task runs.         *)
Open(g) == {t \in Waiters : call[t].state \in {"waiting", "expired"} /\ call[t].on = g}

Create(g, fs) ==
  /\ ~live[g]
  /\ live' = [live EXCEPT ![g] = TRUE]
  /\ flags' = [flags EXCEPT ![g] = fs]
  /\ UNCHANGED call

Change(g, fs) ==
  /\ live[g]
  /\ flags' = [flags EXCEPT ![g] = fs]
  /\ call' = [t \in Waiters |-> IF t \in Open(g) /\ Fulfilled(call[t].ask, fs)
                                  THEN Granted(call[t], Part(call[t].ask, fs)) ELSE call[t]]
  /\ UNCHANGED live

Delete(g) ==
  /\ live[g]
  /\ live' = [live EXCEPT ![g] = FALSE]
  /\ flags' = [flags EXCEPT ![g] = {}]
  /\ call' = [t \in Waiters |-> IF t \in Open(g) THEN Granted(call[t], {}) ELSE call[t]]

Take(g, r) ==
  /\ live[g] /\ Fulfilled(r, flags[g])
  /\ flags' = [flags EXCEPT ![g] = After(r, @, Part(r, @))]
  /\ UNCHANGED <<live, call>>

Wait(t, g, r) ==
  /\ live[g] /\ ~Fulfilled(r, flags[g])
  /\ call[t] = Idle
  /\ call' = [call EXCEPT ![t] = Waiting(g, r)]
  /\ UNCHANGED <<live, flags>>

TimeOut(ts) ==
  /\ \A t \in ts : call[t].state = "waiting"
  /\ call' = [t \in Waiters |-> IF t \in ts THEN [call[t] EXCEPT !.state = "expired"]
                                            ELSE call[t]]
  /\ UNCHANGED <<live, flags>>

Return(t) ==
  /\ \/ call[t].state = "expired" /\ UNCHANGED flags
     \/ /\ call[t].state = "granted"
        /\ flags' = [flags EXCEPT ![call[t].on] = After(call[t].ask, @, call[t].got)]
  /\ call' = [call EXCEPT ![t] = Idle]
  /\ UNCHANGED live

AbsNext ==
  \/ \E g \in Groups :
        \/ Delete(g)
        \/ \E fs \in Masks : Create(g, fs) \/ Change(g, flags[g] \cup fs)
                                           \/ Change(g, flags[g] \ fs)
        \/ \E r \in Asks : Take(g, r) \/ \E t \in Waiters : Wait(t, g, r)
  \/ \E t \in Waiters : Return(t)
  \/ \E ts \in SUBSET Waiters : TimeOut(ts)

AbsSpec == AbsInit /\ [][AbsNext]_absVars
=============================================================================
