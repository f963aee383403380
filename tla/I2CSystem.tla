----------------------------- MODULE I2CSystem -----------------------------
(***************************************************************************)
(* drivers/dwi2c.c and i2c_transfer(), with tasks that use one bus as      *)
(* at24.c and i2c-dev.c do, and a controller and a slave that may refuse,  *)
(* stop or be silent.  A task sets up a transfer and sleeps, the interrupt *)
(* handler feeds commands to the controller and fetches what was read, and *)
(* the task is woken by the end of the transfer or by a time-out.          *)
(* A message is a length and a direction.  A byte is known by its message  *)
(* and its place in it; what the slave sends, by the number of bytes it    *)
(* sent before.                                                            *)
(***************************************************************************)
EXTENDS Integers, Sequences, SequencesExt, FiniteSets, FiniteSetsExt

CONSTANTS
  Tasks, NoTask,
  TxDepth, RxDepth,     \* tx_fifo_depth, rx_fifo_depth
  Retries,              \* adap->retries
  HandlerIsPrompt,      \* does the handler run before the task goes on
  BusIsSlow             \* is a byte longer than three accesses of a task

ASSUME DwI2CAssumption ==
  /\ {TxDepth, RxDepth, Retries} \subseteq Nat \ {0}
  /\ NoTask \notin Tasks
  /\ {HandlerIsPrompt, BusIsSlow} \subseteq BOOLEAN

VARIABLES
  owner,                \* who holds adap->lock
  pc, retries, rval,    \* of a task in i2c_transfer()
  msgs,
  fed,                  \* bytes taken of all messages: msg_write_idx and tx_buf_len
  writing,              \* STATUS_WRITE_IN_PROGRESS
  rx_outstanding,
  cmd_err,              \* TX_ABRT was seen
  msg_err,              \* a message was refused
  wait,                 \* count of the completion
  got,                  \* what was read, in the order of the buffers: also
                        \* msg_read_idx and rx_buf_len
  enabled, mask,        \* IC_ENABLE, IC_INTR_MASK
  latched,              \* TX_ABRT and STOP_DET of IC_RAW_INTR_STAT
  txFifo, rxFifo,
  wire                  \* what the slave has seen of the transfer

taskVars == <<owner, pc, retries, rval>>
progress == <<fed, writing, got, rx_outstanding>>
dwi2c == <<msgs, progress, cmd_err, msg_err, wait>>
registers == <<enabled, mask, latched>>
fifos == <<txFifo, rxFifo>>
i2cVars == <<taskVars, dwi2c, registers, fifos, wire>>

DEFAULT_MASK == {"RX_FULL", "TX_EMPTY", "TX_ABRT", "STOP_DET"}

(* dwi2c_add_numbered_adapter() writes an empty mask.                      *)
I2CInit ==
  /\ owner = NoTask
  /\ pc = [t \in Tasks |-> "out"] /\ retries = 0 /\ rval = [t \in Tasks |-> "none"]
  /\ msgs = <<>> /\ fed = 0 /\ writing = FALSE /\ got = <<>>
  /\ rx_outstanding = 0 /\ cmd_err = FALSE /\ msg_err = FALSE /\ wait = 0
  /\ enabled = FALSE /\ mask = {} /\ latched = {}
  /\ txFifo = <<>> /\ rxFifo = <<>> /\ wire = <<>>

Goto(t, where) == pc' = [pc EXCEPT ![t] = where]

(* __i2c_dw_enable(): the controller forgets its queues when it is off.    *)
Disable ==
  /\ enabled' = FALSE
  /\ txFifo' = <<>> /\ rxFifo' = <<>>
-----------------------------------------------------------------------------
(* The controller (external) raises what is latched, and the state of its  *)
(* queues.                                                                 *)
Raw ==
  latched \cup (IF enabled /\ Len(txFifo) < TxDepth THEN {"TX_EMPTY"} ELSE {})
          \cup (IF rxFifo # <<>> THEN {"RX_FULL"} ELSE {})

Visible == Raw \cap mask

(* The task is interrupted between two of its accesses to the controller.  *)
(* A prompt handler comes before the second of them.                       *)
Uninterrupted == HandlerIsPrompt => Visible = {}

(* The task.                                                               *)
i2c_transfer(t, m) ==
  /\ pc[t] = "out" /\ owner = NoTask
  /\ owner' = t /\ retries' = Retries /\ msgs' = m
  /\ rval' = [rval EXCEPT ![t] = "none"]
  /\ Goto(t, "xfer")
  /\ UNCHANGED <<progress, cmd_err, msg_err, wait, registers, fifos, wire>>

(* Mutant: a completion of the transfer before is still counted.           *)
XferReset_KeepsWait(t) ==
  /\ pc[t] = "xfer" /\ retries > 0
  /\ retries' = retries - 1
  /\ fed' = 0 /\ writing' = FALSE /\ got' = <<>>
  /\ rx_outstanding' = 0 /\ cmd_err' = FALSE /\ msg_err' = FALSE
  /\ wire' = <<>>
  /\ Goto(t, "idle?")
  /\ UNCHANGED <<owner, rval, msgs, wait, registers, fifos>>

(* dwi2c_xfer(), as often as retries allow.                                *)
XferReset(t) ==
  /\ pc[t] = "xfer" /\ retries > 0
  /\ retries' = retries - 1
  /\ fed' = 0 /\ writing' = FALSE /\ got' = <<>>
  /\ rx_outstanding' = 0 /\ cmd_err' = FALSE /\ msg_err' = FALSE /\ wait' = 0
  /\ wire' = <<>>
  /\ Goto(t, "idle?")
  /\ UNCHANGED <<owner, rval, msgs, registers, fifos>>

(* dwi2c_wait_bus_not_busy() fails when the bus stays active.              *)
BusBusy(t) ==
  /\ pc[t] = "idle?"
  /\ rval' = [rval EXCEPT ![t] = "ETIMEDOUT"]
  /\ Goto(t, "xfer")
  /\ UNCHANGED <<owner, retries, dwi2c, registers, fifos, wire>>

(* dwi2c_xfer_init(): off and on again, then the interrupts are cleared    *)
(* and the mask is written.  Until then the mask is that of the transfer   *)
(* before, and the handler may run.                                        *)
XferEnable(t) ==
  /\ pc[t] = "idle?" /\ Uninterrupted
  /\ enabled' = TRUE /\ txFifo' = <<>> /\ rxFifo' = <<>>
  /\ Goto(t, "clear")
  /\ UNCHANGED <<owner, retries, rval, dwi2c, mask, latched, wire>>

XferClear(t) ==
  /\ pc[t] = "clear" /\ Uninterrupted
  /\ latched' = {}
  /\ Goto(t, "unmask")
  /\ UNCHANGED <<owner, retries, rval, dwi2c, enabled, mask, fifos, wire>>

XferUnmask(t) ==
  /\ pc[t] = "unmask" /\ mask' = DEFAULT_MASK
  /\ Goto(t, "wait")
  /\ UNCHANGED <<owner, retries, rval, dwi2c, enabled, latched, fifos, wire>>

(* An error of the handler is an error of the transfer.  The controller,   *)
(* turned off before it was told to stop, may stop by itself.              *)
Result == IF msg_err THEN "EINVAL" ELSE IF cmd_err THEN "EIO" ELSE "num"

XferCompleted(t) ==
  /\ pc[t] = "wait" /\ wait > 0 /\ wait' = wait - 1
  /\ Disable
  /\ latched' = latched \/ (msg_err /\ latched' = latched \cup {"STOP_DET"})
  /\ rval' = [rval EXCEPT ![t] = Result]
  /\ Goto(t, IF Result = "num" THEN "unlock" ELSE "xfer")
  /\ UNCHANGED <<owner, retries, msgs, progress, cmd_err, msg_err, mask, wire>>

(* The pend ends, and some time later the controller is reset, which may   *)
(* stop what it was at.                                                    *)
XferTimeout(t) ==
  /\ pc[t] = "wait" /\ wait = 0
  /\ Goto(t, "reset")
  /\ UNCHANGED <<owner, retries, rval, dwi2c, registers, fifos, wire>>

XferHwInit(t) ==
  /\ pc[t] = "reset"
  /\ Disable
  /\ latched' = latched \/ latched' = latched \cup {"STOP_DET"}
  /\ rval' = [rval EXCEPT ![t] = "ETIMEDOUT"]
  /\ Goto(t, "xfer")
  /\ UNCHANGED <<owner, retries, dwi2c, mask, wire>>

Unlock(t) ==
  /\ pc[t] = "unlock" \/ (pc[t] = "xfer" /\ retries = 0)
  /\ owner' = NoTask
  /\ Goto(t, "out")
  /\ UNCHANGED <<retries, rval, dwi2c, registers, fifos, wire>>

TransferStep(t) ==
  \/ XferReset(t) \/ BusBusy(t) \/ XferEnable(t) \/ XferClear(t) \/ XferUnmask(t)
  \/ XferCompleted(t) \/ XferTimeout(t) \/ XferHwInit(t) \/ Unlock(t)
-----------------------------------------------------------------------------
(* What the controller (external) does on the bus.                         *)
ByteRead == Cardinality({k \in DOMAIN wire : wire[k].read}) + 1

(* With a slow bus nothing comes of a command while the task goes from     *)
(* enabling the controller to writing the mask.                            *)
BusMayMove ==
  BusIsSlow => owner = NoTask \/ pc[owner] \notin {"clear", "unmask"}

(* It takes a command, moves a byte, and ends the transfer if told to.     *)
MoveByte ==
  /\ enabled /\ txFifo # <<>> /\ latched = {} /\ BusMayMove
  /\ wire' = Append(wire, Head(txFifo))
  /\ txFifo' = Tail(txFifo)
  /\ rxFifo' = IF Head(txFifo).read THEN Append(rxFifo, ByteRead) ELSE rxFifo
  /\ latched' = IF Head(txFifo).stop THEN {"STOP_DET"} ELSE {}
  /\ UNCHANGED <<taskVars, dwi2c, enabled, mask>>

(* The slave does not acknowledge, or another master wins the bus: both    *)
(* queues are flushed.  The controller stops the transfer a little later.  *)
Abort ==
  /\ enabled /\ txFifo # <<>> /\ latched = {} /\ BusMayMove
  /\ latched' = {"TX_ABRT"} /\ txFifo' = <<>> /\ rxFifo' = <<>>
  /\ UNCHANGED <<taskVars, dwi2c, enabled, mask, wire>>

AbortStop ==
  /\ cmd_err /\ latched = {} /\ owner # NoTask /\ pc[owner] \in {"wait", "xfer"}
  /\ latched' = {"STOP_DET"}
  /\ UNCHANGED <<taskVars, dwi2c, enabled, mask, fifos, wire>>
-----------------------------------------------------------------------------
(* dwi2c_xfer_msg() takes the bytes of the messages one by one while there *)
(* is room for commands, and for what they may read.  A message after the  *)
(* first starts with a restart, if the call that comes to the message also *)
(* finds room for its first byte.  A message of no bytes is refused when   *)
(* it is come to, and with it what follows.                                *)
Refused(m) == \E i \in DOMAIN m : m[i].len = 0

Taken(m, i) == IF \E j \in 1 .. i : m[j].len = 0 THEN 0 ELSE m[i].len

Commands(m) == FlattenSeq([i \in DOMAIN m |->
  [k \in 1 .. Taken(m, i) |->
    [msg |-> i, pos |-> k, read |-> m[i].read,
     restart |-> i > 1 /\ k = 1, stop |-> i = Len(m) /\ k = m[i].len]]])

Unfed == SubSeq(Commands(msgs), fed + 1, Len(Commands(msgs)))

ReadsBefore(n) == {j \in 1 .. n - 1 : Unfed[j].read}

(* Mutant: reads are asked for without a thought for where they will go.   *)
Room_TxOnly(n, rx, unread) == Len(txFifo) + n - 1 < TxDepth

(* rx_limit is reckoned anew for every message, the bytes that are still   *)
(* to come are not.                                                        *)
Room(n, rx, unread) ==
  LET sameMsg == {j \in ReadsBefore(n) : Unfed[j].msg = Unfed[n].msg}
      rx_limit == RxDepth - rx - Cardinality(sameMsg)
  IN /\ Len(txFifo) + n - 1 < TxDepth
     /\ rx_limit > 0
     /\ Unfed[n].read => rx_limit - (unread + Cardinality(ReadsBefore(n))) > 0

Feed(rx, unread) == Max({n \in 0 .. Len(Unfed) : \A j \in 1 .. n : Room(j, rx, unread)})

dwi2c_xfer_msg(rx, unread) ==
  \E n \in {Feed(rx, unread)} :
    LET all == n = Len(Unfed)
    IN /\ fed' = fed + n
       /\ writing' = ~all
       /\ rx_outstanding' = unread + Cardinality(ReadsBefore(n + 1))
       /\ txFifo' = txFifo \o [j \in 1 .. n |->
                              [Unfed[j] EXCEPT !.restart = @ /\ (j > 1 \/ ~writing)]]
       /\ msg_err' = (msg_err \/ (all /\ Refused(msgs)))
       /\ mask' = IF msg_err' THEN {}
                  ELSE IF all THEN DEFAULT_MASK \ {"TX_EMPTY"} ELSE DEFAULT_MASK

(* dwi2c_read() fetches what has come and is still wanted.                 *)
Wanted == Cardinality({k \in DOMAIN Commands(msgs) : Commands(msgs)[k].read}) - Len(got)

(* Mutant: one byte is fetched, whatever has come.                         *)
Fetched_One(stat) == IF "RX_FULL" \in stat THEN Min({1, Wanted}) ELSE 0

Fetched(stat) == IF "RX_FULL" \in stat THEN Min({Len(rxFifo), Wanted}) ELSE 0

(* Mutant: bytes that have been fetched stay outstanding.                  *)
Served_StillOutstanding(stat) ==
  LET n == Fetched(stat)
  IN /\ got' = got \o SubSeq(rxFifo, 1, n)
     /\ rxFifo' = SubSeq(rxFifo, n + 1, Len(rxFifo))
     /\ IF "TX_EMPTY" \in stat
          THEN dwi2c_xfer_msg(Len(rxFifo) - n, rx_outstanding)
          ELSE rx_outstanding' = rx_outstanding /\ UNCHANGED <<fed, writing, msg_err, txFifo, mask>>
     /\ UNCHANGED cmd_err

Served(stat) ==
  LET n == Fetched(stat)
  IN /\ got' = got \o SubSeq(rxFifo, 1, n)
     /\ rxFifo' = SubSeq(rxFifo, n + 1, Len(rxFifo))
     /\ IF "TX_EMPTY" \in stat
          THEN dwi2c_xfer_msg(Len(rxFifo) - n, rx_outstanding - n)
          ELSE rx_outstanding' = rx_outstanding - n /\ UNCHANGED <<fed, writing, msg_err, txFifo, mask>>
     /\ UNCHANGED cmd_err

Aborted ==
  /\ cmd_err' = TRUE /\ writing' = FALSE /\ mask' = {}
  /\ UNCHANGED <<fed, got, rx_outstanding, msg_err, fifos>>

(* dwi2c_interrupt(), on what is raised and enabled.                       *)
InterruptOff ==
  /\ Visible # {} /\ ~enabled
  /\ latched' = latched \ Visible
  /\ UNCHANGED <<taskVars, dwi2c, enabled, mask, fifos, wire>>

InterruptOn ==
  /\ Visible # {} /\ enabled
  /\ latched' = latched \ Visible
  /\ IF "TX_ABRT" \in Visible THEN Aborted ELSE Served(Visible)
  /\ wait' = IF Visible \cap {"TX_ABRT", "STOP_DET"} # {} \/ msg_err' THEN wait + 1 ELSE wait
  /\ UNCHANGED <<taskVars, msgs, enabled, wire>>

dwi2c_interrupt == InterruptOff \/ InterruptOn
-----------------------------------------------------------------------------
(* The tasks that use the bus.                                             *)
CONSTANTS
  Transfers,    \* rows of messages the drivers send
  MaxCalls      \* BOUND on the calls of a task

VARIABLE calls

vars == <<i2cVars, calls>>

Init == I2CInit /\ calls = [t \in Tasks |-> 0]

Call(t) ==
  /\ calls[t] < MaxCalls
  /\ calls' = [calls EXCEPT ![t] = @ + 1]
  /\ \E m \in Transfers : i2c_transfer(t, m)

Step(t) == TransferStep(t) /\ UNCHANGED calls
Controller == (MoveByte \/ Abort \/ AbortStop) /\ UNCHANGED calls
Handler == dwi2c_interrupt /\ UNCHANGED calls

Next == Controller \/ Handler \/ \E t \in Tasks : Call(t) \/ Step(t)

(* The controller serves its queue, the handler runs when it is called,    *)
(* and a task that can go on does.  No time-out is needed.                 *)
Unhurried(t) ==
  /\ XferReset(t) \/ BusBusy(t) \/ XferEnable(t) \/ XferClear(t) \/ XferUnmask(t)
     \/ XferCompleted(t) \/ XferHwInit(t) \/ Unlock(t)
  /\ UNCHANGED calls

Fairness ==
  /\ WF_vars(MoveByte /\ UNCHANGED calls) /\ WF_vars(Handler)
  /\ \A t \in Tasks : WF_vars(Unhurried(t))

Spec == Init /\ [][Next]_vars /\ Fairness
-----------------------------------------------------------------------------
(* The queues of the controller never overflow: what is asked for finds    *)
(* room when it comes, however late the handler runs.                      *)
NoOverrun ==
  /\ Len(txFifo) <= TxDepth
  /\ Len(rxFifo) + Cardinality({k \in DOMAIN txFifo : txFifo[k].read}) <= RxDepth

(* A read that succeeds has put into the buffers every byte the slave      *)
(* sent, in order.                                                         *)
ReadsExact ==
  \A t \in Tasks :
    pc[t] = "unlock" => Wanted = 0 /\ \A k \in DOMAIN got : got[k] = k

Bus == INSTANCE I2CAbs WITH Callers <- Tasks, Nobody <- NoTask, Bytes <- Commands

(* No completion of an earlier try, no interrupt that is late and no other *)
(* task is taken for the end of a transfer, or mixes with it.              *)
ImplementsBus == Bus!BusSpec

(* A transfer that has been started ends by itself: the handler and the    *)
(* controller never wait for each other with queues full or empty.         *)
TransfersEnd == \A t \in Tasks : (pc[t] = "wait") ~> (pc[t] # "wait")
=============================================================================
