----------------------------- MODULE TmrSystem -----------------------------
(***************************************************************************)
(* The timers with the tick, the timer task, tasks that call the services, *)
(* and call-backs that call them in the middle of a walk.                  *)
(***************************************************************************)
EXTENDS OSTmr

CONSTANT CallbacksTouchNext     \* may a call-back stop, restart or delete ptmr_next

Init == OSTmr_Init

(* OSTmr_Task() holds the scheduler lock through a walk, so the services   *)
(* of other tasks come between two walks.                                  *)
TaskService ==
  /\ at = "pend"
  /\ \E set \in Settings : OSTmrCreate(set) \/ \E p \in Timers : ServiceOn(p)
  /\ UNCHANGED <<clock, task>>

CallbackService ==
  /\ at = "callback"
  /\ \/ \E set \in Settings : OSTmrCreate(set)
     \/ \E p \in Timers : ServiceOn(p) /\ (p = ptmr_next => CallbacksTouchNext)
  /\ UNCHANGED <<clock, task>>

TmrTask == TmrTaskSignalled \/ TmrTaskStep \/ TmrTaskAdvance

(* After a write through the null pointer anything may happen.             *)
Next == ~fault /\ (TaskService \/ CallbackService \/ TmrTask \/ OSTmrSignal)

Fairness == WF_tmrVars(OSTmrSignal) /\ WF_tmrVars(TmrTask)

Spec == Init /\ [][Next]_tmrVars /\ Fairness

-----------------------------------------------------------------------------
(* The timers on the list that starts at p.                                *)
ListFrom(p) ==
  LET reach[n \in 0 .. Len(OSTmrTbl)] ==
        IF n = 0 THEN {p} \ {NULL}
        ELSE LET before == reach[n - 1]
             IN  before \cup ({OSTmrNext[q] : q \in before} \ {NULL})
  IN  reach[Len(OSTmrTbl)]

Running(s) == {p \in Timers : OSTmrState[p] = "RUNNING" /\ Spoke(OSTmrMatch[p]) = s}

(* Each running timer is on the spoke of its match value and on no other,  *)
(* each unused one on the free list, the links agree in both directions,   *)
(* OSTmrEntries counts the list, and no link was written through null.     *)
WheelExact ==
  /\ ~fault
  /\ \A s \in Spokes :
       /\ ListFrom(OSTmrFirst[s]) = Running(s)
       /\ OSTmrEntries[s] = Cardinality(Running(s))
       /\ OSTmrFirst[s] # NULL => OSTmrPrev[OSTmrFirst[s]] = NULL
  /\ \A p \in Timers : OSTmrState[p] = "RUNNING" /\ OSTmrNext[p] # NULL => OSTmrPrev[OSTmrNext[p]] = p
  /\ ListFrom(OSTmrFreeList) = {p \in Timers : OSTmrState[p] = "UNUSED"}

(* The timers the walk has still to look at.                               *)
Ahead == CASE at = "walk" -> ListFrom(ptmr)
           [] at = "callback" -> ListFrom(ptmr_next)
           [] at = "pend" -> {}

(* "Process each timer that expires": no running timer is passed over at   *)
(* its time.  One that is fires when OSTmrTime has wrapped around.         *)
NoTimerPassed ==
  \A p \in Timers : OSTmrState[p] = "RUNNING" /\ OSTmrRemainGet(p) = 0 => p \in Ahead

(* When tasks and call-backs stop calling services, each one-shot timer    *)
(* still running completes, and stays so: the walks end, time goes on.     *)
OneShotsComplete ==
  <>[][~(TaskService \/ CallbackService)]_tmrVars =>
    <>[](\A p \in Timers : OSTmrState[p] = "RUNNING" => OSTmrOpt[p] = "PERIODIC")

-----------------------------------------------------------------------------
Abs == INSTANCE TmrAbs WITH
  Tmrs    <- Timers,
  Valid   <- Settings,
  None    <- NULL,
  mode    <- [p \in Timers |-> CASE OSTmrState[p] = "UNUSED" -> "unused"
                                 [] OSTmrState[p] = "RUNNING" -> "running"
                                 [] OTHER -> "idle"],
  setting <- [p \in Timers |->
                IF OSTmrState[p] = "UNUSED" THEN [opt |-> "NONE"]
                ELSE [opt |-> OSTmrOpt[p], dly |-> OSTmrDly[p], period |-> OSTmrPeriod[p]]],
  ringing <- IF at = "callback" THEN ptmr ELSE NULL,
  left    <- [p \in Timers |-> IF OSTmrState[p] = "RUNNING" THEN OSTmrRemainGet(p) ELSE 0]

(* A timer fires exactly as many ticks after its start as it was created   *)
(* with, once, whatever happens on its spoke and however OSTmrTime wraps.  *)
ImplementsTimers == Abs!AbsSpec
=============================================================================
