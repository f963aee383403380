------------------------------ MODULE SemSystem ------------------------------
(***************************************************************************)
(* The kernel with semaphores, delays and suspension: every task may call  *)
(* any of these services at any time, and the tick and a device that posts *)
(* interrupt between any two critical sections.                            *)
(***************************************************************************)
EXTENDS OSSem, OSTime, OSTask

vars == <<coreVars, checked>>

Init ==
  /\ CoreInit
  /\ OSEventType = [e \in Events |-> "UNUSED"]
  /\ OSEventCnt = [e \in Events |-> 0]
  /\ OSEventTbl = [e \in Events |-> EmptyMap]
  /\ checked = [t \in Tasks |-> NoEvent]

(* "This function must be used with care" (os_sem.c:157): with care, no    *)
(* other task is in a call on the semaphore that has passed its check.     *)
CarefulDelete(t, e) ==
  /\ \A u \in Tasks \ {t} : checked[u] # e
  /\ SemDelete(t, e)

SemStep(t, e) ==
  \/ \E cnt \in InitialCnts : OSSemCreate(t, e, cnt)
  \/ Check(t, e)
  \/ SemCall(t, e)
  \/ CarefulDelete(t, e)

OtherStep(t) ==
  /\ Free(t)
  /\ TimeCall(t) \/ TaskCall(t) \/ OSSchedLock(t) \/ OSSchedUnlock(t)
  /\ UNCHANGED checked

KernelStep(t) == (OS_Sched(t) \/ PendReturn(t)) /\ UNCHANGED checked

DeviceISR == \E e \in Events : SemPostISR(e)

Interrupt == (TickISR \/ OSIntExit) /\ UNCHANGED checked

Next ==
  \/ \E t \in Tasks, e \in Events : SemStep(t, e)
  \/ \E t \in Tasks : OtherStep(t) \/ KernelStep(t)
  \/ DeviceISR \/ Interrupt

Spec == Init /\ [][Next]_vars

(* Deletion without that care.                                             *)
CarelessSpec == Init /\ [][Next \/ \E t \in Tasks, e \in Events : SemDelete(t, e)]_vars
-----------------------------------------------------------------------------
(* Fairness.  The timer interrupt stays pending in the interrupt           *)
(* controller until it is taken; a handler runs to its end; interrupts do  *)
(* not take the whole CPU, so the kernel code of a task that keeps getting *)
(* the CPU goes on; and a task that has locked the scheduler unlocks it    *)
(* (OSSchedLock() and OSSchedUnlock() "MUST" come in pairs, os_core.c:733). *)
(* Nothing is assumed of the other service calls of the application.       *)
Fairness ==
  /\ SF_vars(TickISR /\ UNCHANGED checked)
  /\ WF_vars(OSIntExit /\ UNCHANGED checked)
  /\ \A t \in Tasks : /\ SF_vars(KernelStep(t))
                      /\ SF_vars(\E e \in Events : SemCall(t, e))
                      /\ SF_vars(OtherStep(t) /\ OSSchedUnlock(t))

FairSpec == Spec /\ Fairness

(* A pend with a time-out of the task of highest priority comes back to    *)
(* its caller, whatever the other tasks, the device and the races between  *)
(* the tick, a post and the scheduler do - unless the task is suspended.   *)
TimedPendReturns ==
  \A t \in Tasks :
    (\A u \in Tasks : BasePrio[t] <= BasePrio[u]) =>
      ((pc[t] = "pend" /\ OSTCBDly[t] > 0)
         ~> (pc[t] = "run" \/ "SUSPEND" \in OSTCBStat[t]))

-----------------------------------------------------------------------------
(* The call of OSSemPend() of each task, read off its TCB.                 *)
PendState(t) ==
  CASE OSTCBEventPtr[t] = NoEvent   -> "idle"
    [] OSTCBEventPtr[t] # NoEvent /\ "SEM" \in OSTCBStat[t] -> "waiting"
    [] OSTCBEventPtr[t] # NoEvent /\ "SEM" \notin OSTCBStat[t] ->
         CASE OSTCBStatPend[t] = "OK"    -> "acquired"
           [] OSTCBStatPend[t] = "TO"    -> "expired"
           [] OSTCBStatPend[t] = "ABORT" -> "aborted"

Abs == INSTANCE SemAbs WITH
  Waiters <- Tasks,
  Sems    <- Events,
  Rank    <- BasePrio,
  CntMax  <- SemCntMax,
  Cnts    <- InitialCnts,
  live    <- [e \in Events |-> IsSem(e)],
  count   <- OSEventCnt,
  on      <- [t \in Tasks |-> IF OSTCBEventPtr[t] = NoEvent THEN "none" ELSE OSTCBEventPtr[t]],
  state   <- [t \in Tasks |-> PendState(t)]

(* The kernel implements the semaphore: one post is one token, it goes to  *)
(* the waiter of highest priority or to the count, a task that has been    *)
(* handed a token returns with it even if it had timed out before, and     *)
(* nothing else ends a wait.                                               *)
ImplementsSem == Abs!AbsSpec
=============================================================================
