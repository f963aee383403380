-------------------------------- MODULE OSSem --------------------------------
(***************************************************************************)
(* Counting semaphores, os_sem.c.  A service looks at OSEventType before   *)
(* it enters its critical section, so it is two steps: Check and the       *)
(* critical section, on a semaphore another task may have deleted between  *)
(* the two.  A critical section that ends in a call of OS_Sched() leaves   *)
(* the task at "sched" (or "pend").  The early returns before Check (a     *)
(* wrong event type, a null pointer, a call from an ISR) change nothing.   *)
(***************************************************************************)
EXTENDS OSCore

CONSTANTS
  SemCntMax,        \* 65535, the limit of OSEventCnt
  InitialCnts,      \* the counts OSSemCreate() and OSSemSet() are called with
  Timeouts          \* the time-outs of OSSemPend(), 0 for none

ASSUME SemAssumption ==
  /\ SemCntMax \in Nat \ {0}
  /\ InitialCnts \subseteq 0 .. SemCntMax
  /\ Timeouts \subseteq Nat

VARIABLE checked        \* the pevent of a service that has passed its check

IsSem(e) == OSEventType[e] = "SEM"

Free(t) == Calls(t) /\ checked[t] = NoEvent

Check(t, e) ==
  /\ Free(t) /\ IsSem(e)
  /\ checked' = [checked EXCEPT ![t] = e]
  /\ UNCHANGED coreVars

(* OS_ENTER_CRITICAL() of the service.                                     *)
Enter(t, e) ==
  /\ Calls(t) /\ checked[t] = e
  /\ checked' = [checked EXCEPT ![t] = NoEvent]

(* The free list gives any of the ECBs not in use.  Between the unlinking  *)
(* and the initialisation nobody else has a pointer to the ECB.            *)
OSSemCreate(t, e, cnt) ==
  /\ Free(t)
  /\ OSEventType[e] = "UNUSED"
  /\ OSEventType' = [OSEventType EXCEPT ![e] = "SEM"]
  /\ OSEventCnt' = [OSEventCnt EXCEPT ![e] = cnt]
  /\ OSEventTbl' = [OSEventTbl EXCEPT ![e] = EmptyMap]
  /\ UNCHANGED <<tcbVars, tblVars, OSRdyTbl, curVars, nestVars, pc, checked>>

Release(e) ==
  /\ OSEventType' = [OSEventType EXCEPT ![e] = "UNUSED"]
  /\ OSEventCnt' = [OSEventCnt EXCEPT ![e] = 0]

(* Mutant: OS_DEL_NO_PEND without the test for waiting tasks.              *)
OSSemDelNoPend_Unchecked(t, e) ==
  /\ Enter(t, e)
  /\ Release(e)
  /\ UNCHANGED <<tcbVars, tblVars, OSRdyTbl, OSEventTbl, curVars, nestVars, pc>>

OSSemDelNoPend(t, e) ==
  /\ Enter(t, e)
  /\ ~Waiting(e)
  /\ Release(e)
  /\ UNCHANGED <<tcbVars, tblVars, OSRdyTbl, OSEventTbl, curVars, nestVars, pc>>

OSSemDelAlways(t, e) ==
  /\ Enter(t, e)
  /\ OS_EventTaskRdy(e, AllWaiters(e), "SEM", "OK")
  /\ Release(e)
  /\ IF Waiting(e) THEN Goto(t, "sched") ELSE UNCHANGED pc
  /\ UNCHANGED <<OSTCBPrio, OSTCBEventMultiPtr, tblVars, curVars, nestVars>>

OSSemAccept(t, e) ==
  /\ Enter(t, e)
  /\ OSEventCnt[e] > 0
  /\ OSEventCnt' = [OSEventCnt EXCEPT ![e] = @ - 1]
  /\ UNCHANGED <<tcbVars, tblVars, OSRdyTbl, OSEventType, OSEventTbl, curVars, nestVars, pc>>

OSSemPendTake(t, e) ==
  /\ Enter(t, e)
  /\ OSLockNesting = 0
  /\ OSEventCnt[e] > 0
  /\ OSEventCnt' = [OSEventCnt EXCEPT ![e] = @ - 1]
  /\ UNCHANGED <<tcbVars, tblVars, OSRdyTbl, OSEventType, OSEventTbl, curVars, nestVars, pc>>

OSSemPendBlock(t, e, timeout) ==
  /\ Enter(t, e)
  /\ OSLockNesting = 0
  /\ OSEventCnt[e] = 0
  /\ OS_EventTaskWait(t, e, "SEM", timeout)
  /\ UNCHANGED <<OSTCBPrio, OSTCBEventMultiPtr, tblVars, OSEventType, OSEventCnt,
                 curVars, nestVars>>

OSSemPendAbort(t, e, broadcast) ==
  /\ Enter(t, e)
  /\ Waiting(e)
  /\ OS_EventTaskRdy(e, IF broadcast THEN AllWaiters(e) ELSE HighestWaiter(e),
                     "SEM", "ABORT")
  /\ Goto(t, "sched")
  /\ UNCHANGED <<OSTCBPrio, OSTCBEventMultiPtr, tblVars, OSEventType, OSEventCnt,
                 curVars, nestVars>>

(* A post hands the event to the highest waiter, or counts up to the limit. *)
PostToWaiter(e) ==
  /\ Waiting(e)
  /\ OS_EventTaskRdy(e, HighestWaiter(e), "SEM", "OK")
  /\ UNCHANGED <<OSTCBPrio, OSTCBEventMultiPtr, tblVars, OSEventType, OSEventCnt>>

PostCount(e) ==
  /\ ~Waiting(e)
  /\ OSEventCnt[e] < SemCntMax
  /\ OSEventCnt' = [OSEventCnt EXCEPT ![e] = @ + 1]
  /\ UNCHANGED <<tcbVars, tblVars, OSRdyTbl, OSEventType, OSEventTbl>>

OSSemPost(t, e) ==
  /\ Enter(t, e)
  /\ \/ PostToWaiter(e) /\ Goto(t, "sched")
     \/ PostCount(e) /\ UNCHANGED pc
  /\ UNCHANGED <<curVars, nestVars>>

(* The handler of a device interrupt that posts: OS_Sched() does nothing   *)
(* at interrupt level, OSIntExit() follows.                                *)
SemPostISR(e) ==
  /\ EnterISR /\ IsSem(e)
  /\ PostToWaiter(e) \/ PostCount(e)
  /\ UNCHANGED checked

(* Mutant: OSSemSet() without the test for waiting tasks.                  *)
OSSemSet_Unchecked(t, e, cnt) ==
  /\ Enter(t, e)
  /\ OSEventCnt' = [OSEventCnt EXCEPT ![e] = cnt]
  /\ UNCHANGED <<tcbVars, tblVars, OSRdyTbl, OSEventType, OSEventTbl, curVars, nestVars, pc>>

OSSemSet(t, e, cnt) ==
  /\ Enter(t, e)
  /\ OSEventCnt[e] > 0 \/ ~Waiting(e)
  /\ OSEventCnt' = [OSEventCnt EXCEPT ![e] = cnt]
  /\ UNCHANGED <<tcbVars, tblVars, OSRdyTbl, OSEventType, OSEventTbl, curVars, nestVars, pc>>

(* What a service does that finds nothing to do in its critical section    *)
(* (OSSemQuery() always, a post at the limit, a pend that may not wait).   *)
OSSemUnchanged(t, e) == Enter(t, e) /\ UNCHANGED coreVars

(* The critical sections of the services, deletion apart.                  *)
SemCall(t, e) ==
  \/ OSSemAccept(t, e)
  \/ OSSemPendTake(t, e)
  \/ \E timeout \in Timeouts : OSSemPendBlock(t, e, timeout)
  \/ \E broadcast \in BOOLEAN : OSSemPendAbort(t, e, broadcast)
  \/ OSSemPost(t, e)
  \/ \E cnt \in InitialCnts : OSSemSet(t, e, cnt)
  \/ OSSemUnchanged(t, e)

SemDelete(t, e) == OSSemDelNoPend(t, e) \/ OSSemDelAlways(t, e)

-----------------------------------------------------------------------------
(* A semaphore never has a count while a task waits on it: no order of     *)
(* posts, sets, time-outs and aborts leaves a waiter asleep next to a      *)
(* token.                                                                  *)
NoTokenPastWaiter ==
  \A e \in Events : IsSem(e) /\ OSEventCnt[e] > 0 => ~Waiting(e)

(* A task on a wait list, or one that will take itself off when it runs,   *)
(* points at an event that still exists: deletion leaves no dangling wait. *)
NoDanglingWait ==
  \A t \in Tasks, e \in Events : OnWaitList(t, e) => OSEventType[e] # "UNUSED"
=============================================================================
