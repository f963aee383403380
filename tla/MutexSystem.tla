----------------------------- MODULE MutexSystem -----------------------------
(***************************************************************************)
(* The kernel with mutexes, delays and suspension.  A task that owns a     *)
(* mutex pends on nothing else; what else it may do with the mutex, and    *)
(* which tasks are suspended when, is in the constants, because what the   *)
(* code does for an owner or a waiter that is not ready differs.           *)
(***************************************************************************)
EXTENDS OSMutex, OSTime, OSTask

CONSTANTS
  OwnersSleep,      \* may a task delay or suspend itself while it owns a mutex?
  Suspensions       \* the suspensions allowed besides the plain one

ASSUME MutexSystemAssumption ==
  /\ OwnersSleep \in BOOLEAN
  /\ Suspensions \subseteq {"waiter", "by base priority", "locked"}

vars == <<coreVars, OSEventPtr>>

Init ==
  /\ CoreInit
  /\ OSEventType = [e \in Events |-> "UNUSED"]
  /\ OSEventCnt = [e \in Events |-> 0]
  /\ OSEventTbl = [e \in Events |-> EmptyMap]
  /\ OSEventPtr = [e \in Events |-> NoTCB]

(* A plain suspension names a task by the priority it has at the time,     *)
(* finds it in no call of OSMutexPend(), and is not made with the          *)
(* scheduler locked.                                                       *)
MaySuspend(t, prio) ==
  LET u == OSTCBPrioTbl[prio]
  IN  /\ u \in Tasks
      /\ OSTCBEventPtr[u] # NoEvent => "waiter" \in Suspensions
      /\ OSTCBPrio[u] # prio        => "by base priority" \in Suspensions
      /\ OSLockNesting > 0          => "locked" \in Suspensions
      /\ Owns(u)                    => OwnersSleep

TaskStep(t) ==
  \/ MutexCall(t)
  \/ /\ UNCHANGED OSEventPtr
     /\ \/ \E ticks \in Delays : (Owns(t) => OwnersSleep) /\ OSTimeDly(t, ticks)
        \/ \E prio \in Prios : OSTimeDlyResume(t, prio) \/ OSTaskResume(t, prio)
        \/ \E prio \in Prios : MaySuspend(t, prio) /\ OSTaskSuspend(t, prio)
        \/ OSSchedLock(t)
        \/ OSSchedUnlock(t)

KernelStep(t) == (OS_Sched(t) \/ PendReturn(t)) /\ UNCHANGED OSEventPtr

Interrupt == (TickISR \/ OSIntExit) /\ UNCHANGED OSEventPtr

Next ==
  \/ \E t \in Tasks : TaskStep(t) \/ KernelStep(t)
  \/ Interrupt

Spec == Init /\ [][Next]_vars

-----------------------------------------------------------------------------
(* The ready list and the wait lists hold each task at the priority it has *)
(* just then, wherever a promotion or its end meets it.                    *)
PriorityListsExact == ReadyListExact /\ WaitListExact

Owner(e) == OSEventPtr[e]
Promoted(t) == OSTCBPrio[t] # BasePrio[t]

(* The owner a mutex points at, the owner's priority in its lower byte and *)
(* the priority of the owner's TCB never disagree: a task is promoted only *)
(* to the ceiling of the mutex it owns, and runs at the priority it was    *)
(* created with whenever it owns none.                                     *)
OwnerRecorded ==
  /\ \A e \in Events : IsMutex(e) =>
        IF Owner(e) = NoTCB THEN OwnerPrio(e) = Available
                            ELSE OwnerPrio(e) = BasePrio[Owner(e)]
  /\ \A t \in Tasks : Promoted(t) =>
        \E e \in Events : IsMutex(e) /\ Owner(e) = t /\ OSTCBPrio[t] = Pcp(e)

(* The entry of a ceiling in the priority table is the promoted owner of   *)
(* the mutex, and reserved at any other time, so that no lookup by         *)
(* priority reaches a task that no longer has it.                          *)
CeilingEntry ==
  \A e \in Events : IsMutex(e) /\ Pcp(e) # CeilDis =>
    OSTCBPrioTbl[Pcp(e)] = IF Owner(e) # NoTCB /\ OSTCBPrio[Owner(e)] = Pcp(e)
                             THEN Owner(e) ELSE Reserved

(* A promotion is on record in all the places that have to undo it.        *)
PromotionRecorded == OwnerRecorded /\ CeilingEntry

(* No unbounded priority inversion: the owner of a mutex with a ceiling    *)
(* outranks every task that waits for it, through hand-overs, time-outs    *)
(* and waiters that come while the new owner has not run yet.              *)
OwnerOutranksWaiters ==
  \A e \in Events, t \in Tasks :
    IsMutex(e) /\ Pcp(e) # CeilDis /\ OnWaitList(t, e)
      => Owner(e) # NoTCB /\ OSTCBPrio[Owner(e)] < OSTCBPrio[t]

(* The scheduler runs the task its tables name, at its current priority,   *)
(* and one that is ready, also after the priority of the running task has  *)
(* been changed under it.                                                  *)
CurrentTaskConsistent ==
  /\ OSPrioCur = OSTCBPrio[OSTCBCur]
  /\ OSTCBPrioTbl[OSPrioCur] = OSTCBCur
  /\ (OSIntNesting = 0 /\ OSLockNesting = 0 /\ pc[OSTCBCur] \in {"run", "wake"})
       => Runnable(OSTCBCur)

(* A ready task of higher priority than the running one is passed over     *)
(* only by an OSMutexPost() that takes its caller's promotion back and     *)
(* leaves nobody waiting, because that path returns without OS_Sched():    *)
(* no other service, promotion, interrupt or time-out does it.             *)
OnlyLoweringDefers ==
  [][HighestPriorityRuns /\ ~HighestPriorityRuns' =>
       \E e \in Events : /\ Owner(e) = OSTCBCur /\ Promoted(OSTCBCur)
                         /\ Owner(e)' = NoTCB /\ ~Promoted(OSTCBCur)']_vars

-----------------------------------------------------------------------------
(* The call of OSMutexPend() of each task, read off its TCB.               *)
PendState(t) ==
  CASE OSTCBEventPtr[t] = NoEvent -> "idle"
    [] OSTCBEventPtr[t] # NoEvent /\ "MUTEX" \in OSTCBStat[t] -> "waiting"
    [] OSTCBEventPtr[t] # NoEvent /\ "MUTEX" \notin OSTCBStat[t] ->
         IF OSTCBStatPend[t] = "TO" THEN "expired" ELSE "acquired"

Abs == INSTANCE MutexAbs WITH
  Users   <- Tasks,
  Mutexes <- Events,
  Rank    <- BasePrio,
  Nobody  <- NoTCB,
  made    <- [e \in Events |-> IsMutex(e)],
  owner   <- OSEventPtr,
  on      <- [t \in Tasks |-> IF OSTCBEventPtr[t] = NoEvent THEN "none" ELSE OSTCBEventPtr[t]],
  state   <- [t \in Tasks |-> PendState(t)]

(* Mutual exclusion: OSMutexPend() returns OS_ERR_NONE to the owner only,  *)
(* the mutex changes hands only when its owner releases it, and it goes to *)
(* the waiter of highest priority, even one whose time-out has just run    *)
(* out; a release with a waiter leaves nobody waiting for a free mutex.    *)
ImplementsMutex == Abs!AbsSpec
=============================================================================
