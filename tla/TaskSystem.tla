----------------------------- MODULE TaskSystem -----------------------------
(***************************************************************************)
(* The kernel with tasks that are created, deleted and suspended while     *)
(* they pend on one or several semaphores.                                 *)
(***************************************************************************)
EXTENDS OSTaskLife, OSTask

CONSTANTS
  Started,          \* the tasks that exist at OSStart()
  SuspendMulti,     \* may a task be suspended that has OS_STAT_MULTI set
  SuspendUnlinked   \* may one be that OS_TCBInit() has not linked yet

ASSUME StartAssumption == Started \subseteq Tasks /\ IdleTask \in Started

vars == <<coreVars, callVars, lifeVars>>

Init ==
  /\ OSTCBPrio = BasePrio
  /\ OSTCBStat = [t \in Tasks |-> {}]
  /\ OSTCBStatPend = [t \in Tasks |-> "OK"]
  /\ OSTCBDly = [t \in Tasks |-> 0]
  /\ OSTCBEventPtr = [t \in Tasks |-> NoEvent]
  /\ OSTCBEventMultiPtr = [t \in Tasks |-> {}]
  /\ OSTCBList = Started
  /\ OSTCBFreeList = Tasks \ Started
  /\ OSTCBPrioTbl = [p \in Prios |-> IF \E t \in Started : BasePrio[t] = p
                                       THEN CHOOSE t \in Started : BasePrio[t] = p
                                       ELSE NoTCB]
  /\ OSRdyTbl = MapOf({BasePrio[t] : t \in Started})
  /\ OSPrioCur = MapHighest(OSRdyTbl)
  /\ OSTCBCur = OSTCBPrioTbl[OSPrioCur]
  /\ OSIntNesting = 0 /\ OSLockNesting = 0
  /\ pc = [t \in Tasks |-> "run"]
  /\ OSEventType = [e \in Events |-> "UNUSED"]
  /\ OSEventCnt = [e \in Events |-> 0]
  /\ OSEventTbl = [e \in Events |-> EmptyMap]
  /\ checked = [t \in Tasks |-> NoEvent]
  /\ asked = [t \in Tasks |-> {}]
  /\ making = [t \in Tasks |-> NotMaking]
  /\ deleting = [t \in Tasks |-> NotMaking]

-----------------------------------------------------------------------------
(* A semaphore is deleted while nobody else is between check and critical  *)
(* section of a call on it, nor waits for it in OSEventPendMulti(), which  *)
(* returns early from a semaphore that is gone and leaves its TCB as it is. *)
CarefulDelete(t, e) ==
  /\ \A u \in Tasks \ {t} : checked[u] # e
  /\ \A u \in Tasks : pc[u] \in {"pend", "wake"} => e \notin asked[u]
  /\ SemDelete(t, e)

SemStep(t, e) ==
  /\ \/ Ready4Call(t) /\ \E cnt \in InitialCnts : OSSemCreate(t, e, cnt)
     \/ Ready4Call(t) /\ Check(t, e)
     \/ OSSemPendTake(t, e)
     \/ \E timeout \in Timeouts : OSSemPendBlock(t, e, timeout)
     \/ \E broadcast \in BOOLEAN : OSSemPendAbort(t, e, broadcast)
     \/ OSSemPost(t, e)
     \/ OSSemUnchanged(t, e)
     \/ CarefulDelete(t, e)
  /\ UNCHANGED <<asked, lifeVars>>

MultiStep(t) ==
  /\ \/ Ready4Call(t) /\ \E es \in EventSets : CheckMulti(t, es)
     \/ MultiCall(t)
     \/ MultiReturn(t)
  /\ UNCHANGED lifeVars

CarefulSuspend(t, prio) ==
  /\ OSTCBPrioTbl[prio] \in Tasks
  /\ "MULTI" \in OSTCBStat[OSTCBPrioTbl[prio]] => SuspendMulti
  /\ OSTCBPrioTbl[prio] \notin OSTCBList => SuspendUnlinked
  /\ OSTaskSuspend(t, prio)

SuspendStep(t) ==
  /\ Ready4Call(t)
  /\ \E prio \in Prios : CarefulSuspend(t, prio) \/ OSTaskResume(t, prio)
  /\ UNCHANGED <<callVars, lifeVars>>

(* A task is deleted once it is linked, not in the middle of creating      *)
(* another one, and not by itself under the scheduler lock.                *)
CarefulTaskDel(t, prio) ==
  /\ OSTCBPrioTbl[prio] \in OSTCBList
  /\ making[OSTCBPrioTbl[prio]] = NotMaking
  /\ OSTCBPrioTbl[prio] = t => OSLockNesting = 0
  /\ OSTaskDel(t, prio)

LifeStep(t) ==
  \/ \E prio \in NewPrios : OSTaskCreate(t, prio) \/ CarefulTaskDel(t, prio)
  \/ Creation(t)
  \/ OSTaskDelUnlink(t)

KernelStep(t) ==
  /\ OS_Sched(t) \/ (asked[t] = {} /\ PendReturn(t))
  /\ UNCHANGED <<callVars, lifeVars>>

Interrupt ==
  /\ \/ TickISR /\ UNCHANGED checked
     \/ OSIntExit /\ UNCHANGED checked
     \/ \E e \in Events : SemPostISR(e)
  /\ UNCHANGED <<asked, lifeVars>>

Next ==
  \/ \E t \in Tasks : \/ \E e \in Events : SemStep(t, e)
                      \/ MultiStep(t) \/ SuspendStep(t) \/ LifeStep(t) \/ KernelStep(t)
  \/ Interrupt

Spec == Init /\ [][Next]_vars

-----------------------------------------------------------------------------
Dying == {deleting[t].ptcb : t \in {u \in Tasks : deleting[u] # NotMaking}}
Newborn == {making[t].ptcb : t \in {u \in Tasks : making[u] # NotMaking}} \ {NoTCB}
Alive == OSTCBList \ Dying

(* Every TCB is in one place: on the free list, in OSTCBList, or in the    *)
(* hands of one task that creates it, and OSTCBPrioTbl leads to each       *)
(* linked one, and to nothing that is free: a service that is given a      *)
(* priority finds the task that has it.                                    *)
TaskTableExact ==
  /\ OSTCBFreeList \cap OSTCBList = {}
  /\ Newborn \cap (OSTCBFreeList \cup OSTCBList) = {}
  /\ Tasks = OSTCBFreeList \cup OSTCBList \cup Newborn
  /\ \A t \in OSTCBList : OSTCBPrioTbl[OSTCBPrio[t]] = t
  /\ \A p \in Prios : /\ OSTCBPrioTbl[p] \notin OSTCBFreeList
                      /\ OSTCBPrioTbl[p] = Reserved <=>
                           \E t \in Alive : making[t] # NotMaking /\ making[t].prio = p
                                            /\ making[t].step # "link"

(* A task out of a pend on several events keeps OS_STAT_MULTI until it     *)
(* runs; it waits for nothing all the same.                                *)
Unblocked(t) == OSTCBStat[t] \subseteq {"MULTI"} /\ OSTCBDly[t] = 0

(* The ready list holds exactly the linked tasks that wait for nothing,    *)
(* also while others are created and deleted around them.                  *)
ReadyTasksExact ==
  OSRdyTbl = MapOf({OSTCBPrio[t] : t \in {u \in Alive : Unblocked(u)}})

Pending(t) == "SEM" \in OSTCBStat[t] \/ OSTCBStatPend[t] = "TO"
WaitsOn(t) == IF asked[t] # {} THEN asked[t] ELSE {OSTCBEventPtr[t]}
InPend(t) == t \in Alive /\ pc[t] \in {"pend", "wake"}

(* A task that pends on several events is on the wait list of each until   *)
(* one of them is posted, and then on none; a deleted one is on none.      *)
WaitTasksExact ==
  \A e \in Events :
    OSEventTbl[e] = MapOf({OSTCBPrio[t] : t \in
                             {u \in Alive : InPend(u) /\ Pending(u) /\ e \in WaitsOn(u)}})

(* Creation, deletion, time-outs and posts leave each list with the tasks  *)
(* it should have, also between their critical sections.                   *)
TaskListsExact == ReadyTasksExact /\ WaitTasksExact

(* The running task is the ready task of highest priority.                 *)
HighestTaskRuns ==
  (OSIntNesting = 0 /\ OSLockNesting = 0 /\ pc[OSTCBCur] \in {"run", "wake"})
    => /\ OSPrioCur = MapHighest(OSRdyTbl)
       /\ OSTCBCur = OSTCBPrioTbl[OSPrioCur]
       /\ OSTCBCur \in Alive /\ Unblocked(OSTCBCur)

-----------------------------------------------------------------------------
PendCall(t) ==
  CASE ~InPend(t)               -> [state |-> "idle"]
    [] InPend(t) /\ Pending(t)  -> [state |-> IF OSTCBStatPend[t] = "TO" THEN "expired" ELSE "waiting",
                                    ask |-> WaitsOn(t)]
    [] InPend(t) /\ ~Pending(t) -> [state |-> IF OSTCBStatPend[t] = "OK" THEN "acquired" ELSE "aborted",
                                    by |-> OSTCBEventPtr[t]]

Abs == INSTANCE SemAnyAbs WITH
  Callers <- Tasks,
  First   <- Started,
  Sems    <- Events,
  CntMax  <- SemCntMax,
  Cnts    <- InitialCnts,
  live    <- [e \in Events |-> IsSem(e)],
  count   <- OSEventCnt,
  alive   <- Alive,
  call    <- [t \in Tasks |-> PendCall(t)]

(* A post is one token for one call, whether that waits on one semaphore   *)
(* or on several, has just timed out, or its neighbours on the wait list   *)
(* are being deleted; only the token of a call that is killed is lost.     *)
ImplementsSemAny == Abs!AbsSpec
=============================================================================
