--------------------------- MODULE SemSystem_proofs ---------------------------
(***************************************************************************)
(* The invariants of SemSystem hold for every set of tasks and events,     *)
(* every assignment of priorities and every bound.                         *)
(***************************************************************************)
EXTENDS SemSystem, OSCore_proofs

WaitSet(e)  == {t \in Tasks : OnWaitList(t, e)}

(* The two invariants of the lists, in terms of sets of tasks.             *)
Lists ==
  /\ ReadyList
  /\ \A e \in Events : OSEventTbl[e] = MapOf(PriosOf(WaitSet(e)))

(* The TCB of a task agrees with how far its call of OSSemPend() is.       *)
TaskOK(t) ==
  /\ OSTCBStat[t] \subseteq {"SEM", "SUSPEND"}
  /\ OSTCBEventPtr[t] = NoEvent <=> pc[t] \in {"run", "sched"}
  /\ OSTCBEventPtr[t] = NoEvent => "SEM" \notin OSTCBStat[t] /\ OSTCBStatPend[t] = "OK"
  /\ "SEM" \in OSTCBStat[t] => OSTCBStatPend[t] = "OK"
  /\ OSTCBEventPtr[t] # NoEvent /\ "SEM" \notin OSTCBStat[t] => OSTCBDly[t] = 0

IInv ==
  /\ TypeOK /\ Fixed /\ IdleOK /\ CurOK
  /\ \A t \in Tasks : TaskOK(t)
  /\ Lists /\ HighestPriorityRuns
  /\ NoTokenPastWaiter /\ NoDanglingWait

(* A service that has passed its check enters its critical section on a    *)
(* semaphore that still exists.                                            *)
Checks ==
  /\ checked \in [Tasks -> Events \cup {NoEvent}]
  /\ \A t \in Tasks : checked[t] # NoEvent => IsSem(checked[t])

-----------------------------------------------------------------------------
(* The scheduler sees no more of the state than KInv says.                 *)
LEMMA Scheduler == IInv => KInv
  BY DEF IInv, KInv, Lists, ReadyList

LEMMA ListsExact == Fixed => (Lists <=> ReadyListExact /\ WaitListExact)
<1> SUFFICES ASSUME Fixed PROVE Lists <=> ReadyListExact /\ WaitListExact
  OBVIOUS
<1>1. ReadyList <=> ReadyListExact
  BY ReadyIsExact
<1>2. ASSUME NEW e
      PROVE  {OSTCBPrio[t] : t \in {u \in OSTCBList : OnWaitList(u, e)}} = PriosOf(WaitSet(e))
  BY DEF Fixed, PriosOf, WaitSet
<1>. QED BY <1>1, <1>2 DEF Lists, ReadyList, WaitListExact

LEMMA ListsExactPrime == Fixed' => (Lists' <=> ReadyListExact' /\ WaitListExact')
  BY ListsExact, PTL

(* A task that is on the wait list is at the other end of its priority.    *)
LEMMA Waiters ==
  ASSUME Fixed, Lists, NEW e \in Events
  PROVE  /\ Waiting(e) <=> WaitSet(e) # {}
         /\ AllWaiters(e) = PriosOf(WaitSet(e))
         /\ Waiting(e) => \E t \in WaitSet(e) : HighestWaiter(e) = PriosOf({t})
<1>1. PriosOf(WaitSet(e)) \in SUBSET Prios /\ WaitSet(e) \in SUBSET Tasks
  BY PriosOfType DEF WaitSet
<1>2. OSEventTbl[e] = MapOf(PriosOf(WaitSet(e)))
  BY DEF Lists, ReadyList
<1>3. Waiting(e) <=> WaitSet(e) # {}
  <2>1. MapOf(PriosOf(WaitSet(e))).grp = {} <=> PriosOf(WaitSet(e)) = {}
    BY <1>1, GrpOf
  <2>2. PriosOf(WaitSet(e)) = {} <=> WaitSet(e) = {}
    BY DEF PriosOf
  <2>. QED BY <1>2, <2>1, <2>2 DEF Waiting
<1>4. AllWaiters(e) = PriosOf(WaitSet(e))
  BY <1>1, <1>2, MapHasOf DEF AllWaiters
<1>5. Waiting(e) => \E t \in WaitSet(e) : HighestWaiter(e) = PriosOf({t})
  BY <1>1, <1>2, <1>3, HeadOf, PriosOfOne DEF HighestWaiter
<1>. QED BY <1>3, <1>4, <1>5

-----------------------------------------------------------------------------
(* The initial state.                                                      *)
LEMMA InitIInv == Init => IInv
<1> SUFFICES ASSUME Init PROVE IInv
  OBVIOUS
<1>1. KInv
  BY InitKInv DEF Init
<1>2. \A e \in Events : WaitSet(e) = {}
  BY CoreAssumption DEF WaitSet, OnWaitList, Init, CoreInit
<1>3. Lists
  <2>1. PriosOf({}) = {}
    BY DEF PriosOf
  <2>. QED BY <1>1, <1>2, <2>1, MapOfEmpty DEF KInv, Lists, ReadyList, Init
<1>4. \A u \in Tasks : TaskOK(u)
  BY DEF TaskOK, Init, CoreInit
<1>5. NoTokenPastWaiter /\ NoDanglingWait
  BY <1>2 DEF NoTokenPastWaiter, NoDanglingWait, IsSem, WaitSet, Init
<1>. QED BY <1>1, <1>3, <1>4, <1>5 DEF KInv, IInv

(* A bitmap that stands for a set of tasks is well typed.                  *)
MapsTyped == OSRdyTbl \in PrioMap /\ \A e \in Events : OSEventTbl[e] \in PrioMap

LEMMA ListsType ==
  ASSUME Lists
  PROVE  OSRdyTbl \in PrioMap /\ \A e \in Events : OSEventTbl[e] \in PrioMap
<1>1. \A ts \in SUBSET Tasks : MapOf(PriosOf(ts)) \in PrioMap
  BY PriosOfType, MapOfContents
<1>2. \A e : WaitSet(e) \in SUBSET Tasks
  BY DEF WaitSet
<1>. QED BY <1>1, <1>2, ReadyListType DEF Lists, ReadyList, ReadyTyped

LEMMA ListsTypePrime == Lists' => MapsTyped'
<1>1. Lists => MapsTyped
  BY ListsType DEF MapsTyped
<1>. QED BY <1>1, PTL

-----------------------------------------------------------------------------
(* Scheduling.                                                             *)

(* The parts of the state a task step leaves alone that Lists reads.       *)
LEMMA ListsFrame ==
  ASSUME Lists, UNCHANGED <<tcbVars, OSRdyTbl, OSEventTbl>>
  PROVE  Lists' /\ \A e : WaitSet(e)' = WaitSet(e)
<1>1. \A e : WaitSet(e)' = WaitSet(e)
  BY DEF WaitSet, OnWaitList, tcbVars
<1>. QED BY <1>1, ReadyFrame DEF Lists, ReadyList, tcbVars

LEMMA SchedIInv ==
  ASSUME IInv, NEW t \in Tasks, OS_Sched(t)
  PROVE  IInv'
<1>1. KInv'
  BY Scheduler, SchedKInv
<1>2. UNCHANGED <<tcbVars, tblVars, OSRdyTbl, eventVars, nestVars>>
  BY DEF OS_Sched
<1>3. \/ pc[t] = "sched" /\ pc' = [pc EXCEPT ![t] = "run"]
      \/ pc[t] = "pend"  /\ pc' = [pc EXCEPT ![t] = "wake"]
  BY DEF OS_Sched, At, Goto
<1>4. Lists'
  BY <1>2, ListsFrame DEF IInv, eventVars
<1>5. \A u \in Tasks : TaskOK(u)'
  BY <1>2, <1>3 DEF IInv, TypeOK, TaskOK, tcbVars
<1>6. NoTokenPastWaiter' /\ NoDanglingWait'
  BY <1>2 DEF IInv, NoTokenPastWaiter, NoDanglingWait, IsSem, Waiting, OnWaitList,
              tcbVars, eventVars
<1>. QED BY <1>1, <1>4, <1>5, <1>6 DEF IInv, KInv

LEMMA IntExitIInv ==
  ASSUME IInv, OSIntExit
  PROVE  IInv'
<1>1. KInv'
  BY Scheduler, IntExitKInv
<1>2. UNCHANGED <<tcbVars, tblVars, OSRdyTbl, eventVars, OSLockNesting, pc>>
  BY DEF OSIntExit
<1>3. Lists'
  BY <1>2, ListsFrame DEF IInv, eventVars
<1>4. \A u \in Tasks : TaskOK(u)'
  BY <1>2 DEF IInv, TaskOK, tcbVars
<1>5. NoTokenPastWaiter' /\ NoDanglingWait'
  BY <1>2 DEF IInv, NoTokenPastWaiter, NoDanglingWait, IsSem, Waiting, OnWaitList,
              tcbVars, eventVars
<1>. QED BY <1>1, <1>3, <1>4, <1>5 DEF IInv, KInv

LEMMA LockIInv ==
  ASSUME IInv, NEW t \in Tasks, OSSchedLock(t) \/ OSSchedUnlock(t)
  PROVE  IInv'
<1>1. /\ KInv'
      /\ pc[t] = "run" /\ pc' \in {pc, [pc EXCEPT ![t] = "sched"]}
      /\ UNCHANGED <<tcbVars, tblVars, OSRdyTbl, eventVars, curVars, OSIntNesting>>
  BY Scheduler, LockKInv
<1>2. Lists'
  BY <1>1, ListsFrame DEF IInv, eventVars
<1>3. \A u \in Tasks : TaskOK(u)'
  BY <1>1 DEF IInv, TypeOK, TaskOK, tcbVars
<1>4. NoTokenPastWaiter' /\ NoDanglingWait'
  BY <1>1 DEF IInv, NoTokenPastWaiter, NoDanglingWait, IsSem, Waiting, OnWaitList,
              tcbVars, eventVars
<1>. QED BY <1>1, <1>2, <1>3, <1>4 DEF IInv, KInv

-----------------------------------------------------------------------------
(* Services that touch the type and the count of an event only.            *)

LEMMA EventStep ==
  ASSUME IInv,
         UNCHANGED <<tcbVars, tblVars, OSRdyTbl, OSEventTbl, curVars, OSLockNesting, pc>>,
         OSIntNesting' \in {OSIntNesting, 1},
         OSEventType' \in [Events -> {"UNUSED", "SEM", "MUTEX"}],
         OSEventCnt' \in [Events -> Nat],
         NoTokenPastWaiter', NoDanglingWait'
  PROVE  IInv'
<1>1. Lists' /\ Fixed'
  BY ListsFrame DEF IInv, Fixed, tcbVars, tblVars
<1>2. TypeOK'
  BY DEF IInv, TypeOK, tcbVars, tblVars, curVars
<1>3. \A u \in Tasks : TaskOK(u)'
  BY DEF IInv, TaskOK, tcbVars
<1>4. IdleOK' /\ CurOK'
  BY DEF IInv, IdleOK, CurOK, Runnable, tcbVars, curVars
<1>5. HighestPriorityRuns'
  BY DEF IInv, TypeOK, HighestPriorityRuns, Runnable, tcbVars, tblVars, curVars
<1>. QED BY <1>1, <1>2, <1>3, <1>4, <1>5 DEF IInv

(* The count of a live semaphore changes, never to more than 0 while a     *)
(* task waits.                                                             *)
LEMMA CountStep ==
  ASSUME IInv, NEW e \in Events, NEW n \in Nat,
         n = 0 \/ OSEventCnt[e] > 0 \/ ~Waiting(e),
         OSEventCnt' = [OSEventCnt EXCEPT ![e] = n], IsSem(e),
         UNCHANGED <<tcbVars, tblVars, OSRdyTbl, OSEventType, OSEventTbl,
                     curVars, OSLockNesting, pc>>,
         OSIntNesting' \in {OSIntNesting, 1}
  PROVE  IInv'
<1>1. NoTokenPastWaiter'
  BY DEF IInv, TypeOK, NoTokenPastWaiter, IsSem, Waiting
<1>2. NoDanglingWait'
  BY DEF IInv, NoDanglingWait, OnWaitList, tcbVars
<1>3. OSEventCnt' \in [Events -> Nat] /\ OSEventType' \in [Events -> {"UNUSED", "SEM", "MUTEX"}]
  BY DEF IInv, TypeOK
<1>. QED BY <1>1, <1>2, <1>3, EventStep

LEMMA CountIInv ==
  ASSUME IInv, NEW t \in Tasks, NEW e \in Events, IsSem(e),
         \/ OSSemAccept(t, e)
         \/ OSSemPendTake(t, e)
         \/ \E cnt \in InitialCnts : OSSemSet(t, e, cnt)
         \/ PostCount(e) /\ UNCHANGED <<curVars, OSLockNesting, pc>>
                        /\ OSIntNesting' \in {OSIntNesting, 1}
  PROVE  IInv'
<1>1. OSEventCnt[e] \in Nat
  BY DEF IInv, TypeOK
<1>2. CASE OSSemAccept(t, e) \/ OSSemPendTake(t, e)
  <2>1. OSEventCnt[e] > 0 /\ OSEventCnt' = [OSEventCnt EXCEPT ![e] = OSEventCnt[e] - 1]
    BY <1>2 DEF OSSemAccept, OSSemPendTake
  <2>2. OSEventCnt[e] - 1 \in Nat
    BY <1>1, <2>1
  <2>. QED BY <1>2, <2>1, <2>2, CountStep DEF OSSemAccept, OSSemPendTake, nestVars
<1>3. ASSUME NEW cnt \in InitialCnts, OSSemSet(t, e, cnt) PROVE IInv'
  <2>1. cnt \in Nat
    BY SemAssumption
  <2>. QED BY <1>3, <2>1, CountStep DEF OSSemSet, nestVars
<1>4. CASE /\ PostCount(e) /\ UNCHANGED <<curVars, OSLockNesting, pc>>
           /\ OSIntNesting' \in {OSIntNesting, 1}
  <2>1. ~Waiting(e) /\ OSEventCnt' = [OSEventCnt EXCEPT ![e] = OSEventCnt[e] + 1]
    BY <1>4 DEF PostCount
  <2>2. OSEventCnt[e] + 1 \in Nat
    BY <1>1
  <2>. QED BY <1>4, <2>1, <2>2, CountStep DEF PostCount
<1>. QED BY <1>2, <1>3, <1>4

(* An event that does not exist has an empty wait list.                    *)
LEMMA NoWaiters ==
  ASSUME IInv, NEW e \in Events
  PROVE  /\ ~Waiting(e) <=> WaitSet(e) = {}
         /\ WaitSet(e) = {} => OSEventTbl[e] = EmptyMap
         /\ OSEventType[e] = "UNUSED" => WaitSet(e) = {}
<1>1. ~Waiting(e) <=> WaitSet(e) = {}
  BY Waiters DEF IInv
<1>2. WaitSet(e) = {} => OSEventTbl[e] = EmptyMap
  BY MapOfEmpty DEF IInv, Lists, ReadyList, PriosOf
<1>3. OSEventType[e] = "UNUSED" => WaitSet(e) = {}
  BY DEF IInv, NoDanglingWait, WaitSet
<1>. QED BY <1>1, <1>2, <1>3

LEMMA CreateIInv ==
  ASSUME IInv, NEW t \in Tasks, NEW e \in Events, NEW cnt \in InitialCnts,
         OSSemCreate(t, e, cnt)
  PROVE  IInv'
<1>1. OSEventType[e] = "UNUSED" /\ WaitSet(e) = {} /\ ~Waiting(e)
  BY NoWaiters DEF OSSemCreate
<1>2. OSEventTbl' = OSEventTbl
  BY <1>1, NoWaiters DEF OSSemCreate, IInv, TypeOK
<1>3. /\ OSEventType' = [OSEventType EXCEPT ![e] = "SEM"]
      /\ OSEventCnt' = [OSEventCnt EXCEPT ![e] = cnt]
      /\ UNCHANGED <<tcbVars, tblVars, OSRdyTbl, curVars, nestVars, pc>>
  BY DEF OSSemCreate
<1>4. /\ OSEventType' \in [Events -> {"UNUSED", "SEM", "MUTEX"}]
      /\ OSEventCnt' \in [Events -> Nat]
  BY <1>3, SemAssumption DEF IInv, TypeOK
<1>5. NoTokenPastWaiter' /\ NoDanglingWait'
  BY <1>1, <1>2, <1>3
     DEF IInv, TypeOK, NoTokenPastWaiter, NoDanglingWait, IsSem, Waiting, OnWaitList, tcbVars
<1>. QED BY <1>2, <1>3, <1>4, <1>5, EventStep DEF nestVars

LEMMA DelNoPendIInv ==
  ASSUME IInv, NEW t \in Tasks, NEW e \in Events, OSSemDelNoPend(t, e)
  PROVE  IInv'
<1>1. WaitSet(e) = {}
  BY NoWaiters DEF OSSemDelNoPend
<1>2. /\ OSEventType' = [OSEventType EXCEPT ![e] = "UNUSED"]
      /\ OSEventCnt' = [OSEventCnt EXCEPT ![e] = 0]
      /\ UNCHANGED <<tcbVars, tblVars, OSRdyTbl, OSEventTbl, curVars, nestVars, pc>>
  BY DEF OSSemDelNoPend, Release
<1>3. /\ OSEventType' \in [Events -> {"UNUSED", "SEM", "MUTEX"}]
      /\ OSEventCnt' \in [Events -> Nat]
  BY <1>2 DEF IInv, TypeOK
<1>4. NoTokenPastWaiter'
  BY <1>2 DEF IInv, TypeOK, NoTokenPastWaiter, IsSem, Waiting
<1>5. NoDanglingWait'
  BY <1>1, <1>2 DEF IInv, TypeOK, NoDanglingWait, WaitSet, OnWaitList, tcbVars
<1>. QED BY <1>2, <1>3, <1>4, <1>5, EventStep DEF nestVars

-----------------------------------------------------------------------------
(* The task that calls a service with the scheduler unlocked is ready and  *)
(* pends on nothing.                                                       *)
LEMMA Caller ==
  ASSUME IInv, NEW t \in Tasks, Calls(t)
  PROVE  /\ OSTCBCur = t /\ t # IdleTask /\ pc[t] = "run" /\ OSIntNesting = 0
         /\ OSTCBEventPtr[t] = NoEvent /\ "SEM" \notin OSTCBStat[t] /\ OSTCBStatPend[t] = "OK"
         /\ OSLockNesting = 0 => Runnable(t)
  BY DEF Calls, IInv, TaskOK, HighestPriorityRuns

LEMMA PendBlockIInv ==
  ASSUME IInv, NEW t \in Tasks, NEW e \in Events, NEW timeout \in Timeouts,
         IsSem(e), OSSemPendBlock(t, e, timeout)
  PROVE  IInv'
<1>1. /\ Runnable(t) /\ OSTCBCur = t /\ t # IdleTask /\ pc[t] = "run"
      /\ OSTCBEventPtr[t] = NoEvent /\ OSTCBStatPend[t] = "OK" /\ OSLockNesting = 0
  BY Caller DEF OSSemPendBlock, Enter
<1>2. /\ OSTCBStat' = [OSTCBStat EXCEPT ![t] = @ \cup {"SEM"}]
      /\ OSTCBStatPend' = [OSTCBStatPend EXCEPT ![t] = "OK"]
      /\ OSTCBDly' = [OSTCBDly EXCEPT ![t] = timeout]
      /\ OSTCBEventPtr' = [OSTCBEventPtr EXCEPT ![t] = e]
      /\ OSEventTbl' = [OSEventTbl EXCEPT ![e] = MapSet(@, {OSTCBPrio[t]})]
      /\ Unready(t) /\ pc' = [pc EXCEPT ![t] = "pend"]
      /\ UNCHANGED <<OSTCBPrio, OSTCBEventMultiPtr, tblVars, OSEventType, OSEventCnt,
                     curVars, nestVars>>
  BY DEF OSSemPendBlock, OS_EventTaskWait, EventTaskWait, Unready, Goto
<1>3. IsSem(e) /\ OSEventCnt[e] = 0 /\ timeout \in Nat /\ e # NoEvent
  BY SemAssumption, CoreAssumption DEF OSSemPendBlock
<1>4. Fixed'
  BY <1>2 DEF IInv, Fixed, tblVars
<1>5. Lists'
  <2>1. ReadySet' = ReadySet \ {t}
    BY <1>2, <1>1 DEF IInv, TypeOK, ReadySet, Runnable
  <2>2. ASSUME NEW f \in Events
        PROVE  WaitSet(f)' = IF f = e THEN WaitSet(f) \cup {t} ELSE WaitSet(f)
    <3>1. ASSUME NEW u \in Tasks
          PROVE  OnWaitList(u, f)' <=> OnWaitList(u, f) \/ (u = t /\ f = e)
      <4>1. OSTCBEventMultiPtr[u] = {} /\ OSTCBEventMultiPtr'[u] = {}
        BY <1>4 DEF IInv, Fixed
      <4>2. CASE u = t
        BY <4>1, <4>2, <1>1, <1>2, CoreAssumption DEF IInv, TypeOK, OnWaitList, PendAny
      <4>3. CASE u # t
        BY <4>3, <1>2 DEF IInv, TypeOK, OnWaitList
      <4>. QED BY <4>2, <4>3
    <3>. QED BY <3>1 DEF WaitSet
  <2>3. OSRdyTbl' = MapOf(PriosOf(ReadySet'))
    BY <1>2, <2>1, Scheduler, Unreadied
  <2>4. ASSUME NEW f \in Events PROVE OSEventTbl'[f] = MapOf(PriosOf(WaitSet(f)'))
    <3>1. CASE f = e
      <4>1. OSEventTbl'[e] = MapSet(MapOf(PriosOf(WaitSet(e))), PriosOf({t}))
        BY <1>2, PriosOfOne DEF IInv, TypeOK, Fixed, Lists, ReadyList
      <4>2. WaitSet(e) \in SUBSET Tasks
        BY DEF WaitSet
      <4>. QED BY <3>1, <4>1, <4>2, <2>2, JoinList
    <3>2. CASE f # e
      BY <3>2, <1>2, <2>2 DEF IInv, TypeOK, Lists, ReadyList
    <3>. QED BY <3>1, <3>2
  <2>. QED BY <2>3, <2>4 DEF Lists, ReadyList
<1>6. TypeOK'
  <2>1. OSRdyTbl' \in PrioMap /\ \A f \in Events : OSEventTbl'[f] \in PrioMap
    BY <1>5, ListsTypePrime DEF MapsTyped
  <2>. QED BY <1>2, <1>3, <2>1
       DEF IInv, TypeOK, Stats, PendAny, PendStats, Pcs, tblVars, curVars, nestVars
<1>7. \A u \in Tasks : TaskOK(u)'
  BY <1>1, <1>2, <1>3 DEF IInv, TypeOK, TaskOK, Runnable
<1>8. IdleOK' /\ CurOK'
  BY <1>1, <1>2, CoreAssumption DEF IInv, TypeOK, IdleOK, CurOK, Runnable, curVars, nestVars
<1>9. HighestPriorityRuns'
  BY <1>1, <1>2 DEF IInv, TypeOK, HighestPriorityRuns, curVars
<1>10. NoTokenPastWaiter'
  BY <1>2, <1>3 DEF IInv, TypeOK, NoTokenPastWaiter, IsSem, Waiting
<1>11. NoDanglingWait'
  BY <1>2, <1>3, <1>1, <1>4 DEF IInv, TypeOK, NoDanglingWait, OnWaitList, IsSem, Runnable, Fixed
<1>. QED BY <1>4, <1>5, <1>6, <1>7, <1>8, <1>9, <1>10, <1>11 DEF IInv

-----------------------------------------------------------------------------
(* OS_EventTaskRdy() for any of the tasks on a wait list.                  *)

LEMMA RdyEffect ==
  ASSUME IInv, NEW e \in Events, NEW ts \in SUBSET WaitSet(e), NEW s,
         OS_EventTaskRdy(e, PriosOf(ts), "SEM", s)
  PROVE  /\ OSTCBDly' = [t \in Tasks |-> IF t \in ts THEN 0 ELSE OSTCBDly[t]]
         /\ OSTCBStat' = [t \in Tasks |-> IF t \in ts THEN OSTCBStat[t] \ {"SEM"}
                                                       ELSE OSTCBStat[t]]
         /\ OSTCBStatPend' = [t \in Tasks |-> IF t \in ts THEN s ELSE OSTCBStatPend[t]]
         /\ OSTCBEventPtr' = OSTCBEventPtr
         /\ OSRdyTbl' = MapOf(PriosOf(ReadySet \cup {t \in ts : "SUSPEND" \notin OSTCBStat[t]}))
         /\ OSEventTbl' = [f \in Events |-> MapOf(PriosOf(IF f = e THEN WaitSet(f) \ ts
                                                                  ELSE WaitSet(f)))]
<1> DEFINE tcb == {OSTCBPrioTbl[p] : p \in PriosOf(ts)}
           rdy == {p \in PriosOf(ts) : "SUSPEND" \notin OSTCBStat[OSTCBPrioTbl[p]]}
           off(f) == {OSTCBPrio[t] : t \in {u \in tcb : f = e \/ f \in OSTCBEventMultiPtr[u]}}
           now == {t \in ts : "SUSPEND" \notin OSTCBStat[t]}
<1>1. /\ ts \in SUBSET Tasks /\ ReadySet \in SUBSET Tasks /\ now \in SUBSET Tasks
      /\ \A f : WaitSet(f) \in SUBSET Tasks
  BY DEF WaitSet, ReadySet
<1>2. \A t \in ts : OSTCBPrioTbl[BasePrio[t]] = t /\ OSTCBPrio[t] = BasePrio[t]
  BY <1>1 DEF IInv, Fixed
<1>3. tcb = ts
  BY <1>2 DEF PriosOf
<1>4. rdy = PriosOf(now)
  BY <1>2 DEF PriosOf
<1>5. \A p \in rdy : OSTCBPrio[OSTCBPrioTbl[p]] = p
  BY <1>2 DEF PriosOf
<1>6. ASSUME NEW f \in Events
      PROVE  off(f) = IF f = e THEN PriosOf(ts) ELSE PriosOf({})
  <2>1. \A u \in ts : OSTCBEventMultiPtr[u] = {}
    BY <1>1 DEF IInv, Fixed
  <2>2. CASE f = e
    BY <2>2, <1>2, <1>3 DEF PriosOf
  <2>3. CASE f # e
    BY <2>1, <2>3, <1>3 DEF PriosOf
  <2>. QED BY <2>2, <2>3
<1>7. OSRdyTbl' = MapOf(PriosOf(ReadySet \cup now))
  <2>1. OSRdyTbl' = MapOr(OSRdyTbl, {Row(OSTCBPrio[OSTCBPrioTbl[p]]) : p \in rdy},
                          {<<Row(p), Col(OSTCBPrio[OSTCBPrioTbl[p]])>> : p \in rdy})
    BY DEF OS_EventTaskRdy, EventTaskRdy
  <2>2. {Row(OSTCBPrio[OSTCBPrioTbl[p]]) : p \in rdy} = {Row(p) : p \in rdy}
    BY <1>5
  <2>3. {<<Row(p), Col(OSTCBPrio[OSTCBPrioTbl[p]])>> : p \in rdy}
          = {<<Row(p), Col(p)>> : p \in rdy}
    BY <1>5
  <2> HIDE DEF rdy, now
  <2>. QED BY <2>1, <2>2, <2>3, <1>1, <1>4, JoinRow DEF IInv, Lists, ReadyList
<1>8. OSEventTbl' = [f \in Events |-> MapOf(PriosOf(IF f = e THEN WaitSet(f) \ ts
                                                           ELSE WaitSet(f)))]
  <2>1. OSEventTbl' = [f \in Events |-> MapClr(OSEventTbl[f], off(f))]
    BY DEF OS_EventTaskRdy, EventTaskRdy
  <2> HIDE DEF off
  <2>2. ASSUME NEW f \in Events
        PROVE  MapClr(OSEventTbl[f], off(f))
                 = MapOf(PriosOf(IF f = e THEN WaitSet(f) \ ts ELSE WaitSet(f)))
    <3>1. OSEventTbl[f] = MapOf(PriosOf(WaitSet(f)))
      BY DEF IInv, Lists, ReadyList
    <3>2. CASE f = e
      BY <3>1, <3>2, <1>1, <1>6, LeaveList
    <3>3. CASE f # e
      <4>1. WaitSet(f) \ {} = WaitSet(f) /\ {} \in SUBSET Tasks
        OBVIOUS
      <4>2. MapClr(OSEventTbl[f], off(f)) = MapOf(PriosOf(WaitSet(f) \ {}))
        BY <3>1, <3>3, <1>1, <1>6, <4>1, LeaveList
      <4>. QED BY <3>3, <4>1, <4>2
    <3>. QED BY <3>2, <3>3
  <2>. QED BY <2>1, <2>2
<1>9. /\ OSTCBDly' = [t \in Tasks |-> IF t \in ts THEN 0 ELSE OSTCBDly[t]]
      /\ OSTCBStat' = [t \in Tasks |-> IF t \in ts THEN OSTCBStat[t] \ {"SEM"} ELSE OSTCBStat[t]]
      /\ OSTCBStatPend' = [t \in Tasks |-> IF t \in ts THEN s ELSE OSTCBStatPend[t]]
  <2>1. /\ OSTCBDly' = [t \in Tasks |-> IF t \in tcb THEN 0 ELSE OSTCBDly[t]]
        /\ OSTCBStat' = [t \in Tasks |-> IF t \in tcb THEN OSTCBStat[t] \ {"SEM"}
                                                       ELSE OSTCBStat[t]]
        /\ OSTCBStatPend' = [t \in Tasks |-> IF t \in tcb THEN s ELSE OSTCBStatPend[t]]
    BY DEF OS_EventTaskRdy, EventTaskRdy
  <2>. QED BY <2>1, <1>3
<1>10. OSTCBEventPtr' = OSTCBEventPtr
  <2>1. OSTCBEventPtr' = [t \in Tasks |-> IF t \in tcb /\ OSTCBEventMultiPtr[t] # {}
                                             THEN e ELSE OSTCBEventPtr[t]]
    BY DEF OS_EventTaskRdy, EventTaskRdy
  <2>2. \A t \in Tasks : OSTCBEventMultiPtr[t] = {}
    BY DEF IInv, Fixed
  <2>. QED BY <2>1, <2>2 DEF IInv, TypeOK
<1>. QED BY <1>7, <1>8, <1>9, <1>10

(* What follows for the invariant, when the step ends at the scheduler, in *)
(* an interrupt, or readies nobody.                                        *)
LEMMA RdyStep ==
  ASSUME IInv, NEW e \in Events, NEW ts \in SUBSET WaitSet(e), NEW s \in {"OK", "ABORT"},
         OS_EventTaskRdy(e, PriosOf(ts), "SEM", s),
         UNCHANGED <<OSTCBPrio, OSTCBEventMultiPtr, tblVars, curVars, OSLockNesting>>,
         pc' = pc \/ (pc[OSTCBCur] = "run" /\ OSTCBCur # IdleTask
                        /\ pc' = [pc EXCEPT ![OSTCBCur] = "sched"]),
         OSIntNesting' \in {OSIntNesting, 1},
         OSIntNesting' = 1 \/ pc' # pc \/ ts = {},
         OSEventType' \in [Events -> {"UNUSED", "SEM", "MUTEX"}],
         OSEventCnt' \in [Events -> Nat],
         \A f \in Events \ {e} : OSEventType'[f] = OSEventType[f] /\ OSEventCnt'[f] = OSEventCnt[f],
         OSEventType'[e] = OSEventType[e] \/ ts = WaitSet(e),
         OSEventCnt'[e] = OSEventCnt[e] \/ OSEventCnt'[e] = 0
  PROVE  IInv'
<1>1. /\ OSTCBDly' = [t \in Tasks |-> IF t \in ts THEN 0 ELSE OSTCBDly[t]]
      /\ OSTCBStat' = [t \in Tasks |-> IF t \in ts THEN OSTCBStat[t] \ {"SEM"} ELSE OSTCBStat[t]]
      /\ OSTCBStatPend' = [t \in Tasks |-> IF t \in ts THEN s ELSE OSTCBStatPend[t]]
      /\ OSTCBEventPtr' = OSTCBEventPtr
      /\ OSRdyTbl' = MapOf(PriosOf(ReadySet \cup {t \in ts : "SUSPEND" \notin OSTCBStat[t]}))
      /\ OSEventTbl' = [f \in Events |-> MapOf(PriosOf(IF f = e THEN WaitSet(f) \ ts
                                                               ELSE WaitSet(f)))]
  BY RdyEffect, ZenonT(60)
<1>2. \A t \in ts : t \in Tasks /\ OSTCBEventPtr[t] = e /\ e # NoEvent
  BY CoreAssumption DEF WaitSet, OnWaitList, IInv, Fixed
<1>3. ReadySet' = ReadySet \cup {t \in ts : "SUSPEND" \notin OSTCBStat[t]}
  <2>1. ASSUME NEW t \in ts
        PROVE  Runnable(t)' <=> "SUSPEND" \notin OSTCBStat[t]
    <3>1. OSTCBStat[t] \in SUBSET {"SEM", "SUSPEND"}
      BY <1>2 DEF IInv, TaskOK
    <3>2. OSTCBStat'[t] = OSTCBStat[t] \ {"SEM"} /\ OSTCBDly'[t] = 0
      BY <1>1, <1>2
    <3>3. OSTCBStat[t] \ {"SEM"} = {} <=> "SUSPEND" \notin OSTCBStat[t]
      BY <3>1
    <3>. QED BY <3>2, <3>3 DEF Runnable
  <2>2. ASSUME NEW t \in ts
        PROVE  Runnable(t) => "SUSPEND" \notin OSTCBStat[t]
    BY DEF Runnable
  <2>3. ASSUME NEW t \in Tasks \ ts PROVE Runnable(t)' <=> Runnable(t)
    BY <1>1 DEF Runnable
  <2>. QED BY <1>2, <2>1, <2>2, <2>3 DEF ReadySet
<1>4. ASSUME NEW f \in Events
      PROVE  WaitSet(f)' = IF f = e THEN WaitSet(f) \ ts ELSE WaitSet(f)
  <2>1. ASSUME NEW t \in ts PROVE ~OnWaitList(t, f)' /\ (f # e => ~OnWaitList(t, f))
    <3>1. OSTCBEventMultiPtr'[t] = {} /\ OSTCBEventMultiPtr[t] = {}
      BY <1>2 DEF IInv, Fixed
    <3>2. OSTCBStat'[t] \cap PendAny = {} /\ OSTCBStatPend'[t] # "TO"
      BY <1>1, <1>2 DEF IInv, TaskOK, PendAny
    <3>. QED BY <3>1, <3>2, <1>2 DEF OnWaitList
  <2>2. ASSUME NEW t \in Tasks \ ts PROVE OnWaitList(t, f)' <=> OnWaitList(t, f)
    BY <1>1 DEF OnWaitList
  <2>. QED BY <1>2, <2>1, <2>2 DEF WaitSet
<1>5. Fixed' /\ Lists'
  <2>1. Fixed'
    BY DEF IInv, Fixed, tblVars
  <2>2. \A f \in Events : OSEventTbl'[f] = MapOf(PriosOf(WaitSet(f)'))
    BY <1>1, <1>4
  <2>. QED BY <2>1, <2>2, <1>1, <1>3 DEF Lists, ReadyList
<1>6. TypeOK'
  <2>1. OSRdyTbl' \in PrioMap /\ \A f \in Events : OSEventTbl'[f] \in PrioMap
    BY <1>5, ListsTypePrime DEF MapsTyped
  <2>2. OSEventTbl' \in [Events -> PrioMap]
    BY <2>1, <1>1
  <2>3. /\ OSTCBStat' \in [Tasks -> SUBSET Stats]
        /\ OSTCBStatPend' \in [Tasks -> PendStats]
        /\ OSTCBDly' \in [Tasks -> Nat]
        /\ pc' \in [Tasks -> Pcs]
    BY <1>1 DEF IInv, TypeOK, PendStats, Pcs
  <2>. QED BY <1>1, <2>1, <2>2, <2>3 DEF IInv, TypeOK, tblVars, curVars
<1>7. \A u \in Tasks : TaskOK(u)'
  <2> SUFFICES ASSUME NEW u \in Tasks PROVE TaskOK(u)'
    OBVIOUS
  <2>1. pc'[u] \in {"run", "sched"} <=> pc[u] \in {"run", "sched"}
    BY DEF IInv, TypeOK
  <2>2. CASE u \in ts
    BY <2>1, <2>2, <1>1, <1>2 DEF IInv, TaskOK
  <2>3. CASE u \notin ts
    BY <2>1, <2>3, <1>1 DEF IInv, TaskOK
  <2>. QED BY <2>2, <2>3
<1>8. IdleOK' /\ CurOK'
  <2>1. IdleTask \in Tasks /\ IdleTask \notin ts
    BY <1>2, CoreAssumption DEF IInv, IdleOK, TaskOK
  <2>2. IdleOK'
    BY <1>1, <2>1 DEF IInv, TypeOK, IdleOK, Runnable
  <2>3. CurOK'
    BY DEF IInv, TypeOK, CurOK, curVars
  <2>. QED BY <2>2, <2>3
<1>9. HighestPriorityRuns'
  <2>1. CASE ts = {}
    <3>1. OSRdyTbl' = OSRdyTbl
      BY <2>1, <1>1 DEF IInv, Lists, ReadyList
    <3>2. Runnable(OSTCBCur)' <=> Runnable(OSTCBCur)
      BY <2>1, <1>1 DEF IInv, TypeOK, Runnable, curVars
    <3>. QED BY <3>1, <3>2 DEF IInv, TypeOK, HighestPriorityRuns, curVars, tblVars
  <2>2. CASE ts # {}
    BY <2>2 DEF IInv, TypeOK, HighestPriorityRuns, curVars
  <2>. QED BY <2>1, <2>2
<1>10. NoTokenPastWaiter'
  <2>1. ASSUME NEW f \in Events, IsSem(f)', OSEventCnt'[f] > 0 PROVE ~Waiting(f)'
    <3>1. OSEventCnt[f] > 0
      BY <2>1 DEF IInv, TypeOK
    <3>2. WaitSet(f)' = {}
      <4>1. CASE OSEventType'[f] = OSEventType[f]
        BY <4>1, <2>1, <3>1, <1>4, NoWaiters DEF IInv, NoTokenPastWaiter, IsSem
      <4>2. CASE OSEventType'[f] # OSEventType[f]
        BY <4>2, <1>4
      <4>. QED BY <4>1, <4>2
    <3>3. OSEventTbl'[f] = MapOf(PriosOf({}))
      BY <3>2, <1>5 DEF Lists, ReadyList
    <3>. QED BY <3>3, MapOfEmpty DEF Waiting, PriosOf, EmptyMap
  <2>. QED BY <2>1 DEF NoTokenPastWaiter
<1>11. NoDanglingWait'
  <2>1. ASSUME NEW t \in Tasks, NEW f \in Events, OnWaitList(t, f)'
        PROVE  OSEventType'[f] # "UNUSED"
    <3>1. t \in WaitSet(f)'
      BY <2>1 DEF WaitSet
    <3>2. t \in WaitSet(f) /\ OSEventType'[f] = OSEventType[f]
      BY <3>1, <1>4
    <3>. QED BY <3>2 DEF IInv, NoDanglingWait, WaitSet
  <2>. QED BY <2>1 DEF NoDanglingWait
<1>. QED BY <1>5, <1>6, <1>7, <1>8, <1>9, <1>10, <1>11 DEF IInv

LEMMA HandOver ==
  ASSUME IInv, NEW e \in Events, Waiting(e)
  PROVE  \E ts \in SUBSET WaitSet(e) : HighestWaiter(e) = PriosOf(ts)
<1>1. PICK t \in WaitSet(e) : HighestWaiter(e) = PriosOf({t})
  BY Waiters DEF IInv
<1>. QED BY <1>1

LEMMA AllOver ==
  ASSUME IInv, NEW e \in Events
  PROVE  AllWaiters(e) = PriosOf(WaitSet(e))
  BY Waiters DEF IInv

LEMMA PostIInv ==
  ASSUME IInv, NEW e \in Events, PostToWaiter(e), UNCHANGED <<curVars, OSLockNesting>>,
         \/ pc[OSTCBCur] = "run" /\ OSTCBCur # IdleTask
              /\ pc' = [pc EXCEPT ![OSTCBCur] = "sched"] /\ OSIntNesting' = OSIntNesting
         \/ pc' = pc /\ OSIntNesting' = 1
  PROVE  IInv'
<1>1. PICK ts \in SUBSET WaitSet(e) : HighestWaiter(e) = PriosOf(ts)
  BY HandOver DEF PostToWaiter
<1>2. OS_EventTaskRdy(e, PriosOf(ts), "SEM", "OK")
  BY <1>1 DEF PostToWaiter
<1>3. UNCHANGED <<OSTCBPrio, OSTCBEventMultiPtr, tblVars, OSEventType, OSEventCnt>>
  BY DEF PostToWaiter
<1>4. /\ OSEventType' \in [Events -> {"UNUSED", "SEM", "MUTEX"}]
      /\ OSEventCnt' \in [Events -> Nat]
  BY <1>3 DEF IInv, TypeOK
<1>5. OSIntNesting' = 1 \/ pc' # pc
  BY DEF IInv, TypeOK
<1>. QED BY <1>2, <1>3, <1>4, <1>5, RdyStep

LEMMA AbortIInv ==
  ASSUME IInv, NEW t \in Tasks, NEW e \in Events, NEW broadcast \in BOOLEAN,
         OSSemPendAbort(t, e, broadcast)
  PROVE  IInv'
<1>1. PICK ts \in SUBSET WaitSet(e) :
        (IF broadcast THEN AllWaiters(e) ELSE HighestWaiter(e)) = PriosOf(ts)
  BY HandOver, AllOver DEF OSSemPendAbort
<1>2. OS_EventTaskRdy(e, PriosOf(ts), "SEM", "ABORT")
  BY <1>1 DEF OSSemPendAbort
<1>3. /\ UNCHANGED <<OSTCBPrio, OSTCBEventMultiPtr, tblVars, OSEventType, OSEventCnt,
                     curVars, nestVars>>
      /\ OSTCBCur = t /\ pc[t] = "run" /\ t # IdleTask /\ pc' = [pc EXCEPT ![t] = "sched"]
  BY DEF OSSemPendAbort, Enter, Calls, Goto
<1>4. /\ OSEventType' \in [Events -> {"UNUSED", "SEM", "MUTEX"}]
      /\ OSEventCnt' \in [Events -> Nat]
      /\ pc' # pc
  BY <1>3 DEF IInv, TypeOK
<1>. QED BY <1>2, <1>3, <1>4, RdyStep DEF nestVars

LEMMA DelAlwaysIInv ==
  ASSUME IInv, NEW t \in Tasks, NEW e \in Events, OSSemDelAlways(t, e)
  PROVE  IInv'
<1>1. OS_EventTaskRdy(e, PriosOf(WaitSet(e)), "SEM", "OK")
  BY AllOver DEF OSSemDelAlways
<1>2. /\ UNCHANGED <<OSTCBPrio, OSTCBEventMultiPtr, tblVars, curVars, nestVars>>
      /\ OSTCBCur = t /\ pc[t] = "run" /\ t # IdleTask
      /\ IF Waiting(e) THEN pc' = [pc EXCEPT ![t] = "sched"] ELSE pc' = pc
  BY DEF OSSemDelAlways, Enter, Calls, Goto
<1>3. /\ OSEventType' = [OSEventType EXCEPT ![e] = "UNUSED"]
      /\ OSEventCnt' = [OSEventCnt EXCEPT ![e] = 0]
  BY DEF OSSemDelAlways, Release
<1>4. /\ OSEventType' \in [Events -> {"UNUSED", "SEM", "MUTEX"}]
      /\ OSEventCnt' \in [Events -> Nat]
      /\ \A f \in Events \ {e} : OSEventType'[f] = OSEventType[f] /\ OSEventCnt'[f] = OSEventCnt[f]
      /\ OSEventCnt'[e] = 0
  BY <1>3 DEF IInv, TypeOK
<1>5. pc' # pc \/ WaitSet(e) = {}
  BY <1>2, NoWaiters DEF IInv, TypeOK
<1>. QED BY <1>1, <1>2, <1>4, <1>5, RdyStep DEF nestVars

LEMMA StutterIInv ==
  ASSUME IInv, UNCHANGED coreVars
  PROVE  IInv'
<1>1. /\ NoTokenPastWaiter' /\ NoDanglingWait'
      /\ UNCHANGED <<tcbVars, tblVars, OSRdyTbl, OSEventTbl, curVars, OSLockNesting, pc>>
      /\ OSIntNesting' = OSIntNesting
  BY DEF IInv, NoTokenPastWaiter, NoDanglingWait, IsSem, Waiting, OnWaitList,
         coreVars, tcbVars, tblVars, eventVars, curVars, nestVars
<1>2. /\ OSEventType' \in [Events -> {"UNUSED", "SEM", "MUTEX"}]
      /\ OSEventCnt' \in [Events -> Nat]
  BY DEF IInv, TypeOK, coreVars, eventVars
<1>. QED BY <1>1, <1>2, EventStep

LEMMA SemCallIInv ==
  ASSUME IInv, NEW t \in Tasks, NEW e \in Events, IsSem(e), SemCall(t, e)
  PROVE  IInv'
<1>1. CASE \/ OSSemAccept(t, e) \/ OSSemPendTake(t, e)
           \/ \E cnt \in InitialCnts : OSSemSet(t, e, cnt)
  BY <1>1, CountIInv
<1>2. ASSUME NEW timeout \in Timeouts, OSSemPendBlock(t, e, timeout) PROVE IInv'
  BY <1>2, PendBlockIInv
<1>3. ASSUME NEW broadcast \in BOOLEAN, OSSemPendAbort(t, e, broadcast) PROVE IInv'
  BY <1>3, AbortIInv
<1>4. CASE OSSemPost(t, e)
  <2>1. OSTCBCur = t /\ t # IdleTask /\ pc[t] = "run" /\ UNCHANGED <<curVars, nestVars>>
    BY <1>4 DEF OSSemPost, Enter, Calls
  <2>2. CASE PostToWaiter(e) /\ Goto(t, "sched")
    BY <2>1, <2>2, PostIInv DEF Goto, nestVars
  <2>3. CASE PostCount(e) /\ UNCHANGED pc
    BY <2>1, <2>3, CountIInv DEF nestVars
  <2>. QED BY <1>4, <2>2, <2>3 DEF OSSemPost
<1>5. CASE OSSemUnchanged(t, e)
  BY <1>5, StutterIInv DEF OSSemUnchanged
<1>. QED BY <1>1, <1>2, <1>3, <1>4, <1>5 DEF SemCall

LEMMA SemStepIInv ==
  ASSUME IInv, Checks, NEW t \in Tasks, NEW e \in Events, SemStep(t, e)
  PROVE  IInv'
<1>1. e # NoEvent
  BY CoreAssumption
<1>2. ASSUME NEW cnt \in InitialCnts, OSSemCreate(t, e, cnt) PROVE IInv'
  BY <1>2, CreateIInv
<1>3. CASE Check(t, e)
  BY <1>3, StutterIInv DEF Check
<1>4. CASE SemCall(t, e)
  <2>1. checked[t] = e
    BY <1>4 DEF SemCall, OSSemAccept, OSSemPendTake, OSSemPendBlock, OSSemPendAbort,
                OSSemPost, OSSemSet, OSSemUnchanged, Enter
  <2>. QED BY <1>1, <1>4, <2>1, SemCallIInv DEF Checks
<1>5. CASE CarefulDelete(t, e)
  BY <1>5, DelNoPendIInv, DelAlwaysIInv DEF CarefulDelete, SemDelete
<1>. QED BY <1>2, <1>3, <1>4, <1>5 DEF SemStep

LEMMA DeviceIInv ==
  ASSUME IInv, NEW e \in Events, SemPostISR(e)
  PROVE  IInv'
<1>1. OSIntNesting' = 1 /\ UNCHANGED <<OSLockNesting, curVars, pc>> /\ IsSem(e)
  BY DEF SemPostISR, EnterISR
<1>2. CASE PostToWaiter(e)
  BY <1>1, <1>2, PostIInv
<1>3. CASE PostCount(e)
  <2>1. PICK t \in Tasks : TRUE
    BY CoreAssumption
  <2>. QED BY <1>1, <1>3, CountIInv
<1>. QED BY <1>2, <1>3 DEF SemPostISR

-----------------------------------------------------------------------------
(* Delays, the tick and the end of a delay.                                *)

LEMMA ExpireStep ==
  ASSUME IInv, NEW ts \in SUBSET (Tasks \ {IdleTask}), NEW dly \in [Tasks -> Nat],
         \A t \in ts : OSTCBDly[t] # 0 /\ dly[t] = 0,
         \A t \in Tasks \ ts : dly[t] = 0 <=> OSTCBDly[t] = 0,
         Expire(ts, dly),
         UNCHANGED <<OSTCBPrio, OSTCBEventPtr, OSTCBEventMultiPtr, tblVars, eventVars,
                     curVars, OSLockNesting>>,
         pc' = pc \/ (pc[OSTCBCur] = "run" /\ OSTCBCur # IdleTask
                        /\ pc' = [pc EXCEPT ![OSTCBCur] = "sched"]),
         OSIntNesting' \in {OSIntNesting, 1},
         OSIntNesting' = 1 \/ pc' # pc \/ \A t \in ts : "SUSPEND" \in OSTCBStat[t]
  PROVE  IInv'
<1> DEFINE now == {t \in ts : "SUSPEND" \notin OSTCBStat[t]}
<1>1. /\ OSTCBDly' = dly
      /\ OSTCBStat' = [t \in Tasks |-> IF t \in ts /\ OSTCBStat[t] \cap PendAny # {}
                                          THEN OSTCBStat[t] \ PendAny ELSE OSTCBStat[t]]
      /\ OSTCBStatPend' = [t \in Tasks |->
                             IF t \in ts /\ OSTCBStat[t] \cap PendAny # {} THEN "TO"
                             ELSE IF t \in ts THEN "OK" ELSE OSTCBStatPend[t]]
      /\ OSRdyTbl' = MapSet(OSRdyTbl, {OSTCBPrio[t] : t \in now})
  BY DEF Expire
<1>2. \A t \in Tasks : OSTCBStat[t] \cap PendAny # {} <=> "SEM" \in OSTCBStat[t]
  BY DEF IInv, TaskOK, PendAny
<1>3. \A t \in Tasks : OSTCBStat'[t] = IF t \in ts THEN OSTCBStat[t] \ {"SEM"} ELSE OSTCBStat[t]
  <2> SUFFICES ASSUME NEW t \in Tasks
               PROVE  OSTCBStat'[t] = IF t \in ts THEN OSTCBStat[t] \ {"SEM"} ELSE OSTCBStat[t]
    OBVIOUS
  <2>1. OSTCBStat[t] \in SUBSET {"SEM", "SUSPEND"}
    BY DEF IInv, TaskOK
  <2>2. OSTCBStat[t] \ PendAny = OSTCBStat[t] \ {"SEM"}
    BY <2>1 DEF PendAny
  <2>3. OSTCBStat[t] \cap PendAny = {} => OSTCBStat[t] \ {"SEM"} = OSTCBStat[t]
    BY <1>2
  <2>. QED BY <1>1, <2>2, <2>3
<1>4. \A t \in Tasks : OSTCBStatPend'[t] = IF t \in ts /\ "SEM" \in OSTCBStat[t] THEN "TO"
                                           ELSE IF t \in ts THEN "OK" ELSE OSTCBStatPend[t]
  BY <1>1, <1>2
<1>5. ReadySet' = ReadySet \cup now
  <2>1. ASSUME NEW t \in ts
        PROVE  (Runnable(t)' <=> "SUSPEND" \notin OSTCBStat[t]) /\ ~Runnable(t)
    <3>1. t \in Tasks /\ OSTCBStat[t] \subseteq {"SEM", "SUSPEND"}
      BY DEF IInv, TaskOK
    <3>2. OSTCBStat'[t] = OSTCBStat[t] \ {"SEM"} /\ OSTCBDly'[t] = 0 /\ OSTCBDly[t] # 0
      BY <3>1, <1>1, <1>3
    <3>. QED BY <3>1, <3>2 DEF Runnable
  <2>2. ASSUME NEW t \in Tasks \ ts PROVE Runnable(t)' <=> Runnable(t)
    BY <1>1, <1>3 DEF Runnable
  <2>. QED BY <2>1, <2>2 DEF ReadySet
<1>6. ASSUME NEW f \in Events PROVE WaitSet(f)' = WaitSet(f)
  <2>1. ASSUME NEW t \in Tasks PROVE OnWaitList(t, f)' <=> OnWaitList(t, f)
    <3>1. OSTCBStatPend[t] = "TO" => t \notin ts
      BY DEF IInv, TaskOK
    <3>2. OSTCBStat'[t] \cap PendAny # {} <=> "SEM" \in OSTCBStat'[t]
      BY <1>2, <1>3 DEF PendAny, IInv, TaskOK
    <3>. QED BY <3>1, <3>2, <1>2, <1>3, <1>4 DEF OnWaitList
  <2>. QED BY <2>1 DEF WaitSet
<1>7. Fixed' /\ Lists'
  <2>1. Fixed'
    BY DEF IInv, Fixed, tblVars
  <2>2. OSRdyTbl' = MapOf(PriosOf(ReadySet'))
    <3>1. {OSTCBPrio[t] : t \in now} = PriosOf(now)
      BY DEF IInv, Fixed, PriosOf
    <3>2. now \in SUBSET Tasks /\ ReadySet \in SUBSET Tasks
      BY DEF ReadySet
    <3> HIDE DEF now
    <3>. QED BY <3>1, <3>2, <1>1, <1>5, JoinList DEF IInv, Lists, ReadyList
  <2>. QED BY <2>1, <2>2, <1>6 DEF IInv, Lists, ReadyList, eventVars
<1>8. TypeOK'
  <2>1. OSRdyTbl' \in PrioMap
    BY <1>7, ListsTypePrime DEF MapsTyped
  <2>2. /\ OSTCBStat' \in [Tasks -> SUBSET Stats]
        /\ OSTCBStatPend' \in [Tasks -> PendStats]
        /\ OSTCBDly' \in [Tasks -> Nat]
        /\ pc' \in [Tasks -> Pcs]
    BY <1>1 DEF IInv, TypeOK, PendStats, Pcs
  <2>. QED BY <2>1, <2>2 DEF IInv, TypeOK, tblVars, eventVars, curVars
<1>9. \A u \in Tasks : TaskOK(u)'
  <2> SUFFICES ASSUME NEW u \in Tasks PROVE TaskOK(u)'
    OBVIOUS
  <2>1. pc'[u] \in {"run", "sched"} <=> pc[u] \in {"run", "sched"}
    BY DEF IInv, TypeOK
  <2>2. TaskOK(u)
    BY DEF IInv
  <2>3. CASE u \in ts
    <3>1. OSTCBDly[u] # 0 /\ OSTCBDly'[u] = 0
      BY <2>3, <1>1
    <3>. QED BY <2>1, <2>2, <2>3, <3>1, <1>3, <1>4 DEF TaskOK
  <2>4. CASE u \notin ts
    <3>1. OSTCBDly[u] = 0 <=> OSTCBDly'[u] = 0
      BY <2>4, <1>1
    <3>. QED BY <2>1, <2>2, <2>4, <3>1, <1>3, <1>4 DEF TaskOK
  <2>. QED BY <2>3, <2>4
<1>10. IdleOK' /\ CurOK'
  <2>1. IdleOK'
    BY <1>1, <1>3, CoreAssumption DEF IInv, TypeOK, IdleOK, Runnable
  <2>2. CurOK'
    BY DEF IInv, TypeOK, CurOK, curVars
  <2>. QED BY <2>1, <2>2
<1>11. HighestPriorityRuns'
  <2>1. CASE \A t \in ts : "SUSPEND" \in OSTCBStat[t]
    <3>1. OSRdyTbl' = OSRdyTbl /\ \A t \in Tasks : Runnable(t)' <=> Runnable(t)
      BY <2>1, <1>5, <1>7 DEF IInv, Lists, ReadyList, ReadySet
    <3>. QED BY <3>1 DEF IInv, TypeOK, HighestPriorityRuns, curVars, tblVars
  <2>2. CASE OSIntNesting' = 1 \/ pc' # pc
    BY <2>2 DEF IInv, TypeOK, HighestPriorityRuns, curVars
  <2>. QED BY <2>1, <2>2
<1>12. NoTokenPastWaiter'
  BY DEF IInv, NoTokenPastWaiter, IsSem, Waiting, eventVars
<1>13. NoDanglingWait'
  BY <1>6 DEF IInv, NoDanglingWait, WaitSet, eventVars
<1>. QED BY <1>7, <1>8, <1>9, <1>10, <1>11, <1>12, <1>13 DEF IInv

LEMMA TickIInv ==
  ASSUME IInv, TickISR
  PROVE  IInv'
<1> DEFINE walked == OSTCBList \ {IdleTask}
           left   == [t \in Tasks |-> IF t \in walked /\ OSTCBDly[t] # 0
                                        THEN OSTCBDly[t] - 1 ELSE OSTCBDly[t]]
           ts     == {t \in walked : OSTCBDly[t] # 0 /\ left[t] = 0}
<1>1. /\ Expire(ts, left)
      /\ UNCHANGED <<OSTCBPrio, OSTCBEventPtr, OSTCBEventMultiPtr, tblVars, eventVars,
                     curVars, OSLockNesting, pc>>
      /\ OSIntNesting' = 1
  BY DEF TickISR, EnterISR, OSTimeTick
<1>2. walked = Tasks \ {IdleTask} /\ ts \in SUBSET (Tasks \ {IdleTask})
  BY DEF IInv, Fixed
<1>3. left \in [Tasks -> Nat]
  BY DEF IInv, TypeOK
<1>4. \A t \in ts : OSTCBDly[t] # 0 /\ left[t] = 0
  OBVIOUS
<1>5. \A t \in Tasks \ ts : left[t] = 0 <=> OSTCBDly[t] = 0
  BY <1>2 DEF IInv, TypeOK
<1> HIDE DEF ts, left
<1>. QED BY <1>1, <1>2, <1>3, <1>4, <1>5, ExpireStep

LEMMA DlyResumeIInv ==
  ASSUME IInv, NEW t \in Tasks, NEW prio \in Prios, OSTimeDlyResume(t, prio)
  PROVE  IInv'
<1> DEFINE u   == OSTCBPrioTbl[prio]
           dly == [OSTCBDly EXCEPT ![u] = 0]
<1>1. /\ prio < LowestPrio /\ u \in Tasks /\ OSTCBDly[u] # 0
      /\ Expire({u}, dly)
      /\ IF "SUSPEND" \notin OSTCBStat[u] THEN pc' = [pc EXCEPT ![t] = "sched"] ELSE pc' = pc
      /\ UNCHANGED <<OSTCBPrio, OSTCBEventPtr, OSTCBEventMultiPtr, tblVars, eventVars,
                     curVars, nestVars>>
      /\ OSTCBCur = t /\ pc[t] = "run" /\ t # IdleTask
  BY DEF OSTimeDlyResume, Calls, Goto
<1>2. {u} \in SUBSET (Tasks \ {IdleTask})
  BY <1>1 DEF IInv, IdleOK, Runnable
<1>3. dly \in [Tasks -> Nat]
  BY <1>1 DEF IInv, TypeOK
<1>4. \A v \in {u} : OSTCBDly[v] # 0 /\ dly[v] = 0
  BY <1>1 DEF IInv, TypeOK
<1>5. \A v \in Tasks \ {u} : dly[v] = 0 <=> OSTCBDly[v] = 0
  BY DEF IInv, TypeOK
<1>6. pc' # pc \/ \A v \in {u} : "SUSPEND" \in OSTCBStat[v]
  BY <1>1 DEF IInv, TypeOK
<1> HIDE DEF u, dly
<1>. QED BY <1>1, <1>2, <1>3, <1>4, <1>5, <1>6, ExpireStep DEF nestVars

LEMMA DlyIInv ==
  ASSUME IInv, NEW t \in Tasks, NEW ticks \in Delays, OSTimeDly(t, ticks)
  PROVE  IInv'
<1>1. /\ OSTCBCur = t /\ t # IdleTask /\ pc[t] = "run" /\ Runnable(t)
      /\ OSTCBEventPtr[t] = NoEvent
  BY Caller DEF OSTimeDly
<1>2. /\ Unready(t) /\ OSTCBDly' = [OSTCBDly EXCEPT ![t] = ticks]
      /\ pc' = [pc EXCEPT ![t] = "sched"]
      /\ UNCHANGED <<OSTCBPrio, OSTCBStat, OSTCBStatPend, OSTCBEventPtr, OSTCBEventMultiPtr,
                     tblVars, eventVars, curVars, nestVars>>
  BY DEF OSTimeDly, Goto
<1>3. ticks \in Nat \ {0}
  BY TimeAssumption
<1>4. ReadySet' = ReadySet \ {t} /\ \A f : WaitSet(f)' = WaitSet(f)
  BY <1>1, <1>2, <1>3 DEF IInv, TypeOK, ReadySet, WaitSet, Runnable, OnWaitList
<1>5. Fixed' /\ Lists'
  BY <1>2, <1>4, Scheduler, Unreadied DEF IInv, Fixed, Lists, ReadyList, tblVars, eventVars
<1>6. TypeOK'
  BY <1>2, <1>3, <1>5, ListsTypePrime
     DEF MapsTyped, IInv, TypeOK, Pcs, tblVars, eventVars, curVars, nestVars
<1>7. \A u \in Tasks : TaskOK(u)'
  BY <1>1, <1>2 DEF IInv, TypeOK, TaskOK
<1>8. IdleOK' /\ CurOK'
  BY <1>1, <1>2, CoreAssumption DEF IInv, TypeOK, IdleOK, CurOK, Runnable, curVars, nestVars
<1>9. HighestPriorityRuns'
  BY <1>1, <1>2 DEF IInv, TypeOK, HighestPriorityRuns, curVars
<1>10. NoTokenPastWaiter' /\ NoDanglingWait'
  BY <1>2 DEF IInv, NoTokenPastWaiter, NoDanglingWait, IsSem, Waiting, OnWaitList, eventVars
<1>. QED BY <1>5, <1>6, <1>7, <1>8, <1>9, <1>10 DEF IInv

-----------------------------------------------------------------------------
(* Suspension.  A task that suspends another stays the highest ready one;  *)
(* one that suspends itself goes to the scheduler.                         *)

(* OSTCBStat changes by the bit SUSPEND only, in the TCB of a task that is *)
(* not the idle task.                                                      *)
LEMMA SuspendFrame ==
  ASSUME IInv, NEW u \in Tasks \ {IdleTask}, NEW stat,
         stat \in {OSTCBStat[u] \ {"SUSPEND"}, OSTCBStat[u] \cup {"SUSPEND"}},
         OSTCBStat' = [OSTCBStat EXCEPT ![u] = stat],
         UNCHANGED <<OSTCBPrio, OSTCBStatPend, OSTCBDly, OSTCBEventPtr, OSTCBEventMultiPtr,
                     tblVars, eventVars, curVars, nestVars>>,
         pc' = pc \/ (pc[OSTCBCur] = "run" /\ OSTCBCur # IdleTask
                        /\ pc' = [pc EXCEPT ![OSTCBCur] = "sched"]),
         OSRdyTbl' = MapOf(PriosOf(ReadySet'))
  PROVE  /\ TypeOK' /\ Fixed' /\ IdleOK' /\ CurOK' /\ Lists'
         /\ \A t \in Tasks : TaskOK(t)'
         /\ NoTokenPastWaiter' /\ NoDanglingWait'
<1>1. \A f : WaitSet(f)' = WaitSet(f)
  BY DEF IInv, TypeOK, WaitSet, OnWaitList, PendAny
<1>2. Fixed' /\ Lists'
  BY <1>1 DEF IInv, Fixed, Lists, ReadyList, tblVars, eventVars
<1>3. TypeOK'
  <2>1. OSRdyTbl' \in PrioMap
    BY <1>2, ListsTypePrime DEF MapsTyped
  <2>2. OSTCBStat' \in [Tasks -> SUBSET Stats] /\ pc' \in [Tasks -> Pcs]
    BY DEF IInv, TypeOK, Stats, Pcs
  <2>. QED BY <2>1, <2>2 DEF IInv, TypeOK, tblVars, eventVars, curVars, nestVars
<1>4. ASSUME NEW t \in Tasks PROVE TaskOK(t)'
  <2>1. pc'[t] \in {"run", "sched"} <=> pc[t] \in {"run", "sched"}
    BY DEF IInv, TypeOK
  <2>2. /\ "SEM" \in OSTCBStat'[t] <=> "SEM" \in OSTCBStat[t]
        /\ OSTCBStat'[t] \subseteq {"SEM", "SUSPEND"}
    BY DEF IInv, TypeOK, TaskOK
  <2>. QED BY <2>1, <2>2 DEF IInv, TaskOK
<1>5. IdleOK' /\ CurOK'
  <2>1. IdleOK'
    BY CoreAssumption DEF IInv, TypeOK, IdleOK, Runnable
  <2>2. CurOK'
    BY DEF IInv, TypeOK, CurOK, curVars, nestVars
  <2>. QED BY <2>1, <2>2
<1>6. NoTokenPastWaiter' /\ NoDanglingWait'
  BY <1>1 DEF IInv, NoTokenPastWaiter, NoDanglingWait, IsSem, Waiting, WaitSet, eventVars
<1>. QED BY <1>2, <1>3, <1>4, <1>5, <1>6

LEMMA SuspendIInv ==
  ASSUME IInv, NEW t \in Tasks, NEW prio \in Prios, OSTaskSuspend(t, prio)
  PROVE  IInv'
<1> DEFINE u == OSTCBPrioTbl[prio]
<1>1. /\ prio < LowestPrio /\ u \in Tasks /\ Unready(u)
      /\ OSTCBStat' = [OSTCBStat EXCEPT ![u] = OSTCBStat[u] \cup {"SUSPEND"}]
      /\ IF prio = OSTCBPrio[t] THEN pc' = [pc EXCEPT ![t] = "sched"] ELSE pc' = pc
      /\ UNCHANGED <<OSTCBPrio, OSTCBStatPend, OSTCBDly, OSTCBEventPtr, OSTCBEventMultiPtr,
                     tblVars, eventVars, curVars, nestVars>>
      /\ OSTCBCur = t /\ pc[t] = "run" /\ t # IdleTask /\ OSIntNesting = 0
  BY DEF OSTaskSuspend, Calls, Goto
<1>2. BasePrio[u] = prio /\ u # IdleTask /\ (prio = OSTCBPrio[t] <=> u = t)
  BY <1>1, CoreAssumption DEF IInv, Fixed, Prios
<1>3. ReadySet' = ReadySet \ {u}
  BY <1>1 DEF IInv, TypeOK, ReadySet, Runnable
<1>4. OSRdyTbl' = MapOf(PriosOf(ReadySet'))
  BY <1>1, <1>3, Scheduler, Unreadied
<1>5. /\ TypeOK' /\ Fixed' /\ IdleOK' /\ CurOK' /\ Lists'
      /\ \A v \in Tasks : TaskOK(v)'
      /\ NoTokenPastWaiter' /\ NoDanglingWait'
  <2>1. pc' = pc \/ pc' = [pc EXCEPT ![t] = "sched"]
    BY <1>1
  <2> HIDE DEF u
  <2>. QED BY <1>1, <1>2, <1>4, <2>1, SuspendFrame
<1>6. HighestPriorityRuns'
  <2>1. CASE u = t
    BY <2>1, <1>1, <1>2 DEF IInv, TypeOK, HighestPriorityRuns, curVars
  <2>2. CASE u # t /\ OSLockNesting = 0
    <3>1. Runnable(t) /\ OSPrioCur = MapHighest(OSRdyTbl) /\ OSTCBCur = OSTCBPrioTbl[OSPrioCur]
      BY <2>2, <1>1 DEF IInv, HighestPriorityRuns
    <3>2. t \in ReadySet \ {u} /\ ReadySet \in SUBSET Tasks
      BY <2>2, <3>1 DEF ReadySet
    <3>3. BasePrio[t] = MapHighest(MapOf(PriosOf(ReadySet)))
      BY <3>1, <1>1 DEF IInv, Lists, ReadyList, CurOK
    <3>4. BasePrio[t] = MapHighest(MapOf(PriosOf(ReadySet \ {u})))
      BY <3>2, <3>3, HeadStays
    <3>5. OSPrioCur' = MapHighest(OSRdyTbl')
      BY <3>4, <1>1, <1>3, <1>4 DEF IInv, CurOK, curVars
    <3>6. Runnable(t)'
      BY <3>1, <2>2, <1>1 DEF IInv, TypeOK, Runnable
    <3>. QED BY <3>1, <3>5, <3>6, <1>1 DEF HighestPriorityRuns, curVars, tblVars
  <2>3. CASE OSLockNesting # 0
    BY <2>3, <1>1 DEF HighestPriorityRuns, nestVars
  <2>. QED BY <2>1, <2>2, <2>3
<1>. QED BY <1>5, <1>6 DEF IInv

LEMMA ResumeIInv ==
  ASSUME IInv, NEW t \in Tasks, NEW prio \in Prios, OSTaskResume(t, prio)
  PROVE  IInv'
<1>. PICK u \in Tasks : u = OSTCBPrioTbl[prio]
  BY DEF OSTaskResume
<1>. PICK stat : stat = OSTCBStat[u] \ {"SUSPEND"}
  OBVIOUS
<1>1. /\ prio < LowestPrio /\ u \in Tasks /\ "SUSPEND" \in OSTCBStat[u]
      /\ OSTCBStat' = [OSTCBStat EXCEPT ![u] = stat]
      /\ IF stat = {} /\ OSTCBDly[u] = 0
           THEN OSRdyTbl' = MapSet(OSRdyTbl, {OSTCBPrio[u]}) /\ pc' = [pc EXCEPT ![t] = "sched"]
           ELSE OSRdyTbl' = OSRdyTbl /\ pc' = pc
      /\ UNCHANGED <<OSTCBPrio, OSTCBStatPend, OSTCBDly, OSTCBEventPtr, OSTCBEventMultiPtr,
                     tblVars, eventVars, curVars, nestVars>>
      /\ OSTCBCur = t /\ pc[t] = "run" /\ t # IdleTask /\ OSIntNesting = 0
  BY DEF OSTaskResume, Calls, Goto
<1>2. u # IdleTask /\ ~Runnable(u)
  BY <1>1 DEF IInv, IdleOK, Runnable
<1>3. ReadySet' = IF stat = {} /\ OSTCBDly[u] = 0 THEN ReadySet \cup {u} ELSE ReadySet
  <2>1. Runnable(u)' <=> stat = {} /\ OSTCBDly[u] = 0
    <3>1. OSTCBStat'[u] = stat
      BY <1>1 DEF IInv, TypeOK
    <3>2. OSTCBDly'[u] = OSTCBDly[u]
      BY <1>1
    <3>. QED BY <3>1, <3>2 DEF Runnable
  <2>2. \A v \in Tasks \ {u} : Runnable(v)' <=> Runnable(v)
    BY <1>1 DEF IInv, TypeOK, Runnable
  <2>3. CASE stat = {} /\ OSTCBDly[u] = 0
    BY <1>1, <2>1, <2>2, <2>3 DEF ReadySet
  <2>4. CASE ~(stat = {} /\ OSTCBDly[u] = 0)
    BY <1>1, <1>2, <2>1, <2>2, <2>4 DEF ReadySet
  <2>. QED BY <2>3, <2>4
<1>4. OSRdyTbl' = MapOf(PriosOf(ReadySet'))
  <2>1. ReadySet \in SUBSET Tasks /\ {u} \in SUBSET Tasks
    BY <1>1 DEF ReadySet
  <2>2. CASE stat = {} /\ OSTCBDly[u] = 0
    <3>1. OSRdyTbl' = MapSet(MapOf(PriosOf(ReadySet)), PriosOf({u}))
      BY <2>2, <1>1, PriosOfOne DEF IInv, Fixed, Lists, ReadyList
    <3>. QED BY <2>1, <2>2, <3>1, <1>3, JoinList
  <2>3. CASE ~(stat = {} /\ OSTCBDly[u] = 0)
    BY <2>3, <1>1, <1>3 DEF IInv, Lists, ReadyList
  <2>. QED BY <2>2, <2>3
<1>5. /\ TypeOK' /\ Fixed' /\ IdleOK' /\ CurOK' /\ Lists'
      /\ \A v \in Tasks : TaskOK(v)'
      /\ NoTokenPastWaiter' /\ NoDanglingWait'
  <2>1. pc' = pc \/ pc' = [pc EXCEPT ![t] = "sched"]
    BY <1>1
  <2>2. stat \in {OSTCBStat[u] \ {"SUSPEND"}, OSTCBStat[u] \cup {"SUSPEND"}}
    OBVIOUS
  <2>. QED BY <1>1, <1>2, <1>4, <2>1, <2>2, SuspendFrame
<1>6. HighestPriorityRuns'
  <2>1. CASE stat = {} /\ OSTCBDly[u] = 0
    BY <2>1, <1>1 DEF IInv, TypeOK, HighestPriorityRuns, curVars
  <2>2. CASE ~(stat = {} /\ OSTCBDly[u] = 0)
    <3>1. OSRdyTbl' = OSRdyTbl /\ pc' = pc
      BY <2>2, <1>1
    <3>2. Runnable(t) => Runnable(t)'
      BY <1>1, <1>2 DEF IInv, TypeOK, Runnable
    <3>. QED BY <3>1, <3>2, <1>1 DEF IInv, HighestPriorityRuns, curVars, nestVars, tblVars
  <2>. QED BY <2>1, <2>2
<1>. QED BY <1>5, <1>6 DEF IInv

-----------------------------------------------------------------------------
(* The end of a pend.  The task runs, so it is ready: whatever ended its   *)
(* wait has cleared the bit SEM, and only a time-out has left it on the    *)
(* wait list.                                                              *)
LEMMA PendReturnIInv ==
  ASSUME IInv, NEW t \in Tasks, PendReturn(t)
  PROVE  IInv'
<1>1. /\ OSTCBCur = t /\ pc[t] = "wake" /\ OSIntNesting = 0
      /\ OSEventTbl' = IF OSTCBStatPend[t] \in {"OK", "ABORT"} THEN OSEventTbl
                       ELSE [OSEventTbl EXCEPT ![OSTCBEventPtr[t]] = MapClr(@, {OSTCBPrio[t]})]
      /\ OSTCBStat' = [OSTCBStat EXCEPT ![t] = {}]
      /\ OSTCBStatPend' = [OSTCBStatPend EXCEPT ![t] = "OK"]
      /\ OSTCBEventPtr' = [OSTCBEventPtr EXCEPT ![t] = NoEvent]
      /\ OSTCBEventMultiPtr' = [OSTCBEventMultiPtr EXCEPT ![t] = {}]
      /\ pc' = [pc EXCEPT ![t] = "run"]
      /\ UNCHANGED <<OSTCBPrio, OSTCBDly, tblVars, OSRdyTbl, OSEventType, OSEventCnt,
                     curVars, nestVars>>
  BY DEF PendReturn, At, Goto
<1>2. OSLockNesting = 0 /\ Runnable(t)
  BY <1>1 DEF IInv, TypeOK, CurOK, HighestPriorityRuns
<1>3. PICK e \in Events : e = OSTCBEventPtr[t]
  BY <1>1 DEF IInv, TypeOK, TaskOK
<1>4. t # IdleTask
  BY <1>1 DEF IInv, IdleOK
<1>5. Fixed'
  BY <1>1 DEF IInv, TypeOK, Fixed, tblVars
<1>6. ReadySet' = ReadySet
  BY <1>1, <1>2 DEF IInv, TypeOK, ReadySet, Runnable
<1>7. ASSUME NEW f \in Events PROVE WaitSet(f)' = WaitSet(f) \ {t}
  <2>1. ~OnWaitList(t, f)'
    BY <1>1, CoreAssumption DEF IInv, TypeOK, OnWaitList
  <2>2. ASSUME NEW u \in Tasks \ {t} PROVE OnWaitList(u, f)' <=> OnWaitList(u, f)
    BY <1>1 DEF IInv, TypeOK, OnWaitList
  <2>. QED BY <2>1, <2>2 DEF WaitSet
<1>8. ASSUME NEW f \in Events PROVE OSEventTbl'[f] = MapOf(PriosOf(WaitSet(f) \ {t}))
  <2>1. OSEventTbl[f] = MapOf(PriosOf(WaitSet(f))) /\ WaitSet(f) \in SUBSET Tasks
    BY DEF IInv, Lists, ReadyList, WaitSet
  <2>2. t \in WaitSet(f) => f = e /\ OSTCBStatPend[t] = "TO"
    BY <1>2, <1>3 DEF WaitSet, OnWaitList, Runnable, IInv, Fixed
  <2>3. CASE f = e /\ OSTCBStatPend[t] \notin {"OK", "ABORT"}
    <3>1. OSEventTbl'[f] = MapClr(MapOf(PriosOf(WaitSet(f))), PriosOf({t}))
      BY <2>1, <2>3, <1>1, <1>3, PriosOfOne DEF IInv, TypeOK, Fixed
    <3>. QED BY <2>1, <3>1, LeaveList
  <2>4. CASE ~(f = e /\ OSTCBStatPend[t] \notin {"OK", "ABORT"})
    <3>1. OSEventTbl'[f] = OSEventTbl[f]
      BY <2>4, <1>1, <1>3 DEF IInv, TypeOK
    <3>2. WaitSet(f) \ {t} = WaitSet(f)
      BY <2>2, <2>4
    <3>. QED BY <2>1, <3>1, <3>2
  <2>. QED BY <2>3, <2>4
<1>9. Lists'
  BY <1>1, <1>6, <1>7, <1>8 DEF IInv, Lists, ReadyList
<1>10. TypeOK'
  <2>1. OSRdyTbl' \in PrioMap /\ \A f \in Events : OSEventTbl'[f] \in PrioMap
    BY <1>9, ListsTypePrime DEF MapsTyped
  <2>2. OSEventTbl' \in [Events -> PrioMap]
    BY <2>1, <1>1 DEF IInv, TypeOK
  <2>. QED BY <2>1, <2>2, <1>1
       DEF IInv, TypeOK, PendStats, Pcs, tblVars, curVars, nestVars
<1>11. \A u \in Tasks : TaskOK(u)'
  BY <1>1 DEF IInv, TypeOK, TaskOK
<1>12. IdleOK' /\ CurOK'
  BY <1>1, <1>2, <1>4, CoreAssumption
     DEF IInv, TypeOK, IdleOK, CurOK, Runnable, curVars, nestVars
<1>13. HighestPriorityRuns'
  <2>1. Runnable(t)'
    BY <1>1, <1>2 DEF IInv, TypeOK, Runnable
  <2>. QED BY <2>1, <1>1, <1>2 DEF IInv, HighestPriorityRuns, curVars, nestVars, tblVars
<1>14. NoTokenPastWaiter'
  <2>1. ASSUME NEW f \in Events, WaitSet(f) = {} PROVE ~Waiting(f)'
    <3>1. WaitSet(f) \ {t} = {}
      BY <2>1
    <3>2. OSEventTbl'[f] = MapOf({})
      BY <3>1, <1>8 DEF PriosOf
    <3>. QED BY <3>2, MapOfEmpty DEF Waiting, EmptyMap
  <2>2. \A f \in Events : ~Waiting(f) => WaitSet(f) = {}
    BY NoWaiters
  <2>. QED BY <2>1, <2>2, <1>1 DEF IInv, NoTokenPastWaiter, IsSem
<1>15. NoDanglingWait'
  BY <1>1, <1>7 DEF IInv, NoDanglingWait, WaitSet
<1>. QED BY <1>5, <1>9, <1>10, <1>11, <1>12, <1>13, <1>14, <1>15 DEF IInv

-----------------------------------------------------------------------------
(* The invariant is inductive.                                             *)

LEMMA NextIInv == IInv /\ Checks /\ [Next]_vars => IInv'
<1> SUFFICES ASSUME IInv, Checks, [Next]_vars PROVE IInv'
  OBVIOUS
<1>1. ASSUME NEW t \in Tasks, NEW e \in Events, SemStep(t, e) PROVE IInv'
  BY <1>1, SemStepIInv
<1>2. ASSUME NEW t \in Tasks, TimeCall(t) PROVE IInv'
  BY <1>2, DlyIInv, DlyResumeIInv DEF TimeCall
<1>3. ASSUME NEW t \in Tasks, TaskCall(t) PROVE IInv'
  BY <1>3, SuspendIInv, ResumeIInv DEF TaskCall
<1>4. ASSUME NEW t \in Tasks, OSSchedLock(t) \/ OSSchedUnlock(t) PROVE IInv'
  BY <1>4, LockIInv
<1>5. ASSUME NEW t \in Tasks, OS_Sched(t) PROVE IInv'
  BY <1>5, SchedIInv
<1>6. ASSUME NEW t \in Tasks, PendReturn(t) PROVE IInv'
  BY <1>6, PendReturnIInv
<1>7. CASE TickISR
  BY <1>7, TickIInv
<1>8. CASE DeviceISR
  BY <1>8, DeviceIInv DEF DeviceISR
<1>9. CASE OSIntExit
  BY <1>9, IntExitIInv
<1>10. CASE UNCHANGED vars
  BY <1>10, StutterIInv DEF vars
<1>. QED
  BY <1>1, <1>2, <1>3, <1>4, <1>5, <1>6, <1>7, <1>8, <1>9, <1>10
     DEF Next, OtherStep, KernelStep, Interrupt

(* The steps that change neither the type of an event nor what has been    *)
(* checked.                                                                *)
LEMMA CheckFrame ==
  ASSUME Checks, UNCHANGED <<OSEventType, checked>>
  PROVE  Checks'
  BY DEF Checks, IsSem

(* A critical section ends what its check has begun.                       *)
LEMMA EnterChecks ==
  ASSUME Checks, NEW t \in Tasks, NEW e \in Events, Enter(t, e), UNCHANGED OSEventType
  PROVE  Checks'
  BY DEF Checks, IsSem, Enter

LEMMA SemStepChecks ==
  ASSUME IInv, Checks, NEW t \in Tasks, NEW e \in Events, SemStep(t, e)
  PROVE  Checks'
<1>1. ASSUME NEW cnt \in InitialCnts, OSSemCreate(t, e, cnt) PROVE Checks'
  <2>1. OSEventType' = [OSEventType EXCEPT ![e] = "SEM"] /\ checked' = checked
    BY <1>1 DEF OSSemCreate
  <2>. QED BY <2>1 DEF Checks, IsSem, IInv, TypeOK
<1>2. CASE Check(t, e)
  <2>1. OSEventType' = OSEventType
    BY <1>2 DEF Check, coreVars, eventVars
  <2>. QED BY <1>2, <2>1 DEF Check, Checks, IsSem
<1>3. CASE SemCall(t, e)
  <2>1. Enter(t, e) /\ OSEventType' = OSEventType
    BY <1>3 DEF SemCall, OSSemAccept, OSSemPendTake, OSSemPendBlock, OSSemPendAbort,
                OSSemPost, OSSemSet, OSSemUnchanged, PostToWaiter, PostCount,
                coreVars, eventVars
  <2>. QED BY <2>1, EnterChecks
<1>4. CASE CarefulDelete(t, e)
  <2>1. /\ checked' = [checked EXCEPT ![t] = NoEvent]
        /\ OSEventType' = [OSEventType EXCEPT ![e] = "UNUSED"]
        /\ \A u \in Tasks \ {t} : checked[u] # e
    BY <1>4 DEF CarefulDelete, SemDelete, OSSemDelNoPend, OSSemDelAlways, Enter, Release
  <2>. QED BY <2>1 DEF Checks, IsSem, IInv, TypeOK
<1>. QED BY <1>1, <1>2, <1>3, <1>4 DEF SemStep

LEMMA NextChecks == IInv /\ Checks /\ [Next]_vars => Checks'
<1> SUFFICES ASSUME IInv, Checks, [Next]_vars PROVE Checks'
  OBVIOUS
<1>1. ASSUME NEW t \in Tasks, NEW e \in Events, SemStep(t, e) PROVE Checks'
  BY <1>1, SemStepChecks
<1>2. ASSUME NEW t \in Tasks, OtherStep(t) PROVE Checks'
  <2>1. UNCHANGED <<OSEventType, checked>>
    BY <1>2 DEF OtherStep, TimeCall, TaskCall, OSTimeDly, OSTimeDlyResume, OSTaskSuspend,
                OSTaskResume, OSSchedLock, OSSchedUnlock, eventVars
  <2>. QED BY <2>1, CheckFrame
<1>3. ASSUME NEW t \in Tasks, KernelStep(t) PROVE Checks'
  <2>1. UNCHANGED <<OSEventType, checked>>
    BY <1>3 DEF KernelStep, OS_Sched, PendReturn, eventVars
  <2>. QED BY <2>1, CheckFrame
<1>4. CASE DeviceISR
  <2>1. UNCHANGED <<OSEventType, checked>>
    BY <1>4 DEF DeviceISR, SemPostISR, PostToWaiter, PostCount
  <2>. QED BY <2>1, CheckFrame
<1>5. CASE Interrupt
  <2>1. UNCHANGED <<OSEventType, checked>>
    BY <1>5 DEF Interrupt, TickISR, OSTimeTick, OSIntExit, eventVars
  <2>. QED BY <2>1, CheckFrame
<1>6. CASE UNCHANGED vars
  BY <1>6, CheckFrame DEF vars, coreVars, eventVars
<1>. QED BY <1>1, <1>2, <1>3, <1>4, <1>5, <1>6 DEF Next

LEMMA InitChecks == Init => Checks
  BY DEF Init, Checks

(* IInv and Checks hold in every state the kernel can reach.               *)
THEOREM Invariance == Spec => [](IInv /\ Checks)
<1>1. Init => IInv /\ Checks
  BY InitIInv, InitChecks
<1>2. IInv /\ Checks /\ [Next]_vars => (IInv /\ Checks)'
  BY NextIInv, NextChecks
<1>. QED BY <1>1, <1>2, PTL DEF Spec

(* Type correctness: every table of the kernel keeps its type.             *)
THEOREM TypeCorrect == Spec => []TypeOK
<1>1. IInv => TypeOK
  BY DEF IInv
<1>. QED BY <1>1, Invariance, PTL

(* OSRdyGrp and OSRdyTbl[] hold exactly the tasks that wait for nothing.   *)
THEOREM ReadyListCorrect == Spec => []ReadyListExact
<1>1. IInv => ReadyListExact
  BY ListsExact DEF IInv
<1>. QED BY <1>1, Invariance, PTL

(* Every wait list holds exactly the tasks that pend on the event and the  *)
(* ones that timed out and have not run.                                   *)
THEOREM WaitListCorrect == Spec => []WaitListExact
<1>1. IInv => WaitListExact
  BY ListsExact DEF IInv
<1>. QED BY <1>1, Invariance, PTL

(* OS_Sched() and OSIntExit() are called wherever they have to be: the     *)
(* task that runs is the ready one of highest priority.                    *)
THEOREM SchedulerCorrect == Spec => []HighestPriorityRuns
<1>1. IInv => HighestPriorityRuns
  BY DEF IInv
<1>. QED BY <1>1, Invariance, PTL

(* No task sleeps next to a token of the semaphore it waits for.           *)
THEOREM NoLostToken == Spec => []NoTokenPastWaiter
<1>1. IInv => NoTokenPastWaiter
  BY DEF IInv
<1>. QED BY <1>1, Invariance, PTL

(* No task is on the wait list of an event that has been deleted.          *)
THEOREM DeletionSafe == Spec => []NoDanglingWait
<1>1. IInv => NoDanglingWait
  BY DEF IInv
<1>. QED BY <1>1, Invariance, PTL
-----------------------------------------------------------------------------
(* The kernel implements the abstract semaphore: every step is a step of   *)
(* SemAbs, or leaves what SemAbs can see as it is.                         *)

(* How far the call of a task is, as its TCB says.                         *)
LEMMA StateView ==
  ASSUME IInv, NEW t \in Tasks
  PROVE  /\ OSTCBEventPtr[t] = NoEvent => PendState(t) = "idle"
         /\ OSTCBEventPtr[t] # NoEvent =>
              /\ "SEM" \in OSTCBStat[t] => PendState(t) = "waiting"
              /\ "SEM" \notin OSTCBStat[t] =>
                   PendState(t) = CASE OSTCBStatPend[t] = "OK"    -> "acquired"
                                    [] OSTCBStatPend[t] = "TO"    -> "expired"
                                    [] OSTCBStatPend[t] = "ABORT" -> "aborted"
  BY DEF PendState

LEMMA SameState ==
  ASSUME NEW t \in Tasks, OSTCBEventPtr'[t] = OSTCBEventPtr[t],
         ("SEM" \in OSTCBStat'[t]) <=> ("SEM" \in OSTCBStat[t]),
         OSTCBStatPend'[t] = OSTCBStatPend[t] \/ "SEM" \in OSTCBStat[t]
           \/ OSTCBEventPtr[t] = NoEvent
  PROVE  PendState(t)' = PendState(t)
<1>1. CASE OSTCBEventPtr[t] = NoEvent
  BY <1>1 DEF PendState
<1>2. CASE OSTCBEventPtr[t] # NoEvent /\ "SEM" \in OSTCBStat[t]
  BY <1>2 DEF PendState
<1>3. CASE /\ OSTCBEventPtr[t] # NoEvent /\ "SEM" \notin OSTCBStat[t]
           /\ OSTCBStatPend'[t] = OSTCBStatPend[t]
  BY <1>3 DEF PendState
<1>. QED BY <1>1, <1>2, <1>3

LEMMA ReachableIs ==
  ASSUME IInv, NEW e \in Events
  PROVE  Abs!Reachable(e) = WaitSet(e)
<1> SUFFICES ASSUME NEW t \in Tasks
             PROVE  (/\ (IF OSTCBEventPtr[t] = NoEvent THEN "none" ELSE OSTCBEventPtr[t]) = e
                     /\ PendState(t) \in {"waiting", "expired"})
                      <=> OnWaitList(t, e)
  BY DEF Abs!Reachable, WaitSet
<1>1. /\ OSTCBEventMultiPtr[t] = {} /\ TaskOK(t) /\ OSTCBStatPend[t] \in {"OK", "TO", "ABORT"}
      /\ e # NoEvent
  BY CoreAssumption DEF IInv, Fixed, TypeOK, PendStats
<1>2. OnWaitList(t, e) <=> OSTCBEventPtr[t] = e /\ ("SEM" \in OSTCBStat[t] \/ OSTCBStatPend[t] = "TO")
  BY <1>1 DEF OnWaitList, TaskOK, PendAny
<1>3. CASE OSTCBEventPtr[t] = NoEvent
  BY <1>1, <1>2, <1>3, StateView
<1>4. CASE OSTCBEventPtr[t] # NoEvent /\ "SEM" \in OSTCBStat[t]
  BY <1>1, <1>2, <1>4, StateView
<1>5. CASE OSTCBEventPtr[t] # NoEvent /\ "SEM" \notin OSTCBStat[t]
  BY <1>1, <1>2, <1>5, StateView
<1>. QED BY <1>3, <1>4, <1>5

(* The post and the abort pick the waiter SemAbs picks.                    *)
LEMMA FirstIs ==
  ASSUME IInv, NEW e \in Events, Waiting(e)
  PROVE  \E t \in WaitSet(e) : HighestWaiter(e) = PriosOf({t}) /\ Abs!First(e) = {t}
<1>1. PriosOf(WaitSet(e)) \in SUBSET Prios /\ WaitSet(e) \in SUBSET Tasks
  BY PriosOfType DEF WaitSet
<1>2. OSEventTbl[e] = MapOf(PriosOf(WaitSet(e))) /\ WaitSet(e) # {}
  BY Waiters DEF IInv, Lists
<1>3. PICK t \in WaitSet(e) : /\ MapHighest(MapOf(PriosOf(WaitSet(e)))) = BasePrio[t]
                              /\ \A u \in WaitSet(e) : BasePrio[t] <= BasePrio[u]
  BY <1>1, <1>2, HeadOf
<1>4. \A u \in WaitSet(e) : BasePrio[u] \in Int /\ (u # t => BasePrio[u] # BasePrio[t])
  BY <1>1, CoreAssumption DEF Prios
<1>5. Abs!First(e) = {t}
  BY <1>3, <1>4, ReachableIs DEF Abs!First
<1>. QED BY <1>2, <1>3, <1>5, PriosOfOne DEF HighestWaiter

LEMMA SimFrame ==
  ASSUME UNCHANGED <<OSEventType, OSEventCnt, OSTCBEventPtr>>,
         \A t \in Tasks : PendState(t)' = PendState(t)
  PROVE  UNCHANGED Abs!absVars
<1>1. \A e \in Events : IsSem(e)' = IsSem(e)
  BY DEF IsSem
<1>. QED BY <1>1 DEF Abs!absVars

LEMMA SimInit == Init => Abs!AbsInit
<1> SUFFICES ASSUME Init PROVE Abs!AbsInit
  OBVIOUS
<1>1. \A e \in Events : IsSem(e) = FALSE
  BY DEF Init, IsSem
<1>2. \A t \in Tasks : OSTCBEventPtr[t] = NoEvent /\ PendState(t) = "idle"
  BY DEF Init, CoreInit, PendState
<1>. QED BY <1>1, <1>2 DEF Abs!AbsInit, Abs!NoSem, Init

(* The type or the count of one event changes, the tasks do not.           *)
LEMMA SimTasksFrame ==
  ASSUME UNCHANGED tcbVars
  PROVE  OSTCBEventPtr' = OSTCBEventPtr /\ \A t \in Tasks : PendState(t)' = PendState(t)
  BY SameState DEF tcbVars

LEMMA SimCreate ==
  ASSUME IInv, NEW t \in Tasks, NEW e \in Events, NEW cnt \in InitialCnts, OSSemCreate(t, e, cnt)
  PROVE  Abs!Create(e, cnt)
<1>1. /\ UNCHANGED tcbVars /\ OSEventType[e] = "UNUSED"
      /\ OSEventType' = [OSEventType EXCEPT ![e] = "SEM"]
      /\ OSEventCnt' = [OSEventCnt EXCEPT ![e] = cnt]
  BY DEF OSSemCreate
<1>2. ~IsSem(e) /\ IsSem(e)' /\ \A f \in Events \ {e} : IsSem(f)' = IsSem(f)
  BY <1>1 DEF IsSem, IInv, TypeOK
<1>. QED BY <1>1, <1>2, SimTasksFrame DEF Abs!Create

LEMMA SimCount ==
  ASSUME IInv, NEW t \in Tasks, NEW e \in Events, IsSem(e), UNCHANGED <<tcbVars, OSEventType>>,
         \/ OSSemAccept(t, e) \/ OSSemPendTake(t, e)
         \/ \E cnt \in InitialCnts : OSSemSet(t, e, cnt)
         \/ PostCount(e)
  PROVE  Abs!AbsNext
<1>1. /\ OSTCBEventPtr' = OSTCBEventPtr /\ \A u \in Tasks : PendState(u)' = PendState(u)
      /\ \A f \in Events : IsSem(f)' = IsSem(f)
  BY SimTasksFrame DEF IsSem
<1>2. CASE OSSemAccept(t, e) \/ OSSemPendTake(t, e)
  <2>1. Abs!Take(e)
    BY <1>1, <1>2 DEF OSSemAccept, OSSemPendTake, Abs!Take
  <2>. QED BY <2>1 DEF Abs!AbsNext
<1>3. ASSUME NEW cnt \in InitialCnts, OSSemSet(t, e, cnt) PROVE Abs!AbsNext
  <2>1. ~Waiting(e)
    BY <1>3 DEF OSSemSet, IInv, NoTokenPastWaiter
  <2>2. Abs!Reachable(e) = {}
    BY <2>1, NoWaiters, ReachableIs
  <2>3. Abs!Set(e, cnt)
    BY <1>1, <1>3, <2>2 DEF OSSemSet, Abs!Set
  <2>. QED BY <2>3 DEF Abs!AbsNext
<1>4. CASE PostCount(e)
  <2>1. Abs!Reachable(e) = {}
    BY <1>4, NoWaiters, ReachableIs DEF PostCount
  <2>2. Abs!Signal(e)
    BY <1>1, <1>4, <2>1 DEF PostCount, Abs!Signal
  <2>. QED BY <2>2 DEF Abs!AbsNext
<1>. QED BY <1>2, <1>3, <1>4

LEMMA SimWait ==
  ASSUME IInv, NEW t \in Tasks, NEW e \in Events, NEW timeout \in Timeouts,
         IsSem(e), OSSemPendBlock(t, e, timeout)
  PROVE  Abs!Wait(t, e)
<1>1. OSTCBEventPtr[t] = NoEvent
  BY Caller DEF OSSemPendBlock, Enter
<1>2. /\ OSEventCnt[e] = 0
      /\ OSTCBStat' = [OSTCBStat EXCEPT ![t] = OSTCBStat[t] \cup {"SEM"}]
      /\ OSTCBStatPend' = [OSTCBStatPend EXCEPT ![t] = "OK"]
      /\ OSTCBEventPtr' = [OSTCBEventPtr EXCEPT ![t] = e]
      /\ UNCHANGED <<OSEventType, OSEventCnt>>
  BY DEF OSSemPendBlock, OS_EventTaskWait, EventTaskWait
<1>3. PendState(t) = "idle" /\ e # NoEvent
  BY <1>1, StateView, CoreAssumption
<1>4. PendState(t)' = "waiting"
  <2>1. OSTCBEventPtr'[t] = e /\ "SEM" \in OSTCBStat'[t]
    BY <1>2 DEF IInv, TypeOK
  <2>. QED BY <1>3, <2>1 DEF PendState
<1>5. \A u \in Tasks \ {t} : PendState(u)' = PendState(u)
  BY <1>2, SameState DEF IInv, TypeOK
<1>6. \A f \in Events : IsSem(f)' = IsSem(f)
  BY <1>2 DEF IsSem
<1>7. \A u \in Tasks : OSTCBEventPtr'[u] = IF u = t THEN e ELSE OSTCBEventPtr[u]
  BY <1>2 DEF IInv, TypeOK
<1>. QED BY <1>2, <1>3, <1>4, <1>5, <1>6, <1>7 DEF Abs!Wait, Abs!Settle

(* The calls of the tasks that are taken off a wait list are settled.      *)
LEMMA SimReadied ==
  ASSUME IInv, NEW e \in Events, NEW ts \in SUBSET WaitSet(e), NEW s \in {"OK", "ABORT"},
         OS_EventTaskRdy(e, PriosOf(ts), "SEM", s)
  PROVE  /\ OSTCBEventPtr' = OSTCBEventPtr
         /\ \A t \in Tasks : PendState(t)' = IF t \in ts
                                               THEN IF s = "OK" THEN "acquired" ELSE "aborted"
                                               ELSE PendState(t)
<1>1. /\ OSTCBDly' = [t \in Tasks |-> IF t \in ts THEN 0 ELSE OSTCBDly[t]]
      /\ OSTCBStat' = [t \in Tasks |-> IF t \in ts THEN OSTCBStat[t] \ {"SEM"} ELSE OSTCBStat[t]]
      /\ OSTCBStatPend' = [t \in Tasks |-> IF t \in ts THEN s ELSE OSTCBStatPend[t]]
      /\ OSTCBEventPtr' = OSTCBEventPtr
      /\ OSRdyTbl' = MapOf(PriosOf(ReadySet \cup {t \in ts : "SUSPEND" \notin OSTCBStat[t]}))
      /\ OSEventTbl' = [f \in Events |-> MapOf(PriosOf(IF f = e THEN WaitSet(f) \ ts
                                                               ELSE WaitSet(f)))]
  BY RdyEffect
<1>2. ASSUME NEW t \in Tasks, t \in ts
      PROVE  PendState(t)' = IF s = "OK" THEN "acquired" ELSE "aborted"
  <2>1. OSTCBEventPtr[t] # NoEvent
    BY <1>2, CoreAssumption DEF WaitSet, OnWaitList, IInv, Fixed
  <2>2. OSTCBEventPtr'[t] # NoEvent /\ "SEM" \notin OSTCBStat'[t] /\ OSTCBStatPend'[t] = s
    BY <1>1, <1>2, <2>1
  <2>. QED BY <2>2 DEF PendState
<1>3. ASSUME NEW t \in Tasks, t \notin ts PROVE PendState(t)' = PendState(t)
  BY <1>1, <1>3, SameState
<1>. QED BY <1>1, <1>2, <1>3

LEMMA SimSignal ==
  ASSUME IInv, NEW e \in Events, IsSem(e), PostToWaiter(e)
  PROVE  Abs!Signal(e)
<1>1. PICK t \in WaitSet(e) : HighestWaiter(e) = PriosOf({t}) /\ Abs!First(e) = {t}
  BY FirstIs DEF PostToWaiter
<1>2. OS_EventTaskRdy(e, PriosOf({t}), "SEM", "OK") /\ UNCHANGED <<OSEventType, OSEventCnt>>
  BY <1>1 DEF PostToWaiter
<1>3. /\ OSTCBEventPtr' = OSTCBEventPtr
      /\ \A u \in Tasks : PendState(u)' = IF u = t THEN "acquired" ELSE PendState(u)
  BY <1>1, <1>2, SimReadied
<1>4. Abs!Reachable(e) # {} /\ \A f \in Events : IsSem(f)' = IsSem(f)
  BY <1>1, <1>2, ReachableIs DEF IsSem
<1>. QED BY <1>1, <1>2, <1>3, <1>4 DEF Abs!Signal, Abs!Settle

LEMMA SimAbort ==
  ASSUME IInv, NEW t \in Tasks, NEW e \in Events, NEW broadcast \in BOOLEAN, IsSem(e),
         OSSemPendAbort(t, e, broadcast)
  PROVE  Abs!Abort(e)
<1>1. PICK ts \in SUBSET WaitSet(e) :
        /\ (IF broadcast THEN AllWaiters(e) ELSE HighestWaiter(e)) = PriosOf(ts)
        /\ ts = Abs!First(e) \/ ts = Abs!Reachable(e)
  <2>1. CASE broadcast
    BY <2>1, AllOver, ReachableIs
  <2>2. CASE ~broadcast
    BY <2>2, FirstIs DEF OSSemPendAbort
  <2>. QED BY <2>1, <2>2
<1>2. OS_EventTaskRdy(e, PriosOf(ts), "SEM", "ABORT") /\ UNCHANGED <<OSEventType, OSEventCnt>>
      /\ Waiting(e)
  BY <1>1 DEF OSSemPendAbort
<1>3. /\ OSTCBEventPtr' = OSTCBEventPtr
      /\ \A u \in Tasks : PendState(u)' = IF u \in ts THEN "aborted" ELSE PendState(u)
  BY <1>1, <1>2, SimReadied
<1>4. Abs!Reachable(e) # {} /\ \A f \in Events : IsSem(f)' = IsSem(f)
  BY <1>2, NoWaiters, ReachableIs DEF IsSem
<1>. QED BY <1>1, <1>2, <1>3, <1>4 DEF Abs!Abort, Abs!Settle

LEMMA SimDelete ==
  ASSUME IInv, NEW t \in Tasks, NEW e \in Events, IsSem(e), SemDelete(t, e)
  PROVE  Abs!Delete(e)
<1>1. /\ OSTCBEventPtr' = OSTCBEventPtr
      /\ \A u \in Tasks : PendState(u)' = IF u \in WaitSet(e) THEN "acquired" ELSE PendState(u)
  <2>1. CASE OSSemDelNoPend(t, e)
    BY <2>1, NoWaiters, SimTasksFrame DEF OSSemDelNoPend
  <2>2. CASE OSSemDelAlways(t, e)
    <3>1. OS_EventTaskRdy(e, PriosOf(WaitSet(e)), "SEM", "OK")
      BY <2>2, AllOver DEF OSSemDelAlways
    <3>2. WaitSet(e) \in SUBSET WaitSet(e)
      OBVIOUS
    <3>. QED BY <3>1, <3>2, SimReadied
  <2>. QED BY <2>1, <2>2 DEF SemDelete
<1>2. /\ OSEventType' = [OSEventType EXCEPT ![e] = "UNUSED"]
      /\ OSEventCnt' = [OSEventCnt EXCEPT ![e] = 0]
  BY DEF SemDelete, OSSemDelNoPend, OSSemDelAlways, Release
<1>3. IsSem(e)' = FALSE /\ \A f \in Events \ {e} : IsSem(f)' = IsSem(f)
  BY <1>2 DEF IsSem, IInv, TypeOK
<1>4. Abs!Reachable(e) = WaitSet(e)
  BY ReachableIs
<1>. QED BY <1>1, <1>2, <1>3, <1>4 DEF Abs!Delete, Abs!Settle

LEMMA SimReturn ==
  ASSUME IInv, NEW t \in Tasks, PendReturn(t)
  PROVE  Abs!Return(t)
<1>1. /\ pc[t] = "wake" /\ Runnable(t)
  BY WakerK, Scheduler DEF PendReturn
<1>2. /\ OSTCBStat' = [OSTCBStat EXCEPT ![t] = {}]
      /\ OSTCBStatPend' = [OSTCBStatPend EXCEPT ![t] = "OK"]
      /\ OSTCBEventPtr' = [OSTCBEventPtr EXCEPT ![t] = NoEvent]
      /\ UNCHANGED <<OSEventType, OSEventCnt>>
  BY DEF PendReturn
<1>3. OSTCBEventPtr[t] # NoEvent /\ "SEM" \notin OSTCBStat[t]
  BY <1>1 DEF IInv, TaskOK, Runnable
<1>4. PendState(t) \in {"expired", "acquired", "aborted"}
  BY <1>3, StateView DEF IInv, TypeOK, PendStats
<1>5. PendState(t)' = "idle"
  BY <1>2 DEF PendState, IInv, TypeOK
<1>6. \A u \in Tasks \ {t} : PendState(u)' = PendState(u)
  BY <1>2, SameState DEF IInv, TypeOK
<1>7. \A f \in Events : IsSem(f)' = IsSem(f)
  BY <1>2 DEF IsSem
<1>8. \A u \in Tasks : OSTCBEventPtr'[u] = IF u = t THEN NoEvent ELSE OSTCBEventPtr[u]
  BY <1>2 DEF IInv, TypeOK
<1>. QED BY <1>2, <1>4, <1>5, <1>6, <1>7, <1>8 DEF Abs!Return, Abs!Settle, Abs!NoSem

(* Delays that run out.                                                    *)
LEMMA SimExpire ==
  ASSUME IInv, NEW ts \in SUBSET Tasks, NEW dly, Expire(ts, dly),
         \A t \in ts : OSTCBDly[t] # 0,
         UNCHANGED <<OSTCBEventPtr, OSEventType, OSEventCnt>>
  PROVE  Abs!TimeOut({t \in ts : "SEM" \in OSTCBStat[t]})
<1>1. /\ OSTCBStat' = [t \in Tasks |-> IF t \in ts /\ OSTCBStat[t] \cap PendAny # {}
                                          THEN OSTCBStat[t] \ PendAny ELSE OSTCBStat[t]]
      /\ OSTCBStatPend' = [t \in Tasks |->
                             IF t \in ts /\ OSTCBStat[t] \cap PendAny # {} THEN "TO"
                             ELSE IF t \in ts THEN "OK" ELSE OSTCBStatPend[t]]
  BY DEF Expire
<1>2. \A t \in Tasks : OSTCBStat[t] \cap PendAny # {} <=> "SEM" \in OSTCBStat[t]
  BY DEF IInv, TaskOK, PendAny
<1>3. ASSUME NEW t \in Tasks
      PROVE  /\ t \in ts /\ "SEM" \in OSTCBStat[t] =>
                  PendState(t) = "waiting" /\ PendState(t)' = "expired"
             /\ ~(t \in ts /\ "SEM" \in OSTCBStat[t]) => PendState(t)' = PendState(t)
  <2>1. CASE t \in ts /\ "SEM" \in OSTCBStat[t]
    <3>1. OSTCBEventPtr[t] # NoEvent
      BY <2>1 DEF IInv, TaskOK
    <3>2. "SEM" \notin OSTCBStat'[t] /\ OSTCBStatPend'[t] = "TO" /\ OSTCBEventPtr'[t] # NoEvent
      BY <1>1, <1>2, <2>1, <3>1 DEF PendAny
    <3>. QED BY <2>1, <3>1, <3>2, StateView DEF PendState
  <2>2. CASE ~(t \in ts /\ "SEM" \in OSTCBStat[t])
    <3>1. OSTCBStat'[t] = OSTCBStat[t]
      BY <1>1, <1>2, <2>2
    <3>2. OSTCBStatPend'[t] = OSTCBStatPend[t] \/ OSTCBEventPtr[t] = NoEvent
      <4>1. CASE t \in ts
        BY <2>2, <4>1 DEF IInv, TaskOK
      <4>. QED BY <1>1, <4>1
    <3>. QED BY <2>2, <3>1, <3>2, SameState
  <2>. QED BY <2>1, <2>2
<1>4. \A f \in Events : IsSem(f)' = IsSem(f)
  BY DEF IsSem
<1>. QED BY <1>3, <1>4 DEF Abs!TimeOut, Abs!Settle

LEMMA SimSemStep ==
  ASSUME IInv, Checks, NEW t \in Tasks, NEW e \in Events, SemStep(t, e)
  PROVE  Abs!AbsNext \/ UNCHANGED Abs!absVars
<1>1. ASSUME NEW cnt \in InitialCnts, OSSemCreate(t, e, cnt) PROVE Abs!AbsNext
  BY <1>1, SimCreate DEF Abs!AbsNext
<1>2. CASE Check(t, e) \/ OSSemUnchanged(t, e)
  <2>1. UNCHANGED coreVars
    BY <1>2 DEF Check, OSSemUnchanged
  <2>2. UNCHANGED <<tcbVars, OSEventType, OSEventCnt>>
    BY <2>1 DEF coreVars, eventVars
  <2>. QED BY <2>2, SimTasksFrame, SimFrame
<1>3. CASE checked[t] = e
  <2>1. IsSem(e)
    BY <1>3, CoreAssumption DEF Checks
  <2>2. CASE \/ OSSemAccept(t, e) \/ OSSemPendTake(t, e)
             \/ \E cnt \in InitialCnts : OSSemSet(t, e, cnt)
    <3>1. UNCHANGED <<tcbVars, OSEventType>>
      BY <2>2 DEF OSSemAccept, OSSemPendTake, OSSemSet
    <3>. QED BY <2>1, <2>2, <3>1, SimCount
  <2>3. ASSUME NEW timeout \in Timeouts, OSSemPendBlock(t, e, timeout) PROVE Abs!AbsNext
    BY <2>1, <2>3, SimWait DEF Abs!AbsNext
  <2>4. ASSUME NEW broadcast \in BOOLEAN, OSSemPendAbort(t, e, broadcast) PROVE Abs!AbsNext
    BY <2>1, <2>4, SimAbort DEF Abs!AbsNext
  <2>5. CASE OSSemPost(t, e)
    <3>1. CASE PostToWaiter(e)
      BY <2>1, <3>1, SimSignal DEF Abs!AbsNext
    <3>2. CASE PostCount(e)
      BY <2>1, <3>2, SimCount DEF PostCount
    <3>. QED BY <2>5, <3>1, <3>2 DEF OSSemPost
  <2>6. CASE CarefulDelete(t, e)
    BY <2>1, <2>6, SimDelete DEF CarefulDelete, Abs!AbsNext
  <2>. QED BY <1>1, <1>2, <2>2, <2>3, <2>4, <2>5, <2>6 DEF SemStep, SemCall
<1>4. (SemCall(t, e) /\ ~OSSemUnchanged(t, e)) \/ CarefulDelete(t, e) => checked[t] = e
  BY DEF SemCall, OSSemAccept, OSSemPendTake, OSSemPendBlock, OSSemPendAbort, OSSemPost,
         OSSemSet, CarefulDelete, SemDelete, OSSemDelNoPend, OSSemDelAlways, Enter
<1>. QED BY <1>1, <1>2, <1>3, <1>4 DEF SemStep

(* Delays, suspension and the scheduler lock: only a delay that runs out   *)
(* is seen by a caller of OSSemPend().                                     *)
LEMMA SimOtherStep ==
  ASSUME IInv, NEW t \in Tasks, OtherStep(t)
  PROVE  Abs!AbsNext \/ UNCHANGED Abs!absVars
<1>. UNCHANGED <<OSTCBEventPtr, OSEventType, OSEventCnt>>
  BY DEF OtherStep, TimeCall, OSTimeDly, OSTimeDlyResume, TaskCall, OSTaskSuspend,
         OSTaskResume, OSSchedLock, OSSchedUnlock, tcbVars, eventVars
<1>1. CASE \E prio \in Prios : OSTimeDlyResume(t, prio)
  <2>. PICK prio \in Prios, u \in Tasks : OSTimeDlyResume(t, prio) /\ u = OSTCBPrioTbl[prio]
    BY <1>1 DEF OSTimeDlyResume
  <2>1. Expire({u}, [OSTCBDly EXCEPT ![u] = 0]) /\ OSTCBDly[u] # 0
    BY DEF OSTimeDlyResume
  <2>2. Abs!TimeOut({v \in {u} : "SEM" \in OSTCBStat[v]})
    BY <2>1, SimExpire
  <2>. QED BY <2>2 DEF Abs!AbsNext
<1>2. CASE \/ \E ticks \in Delays : OSTimeDly(t, ticks)
           \/ TaskCall(t) \/ OSSchedLock(t) \/ OSSchedUnlock(t)
  <2>1. OSTCBStatPend' = OSTCBStatPend
    BY <1>2 DEF OSTimeDly, TaskCall, OSTaskSuspend, OSTaskResume, OSSchedLock, OSSchedUnlock,
                tcbVars
  <2>2. \A u \in Tasks : "SEM" \in OSTCBStat'[u] <=> "SEM" \in OSTCBStat[u]
    <3>1. CASE TaskCall(t)
      BY <3>1 DEF TaskCall, OSTaskSuspend, OSTaskResume, IInv, TypeOK
    <3>2. CASE \E ticks \in Delays : OSTimeDly(t, ticks)
      BY <3>2 DEF OSTimeDly
    <3>3. CASE OSSchedLock(t) \/ OSSchedUnlock(t)
      BY <3>3 DEF OSSchedLock, OSSchedUnlock, tcbVars
    <3>. QED BY <1>2, <3>1, <3>2, <3>3
  <2>3. \A u \in Tasks : PendState(u)' = PendState(u)
    BY <2>1, <2>2, SameState
  <2>. QED BY <2>3, SimFrame
<1>. QED BY <1>1, <1>2 DEF OtherStep, TimeCall

LEMMA SimKernelStep ==
  ASSUME IInv, NEW t \in Tasks, KernelStep(t)
  PROVE  Abs!AbsNext \/ UNCHANGED Abs!absVars
<1>1. CASE OS_Sched(t)
  BY <1>1, SimTasksFrame, SimFrame DEF OS_Sched, eventVars
<1>2. CASE PendReturn(t)
  BY <1>2, SimReturn DEF Abs!AbsNext
<1>. QED BY <1>1, <1>2 DEF KernelStep

LEMMA SimInterrupt ==
  ASSUME IInv, TickISR \/ OSIntExit
  PROVE  Abs!AbsNext \/ UNCHANGED Abs!absVars
<1>1. CASE TickISR
  <2> DEFINE walked == OSTCBList \ {IdleTask}
             left   == [t \in Tasks |-> IF t \in walked /\ OSTCBDly[t] # 0
                                          THEN OSTCBDly[t] - 1 ELSE OSTCBDly[t]]
             ts     == {t \in walked : OSTCBDly[t] # 0 /\ left[t] = 0}
  <2>1. Expire(ts, left) /\ UNCHANGED <<OSTCBEventPtr, OSEventType, OSEventCnt>>
    BY <1>1 DEF TickISR, OSTimeTick, eventVars
  <2>2. ts \in SUBSET Tasks /\ \A t \in ts : OSTCBDly[t] # 0
    BY DEF IInv, Fixed
  <2> HIDE DEF ts, left
  <2>3. Abs!TimeOut({t \in ts : "SEM" \in OSTCBStat[t]})
    BY <2>1, <2>2, SimExpire
  <2>4. {t \in ts : "SEM" \in OSTCBStat[t]} \in SUBSET Tasks
    BY <2>2
  <2>. QED BY <2>3, <2>4 DEF Abs!AbsNext
<1>2. CASE OSIntExit
  BY <1>2, SimTasksFrame, SimFrame DEF OSIntExit, eventVars
<1>. QED BY <1>1, <1>2

LEMMA SimNext ==
  ASSUME IInv, Checks, [Next]_vars
  PROVE  [Abs!AbsNext]_(Abs!absVars)
<1>1. CASE \E t \in Tasks, e \in Events : SemStep(t, e)
  BY <1>1, SimSemStep
<1>2. CASE \E t \in Tasks : OtherStep(t) \/ KernelStep(t)
  BY <1>2, SimOtherStep, SimKernelStep
<1>3. CASE DeviceISR
  <2>1. PICK e \in Events : SemPostISR(e)
    BY <1>3 DEF DeviceISR
  <2>2. CASE PostToWaiter(e)
    BY <2>1, <2>2, SimSignal DEF SemPostISR, Abs!AbsNext
  <2>3. CASE PostCount(e)
    <3>1. PICK t \in Tasks : TRUE
      BY CoreAssumption
    <3>. QED BY <2>1, <2>3, SimCount DEF SemPostISR, PostCount
  <2>. QED BY <2>1, <2>2, <2>3 DEF SemPostISR
<1>4. CASE Interrupt
  BY <1>4, SimInterrupt DEF Interrupt
<1>5. CASE UNCHANGED vars
  BY <1>5, SimTasksFrame, SimFrame DEF vars, coreVars, eventVars
<1>. QED BY <1>1, <1>2, <1>3, <1>4, <1>5 DEF Next

(* The kernel implements the abstract semaphore: a post is one token, for  *)
(* the waiter of highest priority or for the count; a task that has been   *)
(* handed a token returns with it even if it had timed out before; and     *)
(* nothing else ends a wait.                                               *)
THEOREM SemImplemented == Spec => ImplementsSem
<1>1. Init => Abs!AbsInit
  BY SimInit
<1>2. IInv /\ Checks /\ [Next]_vars => [Abs!AbsNext]_(Abs!absVars)
  BY SimNext
<1>. QED BY <1>1, <1>2, Invariance, PTL DEF Spec, ImplementsSem, Abs!AbsSpec
=============================================================================
