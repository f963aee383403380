--------------------------- MODULE TaskSystem_proofs ---------------------------
(***************************************************************************)
(* The table of tasks, the lists and the running task of the kernel, for   *)
(* any tasks that create, delete and suspend one another while they pend   *)
(* on semaphores, as long as none is suspended while it pends on several   *)
(* or before OS_TCBInit() has linked it: the condition Careful, which run  *)
(* task_core makes as well.                                                *)
(*                                                                         *)
(* A priority belongs to one task after another here, so the lists are     *)
(* sets of current priorities of tasks that are alive.                     *)
(***************************************************************************)
EXTENDS TaskSystem, OSCore_proofs

Careful == ~SuspendMulti /\ ~SuspendUnlinked

Makes(t)   == making[t] # NotMaking
Deletes(t) == deleting[t] # NotMaking

Current(ts)  == {OSTCBPrio[t] : t \in ts}
ReadyTasks   == {t \in Alive : Unblocked(t)}
WaitTasks(e) == {t \in Alive : InPend(t) /\ Pending(t) /\ e \in WaitsOn(t)}

Typed ==
  /\ TypeOK
  /\ checked \in [Tasks -> Events \cup {NoEvent}]
  /\ asked \in [Tasks -> SUBSET Events]
  /\ OSTCBFreeList \in SUBSET Tasks
  /\ making \in [Tasks -> Makings \cup {NotMaking}]
  /\ deleting \in [Tasks -> Deletions \cup {NotMaking}]

(* A linked task is found under its priority, a free TCB under none; a     *)
(* priority is reserved only on behalf of a task that creates another, and *)
(* such a one has each TCB that is neither free nor linked.  Two tasks may *)
(* be at it, but not for the same priority.                                *)
Table ==
  /\ OSTCBFreeList \cap OSTCBList = {}
  /\ \A t \in OSTCBList : OSTCBPrioTbl[OSTCBPrio[t]] = t
  /\ \A p \in Prios : OSTCBPrioTbl[p] \in Tasks =>
       /\ OSTCBPrioTbl[p] \notin OSTCBFreeList
       /\ OSTCBPrio[OSTCBPrioTbl[p]] = p
  /\ \A p \in Prios : OSTCBPrioTbl[p] = Reserved =>
       \E t \in Tasks : Makes(t) /\ making[t].prio = p /\ making[t].step # "link"
  /\ \A u \in Tasks \ (OSTCBFreeList \cup OSTCBList) :
       \E t \in Tasks : Makes(t) /\ making[t].ptcb = u
  /\ \A t, u \in Tasks : Makes(t) /\ Makes(u) /\ making[t].prio = making[u].prio => t = u

(* A TCB as OS_TCBInit() fills it in.                                      *)
Clean(u) ==
  /\ OSTCBStat[u] = {} /\ OSTCBStatPend[u] = "OK" /\ OSTCBDly[u] = 0
  /\ OSTCBEventPtr[u] = NoEvent /\ OSTCBEventMultiPtr[u] = {} /\ pc[u] = "run"

(* A task in OSTaskCreate() is alive and in no other service; from the     *)
(* second step on the new TCB is filled in and nobody has touched it.      *)
MakingOK(t) ==
  LET m == making[t]
  IN  Makes(t) =>
        /\ t \in Alive /\ pc[t] = "run"
        /\ IF m.step \in {"init", "giveup"} THEN m.ptcb = NoTCB
           ELSE /\ m.ptcb \in Tasks \ (OSTCBFreeList \cup OSTCBList)
                /\ OSTCBPrio[m.ptcb] = m.prio /\ Clean(m.ptcb)
        /\ OSTCBPrioTbl[m.prio] = IF m.step = "link" THEN m.ptcb ELSE Reserved

(* The scheduler is locked by the one task that is in OSTaskDel().         *)
DeletingOK(t) ==
  LET d == deleting[t]
  IN  Deletes(t) =>
        /\ t = OSTCBCur /\ t \in OSTCBList /\ pc[t] = "run" /\ ~Makes(t)
        /\ d.ptcb \in OSTCBList \ {IdleTask} /\ ~Makes(d.ptcb)
        /\ OSTCBPrio[d.ptcb] = d.prio /\ OSTCBDly[d.ptcb] = 0

(* One call at a time, and on a semaphore that still exists.               *)
CallOK(t) ==
  /\ checked[t] # NoEvent => IsSem(checked[t]) /\ asked[t] = {}
  /\ checked[t] # NoEvent \/ asked[t] # {} => t \in Alive /\ ~Makes(t) /\ ~Deletes(t)

(* The TCB of a task agrees with how far it is in a pend on one event or   *)
(* on several.                                                             *)
PendOneOK(t) ==
  /\ OSTCBEventPtr[t] \in Events /\ "MULTI" \notin OSTCBStat[t]
  /\ Pending(t) => IsSem(OSTCBEventPtr[t])

PendManyOK(t) ==
  /\ "MULTI" \in OSTCBStat[t] /\ "SUSPEND" \notin OSTCBStat[t]
  /\ \A f \in asked[t] : IsSem(f)
  /\ IF Pending(t) THEN OSTCBEventPtr[t] = NoEvent ELSE OSTCBEventPtr[t] \in asked[t]

PendOK(t) ==
  /\ OSTCBStat[t] \subseteq {"SEM", "SUSPEND", "MULTI"}
  /\ checked[t] = NoEvent
  /\ "SEM" \in OSTCBStat[t] => OSTCBStatPend[t] = "OK"
  /\ "SEM" \notin OSTCBStat[t] => OSTCBDly[t] = 0
  /\ OSTCBEventMultiPtr[t] = asked[t]
  /\ IF asked[t] = {} THEN PendOneOK(t) ELSE PendManyOK(t)

NoPendOK(t) ==
  /\ OSTCBStat[t] \subseteq {"SUSPEND"} /\ OSTCBStatPend[t] = "OK" /\ OSTCBDly[t] = 0
  /\ OSTCBEventPtr[t] = NoEvent /\ OSTCBEventMultiPtr[t] = {}

TaskOK(t) == IF pc[t] \in {"pend", "wake"} THEN PendOK(t) ELSE NoPendOK(t)

(* A task that has deleted itself only goes to the scheduler, and finds    *)
(* its priority gone.                                                      *)
Running ==
  /\ OSPrioCur = OSTCBPrio[OSTCBCur]
  /\ OSTCBCur \in OSTCBList \cup OSTCBFreeList
  /\ OSTCBCur \in OSTCBFreeList => pc[OSTCBCur] = "sched" /\ OSTCBPrioTbl[OSPrioCur] = NoTCB
  /\ OSLockNesting = IF Deletes(OSTCBCur) THEN 1 ELSE 0
  /\ IdleTask \in Alive /\ OSTCBPrio[IdleTask] = LowestPrio
  /\ IdleOK /\ ~Makes(IdleTask)

IInv ==
  /\ Typed /\ Table
  /\ \A t \in Tasks : MakingOK(t) /\ DeletingOK(t) /\ CallOK(t)
  /\ \A t \in Alive : TaskOK(t)
  /\ TaskListsExact /\ Running /\ HighestTaskRuns

-----------------------------------------------------------------------------
(* Sets of linked tasks and the sets of their priorities.                  *)
LEMMA Lives ==
  ASSUME Typed
  PROVE  /\ Alive \in SUBSET OSTCBList /\ OSTCBList \in SUBSET Tasks
         /\ ReadyTasks \in SUBSET Alive /\ \A e : WaitTasks(e) \in SUBSET Alive
  BY DEF Typed, TypeOK, Alive, ReadyTasks, WaitTasks

LEMMA Apart ==
  ASSUME Table, NEW t \in OSTCBList, NEW u \in OSTCBList, OSTCBPrio[t] = OSTCBPrio[u]
  PROVE  t = u
  BY DEF Table

LEMMA CurrentType ==
  ASSUME Typed, NEW A \in SUBSET Tasks
  PROVE  Current(A) \in SUBSET Prios
  BY DEF Typed, TypeOK, Current

LEMMA CurrentOne == \A t : Current({t}) = {OSTCBPrio[t]}
  BY DEF Current

LEMMA CurrentLeave ==
  ASSUME Typed, Table, NEW A \in SUBSET OSTCBList, NEW B \in SUBSET OSTCBList
  PROVE  MapClr(MapOf(Current(A)), Current(B)) = MapOf(Current(A \ B))
<1>1. Current(A) \ Current(B) = Current(A \ B)
  BY Apart DEF Current
<1>2. A \in SUBSET Tasks /\ B \in SUBSET Tasks
  BY Lives
<1>. QED BY <1>1, <1>2, CurrentType, MapClrOf

LEMMA CurrentJoin ==
  ASSUME Typed, NEW A \in SUBSET Tasks, NEW B \in SUBSET Tasks
  PROVE  /\ MapSet(MapOf(Current(A)), Current(B)) = MapOf(Current(A \cup B))
         /\ MapOr(MapOf(Current(A)), {Row(p) : p \in Current(B)},
                  {<<Row(p), Col(p)>> : p \in Current(B)}) = MapOf(Current(A \cup B))
<1>1. Current(A) \cup Current(B) = Current(A \cup B)
  BY DEF Current
<1>2. Current(A) \in SUBSET Prios /\ Current(B) \in SUBSET Prios
  BY CurrentType
<1>3. MapSet(MapOf(Current(A)), Current(B)) = MapOf(Current(A \cup B))
  BY <1>1, <1>2, MapSetOf
<1>4. MapOr(MapOf(Current(A)), {Row(p) : p \in Current(B)},
            {<<Row(p), Col(p)>> : p \in Current(B)}) = MapOf(Current(A \cup B))
  BY <1>1, <1>2, MapOrOf
<1>. QED BY <1>3, <1>4

LEMMA CurrentHas ==
  ASSUME Typed, Table, NEW A \in SUBSET OSTCBList, NEW t \in OSTCBList
  PROVE  OSTCBPrio[t] \in Current(A) <=> t \in A
  BY Apart DEF Current

LEMMA CurrentHead ==
  ASSUME Typed, NEW A \in SUBSET Tasks, A # {}
  PROVE  \E t \in A : /\ MapHighest(MapOf(Current(A))) = OSTCBPrio[t]
                      /\ \A u \in A : OSTCBPrio[t] <= OSTCBPrio[u]
<1>1. Current(A) \in SUBSET Prios /\ Current(A) # {}
  BY CurrentType DEF Current
<1>2. /\ MapHighest(MapOf(Current(A))) \in Current(A)
      /\ \A p \in Current(A) : MapHighest(MapOf(Current(A))) <= p
  BY <1>1, MapHighestOf
<1>. QED BY <1>2 DEF Current

LEMMA CurrentHeadStays ==
  ASSUME Typed, NEW A \in SUBSET Tasks, NEW B \in SUBSET A, NEW t \in B,
         OSTCBPrio[t] = MapHighest(MapOf(Current(A)))
  PROVE  OSTCBPrio[t] = MapHighest(MapOf(Current(B)))
<1>1. PICK a \in A : /\ MapHighest(MapOf(Current(A))) = OSTCBPrio[a]
                     /\ \A u \in A : OSTCBPrio[a] <= OSTCBPrio[u]
  BY CurrentHead
<1>2. PICK b \in B : /\ MapHighest(MapOf(Current(B))) = OSTCBPrio[b]
                     /\ \A u \in B : OSTCBPrio[b] <= OSTCBPrio[u]
  BY CurrentHead
<1>3. OSTCBPrio[t] \in Int /\ OSTCBPrio[b] \in Int
  BY DEF Typed, TypeOK, Prios
<1>. QED BY <1>1, <1>2, <1>3

(* The two lists as sets of tasks.                                         *)
LEMMA ListsAre ==
  TaskListsExact <=> /\ OSRdyTbl = MapOf(Current(ReadyTasks))
                     /\ \A e \in Events : OSEventTbl[e] = MapOf(Current(WaitTasks(e)))
  BY DEF TaskListsExact, ReadyTasksExact, WaitTasksExact, Current, ReadyTasks, WaitTasks

LEMMA ListsArePrime ==
  TaskListsExact' <=> /\ OSRdyTbl' = MapOf(Current(ReadyTasks))'
                      /\ \A e \in Events : OSEventTbl'[e] = MapOf(Current(WaitTasks(e)))'
  BY DEF TaskListsExact, ReadyTasksExact, WaitTasksExact, Current, ReadyTasks, WaitTasks

PrioTyped == OSTCBPrio \in [Tasks -> Prios] /\ OSTCBList \in SUBSET Tasks
MapsTyped == OSRdyTbl \in PrioMap /\ \A e \in Events : OSEventTbl[e] \in PrioMap

LEMMA ListTypes == PrioTyped /\ TaskListsExact => MapsTyped
<1> SUFFICES ASSUME PrioTyped, TaskListsExact PROVE MapsTyped
  OBVIOUS
<1>1. ReadyTasks \in SUBSET Tasks /\ \A e : WaitTasks(e) \in SUBSET Tasks
  BY DEF PrioTyped, ReadyTasks, WaitTasks, Alive
<1>2. \A A \in SUBSET Tasks : Current(A) \in SUBSET Prios
  BY DEF PrioTyped, Current
<1>. QED BY <1>1, <1>2, MapOfContents, ListsAre DEF MapsTyped

LEMMA ListTypesPrime == PrioTyped' /\ TaskListsExact' => MapsTyped'
  BY ListTypes, PTL
-----------------------------------------------------------------------------
(* Steps that leave the table of tasks alone.                              *)
Steady == UNCHANGED <<OSTCBPrio, tblVars, lifeVars>>

(* A step that keeps the TCB of a task; the call it is in, if it pends.    *)
Kept(t) ==
  /\ OSTCBStat'[t] = OSTCBStat[t] /\ OSTCBStatPend'[t] = OSTCBStatPend[t]
  /\ OSTCBDly'[t] = OSTCBDly[t]
  /\ OSTCBEventPtr'[t] = OSTCBEventPtr[t] /\ OSTCBEventMultiPtr'[t] = OSTCBEventMultiPtr[t]
  /\ pc'[t] \in {"pend", "wake"} <=> pc[t] \in {"pend", "wake"}
  /\ pc[t] \in {"pend", "wake"} => asked'[t] = asked[t] /\ checked'[t] = checked[t]

(* No event a task waits for goes away, nor one of several it has been     *)
(* waiting for.                                                            *)
EventsStay(t) ==
  InPend(t) => \A f \in Events : f \in asked[t] \/ t \in WaitTasks(f) => (IsSem(f) => IsSem(f)')

(* At most the running task moves on, and not out of a service that has    *)
(* several critical sections.                                              *)
PcStep ==
  \/ pc' = pc
  \/ /\ OSTCBCur \in Alive \ {IdleTask} /\ ~Makes(OSTCBCur) /\ ~Deletes(OSTCBCur)
     /\ \E w \in Pcs : pc' = [pc EXCEPT ![OSTCBCur] = w]

LEMMA SteadyFrame ==
  ASSUME Steady
  PROVE  /\ Alive' = Alive
         /\ \A t \in Tasks : (Makes(t)' <=> Makes(t)) /\ (Deletes(t)' <=> Deletes(t))
         /\ \A ts : Current(ts)' = Current(ts')
         /\ Table => Table'
  BY DEF Steady, tblVars, lifeVars, Alive, Dying, Makes, Deletes, Current, Table

LEMMA KeptFrame ==
  ASSUME Steady, NEW t \in Tasks, Kept(t)
  PROVE  /\ t \in ReadyTasks' <=> t \in ReadyTasks
         /\ \A f : t \in WaitTasks(f)' <=> t \in WaitTasks(f)
         /\ InPend(t)' <=> InPend(t)
         /\ Pending(t)' <=> Pending(t)
         /\ InPend(t) => WaitsOn(t)' = WaitsOn(t)
  BY SteadyFrame
     DEF Kept, ReadyTasks, WaitTasks, Unblocked, InPend, Pending, WaitsOn

LEMMA KeptOK ==
  ASSUME Typed, Steady, NEW t \in Alive, Kept(t), EventsStay(t), TaskOK(t)
  PROVE  TaskOK(t)'
<1>. t \in Tasks
  BY Lives
<1>1. CASE pc[t] \notin {"pend", "wake"}
  BY <1>1 DEF Kept, TaskOK, NoPendOK
<1>2. CASE pc[t] \in {"pend", "wake"}
  <2>1. PendOK(t) /\ InPend(t)
    BY <1>2 DEF TaskOK, InPend
  <2>2. /\ OSTCBStat'[t] = OSTCBStat[t] /\ OSTCBStatPend'[t] = OSTCBStatPend[t]
        /\ OSTCBDly'[t] = OSTCBDly[t]
        /\ OSTCBEventPtr'[t] = OSTCBEventPtr[t]
        /\ OSTCBEventMultiPtr'[t] = OSTCBEventMultiPtr[t]
        /\ asked'[t] = asked[t] /\ checked'[t] = checked[t] /\ pc'[t] \in {"pend", "wake"}
    BY <1>2 DEF Kept
  <2>3. /\ \A f \in asked[t] \cap Events : IsSem(f) => IsSem(f)'
        /\ \A f \in WaitsOn(t) \cap Events : Pending(t) /\ IsSem(f) => IsSem(f)'
    BY <2>1 DEF EventsStay, WaitTasks
  <2>4. Pending(t)' <=> Pending(t)
    BY <2>2 DEF Pending
  <2>5. CASE asked[t] = {}
    <3>1. PendOneOK(t)'
      BY <2>1, <2>2, <2>3, <2>4, <2>5 DEF PendOK, PendOneOK, WaitsOn, IsSem
    <3>. QED BY <2>1, <2>2, <2>5, <3>1 DEF PendOK, TaskOK
  <2>6. CASE asked[t] # {}
    <3>1. PendManyOK(t)'
      BY <2>1, <2>2, <2>3, <2>4, <2>6 DEF PendOK, PendManyOK, WaitsOn, IsSem, Typed
    <3>. QED BY <2>1, <2>2, <2>6, <3>1 DEF PendOK, TaskOK
  <2>. QED BY <2>5, <2>6
<1>. QED BY <1>1, <1>2

(* The new TCBs, and the makers and deleters, of a step that only touches  *)
(* the TCBs of the tasks in ts.                                            *)
LEMMA MakersFrame ==
  ASSUME IInv, Steady, UNCHANGED curVars, PcStep, NEW ts \in SUBSET Alive,
         \A t \in Tasks \ ts : Kept(t)
  PROVE  \A t \in Tasks : MakingOK(t)' /\ DeletingOK(t)'
<1>1. \A t \in Tasks : (Makes(t) \/ Deletes(t) \/ t \notin Alive) => pc'[t] = pc[t]
  BY DEF PcStep, IInv, Typed, TypeOK
<1>2. ASSUME NEW t \in Tasks, Makes(t) PROVE MakingOK(t)'
  <2>1. MakingOK(t) /\ making' = making /\ OSTCBPrioTbl' = OSTCBPrioTbl /\ OSTCBPrio' = OSTCBPrio
        /\ OSTCBFreeList' = OSTCBFreeList /\ OSTCBList' = OSTCBList
    BY DEF IInv, Steady, tblVars, lifeVars
  <2>2. ASSUME making[t].ptcb \in Tasks \ (OSTCBFreeList \cup OSTCBList), Clean(making[t].ptcb)
        PROVE  Clean(making[t].ptcb)'
    <3>. PICK u \in Tasks : u = making[t].ptcb
      BY <2>2
    <3>1. u \notin Alive /\ Kept(u)
      BY <2>2 DEF Alive
    <3>2. Clean(u)'
      BY <2>2, <3>1, <1>1 DEF Clean, Kept
    <3>. QED BY <3>2, <2>1 DEF Clean
  <2>. QED BY <1>1, <1>2, <2>1, <2>2, SteadyFrame DEF MakingOK
<1>3. ASSUME NEW t \in Tasks, Deletes(t) PROVE DeletingOK(t)'
  <2>1. DeletingOK(t) /\ deleting' = deleting /\ OSTCBPrio' = OSTCBPrio
        /\ OSTCBList' = OSTCBList /\ OSTCBCur' = OSTCBCur
    BY DEF IInv, Steady, tblVars, lifeVars, curVars
  <2>2. deleting[t].ptcb \in Tasks \ Alive
    BY <1>3, <2>1 DEF DeletingOK, Deletes, Alive, Dying, IInv, Typed, TypeOK
  <2>3. OSTCBDly'[deleting[t].ptcb] = OSTCBDly[deleting[t].ptcb]
    BY <2>2 DEF Kept
  <2>4. (Makes(t)' <=> Makes(t)) /\ (Makes(deleting[t].ptcb)' <=> Makes(deleting[t].ptcb))
    BY <2>1 DEF Steady, lifeVars, Makes
  <2>5. pc'[t] = pc[t]
    BY <1>1, <1>3
  <2>. QED BY <1>3, <2>1, <2>3, <2>4, <2>5 DEF DeletingOK
<1>4. ASSUME NEW t \in Tasks
      PROVE  (~Makes(t) => MakingOK(t)') /\ (~Deletes(t) => DeletingOK(t)')
  BY SteadyFrame DEF MakingOK, DeletingOK
<1>. QED BY <1>2, <1>3, <1>4
(* The scheduler after a step that leaves the current task in place.       *)
LEMMA RunningFrame ==
  ASSUME IInv, Steady, UNCHANGED <<curVars, OSLockNesting>>, PcStep, Kept(IdleTask)
  PROVE  Running'
<1>1. OSTCBCur \notin Alive => pc'[OSTCBCur] = pc[OSTCBCur]
  BY DEF PcStep
<1>2. OSTCBCur \in OSTCBFreeList => OSTCBCur \notin Alive
  BY DEF IInv, Table, Alive
<1>3. IdleOK'
  <2>1. IdleOK /\ IdleTask \in Tasks /\ pc \in [Tasks -> Pcs]
    BY CoreAssumption DEF IInv, Running, Typed, TypeOK
  <2>2. pc'[IdleTask] = pc[IdleTask]
    BY <2>1 DEF PcStep
  <2>. QED BY <2>1, <2>2 DEF Kept, IdleOK, Runnable
<1>4. Alive' = Alive /\ (Makes(IdleTask)' <=> Makes(IdleTask))
      /\ (Deletes(OSTCBCur)' <=> Deletes(OSTCBCur))
  BY SteadyFrame DEF Steady, lifeVars, curVars, Makes, Deletes
<1>5. OSTCBPrio' = OSTCBPrio /\ OSTCBPrioTbl' = OSTCBPrioTbl /\ OSTCBList' = OSTCBList
      /\ OSTCBFreeList' = OSTCBFreeList /\ OSTCBCur' = OSTCBCur /\ OSPrioCur' = OSPrioCur
  BY DEF Steady, tblVars, lifeVars, curVars
<1>. QED BY <1>1, <1>2, <1>3, <1>4, <1>5 DEF IInv, Running

(* Nobody becomes ready, and the running task goes on.                     *)
NobodyReady ==
  /\ OSIntNesting' = OSIntNesting
  /\ pc'[OSTCBCur] \in {"run", "wake"} => pc[OSTCBCur] \in {"run", "wake"}
  /\ ReadyTasks' \subseteq ReadyTasks
  /\ OSTCBCur \in ReadyTasks => OSTCBCur \in ReadyTasks'

LEMMA HighestFrame ==
  ASSUME IInv, Steady, UNCHANGED <<curVars, OSLockNesting>>, TaskListsExact', Typed',
         OSIntNesting' = 1 \/ pc'[OSTCBCur] \in {"sched", "pend"} \/ NobodyReady
  PROVE  HighestTaskRuns'
<1>1. OSTCBCur' = OSTCBCur /\ OSPrioCur' = OSPrioCur /\ OSLockNesting' = OSLockNesting
      /\ OSTCBPrioTbl' = OSTCBPrioTbl /\ OSTCBPrio' = OSTCBPrio
  BY DEF curVars, Steady, tblVars
<1>2. CASE OSIntNesting' = 1 \/ pc'[OSTCBCur] \in {"sched", "pend"}
  BY <1>1, <1>2 DEF HighestTaskRuns
<1>3. CASE NobodyReady
  <2> SUFFICES ASSUME OSIntNesting = 0, OSLockNesting = 0, pc[OSTCBCur] \in {"run", "wake"}
               PROVE  /\ OSPrioCur' = MapHighest(OSRdyTbl')
                      /\ OSTCBCur' = OSTCBPrioTbl'[OSPrioCur']
                      /\ OSTCBCur \in ReadyTasks'
    BY <1>1, <1>3 DEF HighestTaskRuns, NobodyReady, ReadyTasks
  <2>1. /\ OSPrioCur = MapHighest(OSRdyTbl) /\ OSTCBCur = OSTCBPrioTbl[OSPrioCur]
        /\ OSTCBCur \in ReadyTasks
    BY DEF IInv, HighestTaskRuns, ReadyTasks
  <2>2. OSTCBCur \in ReadyTasks'
    BY <2>1, <1>3 DEF NobodyReady
  <2>3. ReadyTasks' \in SUBSET ReadyTasks /\ ReadyTasks \in SUBSET Tasks
    BY <1>3, Lives DEF NobodyReady, IInv
  <2>4. OSTCBPrio[OSTCBCur] = MapHighest(MapOf(Current(ReadyTasks)))
    BY <2>1, ListsAre DEF IInv, Running
  <2>5. OSTCBPrio[OSTCBCur] = MapHighest(MapOf(Current(ReadyTasks')))
    BY <2>2, <2>3, <2>4, CurrentHeadStays DEF IInv
  <2>6. OSRdyTbl' = MapOf(Current(ReadyTasks'))
    BY SteadyFrame, ListsArePrime
  <2>. QED BY <1>1, <2>1, <2>2, <2>5, <2>6 DEF IInv, Running
<1>. QED BY <1>2, <1>3

(* What is left to show of a step that leaves the table of tasks and the   *)
(* current task alone, and touches the TCBs of the tasks in ts.            *)
LEMMA StepIInv ==
  ASSUME IInv, Steady, UNCHANGED <<curVars, OSLockNesting>>, PcStep,
         NEW ts \in SUBSET (Alive \ {IdleTask}), \A t \in Tasks \ ts : Kept(t) /\ EventsStay(t),
         \A t \in ts : TaskOK(t)', \A t \in Tasks : CallOK(t)',
         Typed', TaskListsExact',
         OSIntNesting' = 1 \/ pc'[OSTCBCur] \in {"sched", "pend"} \/ NobodyReady
  PROVE  IInv'
<1>1. \A t \in Tasks : MakingOK(t)' /\ DeletingOK(t)'
  BY MakersFrame
<1>2. Alive' = Alive /\ Table'
  BY SteadyFrame DEF IInv
<1>3. \A t \in Alive : TaskOK(t)'
  BY KeptOK, Lives DEF IInv
<1>4. Running'
  BY RunningFrame, CoreAssumption
<1>5. HighestTaskRuns'
  BY HighestFrame
<1>. QED BY <1>1, <1>2, <1>3, <1>4, <1>5 DEF IInv

(* The calls in progress after a step in which some of them end.           *)
LEMMA CallsFrame ==
  ASSUME IInv, Steady,
         \A t \in Tasks : /\ checked'[t] \in {checked[t], NoEvent}
                          /\ asked'[t] \in {asked[t], {}}
                          /\ checked'[t] # NoEvent /\ IsSem(checked[t]) => IsSem(checked[t])'
  PROVE  \A t \in Tasks : CallOK(t)'
<1>1. \A t \in Tasks : CallOK(t) /\ checked[t] \in Events \cup {NoEvent}
  BY DEF IInv, Typed
<1>2. ASSUME NEW t \in Tasks, checked'[t] # NoEvent \/ asked'[t] # {} PROVE CallOK(t)'
  <2>1. t \in Alive' /\ ~Makes(t)' /\ ~Deletes(t)'
    BY <1>1, <1>2, SteadyFrame DEF CallOK
  <2>2. checked'[t] # NoEvent => IsSem(checked[t])' /\ checked'[t] = checked[t] /\ asked'[t] = {}
    BY <1>1, <1>2 DEF CallOK
  <2>. QED BY <2>1, <2>2 DEF CallOK, IsSem
<1>. QED BY <1>2 DEF CallOK

(* The task that calls a service, and the one whose pend comes back.       *)
LEMMA CallerT ==
  ASSUME IInv, NEW t \in Tasks, Calls(t), ~Deletes(t)
  PROVE  /\ OSTCBCur = t /\ t # IdleTask /\ pc[t] = "run" /\ OSIntNesting = 0
         /\ OSLockNesting = 0 /\ t \in Alive /\ Alive = OSTCBList
         /\ OSTCBStat[t] = {} /\ OSTCBStatPend[t] = "OK" /\ OSTCBDly[t] = 0
         /\ OSTCBEventPtr[t] = NoEvent /\ OSTCBEventMultiPtr[t] = {}
         /\ \A u \in Tasks : ~Deletes(u)
<1>1. /\ OSTCBCur = t /\ t # IdleTask /\ pc[t] = "run" /\ OSIntNesting = 0
      /\ OSLockNesting = 0
  BY DEF Calls, IInv, Running
<1>2. t \in Alive /\ Unblocked(t)
  BY <1>1 DEF IInv, HighestTaskRuns
<1>3. NoPendOK(t)
  BY <1>1, <1>2 DEF IInv, TaskOK
<1>4. \A u \in Tasks : ~Deletes(u)
  BY <1>1 DEF IInv, DeletingOK
<1>5. Alive = OSTCBList
  BY <1>4 DEF Alive, Dying, Deletes
<1>. QED BY <1>1, <1>2, <1>3, <1>4, <1>5 DEF NoPendOK, Unblocked

LEMMA WakerT ==
  ASSUME IInv, NEW t \in Tasks, At(t, "wake")
  PROVE  /\ OSTCBCur = t /\ t # IdleTask /\ pc[t] = "wake" /\ OSIntNesting = 0
         /\ OSLockNesting = 0 /\ t \in Alive /\ OSTCBStat[t] \subseteq {"MULTI"}
         /\ OSTCBDly[t] = 0 /\ PendOK(t) /\ ~Makes(t) /\ ~Deletes(t)
<1>1. OSTCBCur = t /\ pc[t] = "wake" /\ OSIntNesting = 0
  BY DEF At
<1>2. ~Makes(t) /\ ~Deletes(t)
  BY <1>1 DEF IInv, MakingOK, DeletingOK
<1>3. t # IdleTask /\ OSLockNesting = 0
  BY <1>1, <1>2 DEF IInv, Running, IdleOK
<1>4. t \in Alive /\ Unblocked(t)
  BY <1>1, <1>3 DEF IInv, HighestTaskRuns
<1>5. PendOK(t)
  BY <1>1, <1>4 DEF IInv, TaskOK
<1>. QED BY <1>1, <1>2, <1>3, <1>4, <1>5 DEF Unblocked
LEMMA EnterT ==
  ASSUME IInv, NEW t \in Tasks, NEW e \in Events, Enter(t, e)
  PROVE  /\ Calls(t) /\ ~Deletes(t) /\ ~Makes(t) /\ IsSem(e) /\ asked[t] = {} /\ checked[t] = e
         /\ checked' = [checked EXCEPT ![t] = NoEvent]
  BY CoreAssumption DEF Enter, IInv, CallOK

-----------------------------------------------------------------------------
(* Services that touch no TCB.                                             *)
LEMMA QuietStep ==
  ASSUME IInv, Steady, UNCHANGED <<tcbVars, OSRdyTbl, curVars, OSLockNesting, pc>>,
         OSIntNesting' \in {OSIntNesting, 1},
         \A t \in Tasks : /\ EventsStay(t) /\ CallOK(t)'
                          /\ pc[t] \in {"pend", "wake"} => asked'[t] = asked[t]
                                                           /\ checked'[t] = checked[t],
         \A f \in Events : \/ OSEventTbl'[f] = OSEventTbl[f]
                           \/ WaitTasks(f) = {} /\ OSEventTbl'[f] = EmptyMap,
         Typed'
  PROVE  IInv'
<1>1. \A t \in Tasks : Kept(t)
  BY DEF Kept, tcbVars
<1>2. ReadyTasks' = ReadyTasks /\ \A f : WaitTasks(f)' = WaitTasks(f)
  <2>1. /\ ReadyTasks \in SUBSET Tasks /\ ReadyTasks' \in SUBSET Tasks
        /\ \A f : WaitTasks(f) \in SUBSET Tasks /\ WaitTasks(f)' \in SUBSET Tasks
    BY Lives, SteadyFrame DEF IInv, ReadyTasks, WaitTasks
  <2>2. \A t \in Tasks : /\ t \in ReadyTasks' <=> t \in ReadyTasks
                        /\ \A f : t \in WaitTasks(f)' <=> t \in WaitTasks(f)
    BY <1>1, KeptFrame
  <2>3. ASSUME NEW f PROVE WaitTasks(f)' = WaitTasks(f)
    BY <2>1, <2>2
  <2>. QED BY <2>1, <2>2, <2>3
<1>3. TaskListsExact'
  <2>1. OSRdyTbl' = MapOf(Current(ReadyTasks))'
    BY <1>2, SteadyFrame, ListsAre DEF IInv
  <2>2. ASSUME NEW f \in Events PROVE OSEventTbl'[f] = MapOf(Current(WaitTasks(f)))'
    <3>1. OSEventTbl[f] = MapOf(Current(WaitTasks(f)))
      BY ListsAre DEF IInv
    <3>2. WaitTasks(f) = {} => MapOf(Current(WaitTasks(f))) = EmptyMap
      BY MapOfEmpty DEF Current
    <3>. QED BY <3>1, <3>2, <1>2, SteadyFrame
  <2>. QED BY <2>1, <2>2, ListsArePrime
<1>4. PcStep
  BY DEF PcStep
<1>5. OSIntNesting' = 1 \/ pc'[OSTCBCur] \in {"sched", "pend"} \/ NobodyReady
  BY <1>2 DEF NobodyReady
<1> DEFINE none == {}
<1>6. none \in SUBSET (Alive \ {IdleTask})
  OBVIOUS
<1>. QED BY <1>1, <1>3, <1>4, <1>5, <1>6, StepIInv

(* The wait list of an event as a set of tasks.                            *)
LEMMA WaitersT ==
  ASSUME IInv, NEW e \in Events
  PROVE  /\ Waiting(e) <=> WaitTasks(e) # {}
         /\ AllWaiters(e) = Current(WaitTasks(e))
         /\ Waiting(e) => \E t \in WaitTasks(e) : HighestWaiter(e) = Current({t})
<1>1. WaitTasks(e) \in SUBSET Tasks /\ Current(WaitTasks(e)) \in SUBSET Prios
  BY Lives, CurrentType DEF IInv
<1>2. OSEventTbl[e] = MapOf(Current(WaitTasks(e)))
  BY ListsAre DEF IInv
<1>3. Waiting(e) <=> WaitTasks(e) # {}
  <2>1. MapOf(Current(WaitTasks(e))).grp = {} <=> Current(WaitTasks(e)) = {}
    BY <1>1, GrpOf
  <2>2. Current(WaitTasks(e)) = {} <=> WaitTasks(e) = {}
    BY DEF Current
  <2>. QED BY <1>2, <2>1, <2>2 DEF Waiting
<1>4. AllWaiters(e) = Current(WaitTasks(e))
  BY <1>1, <1>2, MapHasOf DEF AllWaiters
<1>5. Waiting(e) => \E t \in WaitTasks(e) : HighestWaiter(e) = Current({t})
  BY <1>1, <1>2, <1>3, CurrentHead, CurrentOne DEF HighestWaiter, IInv
<1>. QED BY <1>3, <1>4, <1>5

(* A task waits for semaphores that exist only.                            *)
LEMMA WaitsForSem ==
  ASSUME IInv, NEW e \in Events, WaitTasks(e) # {}
  PROVE  IsSem(e)
<1>1. PICK t \in WaitTasks(e) : t \in Alive /\ PendOK(t) /\ Pending(t) /\ e \in WaitsOn(t)
  BY DEF WaitTasks, IInv, InPend, TaskOK
<1>. QED BY <1>1 DEF PendOK, PendOneOK, PendManyOK, WaitsOn

LEMMA CreateT ==
  ASSUME IInv, NEW t \in Tasks, NEW e \in Events, NEW cnt \in InitialCnts, OSSemCreate(t, e, cnt),
         UNCHANGED <<asked, lifeVars>>
  PROVE  IInv'
<1>1. /\ OSEventType' = [OSEventType EXCEPT ![e] = "SEM"]
      /\ OSEventCnt' = [OSEventCnt EXCEPT ![e] = cnt]
      /\ OSEventTbl' = [OSEventTbl EXCEPT ![e] = EmptyMap]
      /\ UNCHANGED <<tcbVars, tblVars, OSRdyTbl, curVars, nestVars, pc, checked, asked, lifeVars>>
  BY DEF OSSemCreate
<1>2. Steady
  BY <1>1 DEF Steady, tcbVars
<1>3. \A f \in Events : IsSem(f) => IsSem(f)'
  BY <1>1 DEF IsSem, IInv, Typed, TypeOK
<1>4. WaitTasks(e) = {} /\ \A f \in Events : f # e => OSEventTbl'[f] = OSEventTbl[f]
  <2>1. ~IsSem(e)
    BY DEF OSSemCreate, IsSem
  <2>. QED BY <1>1, <2>1, WaitsForSem
<1>5. \A f \in Events : OSEventTbl'[f] = OSEventTbl[f] \/ (WaitTasks(f) = {} /\ OSEventTbl'[f] = EmptyMap)
  BY <1>1, <1>4 DEF IInv, Typed, TypeOK
<1>6. \A u \in Tasks : EventsStay(u) /\ CallOK(u)'
  <2>1. \A u \in Tasks : EventsStay(u)
    BY <1>3 DEF EventsStay
  <2>2. \A u \in Tasks : CallOK(u)'
    <3>1. \A u \in Tasks : checked[u] \in Events \cup {NoEvent}
      BY DEF IInv, Typed
    <3>. QED BY <1>1, <1>2, <1>3, <3>1, CallsFrame
  <2>. QED BY <2>1, <2>2
<1>7. Typed'
  <2>1. \A f \in Events : OSEventTbl'[f] \in PrioMap
    <3>1. EmptyMap \in PrioMap
      BY DEF EmptyMap, PrioMap
    <3>. QED BY <3>1, <1>5 DEF IInv, Typed, TypeOK
  <2>. QED BY <1>1, <2>1, SemAssumption
       DEF IInv, Typed, TypeOK, tcbVars, tblVars, curVars, nestVars, lifeVars
<1>. QED BY <1>1, <1>2, <1>5, <1>6, <1>7, QuietStep DEF nestVars
(* The counts change, and a semaphore that no call uses goes away.         *)
LEMMA CountT ==
  ASSUME IInv,
         UNCHANGED <<tcbVars, tblVars, lifeVars, OSRdyTbl, OSEventTbl, curVars, OSLockNesting, pc>>,
         OSIntNesting' \in {OSIntNesting, 1},
         OSEventCnt' \in [Events -> Nat], OSEventType' \in [Events -> {"UNUSED", "SEM", "MUTEX"}],
         checked' \in [Tasks -> Events \cup {NoEvent}], asked' \in [Tasks -> SUBSET Events],
         \A t \in Tasks : /\ EventsStay(t) /\ CallOK(t)'
                          /\ pc[t] \in {"pend", "wake"} => asked'[t] = asked[t]
                                                           /\ checked'[t] = checked[t]
  PROVE  IInv'
<1>1. Steady
  BY DEF Steady, tcbVars
<1>2. Typed'
  BY DEF IInv, Typed, TypeOK, tcbVars, tblVars, curVars, lifeVars
<1>. QED BY <1>1, <1>2, QuietStep

(* A call ends, or gets past its check, without changing the kind of an    *)
(* event.                                                                  *)
LEMMA CountCallT ==
  ASSUME IInv, NEW t \in Tasks, pc[t] = "run",
         UNCHANGED <<tcbVars, tblVars, lifeVars, OSRdyTbl, OSEventType, OSEventTbl, curVars,
                     OSLockNesting, pc>>,
         OSIntNesting' \in {OSIntNesting, 1},
         OSEventCnt' \in [Events -> Nat],
         \/ UNCHANGED <<checked, asked>>
         \/ checked' = [checked EXCEPT ![t] = NoEvent] /\ asked' = asked
         \/ checked' = checked /\ asked' = [asked EXCEPT ![t] = {}]
  PROVE  IInv'
<1>1. Steady
  BY DEF Steady, tcbVars
<1>2. \A u \in Tasks : checked'[u] \in {checked[u], NoEvent} /\ asked'[u] \in {asked[u], {}}
  BY DEF IInv, Typed
<1>3. \A f : IsSem(f)' = IsSem(f)
  BY DEF IsSem
<1>4. \A u \in Tasks : EventsStay(u) /\ CallOK(u)'
  BY <1>1, <1>2, <1>3, CallsFrame DEF EventsStay
<1>5. \A u \in Tasks : pc[u] \in {"pend", "wake"} => asked'[u] = asked[u] /\ checked'[u] = checked[u]
  BY DEF IInv, Typed
<1>6. /\ OSEventType' \in [Events -> {"UNUSED", "SEM", "MUTEX"}]
      /\ checked' \in [Tasks -> Events \cup {NoEvent}] /\ asked' \in [Tasks -> SUBSET Events]
  BY DEF IInv, Typed, TypeOK
<1>. QED BY <1>4, <1>5, <1>6, CountT

LEMMA CheckT ==
  ASSUME IInv, NEW t \in Tasks, NEW e \in Events, Ready4Call(t), Check(t, e),
         UNCHANGED <<asked, lifeVars>>
  PROVE  IInv'
<1>1. /\ IsSem(e) /\ checked' = [checked EXCEPT ![t] = e] /\ asked[t] = {} /\ ~Makes(t) /\ ~Deletes(t)
      /\ Calls(t)
      /\ UNCHANGED <<tcbVars, tblVars, lifeVars, OSRdyTbl, eventVars, curVars, nestVars, pc, asked>>
  BY DEF Check, Ready4Call, Free, coreVars, Makes, Deletes
<1>2. t \in Alive /\ pc[t] = "run"
  BY <1>1, CallerT
<1>3. /\ checked' \in [Tasks -> Events \cup {NoEvent}] /\ asked' \in [Tasks -> SUBSET Events]
      /\ OSEventCnt' \in [Events -> Nat] /\ OSEventType' \in [Events -> {"UNUSED", "SEM", "MUTEX"}]
      /\ OSEventTbl' = OSEventTbl
  BY <1>1 DEF IInv, Typed, TypeOK, eventVars
<1>4. Alive' = Alive /\ \A u \in Tasks : (Makes(u)' <=> Makes(u)) /\ (Deletes(u)' <=> Deletes(u))
      /\ \A f : IsSem(f)' = IsSem(f)
  BY <1>1, SteadyFrame DEF Steady, tcbVars, eventVars, IsSem
<1>5. ASSUME NEW u \in Tasks PROVE EventsStay(u) /\ CallOK(u)'
  <2>1. EventsStay(u)
    BY <1>4 DEF EventsStay
  <2>2. CallOK(u)'
    BY <1>1, <1>2, <1>4 DEF IInv, Typed, CallOK, IsSem
  <2>. QED BY <2>1, <2>2
<1>6. \A u \in Tasks : pc[u] \in {"pend", "wake"} => asked'[u] = asked[u] /\ checked'[u] = checked[u]
  BY <1>1, <1>2 DEF IInv, Typed
<1>. QED BY <1>1, <1>3, <1>5, <1>6, CountT DEF nestVars
LEMMA CountStepsT ==
  ASSUME IInv, NEW t \in Tasks, NEW e \in Events,
         \/ OSSemPendTake(t, e)
         \/ OSSemPost(t, e) /\ PostCount(e)
         \/ OSSemUnchanged(t, e),
         UNCHANGED <<asked, lifeVars>>
  PROVE  IInv'
<1>1. Enter(t, e)
  BY DEF OSSemPendTake, OSSemPost, OSSemUnchanged
<1>2. checked' = [checked EXCEPT ![t] = NoEvent] /\ pc[t] = "run"
  BY <1>1, EnterT, CallerT
<1>3. OSEventCnt[e] \in Nat
  BY DEF IInv, Typed, TypeOK
<1>4. CASE OSSemPendTake(t, e)
  <2>1. OSEventCnt' \in [Events -> Nat]
    BY <1>3, <1>4 DEF OSSemPendTake, IInv, Typed, TypeOK
  <2>2. UNCHANGED <<tcbVars, tblVars, OSRdyTbl, OSEventType, OSEventTbl, curVars, nestVars, pc>>
    BY <1>4 DEF OSSemPendTake
  <2>. QED BY <1>2, <2>1, <2>2, CountCallT DEF nestVars
<1>5. CASE OSSemPost(t, e) /\ PostCount(e)
  <2>1. OSEventCnt' \in [Events -> Nat]
    BY <1>3, <1>5 DEF PostCount, IInv, Typed, TypeOK
  <2>2. pc' = pc
    <3>1. PostToWaiter(e) => Waiting(e)
      BY DEF PostToWaiter
    <3>2. PostCount(e) => ~Waiting(e)
      BY DEF PostCount
    <3>. QED BY <1>5, <3>1, <3>2 DEF OSSemPost
  <2>3. UNCHANGED <<tcbVars, tblVars, OSRdyTbl, OSEventType, OSEventTbl, curVars, nestVars>>
    BY <1>5 DEF OSSemPost, PostCount
  <2>. QED BY <1>2, <2>1, <2>2, <2>3, CountCallT DEF nestVars
<1>6. CASE OSSemUnchanged(t, e)
  <2>1. UNCHANGED <<tcbVars, tblVars, OSRdyTbl, eventVars, curVars, nestVars, pc>>
    BY <1>6 DEF OSSemUnchanged, coreVars
  <2>2. OSEventCnt' \in [Events -> Nat]
    BY <2>1 DEF eventVars, IInv, Typed, TypeOK
  <2>. QED BY <1>2, <2>1, <2>2, CountCallT DEF nestVars, eventVars
<1>. QED BY <1>4, <1>5, <1>6

(* The interrupt handler's post to a semaphore nobody waits on.            *)
LEMMA CountISRT ==
  ASSUME IInv, NEW e \in Events, EnterISR, PostCount(e), UNCHANGED <<checked, asked, lifeVars>>
  PROVE  IInv'
<1>1. OSEventCnt' \in [Events -> Nat]
  BY DEF PostCount, IInv, Typed, TypeOK
<1>2. /\ OSIntNesting' = 1
      /\ UNCHANGED <<tcbVars, tblVars, OSRdyTbl, OSEventType, OSEventTbl, curVars,
                     OSLockNesting, pc>>
  BY DEF EnterISR, PostCount
<1>3. Steady
  BY <1>2 DEF Steady, tcbVars
<1>4. \A f : IsSem(f)' = IsSem(f)
  BY <1>2 DEF IsSem
<1>5. \A u \in Tasks : EventsStay(u) /\ CallOK(u)'
  BY <1>3, <1>4, CallsFrame DEF EventsStay
<1>6. /\ OSEventType' \in [Events -> {"UNUSED", "SEM", "MUTEX"}]
      /\ checked' \in [Tasks -> Events \cup {NoEvent}] /\ asked' \in [Tasks -> SUBSET Events]
  BY <1>2 DEF IInv, Typed, TypeOK
<1>. QED BY <1>1, <1>2, <1>5, <1>6, CountT

LEMMA MultiTakeT ==
  ASSUME IInv, NEW t \in Tasks, MultiTake(t), UNCHANGED lifeVars
  PROVE  IInv'
<1>1. /\ Calls(t) /\ asked[t] # {} /\ asked' = [asked EXCEPT ![t] = {}]
      /\ UNCHANGED <<tcbVars, tblVars, OSRdyTbl, OSEventType, OSEventTbl, curVars, nestVars, pc,
                     checked>>
  BY DEF MultiTake, EnterMulti
<1>2. pc[t] = "run"
  BY <1>1 DEF Calls
<1>3. PICK es \in SUBSET Available(t) :
        OSEventCnt' = [e \in Events |-> OSEventCnt[e] - (IF e \in es THEN 1 ELSE 0)]
  BY DEF MultiTake
<1>4. OSEventCnt' \in [Events -> Nat]
  <2>1. ASSUME NEW e \in Events PROVE OSEventCnt[e] - (IF e \in es THEN 1 ELSE 0) \in Nat
    <3>1. OSEventCnt[e] \in Nat /\ (e \in es => OSEventCnt[e] > 0)
      BY DEF IInv, Typed, TypeOK, Available
    <3>. QED BY <3>1
  <2>. QED BY <1>3, <2>1
<1>. QED BY <1>1, <1>2, <1>4, CountCallT DEF nestVars

LEMMA CheckMultiT ==
  ASSUME IInv, NEW t \in Tasks, NEW es \in EventSets, Ready4Call(t), CheckMulti(t, es),
         UNCHANGED lifeVars
  PROVE  IInv'
<1>1. /\ asked' = [asked EXCEPT ![t] = es] /\ ~Makes(t) /\ ~Deletes(t) /\ Calls(t)
      /\ checked[t] = NoEvent
      /\ UNCHANGED <<tcbVars, tblVars, lifeVars, OSRdyTbl, eventVars, curVars, nestVars, pc, checked>>
  BY DEF CheckMulti, Ready4Call, Free, coreVars, Makes, Deletes
<1>2. t \in Alive /\ pc[t] = "run" /\ es \in SUBSET Events
  BY <1>1, CallerT, LifeAssumption
<1>3. /\ checked' \in [Tasks -> Events \cup {NoEvent}] /\ asked' \in [Tasks -> SUBSET Events]
      /\ OSEventCnt' \in [Events -> Nat] /\ OSEventType' \in [Events -> {"UNUSED", "SEM", "MUTEX"}]
      /\ OSEventTbl' = OSEventTbl
  BY <1>1, <1>2 DEF IInv, Typed, TypeOK, eventVars
<1>4. Alive' = Alive /\ \A u \in Tasks : (Makes(u)' <=> Makes(u)) /\ (Deletes(u)' <=> Deletes(u))
      /\ \A f : IsSem(f)' = IsSem(f)
  BY <1>1, SteadyFrame DEF Steady, tcbVars, eventVars, IsSem
<1>5. ASSUME NEW u \in Tasks PROVE EventsStay(u) /\ CallOK(u)'
  <2>1. EventsStay(u)
    BY <1>4 DEF EventsStay
  <2>2. CallOK(u)'
    BY <1>1, <1>2, <1>4 DEF IInv, Typed, CallOK, IsSem
  <2>. QED BY <2>1, <2>2
<1>6. \A u \in Tasks : pc[u] \in {"pend", "wake"} => asked'[u] = asked[u] /\ checked'[u] = checked[u]
  BY <1>1, <1>2 DEF IInv, Typed
<1>. QED BY <1>1, <1>3, <1>5, <1>6, CountT DEF nestVars

LEMMA DelNoPendT ==
  ASSUME IInv, NEW t \in Tasks, NEW e \in Events, CarefulDelete(t, e), OSSemDelNoPend(t, e),
         UNCHANGED <<asked, lifeVars>>
  PROVE  IInv'
<1>1. Enter(t, e) /\ WaitTasks(e) = {}
  BY WaitersT DEF OSSemDelNoPend
<1>2. checked' = [checked EXCEPT ![t] = NoEvent] /\ pc[t] = "run"
  BY <1>1, EnterT, CallerT
<1>3. /\ OSEventType' = [OSEventType EXCEPT ![e] = "UNUSED"]
      /\ OSEventCnt' = [OSEventCnt EXCEPT ![e] = 0]
      /\ UNCHANGED <<tcbVars, tblVars, OSRdyTbl, OSEventTbl, curVars, nestVars, pc>>
  BY DEF OSSemDelNoPend, Release
<1>4. Steady
  BY <1>3 DEF Steady, tcbVars
<1>5. \A f \in Events : f # e => (IsSem(f)' <=> IsSem(f))
  BY <1>3 DEF IsSem, IInv, Typed, TypeOK
<1>6. \A u \in Tasks : EventsStay(u)
  BY <1>1, <1>5 DEF EventsStay, CarefulDelete, InPend
<1>7. \A u \in Tasks : CallOK(u)'
  <2>1. ASSUME NEW u \in Tasks, checked'[u] # NoEvent, IsSem(checked[u]) PROVE IsSem(checked[u])'
    <3>1. u # t /\ checked[u] \in Events /\ checked[u] # e /\ checked'[u] = checked[u]
      BY <1>2, <2>1 DEF IInv, Typed, CarefulDelete
    <3>. QED BY <2>1, <3>1, <1>5 DEF IsSem
  <2>2. \A u \in Tasks : checked'[u] \in {checked[u], NoEvent}
    BY <1>2 DEF IInv, Typed
  <2>. QED BY <2>1, <2>2, <1>4, CallsFrame
<1>8. /\ OSEventCnt' \in [Events -> Nat] /\ OSEventType' \in [Events -> {"UNUSED", "SEM", "MUTEX"}]
      /\ checked' \in [Tasks -> Events \cup {NoEvent}] /\ asked' \in [Tasks -> SUBSET Events]
      /\ \A u \in Tasks : pc[u] \in {"pend", "wake"} => asked'[u] = asked[u] /\ checked'[u] = checked[u]
  BY <1>2, <1>3 DEF IInv, Typed, TypeOK
<1>. QED BY <1>3, <1>6, <1>7, <1>8, CountT DEF nestVars
-----------------------------------------------------------------------------
(* Pends that block.                                                       *)
LEMMA ListsTyped ==
  ASSUME IInv, Steady, TaskListsExact',
         OSTCBStat' \in [Tasks -> SUBSET Stats], OSTCBStatPend' \in [Tasks -> PendStats],
         OSTCBDly' \in [Tasks -> Nat], OSTCBEventPtr' \in [Tasks -> Events \cup {NoEvent}],
         OSTCBEventMultiPtr' \in [Tasks -> SUBSET Events],
         OSEventType' \in [Events -> {"UNUSED", "SEM", "MUTEX"}], OSEventCnt' \in [Events -> Nat],
         DOMAIN OSEventTbl' = Events, OSEventTbl' = [e \in Events |-> OSEventTbl'[e]],
         UNCHANGED <<curVars, OSLockNesting>>, OSIntNesting' \in {0, 1}, pc' \in [Tasks -> Pcs],
         checked' \in [Tasks -> Events \cup {NoEvent}], asked' \in [Tasks -> SUBSET Events]
  PROVE  Typed'
<1>1. /\ OSTCBPrio' = OSTCBPrio /\ OSTCBPrioTbl' = OSTCBPrioTbl /\ OSTCBList' = OSTCBList
      /\ OSTCBFreeList' = OSTCBFreeList /\ making' = making /\ deleting' = deleting
      /\ OSTCBCur' = OSTCBCur /\ OSPrioCur' = OSPrioCur
  BY DEF Steady, tblVars, lifeVars, curVars
<1>2. PrioTyped'
  BY <1>1 DEF PrioTyped, IInv, Typed, TypeOK
<1>3. OSRdyTbl' \in PrioMap /\ \A e \in Events : OSEventTbl'[e] \in PrioMap
  BY <1>2, ListTypesPrime DEF MapsTyped
<1>. QED BY <1>1, <1>3 DEF IInv, Typed, TypeOK

(* The caller leaves the ready list and joins the wait list of each event  *)
(* in es.                                                                  *)
LEMMA BlockT ==
  ASSUME IInv, Steady, NEW t \in Tasks, Calls(t), ~Deletes(t), ~Makes(t), NEW es \in SUBSET Events,
         \A u \in Tasks \ {t} : Kept(u), TaskOK(t)',
         InPend(t)', Pending(t)', WaitsOn(t)' = es, "SEM" \in OSTCBStat'[t],
         OSRdyTbl' = MapClr(OSRdyTbl, {OSTCBPrio[t]}),
         \A f \in Events : OSEventTbl'[f] = IF f \in es THEN MapSet(OSEventTbl[f], {OSTCBPrio[t]})
                                                        ELSE OSEventTbl[f]
  PROVE  TaskListsExact'
<1>1. t \in Alive /\ pc[t] = "run" /\ Alive \in SUBSET OSTCBList /\ OSTCBList \in SUBSET Tasks
  BY CallerT, Lives DEF IInv
<1>2. /\ ReadyTasks' = ReadyTasks \ {t}
      /\ \A f \in Events : WaitTasks(f)' = IF f \in es THEN WaitTasks(f) \cup {t} ELSE WaitTasks(f)
  <2>1. /\ ReadyTasks \in SUBSET Tasks /\ ReadyTasks' \in SUBSET Tasks
        /\ \A f : WaitTasks(f) \in SUBSET Tasks /\ WaitTasks(f)' \in SUBSET Tasks
    BY <1>1, SteadyFrame DEF IInv, ReadyTasks, WaitTasks
  <2>2. t \notin ReadyTasks' /\ \A f : t \notin WaitTasks(f)
    BY <1>1 DEF ReadyTasks, Unblocked, WaitTasks, InPend
  <2>3. \A f : t \in WaitTasks(f)' <=> f \in es
    BY <1>1, SteadyFrame DEF WaitTasks
  <2>4. \A u \in Tasks \ {t} : /\ u \in ReadyTasks' <=> u \in ReadyTasks
                              /\ \A f : u \in WaitTasks(f)' <=> u \in WaitTasks(f)
    BY KeptFrame
  <2>5. ASSUME NEW f \in Events
        PROVE  WaitTasks(f)' = IF f \in es THEN WaitTasks(f) \cup {t} ELSE WaitTasks(f)
    <3>1. \A u \in Tasks : u \in WaitTasks(f)' <=> u \in WaitTasks(f) \/ (u = t /\ f \in es)
      BY <2>2, <2>3, <2>4
    <3>2. WaitTasks(f) \in SUBSET Tasks /\ WaitTasks(f)' \in SUBSET Tasks
      BY <2>1
    <3>. QED BY <3>1, <3>2
  <2>. QED BY <2>1, <2>2, <2>4, <2>5
<1>3. OSRdyTbl' = MapOf(Current(ReadyTasks'))
  <2>1. MapClr(MapOf(Current(ReadyTasks)), Current({t})) = MapOf(Current(ReadyTasks \ {t}))
    BY <1>1, Lives, CurrentLeave DEF IInv
  <2>. QED BY <2>1, <1>2, CurrentOne, ListsAre DEF IInv
<1>4. ASSUME NEW f \in Events PROVE OSEventTbl'[f] = MapOf(Current(WaitTasks(f)'))
  <2>1. OSEventTbl[f] = MapOf(Current(WaitTasks(f))) /\ WaitTasks(f) \in SUBSET Tasks
    BY ListsAre, Lives DEF IInv
  <2>2. MapSet(MapOf(Current(WaitTasks(f))), Current({t})) = MapOf(Current(WaitTasks(f) \cup {t}))
    BY <2>1, CurrentJoin DEF IInv
  <2>. QED BY <2>1, <2>2, <1>2, CurrentOne
<1>. QED BY <1>3, <1>4, SteadyFrame, ListsArePrime
LEMMA PendBlockT ==
  ASSUME IInv, NEW t \in Tasks, NEW e \in Events, NEW timeout \in Timeouts,
         OSSemPendBlock(t, e, timeout), UNCHANGED <<asked, lifeVars>>
  PROVE  IInv'
<1>1. /\ Calls(t) /\ ~Deletes(t) /\ ~Makes(t) /\ IsSem(e) /\ asked[t] = {}
      /\ checked' = [checked EXCEPT ![t] = NoEvent]
  BY EnterT DEF OSSemPendBlock
<1>2. /\ OSTCBCur = t /\ t # IdleTask /\ pc[t] = "run" /\ OSIntNesting = 0 /\ OSLockNesting = 0
      /\ t \in Alive /\ OSTCBStat[t] = {} /\ OSTCBEventMultiPtr[t] = {}
  BY <1>1, CallerT
<1>3. /\ OSTCBStat' = [OSTCBStat EXCEPT ![t] = @ \cup {"SEM"}]
      /\ OSTCBStatPend' = [OSTCBStatPend EXCEPT ![t] = "OK"]
      /\ OSTCBDly' = [OSTCBDly EXCEPT ![t] = timeout]
      /\ OSTCBEventPtr' = [OSTCBEventPtr EXCEPT ![t] = e]
      /\ OSEventTbl' = [OSEventTbl EXCEPT ![e] = MapSet(@, {OSTCBPrio[t]})]
      /\ OSRdyTbl' = MapClr(OSRdyTbl, {OSTCBPrio[t]})
      /\ pc' = [pc EXCEPT ![t] = "pend"]
      /\ UNCHANGED <<OSTCBPrio, OSTCBEventMultiPtr, tblVars, OSEventType, OSEventCnt,
                     curVars, nestVars>>
  BY DEF OSSemPendBlock, OS_EventTaskWait, EventTaskWait, Goto
<1>4. Steady
  BY <1>3 DEF Steady
<1>5. /\ OSTCBStat'[t] = {"SEM"} /\ OSTCBStatPend'[t] = "OK" /\ OSTCBEventPtr'[t] = e
      /\ OSTCBEventMultiPtr'[t] = {} /\ pc'[t] = "pend" /\ asked'[t] = {} /\ checked'[t] = NoEvent
  BY <1>1, <1>2, <1>3 DEF IInv, Typed, TypeOK
<1>6. \A f : IsSem(f)' = IsSem(f)
  BY <1>3 DEF IsSem
<1>7. \A u \in Tasks \ {t} : Kept(u)
  BY <1>1, <1>3 DEF Kept, IInv, Typed, TypeOK
<1>8. InPend(t)' /\ Pending(t)' /\ WaitsOn(t)' = {e}
  BY <1>2, <1>4, <1>5, SteadyFrame DEF InPend, Pending, WaitsOn
<1>9. TaskOK(t)'
  BY <1>1, <1>5, <1>6 DEF TaskOK, PendOK, PendOneOK, IsSem
<1>10. TaskListsExact'
  <2>1. \A f \in Events : OSEventTbl'[f] = IF f \in {e} THEN MapSet(OSEventTbl[f], {OSTCBPrio[t]})
                                                     ELSE OSEventTbl[f]
    BY <1>3 DEF IInv, Typed, TypeOK
  <2>2. {e} \in SUBSET Events
    OBVIOUS
  <2>. QED BY <1>1, <1>3, <1>4, <1>5, <1>7, <1>8, <1>9, <2>1, <2>2, BlockT
<1>11. Typed'
  <2>1. DOMAIN OSEventTbl' = Events /\ OSEventTbl' = [f \in Events |-> OSEventTbl'[f]]
    BY <1>3 DEF IInv, Typed, TypeOK
  <2>2. /\ OSTCBStat' \in [Tasks -> SUBSET Stats] /\ OSTCBStatPend' \in [Tasks -> PendStats]
        /\ OSTCBDly' \in [Tasks -> Nat] /\ OSTCBEventPtr' \in [Tasks -> Events \cup {NoEvent}]
        /\ OSTCBEventMultiPtr' \in [Tasks -> SUBSET Events] /\ pc' \in [Tasks -> Pcs]
    BY <1>3, SemAssumption DEF IInv, Typed, TypeOK, Stats, PendAny, PendStats, Pcs
  <2>3. /\ checked' \in [Tasks -> Events \cup {NoEvent}] /\ asked' \in [Tasks -> SUBSET Events]
        /\ OSEventType' \in [Events -> {"UNUSED", "SEM", "MUTEX"}] /\ OSEventCnt' \in [Events -> Nat]
        /\ OSIntNesting' \in {0, 1}
    BY <1>1, <1>3 DEF IInv, Typed, TypeOK, nestVars
  <2>. QED BY <1>3, <1>4, <1>10, <2>1, <2>2, <2>3, ListsTyped DEF nestVars
<1>12. \A u \in Tasks : EventsStay(u) /\ CallOK(u)'
  <2>1. \A u \in Tasks : checked'[u] \in {checked[u], NoEvent} /\ asked'[u] \in {asked[u], {}}
    BY <1>1 DEF IInv, Typed
  <2>. QED BY <1>4, <1>6, <2>1, CallsFrame DEF EventsStay
<1>13. PcStep
  BY <1>1, <1>2, <1>3 DEF PcStep, Pcs
<1>14. {t} \in SUBSET (Alive \ {IdleTask})
  BY <1>2
<1>. QED BY <1>2, <1>3, <1>4, <1>5, <1>7, <1>9, <1>10, <1>11, <1>12, <1>13, <1>14, StepIInv
     DEF nestVars

LEMMA MultiBlockT ==
  ASSUME IInv, NEW t \in Tasks, NEW timeout \in Timeouts, MultiBlock(t, timeout),
         UNCHANGED lifeVars
  PROVE  IInv'
<1>1. /\ Calls(t) /\ asked[t] # {} /\ ~Deletes(t) /\ ~Makes(t)
      /\ checked[t] = NoEvent /\ \A f \in asked[t] : IsSem(f)
  BY DEF MultiBlock, EnterMulti, IInv, CallOK
<1>2. /\ OSTCBCur = t /\ t # IdleTask /\ pc[t] = "run" /\ OSIntNesting = 0 /\ OSLockNesting = 0
      /\ t \in Alive /\ OSTCBStat[t] = {} /\ asked[t] \in SUBSET Events
  BY <1>1, CallerT DEF IInv, Typed
<1>3. /\ OSTCBStat' = [OSTCBStat EXCEPT ![t] = @ \cup {"SEM", "MULTI"}]
      /\ OSTCBStatPend' = [OSTCBStatPend EXCEPT ![t] = "OK"]
      /\ OSTCBDly' = [OSTCBDly EXCEPT ![t] = timeout]
      /\ OSTCBEventPtr' = [OSTCBEventPtr EXCEPT ![t] = NoEvent]
      /\ OSTCBEventMultiPtr' = [OSTCBEventMultiPtr EXCEPT ![t] = asked[t]]
      /\ OSEventTbl' = [e \in Events |-> IF e \in asked[t]
                                           THEN MapSet(OSEventTbl[e], {OSTCBPrio[t]})
                                           ELSE OSEventTbl[e]]
      /\ OSRdyTbl' = MapClr(OSRdyTbl, {OSTCBPrio[t]})
      /\ pc' = [pc EXCEPT ![t] = "pend"]
      /\ UNCHANGED <<OSTCBPrio, tblVars, OSEventType, OSEventCnt, curVars, nestVars, checked, asked>>
  BY DEF MultiBlock, Unready, Goto
<1>4. Steady
  BY <1>3 DEF Steady
<1>5. /\ OSTCBStat'[t] = {"SEM", "MULTI"} /\ OSTCBStatPend'[t] = "OK" /\ OSTCBEventPtr'[t] = NoEvent
      /\ OSTCBEventMultiPtr'[t] = asked[t] /\ pc'[t] = "pend" /\ asked'[t] = asked[t]
      /\ checked'[t] = NoEvent
  BY <1>1, <1>2, <1>3 DEF IInv, Typed, TypeOK
<1>6. \A f : IsSem(f)' = IsSem(f)
  BY <1>3 DEF IsSem
<1>7. \A u \in Tasks \ {t} : Kept(u)
  BY <1>3 DEF Kept, IInv, Typed, TypeOK
<1>8. InPend(t)' /\ Pending(t)' /\ WaitsOn(t)' = asked[t]
  BY <1>1, <1>2, <1>4, <1>5, SteadyFrame DEF InPend, Pending, WaitsOn
<1>9. TaskOK(t)'
  BY <1>1, <1>5, <1>6, <1>8 DEF TaskOK, PendOK, PendManyOK, IsSem
<1>10. TaskListsExact'
  BY <1>1, <1>2, <1>3, <1>4, <1>5, <1>7, <1>8, <1>9, BlockT
<1>11. Typed'
  <2>1. DOMAIN OSEventTbl' = Events /\ OSEventTbl' = [f \in Events |-> OSEventTbl'[f]]
    BY <1>3 DEF IInv, Typed, TypeOK
  <2>2. /\ OSTCBStat' \in [Tasks -> SUBSET Stats] /\ OSTCBStatPend' \in [Tasks -> PendStats]
        /\ OSTCBDly' \in [Tasks -> Nat] /\ OSTCBEventPtr' \in [Tasks -> Events \cup {NoEvent}]
        /\ OSTCBEventMultiPtr' \in [Tasks -> SUBSET Events] /\ pc' \in [Tasks -> Pcs]
    BY <1>2, <1>3, SemAssumption DEF IInv, Typed, TypeOK, Stats, PendAny, PendStats, Pcs
  <2>3. /\ checked' \in [Tasks -> Events \cup {NoEvent}] /\ asked' \in [Tasks -> SUBSET Events]
        /\ OSEventType' \in [Events -> {"UNUSED", "SEM", "MUTEX"}] /\ OSEventCnt' \in [Events -> Nat]
        /\ OSIntNesting' \in {0, 1}
    BY <1>3 DEF IInv, Typed, TypeOK, nestVars
  <2>. QED BY <1>3, <1>4, <1>10, <2>1, <2>2, <2>3, ListsTyped DEF nestVars
<1>12. \A u \in Tasks : EventsStay(u) /\ CallOK(u)'
  <2>1. \A u \in Tasks : checked'[u] \in {checked[u], NoEvent} /\ asked'[u] \in {asked[u], {}}
    BY <1>3
  <2>. QED BY <1>4, <1>6, <2>1, CallsFrame DEF EventsStay
<1>13. PcStep
  BY <1>1, <1>2, <1>3 DEF PcStep, Pcs
<1>14. {t} \in SUBSET (Alive \ {IdleTask})
  BY <1>2
<1>. QED BY <1>2, <1>3, <1>4, <1>5, <1>7, <1>9, <1>10, <1>11, <1>12, <1>13, <1>14, StepIInv
     DEF nestVars
-----------------------------------------------------------------------------
(* Tasks taken off the wait list of an event, and off the others they are  *)
(* on.                                                                     *)
LEMMA RdyEffectT ==
  ASSUME IInv, NEW e \in Events, NEW ts \in SUBSET WaitTasks(e), NEW s,
         OS_EventTaskRdy(e, Current(ts), "SEM", s)
  PROVE  /\ OSTCBDly' = [t \in Tasks |-> IF t \in ts THEN 0 ELSE OSTCBDly[t]]
         /\ OSTCBStat' = [t \in Tasks |-> IF t \in ts THEN OSTCBStat[t] \ {"SEM"} ELSE OSTCBStat[t]]
         /\ OSTCBStatPend' = [t \in Tasks |-> IF t \in ts THEN s ELSE OSTCBStatPend[t]]
         /\ OSTCBEventPtr' = [t \in Tasks |-> IF t \in ts THEN e ELSE OSTCBEventPtr[t]]
         /\ OSRdyTbl' = MapOf(Current(ReadyTasks \cup {t \in ts : "SUSPEND" \notin OSTCBStat[t]}))
         /\ OSEventTbl' = [f \in Events |-> MapOf(Current(WaitTasks(f) \ ts))]
<1> DEFINE ps  == Current(ts)
           tcb == {OSTCBPrioTbl[p] : p \in ps}
           now == {t \in ts : "SUSPEND" \notin OSTCBStat[t]}
           rdy == {p \in ps : "SUSPEND" \notin OSTCBStat[OSTCBPrioTbl[p]]}
           off == [f \in Events |-> {OSTCBPrio[t] : t \in {u \in tcb : f = e \/ f \in OSTCBEventMultiPtr[u]}}]
<1>1. /\ OSTCBDly' = [t \in Tasks |-> IF t \in tcb THEN 0 ELSE OSTCBDly[t]]
      /\ OSTCBStat' = [t \in Tasks |-> IF t \in tcb THEN OSTCBStat[t] \ {"SEM"} ELSE OSTCBStat[t]]
      /\ OSTCBStatPend' = [t \in Tasks |-> IF t \in tcb THEN s ELSE OSTCBStatPend[t]]
      /\ OSRdyTbl' = MapOr(OSRdyTbl, {Row(OSTCBPrio[OSTCBPrioTbl[p]]) : p \in rdy},
                           {<<Row(p), Col(OSTCBPrio[OSTCBPrioTbl[p]])>> : p \in rdy})
      /\ OSEventTbl' = [f \in Events |-> MapClr(OSEventTbl[f], off[f])]
      /\ OSTCBEventPtr' = [t \in Tasks |-> IF t \in tcb /\ OSTCBEventMultiPtr[t] # {}
                                             THEN e ELSE OSTCBEventPtr[t]]
  BY DEF OS_EventTaskRdy, EventTaskRdy
<1>2. ts \in SUBSET OSTCBList /\ ts \in SUBSET Alive /\ Alive \in SUBSET Tasks
  BY Lives DEF IInv
<1>3. \A t \in ts : OSTCBPrioTbl[OSTCBPrio[t]] = t
  BY <1>2 DEF IInv, Table
<1>4. tcb = ts
  BY <1>3 DEF Current
<1>5. rdy = Current(now)
  BY <1>3 DEF Current
<1>6. \A t \in ts : PendOK(t) /\ e \in WaitsOn(t) /\ Pending(t) /\ InPend(t)
  BY <1>2 DEF WaitTasks, InPend, IInv, TaskOK
<1>7. \A p \in rdy : OSTCBPrio[OSTCBPrioTbl[p]] = p
  BY <1>3 DEF Current
<1>8. OSRdyTbl' = MapOf(Current(ReadyTasks \cup now))
  <2>1. now \in SUBSET Tasks /\ ReadyTasks \in SUBSET Tasks
    BY <1>2, Lives DEF IInv
  <2> HIDE DEF now, rdy
  <2>2. {Row(OSTCBPrio[OSTCBPrioTbl[p]]) : p \in rdy} = {Row(p) : p \in Current(now)}
    BY <1>5, <1>7
  <2>3. {<<Row(p), Col(OSTCBPrio[OSTCBPrioTbl[p]])>> : p \in rdy}
          = {<<Row(p), Col(p)>> : p \in Current(now)}
    BY <1>5, <1>7
  <2>4. MapOr(MapOf(Current(ReadyTasks)), {Row(p) : p \in Current(now)},
              {<<Row(p), Col(p)>> : p \in Current(now)}) = MapOf(Current(ReadyTasks \cup now))
    BY <2>1, CurrentJoin DEF IInv
  <2>5. OSRdyTbl = MapOf(Current(ReadyTasks))
    BY ListsAre DEF IInv
  <2>. QED BY <1>1, <2>2, <2>3, <2>4, <2>5
<1>9. ASSUME NEW f \in Events PROVE MapClr(OSEventTbl[f], off[f]) = MapOf(Current(WaitTasks(f) \ ts))
  <2>1. \A t \in ts : (f = e \/ f \in OSTCBEventMultiPtr[t]) <=> t \in WaitTasks(f)
    BY <1>6 DEF PendOK, PendOneOK, WaitsOn, WaitTasks
  <2>2. off[f] = Current(ts \cap WaitTasks(f))
    BY <1>4, <2>1 DEF Current
  <2>3. WaitTasks(f) \in SUBSET OSTCBList /\ ts \cap WaitTasks(f) \in SUBSET OSTCBList
    BY <1>2, Lives DEF IInv
  <2>4. MapClr(MapOf(Current(WaitTasks(f))), Current(ts \cap WaitTasks(f)))
          = MapOf(Current(WaitTasks(f) \ (ts \cap WaitTasks(f))))
    BY <2>3, CurrentLeave DEF IInv
  <2>5. WaitTasks(f) \ (ts \cap WaitTasks(f)) = WaitTasks(f) \ ts
    OBVIOUS
  <2>. QED BY <2>2, <2>4, <2>5, ListsAre DEF IInv
<1>10. \A t \in ts : OSTCBEventMultiPtr[t] = {} => OSTCBEventPtr[t] = e
  BY <1>6 DEF PendOK, WaitsOn
<1> HIDE DEF off, rdy, tcb, now
<1>. QED BY <1>1, <1>4, <1>8, <1>9, <1>10 DEF now
(* The running task returns, or goes to the scheduler.                     *)
ToSched ==
  \/ pc' = pc
  \/ /\ OSTCBCur \in Alive \ {IdleTask} /\ ~Makes(OSTCBCur) /\ ~Deletes(OSTCBCur)
     /\ pc[OSTCBCur] = "run" /\ pc' = [pc EXCEPT ![OSTCBCur] = "sched"]

LEMMA RdyStepT ==
  ASSUME IInv, Steady, NEW e \in Events, NEW ts \in SUBSET WaitTasks(e), NEW s \in {"OK", "ABORT"},
         OS_EventTaskRdy(e, Current(ts), "SEM", s),
         UNCHANGED <<OSTCBEventMultiPtr, curVars, OSLockNesting, asked>>, ToSched,
         \A u \in Tasks : /\ checked'[u] \in {checked[u], NoEvent} /\ CallOK(u)'
                          /\ u \notin ts => EventsStay(u)
                          /\ u \in ts => \A f \in asked[u] : IsSem(f)',
         checked' \in [Tasks -> Events \cup {NoEvent}],
         OSEventType' \in [Events -> {"UNUSED", "SEM", "MUTEX"}], OSEventCnt' \in [Events -> Nat],
         OSIntNesting' \in {0, 1},
         \/ OSIntNesting' = 1 \/ pc'[OSTCBCur] = "sched"
         \/ OSIntNesting' = OSIntNesting /\ pc' = pc /\ ts = {}
  PROVE  IInv'
<1> DEFINE now == {t \in ts : "SUSPEND" \notin OSTCBStat[t]}
<1>1. /\ OSTCBDly' = [t \in Tasks |-> IF t \in ts THEN 0 ELSE OSTCBDly[t]]
      /\ OSTCBStat' = [t \in Tasks |-> IF t \in ts THEN OSTCBStat[t] \ {"SEM"} ELSE OSTCBStat[t]]
      /\ OSTCBStatPend' = [t \in Tasks |-> IF t \in ts THEN s ELSE OSTCBStatPend[t]]
      /\ OSTCBEventPtr' = [t \in Tasks |-> IF t \in ts THEN e ELSE OSTCBEventPtr[t]]
      /\ OSRdyTbl' = MapOf(Current(ReadyTasks \cup now))
      /\ OSEventTbl' = [f \in Events |-> MapOf(Current(WaitTasks(f) \ ts))]
  BY RdyEffectT
<1>2. ts \in SUBSET Alive /\ Alive \in SUBSET Tasks /\ IdleTask \notin ts
  BY Lives DEF IInv, WaitTasks, InPend, Running, IdleOK
<1>3. \A u \in Tasks : (pc'[u] \in {"pend", "wake"} <=> pc[u] \in {"pend", "wake"})
  BY DEF ToSched, IInv, Typed, TypeOK
<1>4. \A u \in Tasks : pc[u] \in {"pend", "wake"} => asked'[u] = asked[u]
                         /\ (u \in Alive => checked'[u] = checked[u])
  BY DEF IInv, TaskOK, PendOK
<1>5. ASSUME NEW u \in Tasks \ ts PROVE Kept(u)
  <2>1. u \notin Alive => checked[u] = NoEvent
    BY DEF IInv, CallOK
  <2>. QED BY <1>1, <1>3, <1>4, <2>1 DEF Kept
<1>6. ASSUME NEW u \in ts
      PROVE  /\ TaskOK(u)'
             /\ (u \in ReadyTasks => u \in now) /\ (u \in ReadyTasks' <=> u \in now)
             /\ \A f : u \notin WaitTasks(f)'
  <2>1. PendOK(u) /\ Pending(u) /\ e \in WaitsOn(u) /\ InPend(u)
    BY <1>2 DEF WaitTasks, InPend, IInv, TaskOK
  <2>2. /\ OSTCBStat'[u] = OSTCBStat[u] \ {"SEM"} /\ OSTCBStatPend'[u] = s /\ OSTCBDly'[u] = 0
        /\ OSTCBEventPtr'[u] = e /\ OSTCBEventMultiPtr'[u] = OSTCBEventMultiPtr[u]
        /\ asked'[u] = asked[u] /\ checked'[u] = NoEvent /\ pc'[u] \in {"pend", "wake"}
    BY <1>1, <1>2, <1>3, <2>1 DEF PendOK, InPend
  <2>3. ~Pending(u)'
    BY <2>2 DEF Pending
  <2>4. TaskOK(u)'
    <3>1. CASE asked[u] = {}
      BY <2>1, <2>2, <2>3, <3>1 DEF TaskOK, PendOK, PendOneOK
    <3>2. CASE asked[u] # {}
      <4>1. e \in asked[u] /\ \A f \in asked[u] : IsSem(f)'
        BY <2>1, <3>2, <1>2 DEF WaitsOn
      <4>. QED BY <2>1, <2>2, <2>3, <3>2, <4>1 DEF TaskOK, PendOK, PendManyOK, IsSem
    <3>. QED BY <3>1, <3>2
  <2>5. Unblocked(u) => "SUSPEND" \notin OSTCBStat[u]
    BY DEF Unblocked
  <2>6. Unblocked(u)' <=> "SUSPEND" \notin OSTCBStat[u]
    BY <2>1, <2>2 DEF Unblocked, PendOK
  <2>. QED BY <2>3, <2>4, <2>5, <2>6, <1>2, SteadyFrame DEF ReadyTasks, WaitTasks
<1>7. /\ ReadyTasks' = ReadyTasks \cup now
      /\ \A f : WaitTasks(f)' = WaitTasks(f) \ ts
  <2>1. /\ ReadyTasks \in SUBSET Tasks /\ ReadyTasks' \in SUBSET Tasks
        /\ \A f : WaitTasks(f) \in SUBSET Tasks /\ WaitTasks(f)' \in SUBSET Tasks
    BY <1>2, Lives, SteadyFrame DEF IInv, ReadyTasks, WaitTasks
  <2>2. \A u \in Tasks \ ts : /\ u \in ReadyTasks' <=> u \in ReadyTasks
                              /\ \A f : u \in WaitTasks(f)' <=> u \in WaitTasks(f)
    BY <1>5, KeptFrame
  <2>3. ReadyTasks' = ReadyTasks \cup now
    <3>1. now \in SUBSET ts /\ ts \in SUBSET Tasks
      BY <1>2
    <3> HIDE DEF now
    <3>. QED BY <2>1, <2>2, <3>1, <1>6
  <2>4. ASSUME NEW f PROVE WaitTasks(f)' = WaitTasks(f) \ ts
    BY <2>1, <2>2, <1>6
  <2>. QED BY <2>3, <2>4
<1>8. TaskListsExact'
  <2>1. OSRdyTbl' = MapOf(Current(ReadyTasks'))
    BY <1>1, <1>7
  <2>2. \A f \in Events : OSEventTbl'[f] = MapOf(Current(WaitTasks(f)'))
    BY <1>1, <1>7
  <2>. QED BY <2>1, <2>2, SteadyFrame, ListsArePrime
<1>9. Typed'
  <2>1. DOMAIN OSEventTbl' = Events /\ OSEventTbl' = [f \in Events |-> OSEventTbl'[f]]
    BY <1>1
  <2>2. /\ OSTCBStat' \in [Tasks -> SUBSET Stats] /\ OSTCBStatPend' \in [Tasks -> PendStats]
        /\ OSTCBDly' \in [Tasks -> Nat] /\ OSTCBEventPtr' \in [Tasks -> Events \cup {NoEvent}]
        /\ pc' \in [Tasks -> Pcs]
    BY <1>1 DEF IInv, Typed, TypeOK, PendStats, Pcs, ToSched
  <2>3. OSTCBEventMultiPtr' \in [Tasks -> SUBSET Events] /\ asked' \in [Tasks -> SUBSET Events]
    BY DEF IInv, Typed, TypeOK
  <2>. QED BY <1>8, <2>1, <2>2, <2>3, ListsTyped
<1>10. PcStep
  BY DEF PcStep, ToSched, Pcs
<1>11. OSIntNesting' = 1 \/ pc'[OSTCBCur] \in {"sched", "pend"} \/ NobodyReady
  <2>1. ts = {} => ReadyTasks' = ReadyTasks
    BY <1>7
  <2>. QED BY <2>1 DEF NobodyReady
<1>12. ts \in SUBSET (Alive \ {IdleTask})
  BY <1>2
<1>. QED BY <1>5, <1>6, <1>8, <1>9, <1>10, <1>11, <1>12, StepIInv
LEMMA AskedSem ==
  ASSUME IInv, NEW e \in Events, NEW u \in WaitTasks(e)
  PROVE  \A f \in asked[u] : IsSem(f)
<1>1. PendOK(u)
  BY DEF WaitTasks, InPend, IInv, TaskOK
<1>. QED BY <1>1 DEF PendOK, PendManyOK

(* The caller of a service that ends at the scheduler.                     *)
LEMMA LeavesT ==
  ASSUME IInv, NEW t \in Tasks, NEW e \in Events, Enter(t, e),
         pc' = pc \/ pc' = [pc EXCEPT ![t] = "sched"]
  PROVE  ToSched /\ OSTCBCur = t /\ (pc' = [pc EXCEPT ![t] = "sched"] => pc'[OSTCBCur] = "sched")
         /\ OSIntNesting = 0
<1>1. Calls(t) /\ ~Deletes(t) /\ ~Makes(t)
  BY EnterT
<1>. QED BY <1>1, CallerT DEF ToSched, IInv, Typed, TypeOK

LEMMA RdyCallT ==
  ASSUME IInv, NEW e \in Events, NEW ts \in SUBSET WaitTasks(e), NEW s \in {"OK", "ABORT"},
         OS_EventTaskRdy(e, Current(ts), "SEM", s),
         UNCHANGED <<OSTCBPrio, OSTCBEventMultiPtr, tblVars, OSEventType, OSEventCnt, curVars,
                     OSLockNesting, asked, lifeVars>>,
         checked' = checked \/ \E t \in Tasks : checked' = [checked EXCEPT ![t] = NoEvent],
         ToSched, OSIntNesting' \in {0, 1}, OSIntNesting' = 1 \/ pc'[OSTCBCur] = "sched"
  PROVE  IInv'
<1>1. Steady
  BY DEF Steady
<1>2. \A f : IsSem(f)' = IsSem(f)
  BY DEF IsSem
<1>3. /\ \A u \in Tasks : checked'[u] \in {checked[u], NoEvent}
      /\ checked' \in [Tasks -> Events \cup {NoEvent}]
  BY DEF IInv, Typed
<1>4. \A u \in Tasks : EventsStay(u) /\ CallOK(u)'
  BY <1>1, <1>2, <1>3, CallsFrame DEF EventsStay
<1>5. \A u \in ts : \A f \in asked[u] : IsSem(f)'
  BY <1>2, AskedSem
<1>6. OSEventType' \in [Events -> {"UNUSED", "SEM", "MUTEX"}] /\ OSEventCnt' \in [Events -> Nat]
  BY DEF IInv, Typed, TypeOK
<1>. QED BY <1>1, <1>3, <1>4, <1>5, <1>6, RdyStepT

LEMMA PostWaiterT ==
  ASSUME IInv, NEW e \in Events, PostToWaiter(e),
         \/ \E t \in Tasks : OSSemPost(t, e) /\ Goto(t, "sched")
         \/ EnterISR /\ UNCHANGED checked,
         UNCHANGED <<asked, lifeVars>>
  PROVE  IInv'
<1>1. PICK u \in WaitTasks(e) : HighestWaiter(e) = Current({u})
  BY WaitersT DEF PostToWaiter
<1>2. OS_EventTaskRdy(e, Current({u}), "SEM", "OK") /\ {u} \in SUBSET WaitTasks(e)
      /\ UNCHANGED <<OSTCBPrio, OSTCBEventMultiPtr, tblVars, OSEventType, OSEventCnt>>
  BY <1>1 DEF PostToWaiter
<1>3. CASE EnterISR /\ UNCHANGED checked
  BY <1>2, <1>3, RdyCallT DEF EnterISR, ToSched
<1>4. ASSUME NEW t \in Tasks, OSSemPost(t, e) /\ Goto(t, "sched") PROVE IInv'
  <2>1. /\ Enter(t, e) /\ checked' = [checked EXCEPT ![t] = NoEvent]
        /\ pc' = [pc EXCEPT ![t] = "sched"]
        /\ UNCHANGED <<curVars, OSLockNesting, OSIntNesting>>
    BY <1>4 DEF OSSemPost, Enter, Goto, nestVars
  <2>2. ToSched /\ pc'[OSTCBCur] = "sched" /\ OSIntNesting' \in {0, 1}
    BY <2>1, LeavesT
  <2>. QED BY <1>2, <2>1, <2>2, RdyCallT
<1>. QED BY <1>3, <1>4

LEMMA PendAbortT ==
  ASSUME IInv, NEW t \in Tasks, NEW e \in Events, NEW broadcast \in BOOLEAN,
         OSSemPendAbort(t, e, broadcast), UNCHANGED <<asked, lifeVars>>
  PROVE  IInv'
<1>1. PICK ts \in SUBSET WaitTasks(e) :
        (IF broadcast THEN AllWaiters(e) ELSE HighestWaiter(e)) = Current(ts)
  <2>1. WaitTasks(e) \in SUBSET WaitTasks(e) /\ Waiting(e)
    BY DEF OSSemPendAbort
  <2>. QED BY <2>1, WaitersT
<1>2. /\ Enter(t, e) /\ OS_EventTaskRdy(e, Current(ts), "SEM", "ABORT")
      /\ pc' = [pc EXCEPT ![t] = "sched"] /\ checked' = [checked EXCEPT ![t] = NoEvent]
      /\ UNCHANGED <<OSTCBPrio, OSTCBEventMultiPtr, tblVars, OSEventType, OSEventCnt, curVars,
                     OSLockNesting, OSIntNesting>>
  BY <1>1 DEF OSSemPendAbort, Goto, Enter, nestVars
<1>3. ToSched /\ pc'[OSTCBCur] = "sched" /\ OSIntNesting' \in {0, 1}
  BY <1>2, LeavesT
<1>. QED BY <1>2, <1>3, RdyCallT

LEMMA DelAlwaysT ==
  ASSUME IInv, NEW t \in Tasks, NEW e \in Events, CarefulDelete(t, e), OSSemDelAlways(t, e),
         UNCHANGED <<asked, lifeVars>>
  PROVE  IInv'
<1> DEFINE ts == WaitTasks(e)
<1>1. /\ Enter(t, e) /\ OS_EventTaskRdy(e, Current(ts), "SEM", "OK")
      /\ checked' = [checked EXCEPT ![t] = NoEvent]
      /\ OSEventType' = [OSEventType EXCEPT ![e] = "UNUSED"]
      /\ OSEventCnt' = [OSEventCnt EXCEPT ![e] = 0]
      /\ IF ts # {} THEN pc' = [pc EXCEPT ![t] = "sched"] ELSE pc' = pc
      /\ UNCHANGED <<OSTCBPrio, OSTCBEventMultiPtr, tblVars, curVars, OSLockNesting, OSIntNesting>>
  BY WaitersT DEF OSSemDelAlways, Release, Enter, Goto, nestVars
<1>2. ToSched /\ OSIntNesting' \in {0, 1} /\ (ts # {} => pc'[OSTCBCur] = "sched")
  BY <1>1, LeavesT
<1>3. Steady
  BY <1>1 DEF Steady
<1>4. \A f \in Events : f # e => (IsSem(f)' <=> IsSem(f))
  BY <1>1 DEF IsSem, IInv, Typed, TypeOK
<1>5. \A u \in Tasks : u \notin ts => EventsStay(u)
  BY <1>4 DEF EventsStay, CarefulDelete, InPend
<1>6. \A u \in ts : \A f \in asked[u] : IsSem(f)'
  <2>1. ASSUME NEW u \in ts, NEW f \in asked[u] PROVE IsSem(f)'
    <3>1. u \in Tasks /\ pc[u] \in {"pend", "wake"}
      BY Lives DEF IInv, WaitTasks, InPend
    <3>2. f \in Events /\ f # e
      BY <3>1 DEF CarefulDelete, IInv, Typed
    <3>. QED BY <3>2, <1>4, AskedSem
  <2>. QED BY <2>1
<1>7. /\ \A u \in Tasks : checked'[u] \in {checked[u], NoEvent}
      /\ checked' \in [Tasks -> Events \cup {NoEvent}]
      /\ OSEventType' \in [Events -> {"UNUSED", "SEM", "MUTEX"}] /\ OSEventCnt' \in [Events -> Nat]
  BY <1>1 DEF IInv, Typed, TypeOK
<1>8. \A u \in Tasks : CallOK(u)'
  <2>1. ASSUME NEW u \in Tasks, checked'[u] # NoEvent, IsSem(checked[u]) PROVE IsSem(checked[u])'
    <3>1. u # t /\ checked[u] \in Events /\ checked[u] # e /\ checked'[u] = checked[u]
      BY <1>1, <2>1 DEF IInv, Typed, CarefulDelete
    <3>. QED BY <2>1, <3>1, <1>4 DEF IsSem
  <2>. QED BY <2>1, <1>3, <1>7, CallsFrame
<1>9. ts \in SUBSET WaitTasks(e)
  OBVIOUS
<1> HIDE DEF ts
<1>. QED BY <1>1, <1>2, <1>3, <1>5, <1>6, <1>7, <1>8, <1>9, RdyStepT

LEMMA SemStepT ==
  ASSUME IInv, NEW t \in Tasks, NEW e \in Events, SemStep(t, e)
  PROVE  IInv'
<1>1. UNCHANGED <<asked, lifeVars>>
  BY DEF SemStep
<1>2. CASE Ready4Call(t) /\ \E cnt \in InitialCnts : OSSemCreate(t, e, cnt)
  BY <1>1, <1>2, CreateT
<1>3. CASE Ready4Call(t) /\ Check(t, e)
  BY <1>1, <1>3, CheckT
<1>4. CASE OSSemPendTake(t, e) \/ OSSemUnchanged(t, e)
  BY <1>1, <1>4, CountStepsT
<1>5. CASE \E timeout \in Timeouts : OSSemPendBlock(t, e, timeout)
  BY <1>1, <1>5, PendBlockT
<1>6. CASE \E broadcast \in BOOLEAN : OSSemPendAbort(t, e, broadcast)
  BY <1>1, <1>6, PendAbortT
<1>7. CASE OSSemPost(t, e)
  <2>1. CASE PostToWaiter(e) /\ Goto(t, "sched")
    BY <1>1, <1>7, <2>1, PostWaiterT
  <2>2. CASE PostCount(e)
    BY <1>1, <1>7, <2>2, CountStepsT
  <2>. QED BY <1>7, <2>1, <2>2 DEF OSSemPost
<1>8. CASE CarefulDelete(t, e)
  <2>1. CASE OSSemDelNoPend(t, e)
    BY <1>1, <1>8, <2>1, DelNoPendT
  <2>2. CASE OSSemDelAlways(t, e)
    BY <1>1, <1>8, <2>2, DelAlwaysT
  <2>. QED BY <1>8, <2>1, <2>2 DEF CarefulDelete, SemDelete
<1>. QED BY <1>2, <1>3, <1>4, <1>5, <1>6, <1>7, <1>8 DEF SemStep
-----------------------------------------------------------------------------
(* Time-outs: a task with a delay pends; it stays on its wait lists.       *)
LEMMA DelayedT ==
  ASSUME IInv, NEW t \in OSTCBList, OSTCBDly[t] # 0
  PROVE  /\ t \in Alive \ {IdleTask} /\ PendOK(t) /\ "SEM" \in OSTCBStat[t]
         /\ pc[t] \in {"pend", "wake"}
<1>1. t \in Alive
  BY DEF Alive, Dying, IInv, DeletingOK, Deletes
<1>2. pc[t] \in {"pend", "wake"} /\ PendOK(t)
  BY <1>1 DEF IInv, TaskOK, NoPendOK
<1>. QED BY <1>1, <1>2 DEF IInv, Running, IdleOK, PendOK

LEMMA TickT ==
  ASSUME IInv, TickISR, UNCHANGED <<checked, asked, lifeVars>>
  PROVE  IInv'
<1> DEFINE walked == OSTCBList \ {IdleTask}
           left   == [t \in Tasks |-> IF t \in walked /\ OSTCBDly[t] # 0
                                        THEN OSTCBDly[t] - 1 ELSE OSTCBDly[t]]
           ts     == {t \in walked : OSTCBDly[t] # 0 /\ left[t] = 0}
           late   == {t \in walked : OSTCBDly[t] # 0}
           now    == {t \in ts : "SUSPEND" \notin OSTCBStat[t]}
<1>1. /\ OSTCBDly' = left
      /\ OSTCBStat' = [t \in Tasks |-> IF t \in ts /\ OSTCBStat[t] \cap PendAny # {}
                                         THEN OSTCBStat[t] \ PendAny ELSE OSTCBStat[t]]
      /\ OSTCBStatPend' = [t \in Tasks |-> IF t \in ts /\ OSTCBStat[t] \cap PendAny # {} THEN "TO"
                                           ELSE IF t \in ts THEN "OK" ELSE OSTCBStatPend[t]]
      /\ OSRdyTbl' = MapSet(OSRdyTbl, Current(now))
      /\ UNCHANGED <<OSTCBPrio, OSTCBEventPtr, OSTCBEventMultiPtr, tblVars, eventVars,
                     curVars, OSLockNesting, pc>>
      /\ OSIntNesting' = 1
  BY DEF TickISR, EnterISR, OSTimeTick, Expire, Current
<1>2. Steady
  BY <1>1 DEF Steady
<1>3. late \in SUBSET (Alive \ {IdleTask}) /\ Alive \in SUBSET Tasks /\ ts \in SUBSET late
      /\ now \in SUBSET ts /\ ReadyTasks \in SUBSET Tasks
  BY DelayedT, Lives DEF IInv
<1>4. \A u \in Tasks \ late : OSTCBDly'[u] = OSTCBDly[u] /\ u \notin ts
  BY <1>1
<1>5. ASSUME NEW u \in Tasks \ late PROVE Kept(u)
  BY <1>1, <1>4 DEF Kept
<1>6. ASSUME NEW u \in late
      PROVE  /\ TaskOK(u)' /\ (u \in ReadyTasks' <=> u \in now) /\ u \notin ReadyTasks
             /\ \A f : u \in WaitTasks(f)' <=> u \in WaitTasks(f)
  <2>1. u \in Alive /\ PendOK(u) /\ "SEM" \in OSTCBStat[u] /\ pc[u] \in {"pend", "wake"}
        /\ u \in Tasks /\ OSTCBDly[u] # 0
    BY <1>3, DelayedT
  <2>2. OSTCBStat[u] \cap PendAny # {} /\ OSTCBStat[u] \ PendAny = OSTCBStat[u] \ {"SEM"}
    BY <2>1 DEF PendOK, PendAny
  <2>3. /\ OSTCBStat'[u] = IF u \in ts THEN OSTCBStat[u] \ {"SEM"} ELSE OSTCBStat[u]
        /\ OSTCBStatPend'[u] = IF u \in ts THEN "TO" ELSE OSTCBStatPend[u]
        /\ OSTCBDly'[u] = 0 <=> u \in ts
        /\ OSTCBEventPtr'[u] = OSTCBEventPtr[u] /\ OSTCBEventMultiPtr'[u] = OSTCBEventMultiPtr[u]
        /\ asked'[u] = asked[u] /\ checked'[u] = checked[u] /\ pc'[u] = pc[u]
    <3>1. OSTCBDly'[u] = left[u] /\ u \in walked
      BY <1>1, <2>1
    <3>2. u \in ts <=> left[u] = 0
      BY <2>1, <3>1
    <3> HIDE DEF ts, left
    <3>. QED BY <1>1, <2>1, <2>2, <3>1, <3>2
  <2>4. Pending(u) /\ Pending(u)' /\ WaitsOn(u)' = WaitsOn(u)
    BY <2>1, <2>3 DEF Pending, WaitsOn
  <2>5. TaskOK(u)'
    <3>1. \A f : IsSem(f)' = IsSem(f)
      BY <1>1 DEF IsSem, eventVars
    <3>2. CASE asked[u] = {}
      BY <2>1, <2>3, <2>4, <3>1, <3>2 DEF TaskOK, PendOK, PendOneOK, IsSem
    <3>3. CASE asked[u] # {}
      BY <2>1, <2>3, <2>4, <3>1, <3>3 DEF TaskOK, PendOK, PendManyOK, IsSem
    <3>. QED BY <3>2, <3>3
  <2>6. ~Unblocked(u) /\ (Unblocked(u)' <=> u \in now)
    BY <2>1, <2>3 DEF Unblocked, PendOK
  <2>7. InPend(u)' /\ InPend(u) /\ u \in Alive'
    BY <1>2, <2>1, <2>3, SteadyFrame DEF InPend
  <2>. QED BY <2>4, <2>5, <2>6, <2>7, <2>1 DEF ReadyTasks, WaitTasks
<1> HIDE DEF ts, left, late, now
<1>7. /\ ReadyTasks' = ReadyTasks \cup now
      /\ \A f : WaitTasks(f)' = WaitTasks(f)
  <2>1. /\ ReadyTasks \in SUBSET Tasks /\ ReadyTasks' \in SUBSET Tasks
        /\ \A f : WaitTasks(f) \in SUBSET Tasks /\ WaitTasks(f)' \in SUBSET Tasks
    BY <1>2, <1>3, Lives, SteadyFrame DEF IInv, ReadyTasks, WaitTasks
  <2>2. \A u \in Tasks \ late : /\ u \in ReadyTasks' <=> u \in ReadyTasks
                                /\ \A f : u \in WaitTasks(f)' <=> u \in WaitTasks(f)
    BY <1>2, <1>5, KeptFrame
  <2>3. ReadyTasks' = ReadyTasks \cup now
    BY <2>1, <2>2, <1>3, <1>6
  <2>4. ASSUME NEW f PROVE WaitTasks(f)' = WaitTasks(f)
    BY <2>1, <2>2, <1>6
  <2>. QED BY <2>3, <2>4
<1>8. TaskListsExact'
  <2>1. OSRdyTbl' = MapOf(Current(ReadyTasks'))
    <3>1. now \in SUBSET Tasks /\ OSRdyTbl = MapOf(Current(ReadyTasks))
      BY <1>3, ListsAre DEF IInv
    <3>. QED BY <1>1, <1>3, <1>7, <3>1, CurrentJoin DEF IInv
  <2>2. \A f \in Events : OSEventTbl'[f] = MapOf(Current(WaitTasks(f)'))
    BY <1>1, <1>7, ListsAre DEF IInv, eventVars
  <2>. QED BY <1>2, <2>1, <2>2, SteadyFrame, ListsArePrime
<1>9. Typed'
  <2>1. DOMAIN OSEventTbl' = Events /\ OSEventTbl' = [f \in Events |-> OSEventTbl'[f]]
    BY <1>1 DEF eventVars, IInv, Typed, TypeOK
  <2>2. left \in [Tasks -> Nat]
    BY DEF left, IInv, Typed, TypeOK
  <2>3. /\ OSTCBStat' \in [Tasks -> SUBSET Stats] /\ OSTCBStatPend' \in [Tasks -> PendStats]
        /\ OSTCBDly' \in [Tasks -> Nat]
    BY <1>1, <2>2 DEF IInv, Typed, TypeOK, PendStats
  <2>4. /\ OSTCBEventMultiPtr' \in [Tasks -> SUBSET Events] /\ asked' \in [Tasks -> SUBSET Events]
        /\ OSTCBEventPtr' \in [Tasks -> Events \cup {NoEvent}]
        /\ OSEventType' \in [Events -> {"UNUSED", "SEM", "MUTEX"}] /\ OSEventCnt' \in [Events -> Nat]
        /\ checked' \in [Tasks -> Events \cup {NoEvent}] /\ pc' \in [Tasks -> Pcs]
    BY <1>1 DEF IInv, Typed, TypeOK, eventVars
  <2>. QED BY <1>1, <1>2, <1>8, <2>1, <2>3, <2>4, ListsTyped
<1>10. \A u \in Tasks : EventsStay(u) /\ CallOK(u)'
  <2>1. \A f : IsSem(f)' = IsSem(f)
    BY <1>1 DEF IsSem, eventVars
  <2>. QED BY <1>2, <2>1, CallsFrame DEF EventsStay
<1>11. PcStep
  BY <1>1 DEF PcStep
<1>. QED BY <1>1, <1>2, <1>3, <1>5, <1>6, <1>8, <1>9, <1>10, <1>11, StepIInv
-----------------------------------------------------------------------------
(* Suspension.                                                             *)
LEMMA SuspendBitT ==
  ASSUME IInv, NEW u \in Alive \ {IdleTask}, NEW stat \in SUBSET Stats, "MULTI" \notin OSTCBStat[u],
         stat \ {"SUSPEND"} = OSTCBStat[u] \ {"SUSPEND"},
         OSTCBStat' = [OSTCBStat EXCEPT ![u] = stat],
         UNCHANGED <<OSTCBPrio, OSTCBStatPend, OSTCBDly, OSTCBEventPtr, OSTCBEventMultiPtr,
                     tblVars, eventVars, curVars, nestVars, callVars, lifeVars>>,
         ToSched, OSRdyTbl' = MapOf(Current(ReadyTasks')),
         pc'[OSTCBCur] = "sched" \/ (pc' = pc /\ NobodyReady)
  PROVE  IInv'
<1>1. Steady /\ u \in Tasks
  BY Lives DEF Steady, IInv
<1>2. \A f : IsSem(f)' = IsSem(f)
  BY DEF IsSem, eventVars
<1>3. \A v \in Tasks : pc'[v] \in {"pend", "wake"} <=> pc[v] \in {"pend", "wake"}
  BY DEF ToSched, IInv, Typed, TypeOK
<1>4. ASSUME NEW v \in Tasks \ {u} PROVE Kept(v)
  <2>1. OSTCBStat'[v] = OSTCBStat[v]
    BY DEF IInv, Typed, TypeOK
  <2>. QED BY <2>1, <1>3 DEF Kept, callVars
<1>5. /\ OSTCBStat'[u] = stat /\ OSTCBStatPend'[u] = OSTCBStatPend[u] /\ OSTCBDly'[u] = OSTCBDly[u]
      /\ OSTCBEventPtr'[u] = OSTCBEventPtr[u] /\ OSTCBEventMultiPtr'[u] = OSTCBEventMultiPtr[u]
      /\ asked'[u] = asked[u] /\ checked'[u] = checked[u]
  BY <1>1 DEF IInv, Typed, TypeOK, callVars
<1>6. \A s : s # "SUSPEND" => (s \in stat <=> s \in OSTCBStat[u])
  OBVIOUS
<1>7. /\ Pending(u)' <=> Pending(u)
      /\ WaitsOn(u)' = WaitsOn(u)
  BY <1>5, <1>6 DEF Pending, WaitsOn
<1>8. TaskOK(u)'
  <2>1. TaskOK(u)
    BY DEF IInv
  <2>2. CASE pc[u] \notin {"pend", "wake"}
    BY <2>1, <2>2, <1>1, <1>3, <1>5, <1>6 DEF TaskOK, NoPendOK
  <2>3. CASE pc[u] \in {"pend", "wake"}
    <3>1. PendOK(u) /\ asked[u] = {}
      BY <2>1, <2>3 DEF TaskOK, PendOK, PendManyOK
    <3>2. PendOneOK(u)'
      BY <3>1, <1>2, <1>5, <1>6, <1>7 DEF PendOK, PendOneOK, IsSem
    <3>. QED BY <2>3, <3>1, <3>2, <1>1, <1>3, <1>5, <1>6 DEF TaskOK, PendOK
  <2>. QED BY <2>2, <2>3
<1>9. \A f : WaitTasks(f)' = WaitTasks(f)
  <2>1. \A v \in Tasks : \A f : v \in WaitTasks(f)' <=> v \in WaitTasks(f)
    <3>1. \A f : u \in WaitTasks(f)' <=> u \in WaitTasks(f)
      BY <1>1, <1>3, <1>7, SteadyFrame DEF WaitTasks, InPend
    <3>. QED BY <1>1, <1>4, <3>1, KeptFrame
  <2>2. \A f : WaitTasks(f) \in SUBSET Tasks /\ WaitTasks(f)' \in SUBSET Tasks
    BY <1>1, Lives, SteadyFrame DEF IInv, WaitTasks
  <2>3. ASSUME NEW f PROVE WaitTasks(f)' = WaitTasks(f)
    BY <2>1, <2>2
  <2>. QED BY <2>3
<1>10. TaskListsExact'
  <2>1. \A f \in Events : OSEventTbl'[f] = MapOf(Current(WaitTasks(f)'))
    BY <1>9, ListsAre DEF IInv, eventVars
  <2>. QED BY <1>1, <2>1, SteadyFrame, ListsArePrime
<1>11. Typed'
  <2>1. DOMAIN OSEventTbl' = Events /\ OSEventTbl' = [f \in Events |-> OSEventTbl'[f]]
    BY DEF eventVars, IInv, Typed, TypeOK
  <2>2. OSTCBStat' \in [Tasks -> SUBSET Stats] /\ pc' \in [Tasks -> Pcs]
    BY DEF IInv, Typed, TypeOK, ToSched, Pcs
  <2>3. /\ OSTCBStatPend' \in [Tasks -> PendStats] /\ OSTCBDly' \in [Tasks -> Nat]
        /\ OSTCBEventMultiPtr' \in [Tasks -> SUBSET Events] /\ asked' \in [Tasks -> SUBSET Events]
        /\ OSTCBEventPtr' \in [Tasks -> Events \cup {NoEvent}]
        /\ OSEventType' \in [Events -> {"UNUSED", "SEM", "MUTEX"}] /\ OSEventCnt' \in [Events -> Nat]
        /\ checked' \in [Tasks -> Events \cup {NoEvent}] /\ OSIntNesting' \in {0, 1}
    BY DEF IInv, Typed, TypeOK, eventVars, callVars, nestVars
  <2>. QED BY <1>1, <1>10, <2>1, <2>2, <2>3, ListsTyped DEF nestVars
<1>12. \A v \in Tasks : EventsStay(v) /\ CallOK(v)'
  BY <1>1, <1>2, CallsFrame DEF EventsStay, callVars
<1>13. PcStep
  BY DEF PcStep, ToSched, Pcs
<1>14. {u} \in SUBSET (Alive \ {IdleTask})
  OBVIOUS
<1>. QED BY <1>1, <1>4, <1>8, <1>10, <1>11, <1>12, <1>13, <1>14, StepIInv DEF nestVars

(* What a service finds under a priority.                                  *)
LEMMA FoundT ==
  ASSUME IInv, NEW prio \in Prios, OSTCBPrioTbl[prio] \in Tasks
  PROVE  LET u == OSTCBPrioTbl[prio]
         IN  /\ OSTCBPrio[u] = prio /\ u \notin OSTCBFreeList
             /\ u \in OSTCBList \/ Clean(u)
             /\ u = IdleTask => prio = LowestPrio
<1> DEFINE u == OSTCBPrioTbl[prio]
<1>1. OSTCBPrio[u] = prio /\ u \notin OSTCBFreeList
  BY DEF IInv, Table
<1>2. ASSUME u \notin OSTCBList PROVE Clean(u)
  <2>1. PICK t \in Tasks : Makes(t) /\ making[t].ptcb = u
    BY <1>1, <1>2 DEF IInv, Table
  <2>2. MakingOK(t) /\ u # NoTCB
    BY CoreAssumption DEF IInv
  <2>. QED BY <2>1, <2>2 DEF MakingOK
<1>. QED BY <1>1, <1>2 DEF IInv, Running

LEMMA SuspendT ==
  ASSUME Careful, IInv, NEW t \in Tasks, NEW prio \in Prios, Ready4Call(t), CarefulSuspend(t, prio),
         UNCHANGED <<callVars, lifeVars>>
  PROVE  IInv'
<1>. PICK u \in Tasks : u = OSTCBPrioTbl[prio]
  BY DEF CarefulSuspend
<1>1. /\ "MULTI" \notin OSTCBStat[u] /\ u \in OSTCBList /\ prio < LowestPrio
      /\ OSRdyTbl' = MapClr(OSRdyTbl, {OSTCBPrio[u]})
      /\ OSTCBStat' = [OSTCBStat EXCEPT ![u] = OSTCBStat[u] \cup {"SUSPEND"}]
      /\ IF prio = OSTCBPrio[t] THEN pc' = [pc EXCEPT ![t] = "sched"] ELSE pc' = pc
      /\ UNCHANGED <<OSTCBPrio, OSTCBStatPend, OSTCBDly, OSTCBEventPtr, OSTCBEventMultiPtr,
                     tblVars, eventVars, curVars, nestVars>>
  BY DEF Careful, CarefulSuspend, OSTaskSuspend, Unready, Goto
<1>2. Calls(t) /\ ~Deletes(t) /\ ~Makes(t)
  BY DEF Ready4Call, Free, Deletes, Makes
<1>3. /\ t = OSTCBCur /\ t # IdleTask /\ t \in Alive /\ Alive = OSTCBList /\ pc[t] = "run"
  BY <1>2, CallerT
<1>4. OSTCBPrio[u] = prio /\ u # IdleTask
  BY <1>1, FoundT, LowestPrioAssumption DEF Prios
<1>5. u \in Alive \ {IdleTask} /\ (prio = OSTCBPrio[t] <=> u = t)
  BY <1>1, <1>3, <1>4 DEF IInv, Table
<1>6. ToSched
  BY <1>1, <1>2, <1>3 DEF ToSched
<1> DEFINE stat == OSTCBStat[u] \cup {"SUSPEND"}
<1>7. stat \in SUBSET Stats /\ stat \ {"SUSPEND"} = OSTCBStat[u] \ {"SUSPEND"}
  BY DEF IInv, Typed, TypeOK, Stats
<1>8. Steady /\ \A v \in Tasks : OSTCBStat'[v] = IF v = u THEN stat ELSE OSTCBStat[v]
  BY <1>1 DEF Steady, IInv, Typed, TypeOK
<1>9. ReadyTasks' = ReadyTasks \ {u}
  <2>1. ASSUME NEW v \in Tasks PROVE v \in ReadyTasks' <=> v \in ReadyTasks \ {u}
    BY <1>1, <1>8, SteadyFrame DEF ReadyTasks, Unblocked
  <2>2. ReadyTasks \in SUBSET Tasks /\ ReadyTasks' \in SUBSET Tasks
    BY <1>8, SteadyFrame, Lives DEF IInv, ReadyTasks
  <2>. QED BY <2>1, <2>2
<1>10. OSRdyTbl' = MapOf(Current(ReadyTasks'))
  <2>1. {u} \in SUBSET OSTCBList /\ ReadyTasks \in SUBSET OSTCBList
    BY <1>1, Lives DEF IInv
  <2>2. OSRdyTbl = MapOf(Current(ReadyTasks)) /\ Current({u}) = {OSTCBPrio[u]}
    BY ListsAre, CurrentOne DEF IInv
  <2>. QED BY <1>1, <1>9, <2>1, <2>2, CurrentLeave DEF IInv
<1>11. pc'[OSTCBCur] = "sched" \/ (pc' = pc /\ NobodyReady)
  <2>1. CASE u = t
    BY <2>1, <1>1, <1>3, <1>5 DEF IInv, Typed, TypeOK
  <2>2. CASE u # t
    BY <2>2, <1>1, <1>3, <1>5, <1>9 DEF NobodyReady, nestVars
  <2>. QED BY <2>1, <2>2
<1> HIDE DEF stat
<1>12. OSTCBStat' = [OSTCBStat EXCEPT ![u] = stat]
  BY <1>1 DEF stat
<1>. QED BY <1>1, <1>5, <1>6, <1>7, <1>10, <1>11, <1>12, SuspendBitT

LEMMA ResumeT ==
  ASSUME IInv, NEW t \in Tasks, NEW prio \in Prios, Ready4Call(t), OSTaskResume(t, prio),
         UNCHANGED <<callVars, lifeVars>>
  PROVE  IInv'
<1>. PICK u \in Tasks : u = OSTCBPrioTbl[prio]
  BY DEF OSTaskResume
<1>. PICK stat : stat = OSTCBStat[u] \ {"SUSPEND"}
  OBVIOUS
<1>1. /\ "SUSPEND" \in OSTCBStat[u]
      /\ OSTCBStat' = [OSTCBStat EXCEPT ![u] = stat]
      /\ IF stat = {} /\ OSTCBDly[u] = 0
           THEN OSRdyTbl' = MapSet(OSRdyTbl, {OSTCBPrio[u]}) /\ pc' = [pc EXCEPT ![t] = "sched"]
           ELSE OSRdyTbl' = OSRdyTbl /\ pc' = pc
      /\ UNCHANGED <<OSTCBPrio, OSTCBStatPend, OSTCBDly, OSTCBEventPtr, OSTCBEventMultiPtr,
                     tblVars, eventVars, curVars, nestVars>>
  BY DEF OSTaskResume, Goto
<1>2. Calls(t) /\ ~Deletes(t) /\ ~Makes(t)
  BY DEF Ready4Call, Free, Deletes, Makes
<1>3. /\ t = OSTCBCur /\ t # IdleTask /\ t \in Alive /\ Alive = OSTCBList /\ pc[t] = "run"
  BY <1>2, CallerT
<1>4. u \in Alive \ {IdleTask}
  <2>1. u \in OSTCBList \/ Clean(u)
    BY FoundT
  <2>2. u # IdleTask
    BY <1>1 DEF IInv, Running, IdleOK, Runnable
  <2>. QED BY <1>1, <1>3, <2>1, <2>2 DEF Clean
<1>5. "MULTI" \notin OSTCBStat[u] /\ OSTCBStat[u] \in SUBSET Stats
  <2>1. TaskOK(u)
    BY <1>4 DEF IInv
  <2>2. "MULTI" \notin OSTCBStat[u]
    BY <2>1, <1>1 DEF TaskOK, NoPendOK, PendOK, PendOneOK, PendManyOK
  <2>. QED BY <2>2 DEF IInv, Typed, TypeOK
<1>6. ToSched
  BY <1>1, <1>2, <1>3 DEF ToSched
<1>7. stat \in SUBSET Stats /\ stat \ {"SUSPEND"} = OSTCBStat[u] \ {"SUSPEND"}
  BY <1>5
<1>8. Steady /\ \A v \in Tasks : OSTCBStat'[v] = IF v = u THEN stat ELSE OSTCBStat[v]
  BY <1>1 DEF Steady, IInv, Typed, TypeOK
<1>9. u \notin ReadyTasks
      /\ ReadyTasks' = IF stat = {} /\ OSTCBDly[u] = 0 THEN ReadyTasks \cup {u} ELSE ReadyTasks
  <2>1. u \notin ReadyTasks
    BY <1>1 DEF ReadyTasks, Unblocked
  <2>2. ASSUME NEW v \in Tasks \ {u} PROVE v \in ReadyTasks' <=> v \in ReadyTasks
    BY <1>1, <1>8, SteadyFrame DEF ReadyTasks, Unblocked
  <2>3. u \in ReadyTasks' <=> stat = {} /\ OSTCBDly[u] = 0
    <3>1. stat \subseteq {"MULTI"} <=> stat = {}
      BY <1>5
    <3>. QED BY <1>1, <1>4, <1>8, <3>1, SteadyFrame DEF ReadyTasks, Unblocked
  <2>4. ReadyTasks \in SUBSET Tasks /\ ReadyTasks' \in SUBSET Tasks
    BY <1>8, SteadyFrame, Lives DEF IInv, ReadyTasks
  <2>. QED BY <2>1, <2>2, <2>3, <2>4
<1>10. OSRdyTbl' = MapOf(Current(ReadyTasks'))
  <2>1. {u} \in SUBSET Tasks /\ ReadyTasks \in SUBSET Tasks
    BY Lives DEF IInv
  <2>2. OSRdyTbl = MapOf(Current(ReadyTasks)) /\ Current({u}) = {OSTCBPrio[u]}
    BY ListsAre, CurrentOne DEF IInv
  <2>. QED BY <1>1, <1>9, <2>1, <2>2, CurrentJoin DEF IInv
<1>11. pc'[OSTCBCur] = "sched" \/ (pc' = pc /\ NobodyReady)
  <2>1. CASE stat = {} /\ OSTCBDly[u] = 0
    BY <2>1, <1>1, <1>3 DEF IInv, Typed, TypeOK
  <2>2. CASE ~(stat = {} /\ OSTCBDly[u] = 0)
    BY <2>2, <1>1, <1>9 DEF NobodyReady, nestVars
  <2>. QED BY <2>1, <2>2
<1>. QED BY <1>1, <1>4, <1>5, <1>6, <1>7, <1>10, <1>11, SuspendBitT
-----------------------------------------------------------------------------
(* The end of a pend: a task that timed out takes itself off its lists.    *)
LEMMA ReturnT ==
  ASSUME IInv, NEW t \in Tasks, At(t, "wake"),
         OSEventTbl' = [f \in Events |-> OSEventTbl'[f]],
         \A f \in Events : OSEventTbl'[f] = IF t \in WaitTasks(f)
                                              THEN MapClr(OSEventTbl[f], {OSTCBPrio[t]})
                                              ELSE OSEventTbl[f],
         OSTCBStat' = [OSTCBStat EXCEPT ![t] = {}],
         OSTCBStatPend' = [OSTCBStatPend EXCEPT ![t] = "OK"],
         OSTCBEventPtr' = [OSTCBEventPtr EXCEPT ![t] = NoEvent],
         OSTCBEventMultiPtr' = [OSTCBEventMultiPtr EXCEPT ![t] = {}],
         asked' = [asked EXCEPT ![t] = {}], pc' = [pc EXCEPT ![t] = "run"],
         UNCHANGED <<OSTCBPrio, OSTCBDly, tblVars, OSRdyTbl, OSEventType, OSEventCnt, curVars,
                     nestVars, checked, lifeVars>>
  PROVE  IInv'
<1>1. /\ OSTCBCur = t /\ t # IdleTask /\ pc[t] = "wake" /\ OSIntNesting = 0
      /\ t \in Alive /\ OSTCBStat[t] \subseteq {"MULTI"} /\ OSTCBDly[t] = 0 /\ PendOK(t)
      /\ ~Makes(t) /\ ~Deletes(t)
  BY WakerT
<1>2. Steady
  BY DEF Steady
<1>3. /\ OSTCBStat'[t] = {} /\ OSTCBStatPend'[t] = "OK" /\ OSTCBEventPtr'[t] = NoEvent
      /\ OSTCBEventMultiPtr'[t] = {} /\ pc'[t] = "run" /\ OSTCBDly'[t] = 0
  BY <1>1 DEF IInv, Typed, TypeOK
<1>4. \A u \in Tasks \ {t} : Kept(u)
  BY DEF Kept, IInv, Typed, TypeOK
<1>5. TaskOK(t)'
  BY <1>3 DEF TaskOK, NoPendOK
<1>6. /\ ReadyTasks' = ReadyTasks
      /\ \A f : WaitTasks(f)' = WaitTasks(f) \ {t}
  <2>1. /\ ReadyTasks \in SUBSET Tasks /\ ReadyTasks' \in SUBSET Tasks
        /\ \A f : WaitTasks(f) \in SUBSET Tasks /\ WaitTasks(f)' \in SUBSET Tasks
    BY <1>2, Lives, SteadyFrame DEF IInv, ReadyTasks, WaitTasks
  <2>2. t \in ReadyTasks /\ t \in ReadyTasks' /\ \A f : t \notin WaitTasks(f)'
    BY <1>1, <1>2, <1>3, SteadyFrame DEF ReadyTasks, Unblocked, WaitTasks, InPend
  <2>3. \A u \in Tasks \ {t} : /\ u \in ReadyTasks' <=> u \in ReadyTasks
                              /\ \A f : u \in WaitTasks(f)' <=> u \in WaitTasks(f)
    BY <1>2, <1>4, KeptFrame
  <2>4. ASSUME NEW f PROVE WaitTasks(f)' = WaitTasks(f) \ {t}
    BY <2>1, <2>2, <2>3
  <2>5. \A u \in Tasks : u \in ReadyTasks' <=> u \in ReadyTasks
    BY <2>2, <2>3
  <2>6. ReadyTasks' = ReadyTasks
    BY <2>1, <2>5
  <2>. QED BY <2>4, <2>6
<1>7. TaskListsExact'
  <2>1. OSRdyTbl' = MapOf(Current(ReadyTasks'))
    BY <1>6, ListsAre DEF IInv
  <2>2. ASSUME NEW f \in Events PROVE OSEventTbl'[f] = MapOf(Current(WaitTasks(f)'))
    <3>1. WaitTasks(f) \in SUBSET OSTCBList /\ {t} \in SUBSET OSTCBList
      BY <1>1, Lives DEF IInv
    <3>2. MapClr(MapOf(Current(WaitTasks(f))), Current({t})) = MapOf(Current(WaitTasks(f) \ {t}))
      BY <3>1, CurrentLeave DEF IInv
    <3>3. t \notin WaitTasks(f) => WaitTasks(f) \ {t} = WaitTasks(f)
      OBVIOUS
    <3>4. OSEventTbl[f] = MapOf(Current(WaitTasks(f)))
      BY ListsAre DEF IInv
    <3>. QED BY <3>2, <3>3, <3>4, <1>6, CurrentOne
  <2>. QED BY <1>2, <2>1, <2>2, SteadyFrame, ListsArePrime
<1>8. Typed'
  <2>1. DOMAIN OSEventTbl' = Events /\ OSEventTbl' = [f \in Events |-> OSEventTbl'[f]]
    OBVIOUS
  <2>2. /\ OSTCBStat' \in [Tasks -> SUBSET Stats] /\ OSTCBStatPend' \in [Tasks -> PendStats]
        /\ OSTCBDly' \in [Tasks -> Nat] /\ OSTCBEventPtr' \in [Tasks -> Events \cup {NoEvent}]
        /\ OSTCBEventMultiPtr' \in [Tasks -> SUBSET Events] /\ pc' \in [Tasks -> Pcs]
        /\ asked' \in [Tasks -> SUBSET Events] /\ checked' \in [Tasks -> Events \cup {NoEvent}]
        /\ OSEventType' \in [Events -> {"UNUSED", "SEM", "MUTEX"}] /\ OSEventCnt' \in [Events -> Nat]
        /\ OSIntNesting' \in {0, 1}
    BY DEF IInv, Typed, TypeOK, PendStats, Pcs, nestVars
  <2>. QED BY <1>2, <1>7, <2>1, <2>2, ListsTyped DEF nestVars
<1>9. \A u \in Tasks : EventsStay(u) /\ CallOK(u)'
  <2>1. \A f : IsSem(f)' = IsSem(f)
    BY DEF IsSem
  <2>2. \A u \in Tasks : asked'[u] \in {asked[u], {}}
    BY DEF IInv, Typed
  <2>. QED BY <1>2, <2>1, <2>2, CallsFrame DEF EventsStay
<1>10. PcStep
  BY <1>1 DEF PcStep, Pcs
<1>11. NobodyReady
  BY <1>1, <1>6 DEF NobodyReady, nestVars
<1>12. {t} \in SUBSET (Alive \ {IdleTask})
  BY <1>1
<1>. QED BY <1>2, <1>4, <1>5, <1>7, <1>8, <1>9, <1>10, <1>11, <1>12, StepIInv DEF nestVars

LEMMA PendReturnT ==
  ASSUME IInv, NEW t \in Tasks, asked[t] = {}, PendReturn(t), UNCHANGED <<callVars, lifeVars>>
  PROVE  IInv'
<1>1. At(t, "wake") /\ t \in Alive /\ pc[t] = "wake" /\ OSTCBStat[t] \subseteq {"MULTI"} /\ PendOK(t)
  BY WakerT DEF PendReturn
<1>2. /\ PendOneOK(t) /\ "SEM" \notin OSTCBStat[t] /\ OSTCBStatPend[t] \in PendStats
      /\ OSTCBEventPtr[t] \in Events
  BY <1>1 DEF PendOK, PendOneOK, IInv, Typed, TypeOK
<1>3. \A f : t \in WaitTasks(f) <=> OSTCBStatPend[t] = "TO" /\ f = OSTCBEventPtr[t]
  BY <1>1, <1>2 DEF WaitTasks, InPend, Pending, WaitsOn
<1>4. OSTCBStatPend[t] \in {"OK", "ABORT"} <=> OSTCBStatPend[t] # "TO"
  BY <1>2 DEF PendStats
<1>5. OSEventTbl' = IF OSTCBStatPend[t] \in {"OK", "ABORT"} THEN OSEventTbl
                    ELSE [OSEventTbl EXCEPT ![OSTCBEventPtr[t]] = MapClr(@, {OSTCBPrio[t]})]
  BY DEF PendReturn
<1>6. \A f \in Events : OSEventTbl'[f] = IF t \in WaitTasks(f)
                                           THEN MapClr(OSEventTbl[f], {OSTCBPrio[t]})
                                           ELSE OSEventTbl[f]
  BY <1>2, <1>3, <1>4, <1>5 DEF IInv, Typed, TypeOK
<1>7. OSEventTbl' = [f \in Events |-> OSEventTbl'[f]]
  BY <1>5 DEF IInv, Typed, TypeOK
<1>8. asked' = [asked EXCEPT ![t] = {}]
  BY DEF IInv, Typed, callVars
<1>. QED BY <1>1, <1>6, <1>7, <1>8, ReturnT DEF PendReturn, Goto, callVars

LEMMA MultiReturnT ==
  ASSUME IInv, NEW t \in Tasks, MultiReturn(t), UNCHANGED lifeVars
  PROVE  IInv'
<1>1. At(t, "wake") /\ t \in Alive /\ pc[t] = "wake" /\ OSTCBStat[t] \subseteq {"MULTI"} /\ PendOK(t)
      /\ asked[t] # {}
  BY WakerT DEF MultiReturn
<1>2. /\ PendManyOK(t) /\ "SEM" \notin OSTCBStat[t] /\ OSTCBStatPend[t] \in PendStats
      /\ asked[t] \in SUBSET Events
  BY <1>1 DEF PendOK, IInv, Typed, TypeOK
<1> DEFINE woken == OSTCBStatPend[t] \in {"OK", "ABORT"} /\ OSTCBEventPtr[t] # NoEvent
<1>3. woken <=> ~Pending(t)
  BY <1>2, CoreAssumption DEF PendManyOK, Pending, PendStats
<1>4. ~(woken /\ OSTCBStatPend[t] = "OK" /\ ~IsSem(OSTCBEventPtr[t]))
  BY <1>2, <1>3 DEF PendManyOK
<1>5. /\ OSEventTbl' = IF woken THEN OSEventTbl ELSE OffLists(t, asked[t])
      /\ OSTCBStat' = [OSTCBStat EXCEPT ![t] = {}]
      /\ OSTCBStatPend' = [OSTCBStatPend EXCEPT ![t] = "OK"]
      /\ OSTCBEventPtr' = [OSTCBEventPtr EXCEPT ![t] = NoEvent]
      /\ OSTCBEventMultiPtr' = [OSTCBEventMultiPtr EXCEPT ![t] = {}]
      /\ UNCHANGED <<OSTCBPrio, OSTCBDly>>
      /\ asked' = [asked EXCEPT ![t] = {}] /\ pc' = [pc EXCEPT ![t] = "run"]
      /\ UNCHANGED <<tblVars, OSRdyTbl, OSEventType, OSEventCnt, curVars, nestVars, checked>>
  BY <1>4 DEF MultiReturn, Goto
<1>6. \A f : t \in WaitTasks(f) <=> ~woken /\ f \in asked[t]
  BY <1>1, <1>3 DEF WaitTasks, InPend, WaitsOn
<1> HIDE DEF woken
<1>7. \A f \in Events : OSEventTbl'[f] = IF t \in WaitTasks(f)
                                           THEN MapClr(OSEventTbl[f], {OSTCBPrio[t]})
                                           ELSE OSEventTbl[f]
  BY <1>5, <1>6 DEF OffLists
<1>8. OSEventTbl' = [f \in Events |-> OSEventTbl'[f]]
  BY <1>5 DEF OffLists, IInv, Typed, TypeOK
<1>. QED BY <1>1, <1>5, <1>7, <1>8, ReturnT
-----------------------------------------------------------------------------
(* The scheduler picks a ready task, unless the current one is it.         *)
LEMMA SwitchT ==
  ASSUME IInv, Switch
  PROVE  /\ OSPrioCur' = MapHighest(OSRdyTbl) /\ OSTCBCur' = OSTCBPrioTbl[OSPrioCur']
         /\ OSTCBCur' \in ReadyTasks /\ OSPrioCur' = OSTCBPrio[OSTCBCur'] /\ OSPrioCur' \in Prios
<1>1. IdleTask \in ReadyTasks
  BY DEF IInv, Running, IdleOK, Runnable, ReadyTasks, Unblocked
<1>2. ReadyTasks \in SUBSET OSTCBList /\ ReadyTasks \in SUBSET Tasks
  BY Lives DEF IInv
<1>3. PICK h \in ReadyTasks : MapHighest(MapOf(Current(ReadyTasks))) = OSTCBPrio[h]
  BY <1>1, <1>2, CurrentHead DEF IInv
<1>4. MapHighest(OSRdyTbl) = OSTCBPrio[h]
  BY <1>3, ListsAre DEF IInv
<1>5. OSTCBPrioTbl[OSTCBPrio[h]] = h /\ OSTCBPrio[h] \in Prios
  BY <1>2 DEF IInv, Table, Typed, TypeOK
<1>6. CASE OSTCBPrio[h] # OSPrioCur
  BY <1>4, <1>5, <1>6 DEF Switch
<1>7. CASE OSTCBPrio[h] = OSPrioCur
  <2>1. OSTCBCur \notin OSTCBFreeList
    BY <1>2, <1>5, <1>7, CoreAssumption DEF IInv, Running
  <2>2. OSTCBCur = h
    BY <1>2, <1>7, <2>1, Apart DEF IInv, Running
  <2>3. UNCHANGED curVars
    BY <1>4, <1>7 DEF Switch
  <2>. QED BY <1>4, <1>5, <1>7, <2>2, <2>3 DEF curVars
<1>. QED BY <1>6, <1>7

(* What scheduling changes: the current task, and how far it is.           *)
LEMMA DispatchT ==
  ASSUME IInv, UNCHANGED <<tcbVars, tblVars, OSRdyTbl, eventVars, OSLockNesting, callVars, lifeVars>>,
         pc' \in [Tasks -> Pcs], OSIntNesting' \in {0, 1},
         \A u \in Tasks : /\ pc'[u] \in {"pend", "wake"} <=> pc[u] \in {"pend", "wake"}
                          /\ pc[u] = "run" => pc'[u] = "run",
         IF OSLockNesting = 0 THEN Switch ELSE UNCHANGED curVars /\ pc' = pc
  PROVE  IInv'
<1>1. Steady /\ \A f : IsSem(f)' = IsSem(f)
  BY DEF Steady, tcbVars, eventVars, IsSem
<1>2. \A u \in Tasks : Kept(u) /\ EventsStay(u)
  BY <1>1 DEF Kept, EventsStay, tcbVars, callVars
<1>3. \A u \in Alive : TaskOK(u)'
  BY <1>1, <1>2, KeptOK, Lives DEF IInv
<1>4. Alive' = Alive /\ Table' /\ \A u \in Tasks : CallOK(u)'
  BY <1>1, CallsFrame, SteadyFrame DEF IInv, callVars
<1>5. TaskListsExact'
  <2>1. /\ ReadyTasks \in SUBSET Tasks /\ ReadyTasks' \in SUBSET Tasks
        /\ \A f : WaitTasks(f) \in SUBSET Tasks /\ WaitTasks(f)' \in SUBSET Tasks
    BY <1>4, Lives DEF IInv, ReadyTasks, WaitTasks
  <2>2. \A u \in Tasks : /\ u \in ReadyTasks' <=> u \in ReadyTasks
                        /\ \A f : u \in WaitTasks(f)' <=> u \in WaitTasks(f)
    BY <1>1, <1>2, KeptFrame
  <2>3. ReadyTasks' = ReadyTasks
    BY <2>1, <2>2
  <2>4. ASSUME NEW f PROVE WaitTasks(f)' = WaitTasks(f)
    BY <2>1, <2>2
  <2>5. OSRdyTbl' = MapOf(Current(ReadyTasks')) /\ \A f \in Events : OSEventTbl'[f] = MapOf(Current(WaitTasks(f)'))
    BY <2>3, <2>4, ListsAre DEF IInv, eventVars
  <2>. QED BY <2>5, <1>1, SteadyFrame, ListsArePrime
<1>6. /\ OSTCBPrio' = OSTCBPrio /\ OSTCBStat' = OSTCBStat /\ OSTCBStatPend' = OSTCBStatPend
      /\ OSTCBDly' = OSTCBDly /\ OSTCBEventPtr' = OSTCBEventPtr
      /\ OSTCBEventMultiPtr' = OSTCBEventMultiPtr /\ OSTCBPrioTbl' = OSTCBPrioTbl
      /\ OSTCBList' = OSTCBList /\ OSTCBFreeList' = OSTCBFreeList /\ making' = making
      /\ deleting' = deleting /\ OSRdyTbl' = OSRdyTbl /\ checked' = checked /\ asked' = asked
      /\ OSEventType' = OSEventType /\ OSEventCnt' = OSEventCnt /\ OSEventTbl' = OSEventTbl
  BY DEF tcbVars, tblVars, lifeVars, callVars, eventVars
<1>7. \A u \in Tasks : MakingOK(u)'
  <2>1. ASSUME NEW u \in Tasks, making[u].ptcb \in Tasks, Clean(making[u].ptcb)
        PROVE  Clean(making[u].ptcb)'
    BY <2>1, <1>6 DEF Clean
  <2>. QED BY <2>1, <1>4, <1>6 DEF IInv, MakingOK, Makes
<1>8. ASSUME OSTCBCur' \in Tasks, OSPrioCur' \in Prios PROVE Typed'
  BY <1>6, <1>8 DEF IInv, Typed, TypeOK
<1>9. CASE OSLockNesting = 0
  <2>1. /\ OSPrioCur' = MapHighest(OSRdyTbl) /\ OSTCBCur' = OSTCBPrioTbl[OSPrioCur']
        /\ OSTCBCur' \in ReadyTasks /\ OSPrioCur' = OSTCBPrio[OSTCBCur'] /\ OSPrioCur' \in Prios
    BY <1>9, SwitchT
  <2>2. OSTCBCur' \in Alive /\ OSTCBCur' \in Tasks /\ OSTCBCur' \in OSTCBList
        /\ OSTCBCur' \notin OSTCBFreeList /\ Unblocked(OSTCBCur')
    BY <2>1, Lives DEF IInv, Table, ReadyTasks
  <2>3. \A u \in Tasks : ~Deletes(u)
    BY <1>9 DEF IInv, Running, DeletingOK
  <2>4. \A u \in Tasks : DeletingOK(u)'
    BY <1>6, <2>3 DEF DeletingOK, Deletes
  <2>5. Running'
    <3>1. IdleOK' /\ ~Makes(IdleTask)'
      BY <1>6, CoreAssumption DEF IInv, Running, IdleOK, Runnable, Makes
    <3>2. ~Deletes(OSTCBCur)'
      BY <1>6, <2>2, <2>3 DEF Deletes
    <3>. QED BY <1>4, <1>6, <1>9, <2>1, <2>2, <3>1, <3>2 DEF IInv, Running
  <2>6. HighestTaskRuns'
    BY <1>4, <1>6, <2>1, <2>2 DEF HighestTaskRuns, Unblocked
  <2>. QED BY <1>3, <1>4, <1>5, <1>7, <1>8, <2>1, <2>2, <2>4, <2>5, <2>6 DEF IInv
<1>10. CASE OSLockNesting # 0
  <2>1. OSTCBCur' = OSTCBCur /\ OSPrioCur' = OSPrioCur /\ pc' = pc /\ OSLockNesting' = OSLockNesting
    BY <1>10 DEF curVars
  <2>2. \A u \in Tasks : DeletingOK(u)'
    BY <1>6, <2>1 DEF IInv, DeletingOK, Deletes, Makes
  <2>3. Running'
    BY <1>4, <1>6, <2>1 DEF IInv, Running, IdleOK, Runnable, Makes, Deletes
  <2>4. HighestTaskRuns' /\ Typed'
    BY <1>8, <1>10, <2>1 DEF HighestTaskRuns, IInv, Typed, TypeOK
  <2>. QED BY <1>3, <1>4, <1>5, <1>7, <2>2, <2>3, <2>4 DEF IInv
<1>. QED BY <1>9, <1>10

LEMMA SchedT ==
  ASSUME IInv, NEW t \in Tasks, OS_Sched(t), UNCHANGED <<callVars, lifeVars>>
  PROVE  IInv'
<1>1. /\ t = OSTCBCur
      /\ \/ pc[t] = "sched" /\ pc' = [pc EXCEPT ![t] = "run"]
         \/ pc[t] = "pend"  /\ pc' = [pc EXCEPT ![t] = "wake"]
      /\ UNCHANGED <<tcbVars, tblVars, OSRdyTbl, eventVars, nestVars>>
      /\ OSLockNesting = 0 => Switch
  BY DEF OS_Sched, At, Goto
<1>2. OSLockNesting = 0
  BY <1>1 DEF IInv, Running, DeletingOK
<1>3. /\ \A u \in Tasks : /\ pc'[u] \in {"pend", "wake"} <=> pc[u] \in {"pend", "wake"}
                          /\ pc[u] = "run" => pc'[u] = "run"
      /\ pc' \in [Tasks -> Pcs] /\ OSIntNesting' \in {0, 1}
  BY <1>1 DEF IInv, Typed, TypeOK, Pcs, nestVars
<1>. QED BY <1>1, <1>2, <1>3, DispatchT DEF nestVars

LEMMA IntExitT ==
  ASSUME IInv, OSIntExit, UNCHANGED <<callVars, lifeVars>>
  PROVE  IInv'
<1>1. /\ OSIntNesting' = 0 /\ pc' = pc
      /\ IF OSLockNesting = 0 THEN Switch ELSE UNCHANGED curVars
      /\ UNCHANGED <<tcbVars, tblVars, OSRdyTbl, eventVars, OSLockNesting>>
  BY DEF OSIntExit, IInv, Typed, TypeOK
<1>2. pc' \in [Tasks -> Pcs]
  BY <1>1 DEF IInv, Typed, TypeOK
<1>. QED BY <1>1, <1>2, DispatchT
-----------------------------------------------------------------------------
(* A task that lives on with its TCB as it is, while others come and go.   *)
LEMMA TaskStays ==
  ASSUME Typed, NEW u \in Alive, u \in Alive', Kept(u), OSEventType' = OSEventType
  PROVE  /\ u \in ReadyTasks' <=> u \in ReadyTasks
         /\ \A f : u \in WaitTasks(f)' <=> u \in WaitTasks(f)
         /\ TaskOK(u) => TaskOK(u)'
<1>1. /\ OSTCBStat'[u] = OSTCBStat[u] /\ OSTCBStatPend'[u] = OSTCBStatPend[u]
      /\ OSTCBDly'[u] = OSTCBDly[u]
      /\ OSTCBEventPtr'[u] = OSTCBEventPtr[u] /\ OSTCBEventMultiPtr'[u] = OSTCBEventMultiPtr[u]
      /\ pc'[u] \in {"pend", "wake"} <=> pc[u] \in {"pend", "wake"}
      /\ pc[u] \in {"pend", "wake"} => asked'[u] = asked[u] /\ checked'[u] = checked[u]
      /\ \A f : IsSem(f)' <=> IsSem(f)
  BY DEF Kept, IsSem
<1>2. u \in ReadyTasks' <=> u \in ReadyTasks
  BY <1>1 DEF ReadyTasks, Unblocked
<1>3. \A f : u \in WaitTasks(f)' <=> u \in WaitTasks(f)
  BY <1>1 DEF WaitTasks, InPend, Pending, WaitsOn
<1>4. TaskOK(u) => TaskOK(u)'
  BY <1>1 DEF TaskOK, NoPendOK, PendOK, PendOneOK, PendManyOK, Pending
<1>. QED BY <1>2, <1>3, <1>4

LEMMA ListsStay ==
  ASSUME IInv, Alive' = Alive, UNCHANGED <<OSRdyTbl, eventVars>>,
         \A u \in Alive : Kept(u) /\ OSTCBPrio'[u] = OSTCBPrio[u]
  PROVE  TaskListsExact' /\ \A u \in Alive : TaskOK(u)'
<1>1. \A u \in Alive : /\ u \in ReadyTasks' <=> u \in ReadyTasks
                       /\ \A f : u \in WaitTasks(f)' <=> u \in WaitTasks(f)
                       /\ TaskOK(u)'
  BY TaskStays DEF IInv, eventVars
<1>2. /\ ReadyTasks \in SUBSET Alive /\ ReadyTasks' \in SUBSET Alive
      /\ \A f : WaitTasks(f) \in SUBSET Alive /\ WaitTasks(f)' \in SUBSET Alive
  BY Lives DEF IInv, ReadyTasks, WaitTasks
<1>3. ReadyTasks' = ReadyTasks
  BY <1>1, <1>2
<1>4. ASSUME NEW f PROVE WaitTasks(f)' = WaitTasks(f)
  BY <1>1, <1>2
<1>5. \A A \in SUBSET Alive : {OSTCBPrio'[w] : w \in A} = {OSTCBPrio[w] : w \in A}
  OBVIOUS
<1>6. Current(ReadyTasks)' = Current(ReadyTasks)
  BY <1>2, <1>3, <1>5 DEF Current
<1>7. ASSUME NEW f PROVE Current(WaitTasks(f))' = Current(WaitTasks(f))
  BY <1>2, <1>4, <1>5 DEF Current
<1>. QED BY <1>1, <1>6, <1>7, ListsAre, ListsArePrime DEF IInv, eventVars

(* Creating a task.  The steps that change the table of priorities and the *)
(* progress of one task only.                                              *)
LEMMA TableStepT ==
  ASSUME IInv, NEW t \in Tasks, Calls(t), ~Deletes(t), NEW m \in Makings \cup {NotMaking},
         UNCHANGED <<tcbVars, OSTCBList, OSRdyTbl, eventVars, curVars, nestVars, pc, callVars,
                     OSTCBFreeList, deleting>>,
         OSTCBPrioTbl' \in [Prios -> Tasks \cup {NoTCB, Reserved}],
         making' = [making EXCEPT ![t] = m],
         Table', \A u \in Tasks : MakingOK(u)',
         checked[t] = NoEvent, asked[t] = {}
  PROVE  IInv'
<1>1. /\ OSTCBCur = t /\ t # IdleTask /\ pc[t] = "run" /\ OSLockNesting = 0 /\ t \in Alive
      /\ Alive = OSTCBList /\ \A u \in Tasks : ~Deletes(u)
  BY CallerT
<1>2. /\ OSTCBPrio' = OSTCBPrio /\ OSTCBStat' = OSTCBStat /\ OSTCBStatPend' = OSTCBStatPend
      /\ OSTCBDly' = OSTCBDly /\ OSTCBEventPtr' = OSTCBEventPtr
      /\ OSTCBEventMultiPtr' = OSTCBEventMultiPtr
      /\ OSTCBList' = OSTCBList /\ OSTCBFreeList' = OSTCBFreeList
      /\ deleting' = deleting /\ OSRdyTbl' = OSRdyTbl /\ checked' = checked /\ asked' = asked
      /\ OSEventType' = OSEventType /\ OSEventCnt' = OSEventCnt /\ OSEventTbl' = OSEventTbl
      /\ OSTCBCur' = OSTCBCur /\ OSPrioCur' = OSPrioCur /\ pc' = pc
      /\ OSIntNesting' = OSIntNesting /\ OSLockNesting' = OSLockNesting
  BY DEF tcbVars, eventVars, curVars, nestVars, callVars
<1>3. Alive' = Alive
  BY <1>2 DEF Alive, Dying
<1>4. Typed'
  BY <1>2 DEF IInv, Typed, TypeOK
<1>5. \A u \in Tasks : u # t => (Makes(u)' <=> Makes(u))
  BY DEF Makes, IInv, Typed
<1>6. \A u \in Tasks : DeletingOK(u)'
  BY <1>1, <1>2 DEF DeletingOK, Deletes
<1>7. \A u \in Tasks : CallOK(u)'
  BY <1>2, <1>3, <1>5 DEF IInv, CallOK, Deletes, IsSem
<1>8. \A u \in Alive : Kept(u) /\ OSTCBPrio'[u] = OSTCBPrio[u]
  BY <1>2 DEF Kept
<1>9. TaskListsExact' /\ \A u \in Alive : TaskOK(u)'
  BY <1>3, <1>8, ListsStay
<1>10. Running'
  <2>1. OSTCBCur \notin OSTCBFreeList
    BY <1>1 DEF IInv, Table
  <2>2. ~Makes(IdleTask)' /\ (Deletes(OSTCBCur)' <=> Deletes(OSTCBCur)) /\ IdleOK'
    BY <1>1, <1>2, <1>5, CoreAssumption DEF IInv, Running, Deletes, IdleOK, Runnable
  <2>. QED BY <2>1, <2>2, <1>2, <1>3 DEF IInv, Running
<1>11. HighestTaskRuns'
  <2>1. OSTCBPrioTbl'[OSPrioCur'] = OSTCBCur'
    BY <1>1, <1>2 DEF Table, IInv, Running
  <2>2. Unblocked(OSTCBCur)' <=> Unblocked(OSTCBCur)
    BY <1>2 DEF Unblocked
  <2>. QED BY <2>1, <2>2, <1>2, <1>3 DEF IInv, HighestTaskRuns
<1>. QED BY <1>3, <1>4, <1>6, <1>7, <1>9, <1>10, <1>11 DEF IInv

LEMMA OSTaskCreateT ==
  ASSUME IInv, NEW t \in Tasks, NEW prio \in NewPrios, OSTaskCreate(t, prio)
  PROVE  IInv'
<1> DEFINE m == [step |-> "init", prio |-> prio, ptcb |-> NoTCB]
<1>1. /\ Calls(t) /\ ~Deletes(t) /\ ~Makes(t) /\ checked[t] = NoEvent /\ asked[t] = {}
      /\ prio \in Prios /\ OSTCBPrioTbl[prio] = NoTCB
  BY LifeAssumption DEF OSTaskCreate, Ready4Call, Free, Deletes, Makes
<1>2. /\ OSTCBPrioTbl' = [OSTCBPrioTbl EXCEPT ![prio] = Reserved]
      /\ making' = [making EXCEPT ![t] = m]
      /\ UNCHANGED <<tcbVars, OSTCBList, OSRdyTbl, eventVars, curVars, nestVars, pc, callVars,
                     OSTCBFreeList, deleting>>
  BY DEF OSTaskCreate
<1>3. m \in Makings /\ m # NotMaking
  BY <1>1, LifeAssumption DEF Makings
<1>4. OSTCBPrioTbl' \in [Prios -> Tasks \cup {NoTCB, Reserved}]
  BY <1>2 DEF IInv, Typed, TypeOK
<1>5. t \in Alive /\ pc[t] = "run"
  BY <1>1, CallerT
<1>6. /\ OSTCBPrio' = OSTCBPrio /\ OSTCBList' = OSTCBList /\ OSTCBFreeList' = OSTCBFreeList
      /\ Alive' = Alive /\ pc' = pc
      /\ \A p \in Prios : OSTCBPrioTbl'[p] = IF p = prio THEN Reserved ELSE OSTCBPrioTbl[p]
      /\ \A u \in Tasks : making'[u] = IF u = t THEN m ELSE making[u]
  BY <1>2 DEF tcbVars, IInv, Typed, TypeOK, Alive, Dying
<1>7. \A u \in Tasks : Makes(u) => making[u].prio # prio /\ making[u].prio \in Prios
  <2>1. ASSUME NEW u \in Tasks, Makes(u) PROVE making[u].prio # prio /\ making[u].prio \in Prios
    <3>1. MakingOK(u) /\ making[u] \in Makings
      BY <2>1 DEF IInv, Typed, Makes
    <3>. QED BY <1>1, <2>1, <3>1, CoreAssumption DEF MakingOK, Makings
  <2>. QED BY <2>1
<1>8. Table'
  <2>1. Makes(t)' /\ making'[t].prio = prio /\ making'[t].step # "link"
        /\ \A u \in Tasks : u # t => (Makes(u)' <=> Makes(u)) /\ making'[u] = making[u]
    BY <1>3, <1>6 DEF Makes
  <2>2. \A u \in OSTCBList : OSTCBPrio[u] # prio /\ OSTCBPrio[u] \in Prios
    BY <1>1, CoreAssumption DEF IInv, Table, Typed, TypeOK
  <2>3. \A u \in OSTCBList : OSTCBPrioTbl'[OSTCBPrio'[u]] = u
    BY <1>6, <2>2 DEF IInv, Table
  <2>4. \A p \in Prios : OSTCBPrioTbl'[p] \in Tasks =>
          OSTCBPrioTbl'[p] \notin OSTCBFreeList /\ OSTCBPrio'[OSTCBPrioTbl'[p]] = p
    BY <1>6, CoreAssumption DEF IInv, Table
  <2>5. \A p \in Prios : OSTCBPrioTbl'[p] = Reserved =>
          \E u \in Tasks : Makes(u)' /\ making'[u].prio = p /\ making'[u].step # "link"
    BY <1>1, <1>6, <2>1 DEF IInv, Table
  <2>6. \A v \in Tasks \ (OSTCBFreeList \cup OSTCBList) :
          \E u \in Tasks : Makes(u)' /\ making'[u].ptcb = v
    BY <1>1, <2>1 DEF IInv, Table
  <2>7. \A u, v \in Tasks : Makes(u)' /\ Makes(v)' /\ making'[u].prio = making'[v].prio => u = v
    BY <1>7, <2>1 DEF IInv, Table
  <2>. QED BY <1>6, <2>3, <2>4, <2>5, <2>6, <2>7 DEF IInv, Table
<1>9. \A u \in Tasks : MakingOK(u)'
  <2>1. MakingOK(t)'
    BY <1>1, <1>5, <1>6 DEF MakingOK
  <2>2. ASSUME NEW u \in Tasks, u # t PROVE MakingOK(u)'
    <3>1. MakingOK(u) /\ making'[u] = making[u] /\ (Makes(u)' <=> Makes(u))
      BY <1>6, <2>2 DEF IInv, Makes
    <3>2. Makes(u) => OSTCBPrioTbl'[making[u].prio] = OSTCBPrioTbl[making[u].prio]
      BY <1>6, <1>7
    <3>3. \A v : Clean(v)' <=> Clean(v)
      BY <1>2 DEF Clean, tcbVars
    <3>. QED BY <1>6, <3>1, <3>2, <3>3 DEF MakingOK, Clean
  <2>. QED BY <2>1, <2>2
<1> HIDE DEF m
<1>. QED BY <1>1, <1>2, <1>3, <1>4, <1>8, <1>9, TableStepT
LEMMA MakerT ==
  ASSUME IInv, NEW t \in Tasks, NEW step, Making(t, step)
  PROVE  /\ Calls(t) /\ Makes(t) /\ ~Deletes(t) /\ checked[t] = NoEvent /\ asked[t] = {}
         /\ making[t] \in Makings /\ making[t].step = step /\ making[t].prio \in Prios
         /\ MakingOK(t)
<1>1. Calls(t) /\ Makes(t) /\ making[t].step = step
  BY DEF Making, Makes
<1>2. MakingOK(t) /\ ~Deletes(t) /\ CallOK(t)
  BY <1>1 DEF IInv, DeletingOK
<1>3. making[t] \in Makings
  BY <1>1 DEF IInv, Typed, Makes
<1>. QED BY <1>1, <1>2, <1>3 DEF CallOK, Makings

(* Two tasks that create have neither the priority nor the TCB in common.  *)
LEMMA MakersApart ==
  ASSUME IInv, NEW t \in Tasks, NEW u \in Tasks, Makes(t), Makes(u), t # u
  PROVE  /\ making[t].prio # making[u].prio
         /\ making[t].ptcb \in Tasks => making[t].ptcb # making[u].ptcb
<1>1. making[t].prio # making[u].prio
  BY DEF IInv, Table
<1>2. MakingOK(t) /\ MakingOK(u)
  BY DEF IInv
<1>. QED BY <1>1, <1>2, CoreAssumption DEF MakingOK

LEMMA PublishT ==
  ASSUME IInv, NEW t \in Tasks, Publish(t)
  PROVE  IInv'
<1> DEFINE p == making[t].prio
           v == making[t].ptcb
           m == [making[t] EXCEPT !.step = "link"]
<1>1. /\ Calls(t) /\ Makes(t) /\ ~Deletes(t) /\ checked[t] = NoEvent /\ asked[t] = {}
      /\ making[t] \in Makings /\ making[t].step = "publish" /\ p \in Prios /\ MakingOK(t)
  BY MakerT DEF Publish
<1>2. /\ OSTCBPrioTbl' = [OSTCBPrioTbl EXCEPT ![p] = v]
      /\ making' = [making EXCEPT ![t] = m]
      /\ UNCHANGED <<tcbVars, OSTCBList, OSRdyTbl, eventVars, curVars, nestVars, pc, callVars,
                     OSTCBFreeList, deleting>>
  BY DEF Publish
<1>3. /\ v \in Tasks \ (OSTCBFreeList \cup OSTCBList) /\ OSTCBPrio[v] = p /\ Clean(v)
      /\ OSTCBPrioTbl[p] = Reserved
  BY <1>1 DEF MakingOK
<1>4. m \in Makings /\ m # NotMaking /\ m.prio = p /\ m.ptcb = v /\ m.step = "link"
  BY <1>1, LifeAssumption DEF Makings
<1>5. OSTCBPrioTbl' \in [Prios -> Tasks \cup {NoTCB, Reserved}]
  BY <1>2, <1>3 DEF IInv, Typed, TypeOK
<1>6. /\ OSTCBPrio' = OSTCBPrio /\ OSTCBList' = OSTCBList /\ OSTCBFreeList' = OSTCBFreeList
      /\ Alive' = Alive /\ pc' = pc
      /\ \A q \in Prios : OSTCBPrioTbl'[q] = IF q = p THEN v ELSE OSTCBPrioTbl[q]
      /\ \A u \in Tasks : making'[u] = IF u = t THEN m ELSE making[u]
  BY <1>2 DEF tcbVars, IInv, Typed, TypeOK, Alive, Dying
<1>7. \A u \in Tasks : /\ Makes(u)' <=> Makes(u)
                       /\ Makes(u) => making'[u].prio = making[u].prio
                                      /\ making'[u].ptcb = making[u].ptcb
  BY <1>1, <1>4, <1>6 DEF Makes
<1>8. Table'
  <2>1. \A u \in OSTCBList : OSTCBPrio[u] # p /\ OSTCBPrio[u] \in Prios
    BY <1>3, CoreAssumption DEF IInv, Table, Typed, TypeOK
  <2>2. \A u \in OSTCBList : OSTCBPrioTbl'[OSTCBPrio'[u]] = u
    BY <1>6, <2>1 DEF IInv, Table
  <2>3. \A q \in Prios : OSTCBPrioTbl'[q] \in Tasks =>
          OSTCBPrioTbl'[q] \notin OSTCBFreeList /\ OSTCBPrio'[OSTCBPrioTbl'[q]] = q
    BY <1>3, <1>6 DEF IInv, Table
  <2>4. ASSUME NEW q \in Prios, OSTCBPrioTbl'[q] = Reserved
        PROVE  \E u \in Tasks : Makes(u)' /\ making'[u].prio = q /\ making'[u].step # "link"
    <3>1. q # p /\ OSTCBPrioTbl[q] = Reserved
      BY <1>3, <1>6, <2>4, CoreAssumption
    <3>2. PICK u \in Tasks : Makes(u) /\ making[u].prio = q /\ making[u].step # "link"
      BY <3>1 DEF IInv, Table
    <3>3. making'[u] = making[u]
      BY <3>1, <3>2, <1>6
    <3>. QED BY <3>2, <3>3, <1>7
  <2>5. \A w \in Tasks \ (OSTCBFreeList \cup OSTCBList) :
          \E u \in Tasks : Makes(u)' /\ making'[u].ptcb = w
    BY <1>7 DEF IInv, Table
  <2>6. \A u, w \in Tasks : Makes(u)' /\ Makes(w)' /\ making'[u].prio = making'[w].prio => u = w
    BY <1>7 DEF IInv, Table
  <2>. QED BY <1>6, <2>2, <2>3, <2>4, <2>5, <2>6 DEF IInv, Table
<1>9. \A u \in Tasks : MakingOK(u)'
  <2>1. \A w : Clean(w)' <=> Clean(w)
    BY <1>2 DEF Clean, tcbVars
  <2>2. MakingOK(t)'
    <3>1. t \in Alive /\ pc[t] = "run"
      BY <1>1 DEF MakingOK
    <3>2. making'[t] = m /\ OSTCBPrioTbl'[p] = v
      BY <1>1, <1>6
    <3>3. /\ OSTCBStat'[v] = {} /\ OSTCBStatPend'[v] = "OK" /\ OSTCBDly'[v] = 0
          /\ OSTCBEventPtr'[v] = NoEvent /\ OSTCBEventMultiPtr'[v] = {} /\ pc'[v] = "run"
      BY <1>2, <1>3 DEF Clean, tcbVars
    <3> HIDE DEF m, p, v
    <3>. QED BY <3>1, <3>2, <3>3, <1>3, <1>4, <1>6 DEF MakingOK, Clean
  <2>3. ASSUME NEW u \in Tasks, u # t, Makes(u) PROVE MakingOK(u)'
    <3>1. MakingOK(u) /\ making'[u] = making[u] /\ making[u].prio # p
      BY <1>1, <1>6, <2>3, MakersApart DEF IInv
    <3>2. OSTCBPrioTbl'[making[u].prio] = OSTCBPrioTbl[making[u].prio]
      BY <1>2, <3>1 DEF IInv, Typed, TypeOK
    <3>. QED BY <1>6, <2>1, <2>3, <3>1, <3>2 DEF MakingOK, Clean
  <2>. QED BY <1>7, <2>2, <2>3 DEF MakingOK
<1> HIDE DEF m, p, v
<1>. QED BY <1>1, <1>2, <1>4, <1>5, <1>8, <1>9, TableStepT

LEMMA GiveUpT ==
  ASSUME IInv, NEW t \in Tasks, GiveUp(t)
  PROVE  IInv'
<1> DEFINE m == [making[t] EXCEPT !.step = "giveup"]
<1>1. /\ Calls(t) /\ Makes(t) /\ ~Deletes(t) /\ checked[t] = NoEvent /\ asked[t] = {}
      /\ making[t] \in Makings /\ making[t].step = "init" /\ MakingOK(t)
  BY MakerT DEF GiveUp
<1>2. /\ making' = [making EXCEPT ![t] = m]
      /\ UNCHANGED <<coreVars, callVars, OSTCBFreeList, deleting>>
  BY DEF GiveUp
<1>3. m \in Makings /\ m # NotMaking /\ m.prio = making[t].prio /\ m.ptcb = making[t].ptcb
      /\ m.step = "giveup"
  BY <1>1, LifeAssumption DEF Makings
<1>4. /\ OSTCBPrio' = OSTCBPrio /\ OSTCBList' = OSTCBList /\ OSTCBFreeList' = OSTCBFreeList
      /\ Alive' = Alive /\ pc' = pc /\ OSTCBPrioTbl' = OSTCBPrioTbl
      /\ \A u \in Tasks : making'[u] = IF u = t THEN m ELSE making[u]
  BY <1>2 DEF coreVars, tcbVars, tblVars, IInv, Typed, TypeOK, Alive, Dying
<1>5. \A u \in Tasks : /\ Makes(u)' <=> Makes(u)
                       /\ Makes(u) => making'[u].prio = making[u].prio
                                      /\ making'[u].ptcb = making[u].ptcb
                                      /\ (making[u].step # "link" => making'[u].step # "link")
  BY <1>1, <1>3, <1>4 DEF Makes
<1>6. Table'
  <2>1. \A q \in Prios : OSTCBPrioTbl[q] = Reserved =>
          \E u \in Tasks : Makes(u)' /\ making'[u].prio = q /\ making'[u].step # "link"
    BY <1>5 DEF IInv, Table
  <2>2. \A w \in Tasks \ (OSTCBFreeList \cup OSTCBList) :
          \E u \in Tasks : Makes(u)' /\ making'[u].ptcb = w
    BY <1>5 DEF IInv, Table
  <2>3. \A u, w \in Tasks : Makes(u)' /\ Makes(w)' /\ making'[u].prio = making'[w].prio => u = w
    BY <1>5 DEF IInv, Table
  <2>. QED BY <1>4, <2>1, <2>2, <2>3 DEF IInv, Table
<1>7. \A u \in Tasks : MakingOK(u)'
  <2>1. \A w : Clean(w)' <=> Clean(w)
    BY <1>2 DEF Clean, coreVars, tcbVars
  <2>2. MakingOK(t)'
    <3>1. t \in Alive /\ pc[t] = "run" /\ making[t].ptcb = NoTCB /\ OSTCBPrioTbl[making[t].prio] = Reserved
      BY <1>1 DEF MakingOK
    <3>2. making'[t] = m
      BY <1>4
    <3>. QED BY <3>1, <3>2, <1>3, <1>4 DEF MakingOK
  <2>3. ASSUME NEW u \in Tasks, u # t, Makes(u) PROVE MakingOK(u)'
    <3>1. MakingOK(u) /\ making'[u] = making[u]
      BY <1>4, <2>3 DEF IInv
    <3>. QED BY <1>4, <2>1, <2>3, <3>1 DEF MakingOK, Clean
  <2>. QED BY <1>5, <2>2, <2>3 DEF MakingOK
<1>8. OSTCBPrioTbl' \in [Prios -> Tasks \cup {NoTCB, Reserved}]
  BY <1>4 DEF IInv, Typed, TypeOK
<1> HIDE DEF m
<1>. QED BY <1>1, <1>2, <1>3, <1>6, <1>7, <1>8, TableStepT DEF coreVars, tblVars

LEMMA UnreserveT ==
  ASSUME IInv, NEW t \in Tasks, Unreserve(t)
  PROVE  IInv'
<1> DEFINE p == making[t].prio
<1>1. /\ Calls(t) /\ Makes(t) /\ ~Deletes(t) /\ checked[t] = NoEvent /\ asked[t] = {}
      /\ making[t].step = "giveup" /\ p \in Prios /\ MakingOK(t)
  BY MakerT DEF Unreserve
<1>2. /\ OSTCBPrioTbl' = [OSTCBPrioTbl EXCEPT ![p] = NoTCB]
      /\ making' = [making EXCEPT ![t] = NotMaking]
      /\ UNCHANGED <<tcbVars, OSTCBList, OSRdyTbl, eventVars, curVars, nestVars, pc, callVars,
                     OSTCBFreeList, deleting>>
  BY DEF Unreserve
<1>3. making[t].ptcb = NoTCB /\ OSTCBPrioTbl[p] = Reserved
  BY <1>1 DEF MakingOK
<1>4. OSTCBPrioTbl' \in [Prios -> Tasks \cup {NoTCB, Reserved}]
  BY <1>2 DEF IInv, Typed, TypeOK
<1>5. /\ OSTCBPrio' = OSTCBPrio /\ OSTCBList' = OSTCBList /\ OSTCBFreeList' = OSTCBFreeList
      /\ Alive' = Alive /\ pc' = pc
      /\ \A q \in Prios : OSTCBPrioTbl'[q] = IF q = p THEN NoTCB ELSE OSTCBPrioTbl[q]
      /\ \A u \in Tasks : making'[u] = IF u = t THEN NotMaking ELSE making[u]
  BY <1>2 DEF tcbVars, IInv, Typed, TypeOK, Alive, Dying
<1>6. \A u \in Tasks : /\ Makes(u)' <=> Makes(u) /\ u # t
                       /\ Makes(u)' => making'[u] = making[u]
  BY <1>1, <1>5 DEF Makes
<1>7. Table'
  <2>1. \A u \in OSTCBList : OSTCBPrio[u] # p /\ OSTCBPrio[u] \in Prios
    BY <1>3, CoreAssumption DEF IInv, Table, Typed, TypeOK
  <2>2. \A u \in OSTCBList : OSTCBPrioTbl'[OSTCBPrio'[u]] = u
    BY <1>5, <2>1 DEF IInv, Table
  <2>3. \A q \in Prios : OSTCBPrioTbl'[q] \in Tasks =>
          OSTCBPrioTbl'[q] \notin OSTCBFreeList /\ OSTCBPrio'[OSTCBPrioTbl'[q]] = q
    BY <1>5, CoreAssumption DEF IInv, Table
  <2>4. ASSUME NEW q \in Prios, OSTCBPrioTbl'[q] = Reserved
        PROVE  \E u \in Tasks : Makes(u)' /\ making'[u].prio = q /\ making'[u].step # "link"
    <3>1. q # p /\ OSTCBPrioTbl[q] = Reserved
      BY <1>5, <2>4, CoreAssumption
    <3>2. PICK u \in Tasks : Makes(u) /\ making[u].prio = q /\ making[u].step # "link"
      BY <3>1 DEF IInv, Table
    <3>. QED BY <3>1, <3>2, <1>6
  <2>5. ASSUME NEW w \in Tasks \ (OSTCBFreeList \cup OSTCBList)
        PROVE  \E u \in Tasks : Makes(u)' /\ making'[u].ptcb = w
    <3>1. PICK u \in Tasks : Makes(u) /\ making[u].ptcb = w
      BY DEF IInv, Table
    <3>. QED BY <3>1, <1>3, <1>6, CoreAssumption
  <2>6. \A u, w \in Tasks : Makes(u)' /\ Makes(w)' /\ making'[u].prio = making'[w].prio => u = w
    BY <1>6 DEF IInv, Table
  <2>. QED BY <1>5, <2>2, <2>3, <2>4, <2>5, <2>6 DEF IInv, Table
<1>8. \A u \in Tasks : MakingOK(u)'
  <2>1. \A w : Clean(w)' <=> Clean(w)
    BY <1>2 DEF Clean, tcbVars
  <2>2. ASSUME NEW u \in Tasks, u # t, Makes(u) PROVE MakingOK(u)'
    <3>1. MakingOK(u) /\ making'[u] = making[u] /\ making[u].prio # p
      BY <1>1, <1>5, <2>2, MakersApart DEF IInv
    <3>2. OSTCBPrioTbl'[making[u].prio] = OSTCBPrioTbl[making[u].prio]
      BY <1>2, <3>1 DEF IInv, Typed, TypeOK
    <3>. QED BY <1>5, <2>1, <2>2, <3>1, <3>2 DEF MakingOK, Clean
  <2>. QED BY <1>6, <2>2 DEF MakingOK
<1> HIDE DEF p
<1>. QED BY <1>1, <1>2, <1>4, <1>7, <1>8, TableStepT
(* A free TCB is taken and filled in: no list and no linked task has it.   *)
LEMMA TCBInitT ==
  ASSUME IInv, NEW t \in Tasks, TCBInit(t)
  PROVE  IInv'
<1> DEFINE p == making[t].prio
<1>1. /\ Calls(t) /\ Makes(t) /\ ~Deletes(t) /\ checked[t] = NoEvent /\ asked[t] = {}
      /\ making[t] \in Makings /\ making[t].step = "init" /\ p \in Prios /\ MakingOK(t)
  BY MakerT DEF TCBInit
<1>2. PICK v \in OSTCBFreeList :
        /\ OSTCBFreeList' = OSTCBFreeList \ {v}
        /\ making' = [making EXCEPT ![t].step = "publish", ![t].ptcb = v]
        /\ OSTCBPrio' = [OSTCBPrio EXCEPT ![v] = p]
        /\ OSTCBStat' = [OSTCBStat EXCEPT ![v] = {}]
        /\ OSTCBStatPend' = [OSTCBStatPend EXCEPT ![v] = "OK"]
        /\ OSTCBDly' = [OSTCBDly EXCEPT ![v] = 0]
        /\ OSTCBEventPtr' = [OSTCBEventPtr EXCEPT ![v] = NoEvent]
        /\ OSTCBEventMultiPtr' = [OSTCBEventMultiPtr EXCEPT ![v] = {}]
        /\ pc' = [pc EXCEPT ![v] = "run"]
        /\ UNCHANGED <<tblVars, OSRdyTbl, eventVars, curVars, nestVars, callVars, deleting>>
  BY DEF TCBInit
<1>3. /\ OSTCBCur = t /\ t # IdleTask /\ pc[t] = "run" /\ t \in Alive /\ Alive = OSTCBList
      /\ \A u \in Tasks : ~Deletes(u)
  BY <1>1, CallerT
<1>4. /\ v \in Tasks \ OSTCBList /\ OSTCBList \subseteq Tasks /\ v # t /\ v # IdleTask
      /\ v \notin Alive /\ making[t].ptcb = NoTCB /\ OSTCBPrioTbl[p] = Reserved
  BY <1>1, <1>3 DEF MakingOK, IInv, Typed, TypeOK, Table, Running
<1>5. /\ OSTCBPrioTbl' = OSTCBPrioTbl /\ OSTCBList' = OSTCBList /\ OSRdyTbl' = OSRdyTbl
      /\ OSEventType' = OSEventType /\ OSEventCnt' = OSEventCnt /\ OSEventTbl' = OSEventTbl
      /\ OSTCBCur' = OSTCBCur /\ OSPrioCur' = OSPrioCur /\ OSIntNesting' = OSIntNesting
      /\ OSLockNesting' = OSLockNesting /\ checked' = checked /\ asked' = asked
      /\ deleting' = deleting /\ Alive' = Alive
  BY <1>2 DEF tblVars, eventVars, curVars, nestVars, callVars, Alive, Dying
<1>6. \A u \in Tasks : u # v =>
        /\ OSTCBPrio'[u] = OSTCBPrio[u] /\ OSTCBStat'[u] = OSTCBStat[u]
        /\ OSTCBStatPend'[u] = OSTCBStatPend[u] /\ OSTCBDly'[u] = OSTCBDly[u]
        /\ OSTCBEventPtr'[u] = OSTCBEventPtr[u]
        /\ OSTCBEventMultiPtr'[u] = OSTCBEventMultiPtr[u] /\ pc'[u] = pc[u]
  BY <1>2 DEF IInv, Typed, TypeOK
<1>7. /\ OSTCBPrio'[v] = p /\ OSTCBStat'[v] = {} /\ OSTCBStatPend'[v] = "OK"
      /\ OSTCBDly'[v] = 0 /\ OSTCBEventPtr'[v] = NoEvent /\ OSTCBEventMultiPtr'[v] = {}
      /\ pc'[v] = "run"
  BY <1>2, <1>4 DEF IInv, Typed, TypeOK
<1>8. /\ making'[t] = [step |-> "publish", prio |-> p, ptcb |-> v] /\ making'[t] \in Makings
      /\ \A u \in Tasks : u # t => making'[u] = making[u]
      /\ making' \in [Tasks -> Makings \cup {NotMaking}]
  BY <1>1, <1>2, <1>4 DEF IInv, Typed, Makings
<1> HIDE DEF p
<1>9. \A u \in Tasks : /\ Makes(u)' <=> Makes(u)
                       /\ Makes(u) => making'[u].prio = making[u].prio
  BY <1>1, <1>8, LifeAssumption DEF Makes, p
<1>10. Table'
  <2>1. \A u \in OSTCBList : OSTCBPrioTbl'[OSTCBPrio'[u]] = u
    BY <1>4, <1>5, <1>6 DEF IInv, Table
  <2>2. \A q \in Prios : OSTCBPrioTbl'[q] \in Tasks =>
          OSTCBPrioTbl'[q] \notin OSTCBFreeList' /\ OSTCBPrio'[OSTCBPrioTbl'[q]] = q
    BY <1>2, <1>5, <1>6 DEF IInv, Table
  <2>3. ASSUME NEW q \in Prios, OSTCBPrioTbl'[q] = Reserved
        PROVE  \E u \in Tasks : Makes(u)' /\ making'[u].prio = q /\ making'[u].step # "link"
    <3>1. PICK u \in Tasks : Makes(u) /\ making[u].prio = q /\ making[u].step # "link"
      BY <1>5, <2>3 DEF IInv, Table
    <3>. QED BY <3>1, <1>8, <1>9
  <2>4. ASSUME NEW w \in Tasks \ (OSTCBFreeList' \cup OSTCBList)
        PROVE  \E u \in Tasks : Makes(u)' /\ making'[u].ptcb = w
    <3>1. CASE w = v
      BY <3>1, <1>1, <1>8, <1>9
    <3>2. CASE w # v
      <4>1. PICK u \in Tasks : Makes(u) /\ making[u].ptcb = w
        BY <3>2, <2>4, <1>2 DEF IInv, Table
      <4>. QED BY <4>1, <1>4, <1>8, <1>9, CoreAssumption
    <3>. QED BY <3>1, <3>2
  <2>5. \A u, w \in Tasks : Makes(u)' /\ Makes(w)' /\ making'[u].prio = making'[w].prio => u = w
    BY <1>9 DEF IInv, Table
  <2>6. OSTCBFreeList' \cap OSTCBList = {}
    BY <1>2 DEF IInv, Table
  <2>. QED BY <1>5, <2>1, <2>2, <2>3, <2>4, <2>5, <2>6 DEF Table
<1>11. \A u \in Tasks : MakingOK(u)'
  <2>1. MakingOK(t)'
    <3>1. pc'[t] = "run" /\ v \notin OSTCBFreeList' /\ OSTCBPrioTbl'[p] = Reserved
      BY <1>2, <1>3, <1>4, <1>5, <1>6
    <3>. QED BY <3>1, <1>3, <1>4, <1>5, <1>7, <1>8 DEF MakingOK, Clean
  <2>2. ASSUME NEW u \in Tasks, u # t, Makes(u) PROVE MakingOK(u)'
    <3>1. MakingOK(u) /\ making'[u] = making[u] /\ u \in Alive
      BY <1>8, <2>2 DEF IInv, MakingOK
    <3>2. pc'[u] = pc[u] /\ \A w : w \notin OSTCBFreeList => w \notin OSTCBFreeList'
      BY <1>2, <1>4, <1>6, <3>1
    <3>3. \A w \in Tasks \ OSTCBFreeList : OSTCBPrio'[w] = OSTCBPrio[w] /\
            (Clean(w) => /\ OSTCBStat'[w] = {} /\ OSTCBStatPend'[w] = "OK" /\ OSTCBDly'[w] = 0
                         /\ OSTCBEventPtr'[w] = NoEvent /\ OSTCBEventMultiPtr'[w] = {}
                         /\ pc'[w] = "run")
      BY <1>6 DEF Clean
    <3>4. Makes(u)
      BY <2>2
    <3>5. CASE making[u].step \in {"init", "giveup"}
      BY <3>1, <3>2, <3>4, <3>5, <1>5 DEF MakingOK
    <3>6. CASE making[u].step \notin {"init", "giveup"}
      BY <3>1, <3>2, <3>3, <3>4, <3>6, <1>5 DEF MakingOK, Clean
    <3>. QED BY <3>5, <3>6
  <2>. QED BY <1>9, <2>1, <2>2 DEF MakingOK
<1>12. \A u \in Tasks : DeletingOK(u)'
  BY <1>3, <1>5 DEF DeletingOK, Deletes
<1>13. \A u \in Tasks : CallOK(u)'
  BY <1>5, <1>9 DEF IInv, CallOK, Deletes, IsSem
<1>14. TaskListsExact' /\ \A u \in Alive : TaskOK(u)'
  <2>1. \A u \in Alive : Kept(u) /\ OSTCBPrio'[u] = OSTCBPrio[u]
    BY <1>3, <1>4, <1>5, <1>6 DEF Kept
  <2>. QED BY <2>1, <1>5, ListsStay DEF eventVars
<1>15. Running'
  <2>1. OSTCBCur \in OSTCBList /\ OSTCBCur \notin OSTCBFreeList'
    BY <1>2, <1>3 DEF IInv, Table
  <2>2. IdleOK' /\ OSTCBPrio'[IdleTask] = LowestPrio /\ ~Makes(IdleTask)'
    BY <1>4, <1>6, <1>9, CoreAssumption DEF IInv, Running, IdleOK, Runnable
  <2>3. OSPrioCur' = OSTCBPrio'[OSTCBCur'] /\ (Deletes(OSTCBCur)' <=> Deletes(OSTCBCur))
    BY <1>3, <1>4, <1>5, <1>6 DEF IInv, Running, Deletes
  <2>. QED BY <1>5, <2>1, <2>2, <2>3 DEF IInv, Running
<1>16. HighestTaskRuns'
  <2>1. (Unblocked(t)' <=> Unblocked(t)) /\ pc'[t] = pc[t]
    BY <1>4, <1>6 DEF Unblocked
  <2>. QED BY <2>1, <1>3, <1>5 DEF IInv, HighestTaskRuns
<1>17. Typed'
  <2>1. /\ OSTCBPrio' \in [Tasks -> Prios] /\ OSTCBStat' \in [Tasks -> SUBSET Stats]
        /\ OSTCBStatPend' \in [Tasks -> PendStats] /\ OSTCBDly' \in [Tasks -> Nat]
        /\ OSTCBEventPtr' \in [Tasks -> Events \cup {NoEvent}]
        /\ OSTCBEventMultiPtr' \in [Tasks -> SUBSET Events] /\ pc' \in [Tasks -> Pcs]
    BY <1>1, <1>2 DEF IInv, Typed, TypeOK, PendStats, Pcs, p
  <2>2. OSTCBFreeList' \in SUBSET Tasks
    BY <1>2 DEF IInv, Typed
  <2>. QED BY <2>1, <2>2, <1>5, <1>8 DEF IInv, Typed, TypeOK
<1>. QED BY <1>5, <1>10, <1>11, <1>12, <1>13, <1>14, <1>15, <1>16, <1>17 DEF IInv

(* The new task is linked and ready at once.                               *)
LEMMA LinkT ==
  ASSUME IInv, NEW t \in Tasks, Link(t)
  PROVE  IInv'
<1>1. /\ Calls(t) /\ Makes(t) /\ ~Deletes(t) /\ checked[t] = NoEvent /\ asked[t] = {}
      /\ making[t] \in Makings /\ making[t].step = "link" /\ making[t].prio \in Prios
      /\ MakingOK(t)
  BY MakerT DEF Link
<1>2. PICK v \in Tasks \ (OSTCBFreeList \cup OSTCBList) :
        /\ v = making[t].ptcb /\ OSTCBPrio[v] = making[t].prio /\ Clean(v)
        /\ OSTCBPrioTbl[OSTCBPrio[v]] = v
  BY <1>1 DEF MakingOK
<1>3. /\ OSTCBList' = OSTCBList \cup {v}
      /\ OSRdyTbl' = MapSet(OSRdyTbl, {OSTCBPrio[v]})
      /\ making' = [making EXCEPT ![t] = NotMaking] /\ pc' = [pc EXCEPT ![t] = "sched"]
      /\ UNCHANGED <<tcbVars, OSTCBPrioTbl, eventVars, curVars, nestVars, callVars,
                     OSTCBFreeList, deleting>>
  BY <1>2 DEF Link, Goto
<1>4. /\ OSTCBCur = t /\ t # IdleTask /\ pc[t] = "run" /\ t \in Alive /\ Alive = OSTCBList
      /\ \A u \in Tasks : ~Deletes(u)
  BY <1>1, CallerT
<1>5. /\ OSTCBPrio' = OSTCBPrio /\ OSTCBStat' = OSTCBStat /\ OSTCBStatPend' = OSTCBStatPend
      /\ OSTCBDly' = OSTCBDly /\ OSTCBEventPtr' = OSTCBEventPtr
      /\ OSTCBEventMultiPtr' = OSTCBEventMultiPtr
      /\ OSTCBPrioTbl' = OSTCBPrioTbl /\ OSTCBFreeList' = OSTCBFreeList
      /\ OSEventType' = OSEventType /\ OSEventCnt' = OSEventCnt /\ OSEventTbl' = OSEventTbl
      /\ OSTCBCur' = OSTCBCur /\ OSPrioCur' = OSPrioCur /\ OSIntNesting' = OSIntNesting
      /\ OSLockNesting' = OSLockNesting /\ checked' = checked /\ asked' = asked
      /\ deleting' = deleting
  BY <1>3 DEF tcbVars, eventVars, curVars, nestVars, callVars
<1>6. Alive' = Alive \cup {v} /\ v \notin Alive
  BY <1>2, <1>3, <1>4, <1>5 DEF Alive, Dying, Deletes
<1>7. /\ \A u \in Tasks : u # t => making'[u] = making[u] /\ pc'[u] = pc[u]
      /\ making'[t] = NotMaking /\ pc'[t] = "sched"
  BY <1>3 DEF IInv, Typed, TypeOK
<1>8. \A u \in Tasks : Makes(u)' <=> Makes(u) /\ u # t
  BY <1>7 DEF Makes
<1>9. OSRdyTbl' \in PrioMap => Typed'
  BY <1>2, <1>3, <1>5 DEF IInv, Typed, TypeOK, Pcs
<1>10. Table'
  <2>1. OSTCBFreeList' \cap OSTCBList' = {}
    BY <1>2, <1>3, <1>5 DEF IInv, Table
  <2>2. \A u \in OSTCBList' : OSTCBPrioTbl'[OSTCBPrio'[u]] = u
    BY <1>2, <1>3, <1>5 DEF IInv, Table
  <2>3. ASSUME NEW q \in Prios, OSTCBPrioTbl'[q] = Reserved
        PROVE  \E u \in Tasks : Makes(u)' /\ making'[u].prio = q /\ making'[u].step # "link"
    <3>1. PICK u \in Tasks : Makes(u) /\ making[u].prio = q /\ making[u].step # "link"
      BY <1>5, <2>3 DEF IInv, Table
    <3>. QED BY <3>1, <1>1, <1>7, <1>8
  <2>4. ASSUME NEW w \in Tasks \ (OSTCBFreeList \cup OSTCBList')
        PROVE  \E u \in Tasks : Makes(u)' /\ making'[u].ptcb = w
    <3>1. PICK u \in Tasks : Makes(u) /\ making[u].ptcb = w
      BY <2>4, <1>3 DEF IInv, Table
    <3>. QED BY <3>1, <2>4, <1>2, <1>3, <1>7, <1>8
  <2>5. \A u, w \in Tasks : Makes(u)' /\ Makes(w)' /\ making'[u].prio = making'[w].prio => u = w
    BY <1>7, <1>8 DEF IInv, Table
  <2>. QED BY <1>5, <2>1, <2>2, <2>3, <2>4, <2>5 DEF IInv, Table
<1>11. \A u \in Tasks : MakingOK(u)'
  <2>1. ASSUME NEW u \in Tasks, u # t, Makes(u) PROVE MakingOK(u)'
    <3>1. MakingOK(u) /\ making'[u] = making[u] /\ pc'[u] = pc[u] /\ making[u].ptcb # v
      BY <1>1, <1>2, <1>7, <2>1, MakersApart DEF IInv
    <3>2. \A w \in Tasks \ OSTCBList : pc'[w] = pc[w]
      BY <1>4, <1>7
    <3>3. \A w \in Tasks \ OSTCBList : Clean(w) =>
            /\ OSTCBStat'[w] = {} /\ OSTCBStatPend'[w] = "OK" /\ OSTCBDly'[w] = 0
            /\ OSTCBEventPtr'[w] = NoEvent /\ OSTCBEventMultiPtr'[w] = {} /\ pc'[w] = "run"
      BY <3>2, <1>5 DEF Clean
    <3>4. Makes(u)
      BY <2>1
    <3>5. CASE making[u].step \in {"init", "giveup"}
      BY <3>1, <3>4, <3>5, <1>5, <1>6 DEF MakingOK
    <3>6. CASE making[u].step \notin {"init", "giveup"}
      BY <3>1, <3>3, <3>4, <3>6, <1>3, <1>5, <1>6 DEF MakingOK, Clean
    <3>. QED BY <3>5, <3>6
  <2>. QED BY <1>8, <2>1 DEF MakingOK
<1>12. \A u \in Tasks : DeletingOK(u)'
  BY <1>4, <1>5 DEF DeletingOK, Deletes
<1>13. \A u \in Tasks : CallOK(u)'
  BY <1>5, <1>6, <1>8 DEF IInv, CallOK, Deletes, IsSem
<1>14. \A u \in Alive : Kept(u)
  BY <1>4, <1>5, <1>7 DEF Kept, IInv, Typed, TypeOK
<1>15. \A u \in Alive : /\ u \in ReadyTasks' <=> u \in ReadyTasks
                        /\ \A f : u \in WaitTasks(f)' <=> u \in WaitTasks(f)
                        /\ TaskOK(u)'
  BY <1>5, <1>6, <1>14, TaskStays DEF IInv
<1>16. /\ OSTCBStat'[v] = {} /\ OSTCBStatPend'[v] = "OK" /\ OSTCBDly'[v] = 0
       /\ OSTCBEventPtr'[v] = NoEvent /\ OSTCBEventMultiPtr'[v] = {} /\ pc'[v] = "run"
  BY <1>2, <1>4, <1>5, <1>7 DEF Clean
<1>17. \A u \in Alive' : TaskOK(u)'
  <2>1. TaskOK(v)'
    BY <1>16 DEF TaskOK, NoPendOK
  <2>. QED BY <2>1, <1>6, <1>15
<1>18. TaskListsExact'
  <2>1. /\ ReadyTasks \in SUBSET Alive /\ ReadyTasks' \in SUBSET Alive'
        /\ \A f : WaitTasks(f) \in SUBSET Alive /\ WaitTasks(f)' \in SUBSET Alive'
    BY Lives DEF IInv, ReadyTasks, WaitTasks
  <2>2. v \in ReadyTasks' /\ \A f : v \notin WaitTasks(f)'
    BY <1>6, <1>16 DEF ReadyTasks, Unblocked, WaitTasks, InPend
  <2>3. ReadyTasks' = ReadyTasks \cup {v}
    BY <1>6, <1>15, <2>1, <2>2
  <2>4. ASSUME NEW f PROVE WaitTasks(f)' = WaitTasks(f)
    BY <1>6, <1>15, <2>1, <2>2
  <2>5. \A ts : Current(ts)' = Current(ts')
    BY <1>5 DEF Current
  <2>6. OSRdyTbl' = MapOf(Current(ReadyTasks \cup {v}))
    <3>1. ReadyTasks \in SUBSET Tasks /\ {v} \in SUBSET Tasks
      BY <2>1, Lives DEF IInv
    <3>. QED BY <3>1, <1>3, CurrentJoin, CurrentOne, ListsAre DEF IInv
  <2>7. \A f \in Events : OSEventTbl'[f] = MapOf(Current(WaitTasks(f)'))
    BY <1>5, <2>4, ListsAre DEF IInv
  <2>. QED BY <2>3, <2>5, <2>6, <2>7, ListsArePrime
<1>19. Running'
  <2>1. OSTCBCur \in OSTCBList' /\ OSTCBCur \notin OSTCBFreeList'
    BY <1>3, <1>4, <1>5 DEF IInv, Table
  <2>2. IdleOK' /\ ~Makes(IdleTask)'
    BY <1>4, <1>5, <1>7, <1>8, CoreAssumption DEF IInv, Running, IdleOK, Runnable
  <2>3. Deletes(OSTCBCur)' <=> Deletes(OSTCBCur)
    BY <1>5 DEF Deletes
  <2>. QED BY <1>5, <1>6, <2>1, <2>2, <2>3 DEF IInv, Running
<1>20. HighestTaskRuns'
  BY <1>4, <1>5, <1>7 DEF HighestTaskRuns
<1>21. Typed'
  <2>1. PrioTyped'
    BY <1>2, <1>3, <1>5 DEF IInv, Typed, TypeOK, PrioTyped
  <2>. QED BY <2>1, <1>9, <1>18, ListTypesPrime DEF MapsTyped
<1>. QED BY <1>10, <1>11, <1>12, <1>13, <1>17, <1>18, <1>19, <1>20, <1>21 DEF IInv-----------------------------------------------------------------------------
(* Deleting a task.  Its TCB leads to every wait list it is on.            *)
LEMMA OffEveryList ==
  ASSUME IInv, NEW u \in Tasks, NEW f \in Events, u \in WaitTasks(f)
  PROVE  f \in OSTCBEventMultiPtr[u] \cup ({OSTCBEventPtr[u]} \ {NoEvent})
<1>1. u \in Alive /\ pc[u] \in {"pend", "wake"} /\ f \in WaitsOn(u)
  BY DEF WaitTasks, InPend
<1>2. PendOK(u)
  BY <1>1 DEF IInv, TaskOK
<1>. QED BY <1>1, <1>2, CoreAssumption DEF PendOK, PendOneOK, WaitsOn

LEMMA TaskDelT ==
  ASSUME IInv, NEW t \in Tasks, NEW prio \in NewPrios, CarefulTaskDel(t, prio)
  PROVE  IInv'
<1>1. /\ Calls(t) /\ ~Deletes(t) /\ ~Makes(t) /\ checked[t] = NoEvent /\ asked[t] = {}
      /\ prio \in Prios /\ prio # LowestPrio /\ OSLockNesting < LockNestingMax
  BY LifeAssumption
     DEF CarefulTaskDel, OSTaskDel, Ready4Call, Free, Deletes, Makes
<1>2. PICK u \in OSTCBList : u = OSTCBPrioTbl[prio] /\ ~Makes(u)
  BY DEF CarefulTaskDel, Makes
<1> DEFINE off == OSTCBEventMultiPtr[u] \cup ({OSTCBEventPtr[u]} \ {NoEvent})
           d == [prio |-> prio, ptcb |-> u]
<1>3. /\ OSRdyTbl' = MapClr(OSRdyTbl, {OSTCBPrio[u]})
      /\ OSEventTbl' = OffLists(u, off)
      /\ OSTCBDly' = [OSTCBDly EXCEPT ![u] = 0]
      /\ OSTCBStat' = [OSTCBStat EXCEPT ![u] = {}]
      /\ OSTCBStatPend' = [OSTCBStatPend EXCEPT ![u] = "OK"]
      /\ OSLockNesting' = OSLockNesting + 1
      /\ deleting' = [deleting EXCEPT ![t] = d]
      /\ checked' = [checked EXCEPT ![u] = NoEvent]
      /\ asked' = [asked EXCEPT ![u] = {}]
      /\ UNCHANGED <<OSTCBPrio, OSTCBEventPtr, OSTCBEventMultiPtr, tblVars, OSEventType,
                     OSEventCnt, curVars, OSIntNesting, pc, OSTCBFreeList, making>>
  BY <1>2 DEF CarefulTaskDel, OSTaskDel, Unready
<1>4. /\ OSTCBCur = t /\ t # IdleTask /\ pc[t] = "run" /\ t \in Alive /\ Alive = OSTCBList
      /\ OSLockNesting = 0 /\ \A w \in Tasks : ~Deletes(w)
  BY <1>1, CallerT
<1>5. u \in Tasks /\ OSTCBPrio[u] = prio /\ u # IdleTask
  BY <1>1, <1>2 DEF IInv, Table, Typed, TypeOK, Running
<1>6. /\ OSTCBPrio' = OSTCBPrio /\ OSTCBEventPtr' = OSTCBEventPtr
      /\ OSTCBEventMultiPtr' = OSTCBEventMultiPtr /\ OSTCBPrioTbl' = OSTCBPrioTbl
      /\ OSTCBList' = OSTCBList /\ OSEventType' = OSEventType /\ OSEventCnt' = OSEventCnt
      /\ OSTCBCur' = OSTCBCur /\ OSPrioCur' = OSPrioCur /\ OSIntNesting' = OSIntNesting
      /\ pc' = pc /\ OSTCBFreeList' = OSTCBFreeList /\ making' = making /\ OSLockNesting' = 1
  BY <1>3, <1>4 DEF tblVars, curVars
<1>7. \A w \in Tasks : w # u =>
        /\ OSTCBStat'[w] = OSTCBStat[w] /\ OSTCBStatPend'[w] = OSTCBStatPend[w]
        /\ OSTCBDly'[w] = OSTCBDly[w] /\ checked'[w] = checked[w] /\ asked'[w] = asked[w]
  BY <1>3 DEF IInv, Typed, TypeOK
<1>8. OSTCBDly'[u] = 0 /\ checked'[u] = NoEvent /\ asked'[u] = {}
  BY <1>3, <1>5 DEF IInv, Typed, TypeOK
<1>9. d \in Deletions /\ d # NotMaking /\ d.ptcb = u /\ d.prio = prio
  BY <1>1, <1>5, LifeAssumption DEF Deletions
<1>10. /\ deleting'[t] = d /\ deleting' \in [Tasks -> Deletions \cup {NotMaking}]
       /\ \A w \in Tasks : Deletes(w)' <=> w = t
       /\ \A w \in Tasks : Makes(w)' <=> Makes(w)
  BY <1>3, <1>4, <1>6, <1>9 DEF IInv, Typed, Deletes, Makes
<1> HIDE DEF d
<1>11. Alive' = Alive \ {u}
  <2>1. Dying' = {u}
    BY <1>9, <1>10 DEF Dying, Deletes
  <2>. QED BY <2>1, <1>4, <1>6 DEF Alive
<1>12. \A w \in Alive \ {u} : Kept(w)
  BY <1>6, <1>7, Lives DEF Kept, IInv
<1>13. \A w \in Alive' : /\ w \in ReadyTasks' <=> w \in ReadyTasks
                         /\ \A f : w \in WaitTasks(f)' <=> w \in WaitTasks(f)
                         /\ TaskOK(w)'
  BY <1>6, <1>11, <1>12, TaskStays DEF IInv
<1>14. TaskListsExact'
  <2>1. /\ ReadyTasks \in SUBSET Alive /\ ReadyTasks' \in SUBSET Alive'
        /\ \A f : WaitTasks(f) \in SUBSET Alive /\ WaitTasks(f)' \in SUBSET Alive'
    BY Lives DEF IInv, ReadyTasks, WaitTasks
  <2>2. ReadyTasks' = ReadyTasks \ {u}
    BY <1>11, <1>13, <2>1
  <2>3. ASSUME NEW f PROVE WaitTasks(f)' = WaitTasks(f) \ {u}
    BY <1>11, <1>13, <2>1
  <2>4. \A ts : Current(ts)' = Current(ts')
    BY <1>6 DEF Current
  <2>5. \A A \in SUBSET Alive : MapClr(MapOf(Current(A)), {OSTCBPrio[u]}) = MapOf(Current(A \ {u}))
    BY <1>4, CurrentLeave, CurrentOne DEF IInv
  <2>6. OSRdyTbl' = MapOf(Current(ReadyTasks \ {u}))
    BY <1>3, <2>1, <2>5, ListsAre DEF IInv
  <2>7. ASSUME NEW f \in Events PROVE OSEventTbl'[f] = MapOf(Current(WaitTasks(f) \ {u}))
    <3>1. OSEventTbl[f] = MapOf(Current(WaitTasks(f)))
      BY ListsAre DEF IInv
    <3>2. OSEventTbl'[f] = IF f \in off THEN MapClr(OSEventTbl[f], {OSTCBPrio[u]})
                           ELSE OSEventTbl[f]
      BY <1>3 DEF OffLists
    <3>3. f \notin off => u \notin WaitTasks(f)
      BY <1>5, OffEveryList
    <3>4. f \notin off => WaitTasks(f) \ {u} = WaitTasks(f)
      BY <3>3
    <3> HIDE DEF off
    <3>. QED BY <2>1, <2>5, <3>1, <3>2, <3>4
  <2>8. \A f \in Events : Current(WaitTasks(f))' = Current(WaitTasks(f) \ {u})
    BY <2>3, <2>4
  <2>. QED BY <2>2, <2>4, <2>6, <2>7, <2>8, ListsArePrime
<1>15. Typed'
  <2>1. PrioTyped'
    BY <1>6 DEF IInv, Typed, TypeOK, PrioTyped
  <2>2. OSRdyTbl' \in PrioMap /\ OSEventTbl' \in [Events -> PrioMap]
    BY <2>1, <1>3, <1>14, ListTypesPrime DEF MapsTyped, OffLists
  <2>3. /\ OSTCBStat' \in [Tasks -> SUBSET Stats] /\ OSTCBStatPend' \in [Tasks -> PendStats]
        /\ OSTCBDly' \in [Tasks -> Nat] /\ checked' \in [Tasks -> Events \cup {NoEvent}]
        /\ asked' \in [Tasks -> SUBSET Events]
    BY <1>3 DEF IInv, Typed, TypeOK, PendStats
  <2>4. OSLockNesting' \in 0 .. LockNestingMax
    BY <1>6, CoreAssumption
  <2>. QED BY <2>2, <2>3, <2>4, <1>6, <1>10 DEF IInv, Typed, TypeOK
<1>16. Table'
  BY <1>6, <1>10 DEF IInv, Table
<1>17. \A w \in Tasks : MakingOK(w)'
  <2>1. ASSUME NEW w \in Tasks, Makes(w) PROVE MakingOK(w)'
    <3>1. MakingOK(w) /\ making'[w] = making[w] /\ pc'[w] = pc[w] /\ w # u
      BY <1>2, <1>6, <2>1 DEF IInv
    <3>2. \A v \in Tasks \ OSTCBList : Clean(v) =>
            /\ OSTCBStat'[v] = {} /\ OSTCBStatPend'[v] = "OK" /\ OSTCBDly'[v] = 0
            /\ OSTCBEventPtr'[v] = NoEvent /\ OSTCBEventMultiPtr'[v] = {} /\ pc'[v] = "run"
      BY <1>6, <1>7 DEF Clean
    <3>3. Makes(w)
      BY <2>1
    <3>4. CASE making[w].step \in {"init", "giveup"}
      BY <3>1, <3>3, <3>4, <1>6, <1>11 DEF MakingOK
    <3>5. CASE making[w].step \notin {"init", "giveup"}
      BY <3>1, <3>2, <3>3, <3>5, <1>6, <1>11 DEF MakingOK, Clean
    <3>. QED BY <3>4, <3>5
  <2>. QED BY <1>10, <2>1 DEF MakingOK
<1>18. \A w \in Tasks : DeletingOK(w)'
  <2>1. t \in OSTCBList /\ ~Makes(t)' /\ ~Makes(u)'
    BY <1>1, <1>2, <1>4, <1>5, <1>10
  <2>2. DeletingOK(t)'
    <3>1. deleting'[t].ptcb = u /\ deleting'[t].prio = prio
      BY <1>9, <1>10
    <3>2. ~(making'[u] # NotMaking)
      BY <2>1 DEF Makes
    <3>. QED BY <2>1, <3>1, <3>2, <1>2, <1>4, <1>5, <1>6, <1>8 DEF DeletingOK, Makes
  <2>. QED BY <2>2, <1>10 DEF DeletingOK
<1>19. \A w \in Tasks : CallOK(w)'
  <2>1. CallOK(u)'
    BY <1>8, CoreAssumption DEF CallOK
  <2>2. ASSUME NEW w \in Tasks, w # u PROVE CallOK(w)'
    <3>1. CallOK(w) /\ checked'[w] = checked[w] /\ asked'[w] = asked[w]
      BY <1>7, <2>2 DEF IInv
    <3>2. checked[w] # NoEvent \/ asked[w] # {} => w # t
      BY <1>1
    <3>. QED BY <3>1, <3>2, <2>2, <1>6, <1>10, <1>11 DEF CallOK, IsSem
  <2>. QED BY <2>1, <2>2
<1>20. Running'
  <2>1. OSTCBCur \in OSTCBList /\ OSTCBCur \notin OSTCBFreeList
    BY <1>4 DEF IInv, Table
  <2>2. IdleOK' /\ ~Makes(IdleTask)'
    BY <1>5, <1>6, <1>7, <1>10, CoreAssumption DEF IInv, Running, IdleOK, Runnable
  <2>3. Deletes(OSTCBCur)'
    BY <1>4, <1>6, <1>9, <1>10 DEF Deletes
  <2>. QED BY <2>1, <2>2, <2>3, <1>5, <1>6, <1>11 DEF IInv, Running
<1>21. HighestTaskRuns'
  BY <1>6 DEF HighestTaskRuns
<1>. QED BY <1>13, <1>14, <1>15, <1>16, <1>17, <1>18, <1>19, <1>20, <1>21 DEF IInv

LEMMA DelUnlinkT ==
  ASSUME IInv, NEW t \in Tasks, OSTaskDelUnlink(t)
  PROVE  IInv'
<1>1. Calls(t) /\ Deletes(t)
  BY DEF OSTaskDelUnlink, Deletes
<1>2. PICK u \in OSTCBList \ {IdleTask} :
        /\ u = deleting[t].ptcb /\ ~Makes(u) /\ OSTCBPrio[u] = deleting[t].prio
  BY <1>1 DEF IInv, DeletingOK
<1>3. /\ OSTCBCur = t /\ t \in OSTCBList /\ pc[t] = "run" /\ ~Makes(t) /\ t # IdleTask
      /\ OSLockNesting = 1 /\ u \in Tasks /\ \A w \in Tasks : Deletes(w) <=> w = t
  BY <1>1, <1>2 DEF Calls, IInv, DeletingOK, Running, Typed, TypeOK
<1>4. /\ OSLockNesting' = OSLockNesting - 1
      /\ OSTCBPrioTbl' = [OSTCBPrioTbl EXCEPT ![OSTCBPrio[u]] = NoTCB]
      /\ OSTCBList' = OSTCBList \ {u}
      /\ OSTCBFreeList' = OSTCBFreeList \cup {u}
      /\ deleting' = [deleting EXCEPT ![t] = NotMaking]
      /\ pc' = [pc EXCEPT ![t] = "sched"]
      /\ UNCHANGED <<tcbVars, OSRdyTbl, eventVars, curVars, OSIntNesting, callVars, making>>
  BY <1>2 DEF OSTaskDelUnlink, Goto
<1>5. /\ OSTCBPrio' = OSTCBPrio /\ OSTCBStat' = OSTCBStat /\ OSTCBStatPend' = OSTCBStatPend
      /\ OSTCBDly' = OSTCBDly /\ OSTCBEventPtr' = OSTCBEventPtr
      /\ OSTCBEventMultiPtr' = OSTCBEventMultiPtr /\ OSRdyTbl' = OSRdyTbl
      /\ OSEventType' = OSEventType /\ OSEventCnt' = OSEventCnt /\ OSEventTbl' = OSEventTbl
      /\ OSTCBCur' = OSTCBCur /\ OSPrioCur' = OSPrioCur /\ OSIntNesting' = OSIntNesting
      /\ OSLockNesting' = 0 /\ checked' = checked /\ asked' = asked /\ making' = making
  BY <1>3, <1>4 DEF tcbVars, eventVars, curVars, callVars
<1>6. /\ \A w \in Tasks : w # t => deleting'[w] = deleting[w] /\ pc'[w] = pc[w]
      /\ deleting'[t] = NotMaking /\ pc'[t] = "sched"
      /\ \A p \in Prios : OSTCBPrioTbl'[p] = IF p = OSTCBPrio[u] THEN NoTCB ELSE OSTCBPrioTbl[p]
  BY <1>4 DEF IInv, Typed, TypeOK
<1>7. \A w \in Tasks : ~Deletes(w)' /\ (Makes(w)' <=> Makes(w))
  BY <1>3, <1>5, <1>6 DEF Deletes, Makes
<1>8. Alive' = Alive
  <2>1. Dying = {u}
    BY <1>2, <1>3 DEF Dying, Deletes
  <2>2. Dying' = {}
    BY <1>7 DEF Dying, Deletes
  <2>. QED BY <2>1, <2>2, <1>4 DEF Alive
<1>9. TaskListsExact' /\ \A w \in Alive : TaskOK(w)'
  <2>1. \A w \in Alive : Kept(w) /\ OSTCBPrio'[w] = OSTCBPrio[w]
    BY <1>3, <1>5, <1>6, Lives DEF Kept, IInv
  <2>. QED BY <2>1, <1>5, <1>8, ListsStay DEF eventVars
<1>10. Typed'
  <2>1. /\ OSTCBPrioTbl' \in [Prios -> Tasks \cup {NoTCB, Reserved}]
        /\ pc' \in [Tasks -> Pcs] /\ deleting' \in [Tasks -> Deletions \cup {NotMaking}]
    BY <1>4 DEF IInv, Typed, TypeOK, Pcs
  <2>2. OSTCBList' \in SUBSET Tasks /\ OSTCBFreeList' \in SUBSET Tasks
    BY <1>3, <1>4 DEF IInv, Typed, TypeOK
  <2>3. OSLockNesting' \in 0 .. LockNestingMax
    BY <1>5, CoreAssumption
  <2>. QED BY <2>1, <2>2, <2>3, <1>5 DEF IInv, Typed, TypeOK
<1>11. Table'
  <2>1. OSTCBFreeList' \cap OSTCBList' = {}
    BY <1>4 DEF IInv, Table
  <2>2. \A w \in OSTCBList \ {u} : OSTCBPrio[w] # OSTCBPrio[u] /\ OSTCBPrio[w] \in Prios
    BY Apart, Lives DEF IInv, Typed, TypeOK
  <2>3. \A w \in OSTCBList' : OSTCBPrioTbl'[OSTCBPrio'[w]] = w
    BY <1>4, <1>5, <1>6, <2>2 DEF IInv, Table
  <2>4. \A q \in Prios : OSTCBPrioTbl'[q] \in Tasks =>
          OSTCBPrioTbl'[q] \notin OSTCBFreeList' /\ OSTCBPrio'[OSTCBPrioTbl'[q]] = q
    BY <1>4, <1>5, <1>6, CoreAssumption DEF IInv, Table
  <2>5. \A q \in Prios : OSTCBPrioTbl'[q] = Reserved =>
          \E w \in Tasks : Makes(w)' /\ making'[w].prio = q /\ making'[w].step # "link"
    BY <1>5, <1>6, <1>7, CoreAssumption DEF IInv, Table
  <2>6. \A v \in Tasks \ (OSTCBFreeList' \cup OSTCBList') :
          \E w \in Tasks : Makes(w)' /\ making'[w].ptcb = v
    BY <1>4, <1>5, <1>7 DEF IInv, Table
  <2>7. \A v, w \in Tasks : Makes(v)' /\ Makes(w)' /\ making'[v].prio = making'[w].prio => v = w
    BY <1>5, <1>7 DEF IInv, Table
  <2>. QED BY <2>1, <2>3, <2>4, <2>5, <2>6, <2>7 DEF Table
<1>12. \A w \in Tasks : MakingOK(w)'
  <2>1. ASSUME NEW w \in Tasks, Makes(w) PROVE MakingOK(w)'
    <3>1. MakingOK(w) /\ making'[w] = making[w] /\ pc'[w] = pc[w] /\ making[w] \in Makings
      BY <1>3, <1>5, <1>6, <2>1 DEF IInv, Typed, Makes
    <3>2. \A v \in Tasks \ OSTCBList : Clean(v) =>
            /\ OSTCBStat'[v] = {} /\ OSTCBStatPend'[v] = "OK" /\ OSTCBDly'[v] = 0
            /\ OSTCBEventPtr'[v] = NoEvent /\ OSTCBEventMultiPtr'[v] = {} /\ pc'[v] = "run"
      BY <1>3, <1>5, <1>6 DEF Clean
    <3>3. Makes(w)
      BY <2>1
    <3>4. OSTCBPrioTbl[OSTCBPrio[u]] = u /\ u \in Tasks
      BY <1>3 DEF IInv, Table
    <3>5. making[w].prio # OSTCBPrio[u]
      BY <3>1, <3>3, <3>4, CoreAssumption DEF MakingOK
    <3>6. OSTCBPrioTbl'[making[w].prio] = OSTCBPrioTbl[making[w].prio]
      BY <3>1, <3>5, <1>6 DEF Makings
    <3>7. \A v \in Tasks \ (OSTCBFreeList \cup OSTCBList) : v \notin OSTCBFreeList' \cup OSTCBList'
      BY <1>4
    <3>8. CASE making[w].step \in {"init", "giveup"}
      BY <3>1, <3>3, <3>6, <3>8, <1>8 DEF MakingOK
    <3>9. CASE making[w].step \notin {"init", "giveup"}
      BY <3>1, <3>2, <3>3, <3>6, <3>7, <3>9, <1>5, <1>8 DEF MakingOK, Clean
    <3>. QED BY <3>8, <3>9
  <2>. QED BY <1>7, <2>1 DEF MakingOK
<1>13. \A w \in Tasks : DeletingOK(w)'
  BY <1>7 DEF DeletingOK
<1>14. \A w \in Tasks : CallOK(w)'
  BY <1>5, <1>7, <1>8 DEF IInv, CallOK, IsSem
<1>15. Running'
  <2>1. OSTCBPrio[u] \in Prios
    BY <1>3 DEF IInv, Typed, TypeOK
  <2>2. /\ OSTCBCur' \in OSTCBList' \cup OSTCBFreeList'
        /\ OSTCBCur' \in OSTCBFreeList' => OSTCBPrioTbl'[OSPrioCur'] = NoTCB
    BY <1>3, <1>4, <1>5, <1>6, <2>1 DEF IInv, Running, Table
  <2>3. IdleOK' /\ ~Makes(IdleTask)' /\ ~Deletes(OSTCBCur)'
    BY <1>3, <1>5, <1>6, <1>7, CoreAssumption DEF IInv, Running, IdleOK, Runnable, Deletes
  <2>. QED BY <2>2, <2>3, <1>3, <1>5, <1>6, <1>8 DEF IInv, Running
<1>16. HighestTaskRuns'
  BY <1>3, <1>5, <1>6 DEF HighestTaskRuns
<1>. QED BY <1>8, <1>9, <1>10, <1>11, <1>12, <1>13, <1>14, <1>15, <1>16 DEF IInv

LEMMA LifeStepT ==
  ASSUME IInv, NEW t \in Tasks, LifeStep(t)
  PROVE  IInv'
<1>1. ASSUME NEW prio \in NewPrios, OSTaskCreate(t, prio) \/ CarefulTaskDel(t, prio) PROVE IInv'
  BY <1>1, OSTaskCreateT, TaskDelT
<1>2. CASE Creation(t)
  BY <1>2, TCBInitT, PublishT, LinkT, GiveUpT, UnreserveT DEF Creation
<1>3. CASE OSTaskDelUnlink(t)
  BY <1>3, DelUnlinkT
<1>. QED BY <1>1, <1>2, <1>3 DEF LifeStep

-----------------------------------------------------------------------------
(* The steps together.                                                     *)
LEMMA StutterT == IInv /\ UNCHANGED vars => IInv'
<1> SUFFICES ASSUME IInv, UNCHANGED vars PROVE IInv'
  OBVIOUS
<1>1. UNCHANGED <<tcbVars, tblVars, OSRdyTbl, eventVars, curVars, nestVars, pc, checked, asked,
                  lifeVars>>
  BY DEF vars, coreVars, callVars
<1>2. Steady /\ OSIntNesting' = OSIntNesting /\ OSLockNesting' = OSLockNesting
      /\ OSEventTbl' = OSEventTbl /\ \A f : IsSem(f)' = IsSem(f)
  BY <1>1 DEF Steady, tcbVars, nestVars, eventVars, IsSem
<1>3. \A t \in Tasks : EventsStay(t) /\ CallOK(t)'
  BY <1>1, <1>2, CallsFrame DEF EventsStay
<1>4. Typed'
  BY <1>1 DEF IInv, Typed, TypeOK, tcbVars, tblVars, eventVars, curVars, nestVars, lifeVars
<1>. QED BY <1>1, <1>2, <1>3, <1>4, QuietStep

LEMMA InterruptT ==
  ASSUME IInv, Interrupt
  PROVE  IInv'
<1>1. UNCHANGED <<asked, lifeVars>>
  BY DEF Interrupt
<1>2. CASE TickISR /\ UNCHANGED checked
  BY <1>1, <1>2, TickT
<1>3. CASE OSIntExit /\ UNCHANGED checked
  BY <1>1, <1>3, IntExitT DEF callVars
<1>4. ASSUME NEW e \in Events, SemPostISR(e) PROVE IInv'
  <2>1. EnterISR /\ UNCHANGED checked
    BY <1>4 DEF SemPostISR
  <2>2. CASE PostToWaiter(e)
    BY <1>1, <2>1, <2>2, PostWaiterT
  <2>3. CASE PostCount(e)
    BY <1>1, <2>1, <2>3, CountISRT
  <2>. QED BY <1>4, <2>2, <2>3 DEF SemPostISR
<1>. QED BY <1>2, <1>3, <1>4 DEF Interrupt

LEMMA NextIInv ==
  ASSUME Careful, IInv, [Next]_vars
  PROVE  IInv'
<1>1. ASSUME NEW t \in Tasks, NEW e \in Events, SemStep(t, e) PROVE IInv'
  BY <1>1, SemStepT
<1>2. ASSUME NEW t \in Tasks, MultiStep(t) PROVE IInv'
  <2>1. UNCHANGED lifeVars
    BY <1>2 DEF MultiStep
  <2>2. CASE Ready4Call(t) /\ \E es \in EventSets : CheckMulti(t, es)
    BY <2>1, <2>2, CheckMultiT
  <2>3. CASE MultiCall(t)
    BY <2>1, <2>3, MultiTakeT, MultiBlockT DEF MultiCall
  <2>4. CASE MultiReturn(t)
    BY <2>1, <2>4, MultiReturnT
  <2>. QED BY <1>2, <2>2, <2>3, <2>4 DEF MultiStep
<1>3. ASSUME NEW t \in Tasks, SuspendStep(t) PROVE IInv'
  <2>1. Ready4Call(t) /\ UNCHANGED <<callVars, lifeVars>>
    BY <1>3 DEF SuspendStep
  <2>2. PICK prio \in Prios : CarefulSuspend(t, prio) \/ OSTaskResume(t, prio)
    BY <1>3 DEF SuspendStep
  <2>. QED BY <2>1, <2>2, SuspendT, ResumeT
<1>4. ASSUME NEW t \in Tasks, LifeStep(t) PROVE IInv'
  BY <1>4, LifeStepT
<1>5. ASSUME NEW t \in Tasks, KernelStep(t) PROVE IInv'
  BY <1>5, SchedT, PendReturnT DEF KernelStep
<1>6. CASE Interrupt
  BY <1>6, InterruptT
<1>7. CASE UNCHANGED vars
  BY <1>7, StutterT
<1>. QED BY <1>1, <1>2, <1>3, <1>4, <1>5, <1>6, <1>7 DEF Next

LEMMA InitIInv == Init => IInv
<1> SUFFICES ASSUME Init PROVE IInv
  OBVIOUS
<1>1. /\ OSTCBPrio = BasePrio /\ OSTCBList = Started /\ OSTCBFreeList = Tasks \ Started
      /\ Started \in SUBSET Tasks /\ IdleTask \in Started
      /\ \A t \in Tasks : /\ OSTCBStat[t] = {} /\ OSTCBStatPend[t] = "OK" /\ OSTCBDly[t] = 0
                          /\ OSTCBEventPtr[t] = NoEvent /\ OSTCBEventMultiPtr[t] = {}
                          /\ pc[t] = "run" /\ checked[t] = NoEvent /\ asked[t] = {}
                          /\ ~Makes(t) /\ ~Deletes(t)
  BY StartAssumption DEF Init, Makes, Deletes
<1>2. \A t \in Tasks : BasePrio[t] \in Prios /\ \A u \in Tasks : BasePrio[t] = BasePrio[u] => t = u
  BY CoreAssumption
<1>3. /\ \A t \in Started : OSTCBPrioTbl[BasePrio[t]] = t
      /\ \A p \in Prios : OSTCBPrioTbl[p] = NoTCB \/ (OSTCBPrioTbl[p] \in Started
                                                      /\ BasePrio[OSTCBPrioTbl[p]] = p)
  BY <1>1, <1>2 DEF Init
<1>4. Table
  BY <1>1, <1>2, <1>3, CoreAssumption DEF Table
<1>5. Alive = Started
  BY <1>1 DEF Alive, Dying, Deletes
<1>6. ReadyTasks = Started /\ \A f : WaitTasks(f) = {}
  BY <1>1, <1>5 DEF ReadyTasks, Unblocked, WaitTasks, InPend
<1>7. Current(Started) = {BasePrio[t] : t \in Started} /\ Current({}) = {}
  BY <1>1 DEF Current
<1>8. OSRdyTbl = MapOf(Current(Started))
  BY <1>7 DEF Init
<1>9. TaskListsExact
  BY <1>6, <1>7, <1>8, ListsAre, MapOfEmpty DEF Init
<1>10. PICK h \in Started : MapHighest(OSRdyTbl) = BasePrio[h]
  <2>1. Current(Started) \in SUBSET Prios /\ Current(Started) # {}
    BY <1>1, <1>2, <1>7
  <2>. QED BY <2>1, <1>7, <1>8, MapHighestOf
<1>11. OSPrioCur = BasePrio[h] /\ OSTCBCur = h
  BY <1>3, <1>10 DEF Init
<1>12. Typed
  <2>1. OSTCBPrioTbl \in [Prios -> Tasks \cup {NoTCB, Reserved}]
    BY <1>1, <1>3 DEF Init
  <2>2. OSRdyTbl \in PrioMap /\ EmptyMap \in PrioMap
    <3>1. Current(Started) \in SUBSET Prios
      BY <1>1, <1>2, <1>7
    <3>. QED BY <3>1, <1>8, MapOfContents DEF EmptyMap, PrioMap
  <2>3. /\ OSTCBPrio \in [Tasks -> Prios] /\ OSTCBStat \in [Tasks -> SUBSET Stats]
        /\ OSTCBStatPend \in [Tasks -> PendStats] /\ OSTCBDly \in [Tasks -> Nat]
        /\ OSTCBEventPtr \in [Tasks -> Events \cup {NoEvent}]
        /\ OSTCBEventMultiPtr \in [Tasks -> SUBSET Events] /\ pc \in [Tasks -> Pcs]
    BY CoreAssumption DEF Init, PendStats, Pcs
  <2>4. /\ OSEventType \in [Events -> {"UNUSED", "SEM", "MUTEX"}] /\ OSEventCnt \in [Events -> Nat]
        /\ OSEventTbl \in [Events -> PrioMap]
        /\ OSIntNesting \in {0, 1} /\ OSLockNesting \in 0 .. LockNestingMax
    BY <2>2, CoreAssumption DEF Init
  <2>5. /\ checked \in [Tasks -> Events \cup {NoEvent}] /\ asked \in [Tasks -> SUBSET Events]
        /\ making \in [Tasks -> Makings \cup {NotMaking}]
        /\ deleting \in [Tasks -> Deletions \cup {NotMaking}]
    BY DEF Init
  <2>. QED BY <2>1, <2>2, <2>3, <2>4, <2>5, <1>1, <1>2, <1>11 DEF Typed, TypeOK
<1>13. \A t \in Tasks : MakingOK(t) /\ DeletingOK(t) /\ CallOK(t) /\ TaskOK(t)
  BY <1>1 DEF MakingOK, DeletingOK, CallOK, TaskOK, NoPendOK
<1>14. Running
  BY <1>1, <1>5, <1>11, CoreAssumption DEF Init, Running, IdleOK, Runnable
<1>15. HighestTaskRuns
  BY <1>1, <1>3, <1>5, <1>10, <1>11 DEF HighestTaskRuns, Unblocked
<1>. QED BY <1>1, <1>4, <1>5, <1>9, <1>12, <1>13, <1>14, <1>15 DEF IInv

(* IInv holds in every state, whatever tasks are created, deleted and      *)
(* suspended.                                                              *)
THEOREM Invariance ==
  ASSUME Careful
  PROVE  Spec => []IInv
<1>1. Init => IInv
  BY InitIInv
<1>2. IInv /\ [Next]_vars => IInv'
  BY NextIInv
<1>. QED BY <1>1, <1>2, PTL DEF Spec

(* Type correctness: every table of the kernel keeps its type.             *)
THEOREM TaskTypeCorrect ==
  ASSUME Careful
  PROVE  Spec => []TypeOK
<1>1. IInv => TypeOK
  BY DEF IInv, Typed
<1>2. Spec => []IInv
  BY Invariance
<1>. QED BY <1>1, <1>2, PTL

LEMMA TableIsExact == IInv => TaskTableExact
<1> SUFFICES ASSUME IInv PROVE TaskTableExact
  OBVIOUS
<1>1. \A t \in Tasks : Makes(t) =>
        /\ t \in Alive /\ making[t].prio \in Prios
        /\ making[t].ptcb = NoTCB \/ making[t].ptcb \in Tasks \ (OSTCBFreeList \cup OSTCBList)
        /\ making[t].step # "link" => OSTCBPrioTbl[making[t].prio] = Reserved
  <2>1. ASSUME NEW t \in Tasks, Makes(t)
        PROVE  MakingOK(t) /\ making[t].prio \in Prios
    BY <2>1 DEF IInv, Typed, Makes, Makings
  <2>. QED BY <2>1 DEF MakingOK
<1>2. Newborn = {making[t].ptcb : t \in {u \in Tasks : Makes(u)}} \ {NoTCB}
  BY DEF Newborn, Makes
<1>3. \A u : u \in Newborn <=> u # NoTCB /\ \E t \in Tasks : Makes(t) /\ making[t].ptcb = u
  BY <1>2
<1>4. Newborn \subseteq Tasks \ (OSTCBFreeList \cup OSTCBList)
  BY <1>1, <1>3
<1>5. Tasks \ (OSTCBFreeList \cup OSTCBList) \subseteq Newborn
  BY <1>3, CoreAssumption DEF IInv, Table
<1>6. OSTCBFreeList \subseteq Tasks /\ OSTCBList \subseteq Tasks
  BY DEF IInv, Typed, TypeOK
<1>7. ASSUME NEW p \in Prios
      PROVE  /\ OSTCBPrioTbl[p] \notin OSTCBFreeList
             /\ OSTCBPrioTbl[p] = Reserved <=>
                  \E t \in Alive : making[t] # NotMaking /\ making[t].prio = p
                                   /\ making[t].step # "link"
  <2>1. OSTCBPrioTbl[p] \notin OSTCBFreeList
    BY <1>6 DEF IInv, Table
  <2>2. ASSUME OSTCBPrioTbl[p] = Reserved
        PROVE  \E t \in Alive : making[t] # NotMaking /\ making[t].prio = p
                                /\ making[t].step # "link"
    <3>1. PICK t \in Tasks : Makes(t) /\ making[t].prio = p /\ making[t].step # "link"
      BY <2>2 DEF IInv, Table
    <3>. QED BY <3>1, <1>1 DEF Makes
  <2>3. ASSUME NEW t \in Alive, making[t] # NotMaking, making[t].prio = p, making[t].step # "link"
        PROVE  OSTCBPrioTbl[p] = Reserved
    <3>1. t \in Tasks /\ Makes(t)
      BY <2>3, Lives DEF IInv, Makes
    <3>. QED BY <2>3, <3>1, <1>1
  <2>. QED BY <2>1, <2>2, <2>3
<1>. QED BY <1>4, <1>5, <1>6, <1>7 DEF TaskTableExact, IInv, Table

(* The table of tasks: a TCB is in one place at a time, and OSTCBPrioTbl   *)
(* leads to every linked one, to none that is free, and to the mark of a   *)
(* reserved priority just as long as a living task is creating at it.      *)
THEOREM TaskTableCorrect ==
  ASSUME Careful
  PROVE  Spec => []TaskTableExact
<1>1. Spec => []IInv
  BY Invariance
<1>. QED BY <1>1, TableIsExact, PTL

(* OSRdyTbl[] and the wait lists hold exactly the living tasks that belong *)
(* on them.                                                                *)
THEOREM TaskListsCorrect ==
  ASSUME Careful
  PROVE  Spec => []TaskListsExact
<1>1. IInv => TaskListsExact
  BY DEF IInv
<1>2. Spec => []IInv
  BY Invariance
<1>. QED BY <1>1, <1>2, PTL

(* The task that runs is the ready one of highest priority, also after it  *)
(* has created one of a higher priority or deleted itself.                 *)
THEOREM TaskSchedulerCorrect ==
  ASSUME Careful
  PROVE  Spec => []HighestTaskRuns
<1>1. IInv => HighestTaskRuns
  BY DEF IInv
<1>2. Spec => []IInv
  BY Invariance
<1>. QED BY <1>1, <1>2, PTL

-----------------------------------------------------------------------------
(* The kernel implements the abstract semaphores: every step is a step of  *)
(* SemAnyAbs, or leaves what SemAnyAbs can see as it is.                   *)
LEMMA CallIs ==
  ASSUME NEW t
  PROVE  /\ ~InPend(t) => PendCall(t) = [state |-> "idle"]
         /\ InPend(t) /\ Pending(t) =>
              PendCall(t) = [state |-> IF OSTCBStatPend[t] = "TO" THEN "expired" ELSE "waiting",
                             ask |-> WaitsOn(t)]
         /\ InPend(t) /\ ~Pending(t) =>
              PendCall(t) = [state |-> IF OSTCBStatPend[t] = "OK" THEN "acquired" ELSE "aborted",
                             by |-> OSTCBEventPtr[t]]
  BY DEF PendCall

LEMMA CallIsPrime ==
  ASSUME NEW t
  PROVE  /\ ~InPend(t)' => PendCall(t)' = [state |-> "idle"]
         /\ InPend(t)' /\ Pending(t)' =>
              PendCall(t)' = [state |-> IF OSTCBStatPend'[t] = "TO" THEN "expired" ELSE "waiting",
                              ask |-> WaitsOn(t)']
         /\ InPend(t)' /\ ~Pending(t)' =>
              PendCall(t)' = [state |-> IF OSTCBStatPend'[t] = "OK" THEN "acquired" ELSE "aborted",
                              by |-> OSTCBEventPtr'[t]]
  BY DEF PendCall

LEMMA ReachableIs ==
  ASSUME IInv, NEW e
  PROVE  Abs!Reachable(e) = WaitTasks(e)
<1>1. ASSUME NEW t \in Tasks
      PROVE  (PendCall(t).state \in {"waiting", "expired"} /\ e \in PendCall(t).ask)
               <=> (InPend(t) /\ Pending(t) /\ e \in WaitsOn(t))
  <2>1. CASE ~InPend(t)
    BY <2>1, CallIs
  <2>2. CASE InPend(t) /\ Pending(t)
    BY <2>2, CallIs
  <2>3. CASE InPend(t) /\ ~Pending(t)
    BY <2>3, CallIs
  <2>. QED BY <2>1, <2>2, <2>3
<1>2. WaitTasks(e) = {t \in Tasks : InPend(t) /\ Pending(t) /\ e \in WaitsOn(t)}
  BY Lives DEF IInv, WaitTasks, InPend
<1>3. Abs!Reachable(e) = {t \in Tasks : PendCall(t).state \in {"waiting", "expired"}
                                        /\ e \in PendCall(t).ask}
  BY DEF Abs!Reachable
<1>. QED BY <1>1, <1>2, <1>3

(* What a caller sees of a step that does not touch its call.              *)
View(t) ==
  /\ "SEM" \in OSTCBStat'[t] <=> "SEM" \in OSTCBStat[t]
  /\ OSTCBStatPend'[t] = OSTCBStatPend[t] /\ OSTCBEventPtr'[t] = OSTCBEventPtr[t]
  /\ pc'[t] \in {"pend", "wake"} <=> pc[t] \in {"pend", "wake"}
  /\ pc[t] \in {"pend", "wake"} => asked'[t] = asked[t]

LEMMA SameView ==
  ASSUME NEW t, t \in Alive' <=> t \in Alive, t \in Alive => View(t)
  PROVE  PendCall(t)' = PendCall(t)
<1>1. InPend(t)' <=> InPend(t)
  BY DEF InPend, View
<1>2. InPend(t) => /\ Pending(t)' <=> Pending(t)
                   /\ WaitsOn(t)' = WaitsOn(t)
                   /\ OSTCBStatPend'[t] = OSTCBStatPend[t] /\ OSTCBEventPtr'[t] = OSTCBEventPtr[t]
  BY DEF InPend, View, Pending, WaitsOn
<1>3. CASE ~InPend(t)
  BY <1>1, <1>3, CallIs, CallIsPrime
<1>4. CASE InPend(t) /\ Pending(t)
  BY <1>1, <1>2, <1>4, CallIs, CallIsPrime
<1>5. CASE InPend(t) /\ ~Pending(t)
  BY <1>1, <1>2, <1>5, CallIs, CallIsPrime
<1>. QED BY <1>3, <1>4, <1>5

SameCalls == \A t \in Tasks : PendCall(t)' = PendCall(t)

LEMMA SimFrame ==
  ASSUME UNCHANGED <<OSEventType, OSEventCnt>>, Alive' = Alive, SameCalls
  PROVE  UNCHANGED Abs!absVars
<1>1. \A e \in Events : IsSem(e)' = IsSem(e)
  BY DEF IsSem
<1>. QED BY <1>1 DEF Abs!absVars, SameCalls

(* A step of the kernel that changes no TCB.                               *)
LEMMA SameTCBs ==
  ASSUME UNCHANGED <<OSTCBStat, OSTCBStatPend, OSTCBEventPtr>>, Alive' = Alive,
         \A t \in Alive : /\ pc'[t] \in {"pend", "wake"} <=> pc[t] \in {"pend", "wake"}
                          /\ pc[t] \in {"pend", "wake"} => asked'[t] = asked[t]
  PROVE  SameCalls
  BY SameView DEF SameCalls, View

LEMMA SimInit == Init => Abs!AbsInit
<1> SUFFICES ASSUME Init PROVE Abs!AbsInit
  OBVIOUS
<1>1. \A e \in Events : IsSem(e) = FALSE
  BY DEF Init, IsSem
<1>2. \A t \in Tasks : PendCall(t) = [state |-> "idle"]
  <2>1. \A t \in Tasks : ~InPend(t)
    BY DEF Init, InPend
  <2>. QED BY <2>1, CallIs
<1>3. Alive = Started
  BY DEF Init, Alive, Dying
<1>. QED BY <1>1, <1>2, <1>3 DEF Abs!AbsInit, Abs!Idle, Init

LEMMA SimCreate ==
  ASSUME IInv, NEW t \in Tasks, NEW e \in Events, NEW cnt \in InitialCnts, OSSemCreate(t, e, cnt),
         UNCHANGED <<asked, lifeVars>>
  PROVE  Abs!Create(e, cnt)
<1>1. /\ UNCHANGED <<tcbVars, tblVars, pc>> /\ OSEventType[e] = "UNUSED"
      /\ OSEventType' = [OSEventType EXCEPT ![e] = "SEM"]
      /\ OSEventCnt' = [OSEventCnt EXCEPT ![e] = cnt]
  BY DEF OSSemCreate
<1>2. ~IsSem(e) /\ IsSem(e)' /\ \A f \in Events \ {e} : IsSem(f)' = IsSem(f)
  BY <1>1 DEF IsSem, IInv, Typed, TypeOK
<1>3. Alive' = Alive /\ SameCalls
  BY <1>1, SteadyFrame, SameTCBs DEF Steady, tcbVars
<1>. QED BY <1>1, <1>2, <1>3 DEF Abs!Create, SameCalls

LEMMA SimTake ==
  ASSUME UNCHANGED OSEventType, Alive' = Alive, SameCalls,
         NEW es \in SUBSET Events, \A e \in es : OSEventCnt[e] > 0,
         OSEventCnt \in [Events -> Nat],
         OSEventCnt' = [e \in Events |-> IF e \in es THEN OSEventCnt[e] - 1 ELSE OSEventCnt[e]]
  PROVE  Abs!AbsNext \/ UNCHANGED Abs!absVars
<1>1. CASE es = {}
  BY <1>1, SimFrame
<1>2. CASE es # {}
  <2>1. \A e \in Events : IsSem(e)' = IsSem(e)
    BY DEF IsSem
  <2>2. Abs!Take(es)
    BY <1>2, <2>1 DEF Abs!Take, SameCalls
  <2>. QED BY <2>2 DEF Abs!AbsNext
<1>. QED BY <1>1, <1>2

(* A task puts itself on the wait lists of all of es.                      *)
LEMMA SimWait ==
  ASSUME IInv, NEW t \in Alive, NEW es \in SUBSET Events, UNCHANGED <<OSEventType, OSEventCnt>>,
         Alive' = Alive, pc[t] = "run", pc' = [pc EXCEPT ![t] = "pend"], asked' = asked,
         \A e \in es : IsSem(e) /\ OSEventCnt[e] = 0,
         "SEM" \in OSTCBStat'[t], OSTCBStatPend' = [OSTCBStatPend EXCEPT ![t] = "OK"],
         \A u \in Tasks : u # t => OSTCBStat'[u] = OSTCBStat[u] /\ OSTCBEventPtr'[u] = OSTCBEventPtr[u],
         IF asked[t] # {} THEN es = asked[t] ELSE es = {OSTCBEventPtr'[t]}
  PROVE  Abs!AbsNext
<1>1. t \in Tasks /\ Alive \in SUBSET Tasks
  BY Lives DEF IInv
<1>2. PendCall(t) = [state |-> "idle"]
  BY CallIs DEF InPend
<1>3. PendCall(t)' = [state |-> "waiting", ask |-> es]
  <2>1. /\ InPend(t)' /\ Pending(t)' /\ WaitsOn(t)' = es /\ OSTCBStatPend'[t] # "TO"
    BY <1>1 DEF InPend, Pending, WaitsOn, IInv, Typed, TypeOK
  <2>. QED BY <2>1, CallIsPrime
<1>4. \A u \in Tasks \ {t} : PendCall(u)' = PendCall(u)
  BY SameView DEF View, IInv, Typed, TypeOK
<1>5. \A f \in Events : IsSem(f)' = IsSem(f)
  BY DEF IsSem
<1>6. Abs!Wait(t, es)
  BY <1>1, <1>2, <1>3, <1>4, <1>5 DEF Abs!Wait, Abs!Idle
<1>. QED BY <1>1, <1>6 DEF Abs!AbsNext

(* The calls of the tasks that are taken off the wait lists are settled.   *)
LEMMA SimReadied ==
  ASSUME IInv, Alive' = Alive, NEW e \in Events, NEW ts \in SUBSET WaitTasks(e),
         NEW s \in {"OK", "ABORT"}, OS_EventTaskRdy(e, Current(ts), "SEM", s), asked' = asked,
         \A t \in Alive : pc'[t] \in {"pend", "wake"} <=> pc[t] \in {"pend", "wake"}
  PROVE  \A t \in Tasks : PendCall(t)' =
           IF t \in ts THEN [state |-> IF s = "OK" THEN "acquired" ELSE "aborted", by |-> e]
           ELSE PendCall(t)
<1> DEFINE now == {t \in ts : "SUSPEND" \notin OSTCBStat[t]}
<1>1. /\ OSTCBDly' = [t \in Tasks |-> IF t \in ts THEN 0 ELSE OSTCBDly[t]]
      /\ OSTCBStat' = [t \in Tasks |-> IF t \in ts THEN OSTCBStat[t] \ {"SEM"} ELSE OSTCBStat[t]]
      /\ OSTCBStatPend' = [t \in Tasks |-> IF t \in ts THEN s ELSE OSTCBStatPend[t]]
      /\ OSTCBEventPtr' = [t \in Tasks |-> IF t \in ts THEN e ELSE OSTCBEventPtr[t]]
      /\ OSRdyTbl' = MapOf(Current(ReadyTasks \cup now))
      /\ OSEventTbl' = [f \in Events |-> MapOf(Current(WaitTasks(f) \ ts))]
  BY RdyEffectT
<1>2. ASSUME NEW t \in Tasks, t \in ts
      PROVE  PendCall(t)' = [state |-> IF s = "OK" THEN "acquired" ELSE "aborted", by |-> e]
  <2>1. InPend(t)' /\ ~Pending(t)' /\ OSTCBEventPtr'[t] = e /\ OSTCBStatPend'[t] = s
    BY <1>1, <1>2 DEF WaitTasks, InPend, Pending
  <2>. QED BY <2>1, CallIsPrime
<1>3. ASSUME NEW t \in Tasks, t \notin ts PROVE PendCall(t)' = PendCall(t)
  BY <1>1, <1>3, SameView DEF View
<1>. QED BY <1>2, <1>3

LEMMA SimSignal ==
  ASSUME IInv, Alive' = Alive, NEW e \in Events, PostToWaiter(e), asked' = asked,
         \A t \in Alive : pc'[t] \in {"pend", "wake"} <=> pc[t] \in {"pend", "wake"}
  PROVE  Abs!Signal(e)
<1>1. PICK t \in WaitTasks(e) : HighestWaiter(e) = Current({t})
  BY WaitersT DEF PostToWaiter
<1>2. /\ OS_EventTaskRdy(e, Current({t}), "SEM", "OK") /\ UNCHANGED <<OSEventType, OSEventCnt>>
      /\ {t} \in SUBSET WaitTasks(e)
  BY <1>1 DEF PostToWaiter
<1>3. \A u \in Tasks : PendCall(u)' = IF u \in {t} THEN [state |-> "acquired", by |-> e]
                                      ELSE PendCall(u)
  BY <1>2, SimReadied
<1>4. IsSem(e) /\ \A f \in Events : IsSem(f)' = IsSem(f)
  BY <1>2, WaitsForSem DEF IsSem
<1>5. t \in Abs!Reachable(e) /\ Abs!Settle({t}, e, "acquired")
  BY <1>3, ReachableIs DEF Abs!Settle
<1>. QED BY <1>2, <1>4, <1>5 DEF Abs!Signal

LEMMA SimCount ==
  ASSUME IInv, Alive' = Alive, SameCalls, NEW e \in Events, IsSem(e), PostCount(e)
  PROVE  Abs!Signal(e)
<1>1. Abs!Reachable(e) = {}
  BY WaitersT, ReachableIs DEF PostCount
<1>2. OSEventType' = OSEventType /\ OSEventCnt[e] < SemCntMax
      /\ OSEventCnt' = [OSEventCnt EXCEPT ![e] = OSEventCnt[e] + 1]
  BY DEF PostCount
<1>3. \A f \in Events : IsSem(f)' = IsSem(f)
  BY <1>2 DEF IsSem
<1>. QED BY <1>1, <1>2, <1>3 DEF Abs!Signal, SameCalls

LEMMA SimAbort ==
  ASSUME IInv, Alive' = Alive, NEW t \in Tasks, NEW e \in Events, NEW broadcast \in BOOLEAN,
         OSSemPendAbort(t, e, broadcast), asked' = asked,
         \A u \in Alive : pc'[u] \in {"pend", "wake"} <=> pc[u] \in {"pend", "wake"}
  PROVE  Abs!Abort(e)
<1>1. Waiting(e) /\ UNCHANGED <<OSEventType, OSEventCnt>>
  BY DEF OSSemPendAbort
<1>2. IsSem(e) /\ Abs!Reachable(e) = WaitTasks(e) /\ WaitTasks(e) # {}
      /\ \A f \in Events : IsSem(f)' = IsSem(f)
  BY <1>1, WaitersT, WaitsForSem, ReachableIs DEF IsSem
<1>3. CASE broadcast
  <2>1. OS_EventTaskRdy(e, Current(WaitTasks(e)), "SEM", "ABORT")
    BY <1>3, WaitersT DEF OSSemPendAbort
  <2>2. WaitTasks(e) \in SUBSET WaitTasks(e)
    OBVIOUS
  <2>3. \A u \in Tasks : PendCall(u)' = IF u \in WaitTasks(e) THEN [state |-> "aborted", by |-> e]
                                        ELSE PendCall(u)
    BY <2>1, <2>2, SimReadied
  <2>4. Abs!Settle(Abs!Reachable(e), e, "aborted")
    BY <1>2, <2>3 DEF Abs!Settle
  <2>. QED BY <1>1, <1>2, <2>4 DEF Abs!Abort
<1>4. CASE ~broadcast
  <2>1. PICK u \in WaitTasks(e) : HighestWaiter(e) = Current({u})
    BY <1>1, WaitersT
  <2>2. OS_EventTaskRdy(e, Current({u}), "SEM", "ABORT") /\ {u} \in SUBSET WaitTasks(e)
    BY <1>4, <2>1 DEF OSSemPendAbort
  <2>3. \A w \in Tasks : PendCall(w)' = IF w \in {u} THEN [state |-> "aborted", by |-> e]
                                        ELSE PendCall(w)
    BY <2>2, SimReadied
  <2>4. u \in Abs!Reachable(e) /\ Abs!Settle({u}, e, "aborted")
    BY <1>2, <2>1, <2>3 DEF Abs!Settle
  <2>. QED BY <1>1, <1>2, <2>4 DEF Abs!Abort
<1>. QED BY <1>3, <1>4

LEMMA SimDelete ==
  ASSUME IInv, Alive' = Alive, NEW t \in Tasks, NEW e \in Events, IsSem(e), SemDelete(t, e),
         asked' = asked,
         \A u \in Alive : pc'[u] \in {"pend", "wake"} <=> pc[u] \in {"pend", "wake"}
  PROVE  Abs!Delete(e)
<1>1. \A u \in Tasks : PendCall(u)' = IF u \in WaitTasks(e) THEN [state |-> "acquired", by |-> e]
                                      ELSE PendCall(u)
  <2>1. CASE OSSemDelNoPend(t, e)
    <3>1. WaitTasks(e) = {} /\ UNCHANGED tcbVars
      BY <2>1, WaitersT DEF OSSemDelNoPend
    <3>2. SameCalls
      BY <3>1, SameTCBs DEF tcbVars
    <3>. QED BY <3>1, <3>2 DEF SameCalls
  <2>2. CASE OSSemDelAlways(t, e)
    <3>1. OS_EventTaskRdy(e, Current(WaitTasks(e)), "SEM", "OK")
      BY <2>2, WaitersT DEF OSSemDelAlways
    <3>2. WaitTasks(e) \in SUBSET WaitTasks(e)
      OBVIOUS
    <3>. QED BY <3>1, <3>2, SimReadied
  <2>. QED BY <2>1, <2>2 DEF SemDelete
<1>2. /\ OSEventType' = [OSEventType EXCEPT ![e] = "UNUSED"]
      /\ OSEventCnt' = [OSEventCnt EXCEPT ![e] = 0]
  BY DEF SemDelete, OSSemDelNoPend, OSSemDelAlways, Release
<1>3. IsSem(e)' = FALSE /\ \A f \in Events \ {e} : IsSem(f)' = IsSem(f)
  BY <1>2 DEF IsSem, IInv, Typed, TypeOK
<1>4. Abs!Settle(Abs!Reachable(e), e, "acquired")
  BY <1>1, ReachableIs DEF Abs!Settle
<1>. QED BY <1>2, <1>3, <1>4 DEF Abs!Delete

LEMMA SimReturn ==
  ASSUME IInv, Alive' = Alive, NEW t \in Tasks, At(t, "wake"), pc' = [pc EXCEPT ![t] = "run"],
         UNCHANGED <<OSEventType, OSEventCnt>>,
         \A u \in Tasks : u # t =>
           /\ OSTCBStat'[u] = OSTCBStat[u] /\ OSTCBStatPend'[u] = OSTCBStatPend[u]
           /\ OSTCBEventPtr'[u] = OSTCBEventPtr[u] /\ asked'[u] = asked[u]
  PROVE  Abs!AbsNext
<1>1. t \in Alive /\ pc[t] = "wake" /\ "SEM" \notin OSTCBStat[t]
  BY WakerT
<1>2. PendCall(t).state \in {"expired", "acquired", "aborted"}
  <2>1. InPend(t) /\ (Pending(t) => OSTCBStatPend[t] = "TO")
    BY <1>1 DEF InPend, Pending
  <2>. QED BY <2>1, CallIs
<1>3. PendCall(t)' = [state |-> "idle"]
  <2>1. ~InPend(t)'
    BY DEF InPend, IInv, Typed, TypeOK
  <2>. QED BY <2>1, CallIsPrime
<1>4. \A u \in Tasks \ {t} : PendCall(u)' = PendCall(u)
  BY SameView DEF View, IInv, Typed, TypeOK
<1>5. \A f \in Events : IsSem(f)' = IsSem(f)
  BY DEF IsSem
<1>6. Abs!Return(t)
  BY <1>2, <1>3, <1>4, <1>5 DEF Abs!Return, Abs!Idle
<1>. QED BY <1>6 DEF Abs!AbsNext

LEMMA SimTick ==
  ASSUME IInv, Alive' = Alive, TickISR, asked' = asked
  PROVE  Abs!AbsNext
<1> DEFINE walked == OSTCBList \ {IdleTask}
           left   == [t \in Tasks |-> IF t \in walked /\ OSTCBDly[t] # 0
                                        THEN OSTCBDly[t] - 1 ELSE OSTCBDly[t]]
           ts     == {t \in walked : OSTCBDly[t] # 0 /\ left[t] = 0}
<1>1. /\ OSTCBStat' = [t \in Tasks |-> IF t \in ts /\ OSTCBStat[t] \cap PendAny # {}
                                         THEN OSTCBStat[t] \ PendAny ELSE OSTCBStat[t]]
      /\ OSTCBStatPend' = [t \in Tasks |-> IF t \in ts /\ OSTCBStat[t] \cap PendAny # {} THEN "TO"
                                           ELSE IF t \in ts THEN "OK" ELSE OSTCBStatPend[t]]
      /\ UNCHANGED <<OSTCBEventPtr, eventVars, pc>>
  BY DEF TickISR, EnterISR, OSTimeTick, Expire
<1>2. ts \in SUBSET Tasks /\ \A t \in ts : t \in OSTCBList /\ OSTCBDly[t] # 0
  BY Lives DEF IInv
<1> HIDE DEF ts
<1>3. ASSUME NEW t \in Tasks, t \in ts
      PROVE  PendCall(t).state = "waiting" /\ PendCall(t)' = [PendCall(t) EXCEPT !.state = "expired"]
  <2>1. t \in Alive /\ PendOK(t) /\ "SEM" \in OSTCBStat[t] /\ pc[t] \in {"pend", "wake"}
    BY <1>2, <1>3, DelayedT
  <2>2. InPend(t) /\ Pending(t) /\ OSTCBStatPend[t] = "OK"
    BY <2>1 DEF InPend, Pending, PendOK
  <2>3. PendCall(t) = [state |-> "waiting", ask |-> WaitsOn(t)]
    BY <2>2, CallIs
  <2>4. OSTCBStatPend'[t] = "TO"
    BY <1>1, <1>3, <2>1 DEF PendAny
  <2>5. InPend(t)' /\ Pending(t)' /\ WaitsOn(t)' = WaitsOn(t)
    BY <1>1, <2>1, <2>4 DEF InPend, Pending, WaitsOn
  <2>6. PendCall(t)' = [state |-> "expired", ask |-> WaitsOn(t)]
    BY <2>4, <2>5, CallIsPrime
  <2>. QED BY <2>3, <2>6
<1>4. ASSUME NEW t \in Tasks, t \notin ts PROVE PendCall(t)' = PendCall(t)
  BY <1>1, <1>4, SameView DEF View
<1>5. OSEventType' = OSEventType /\ OSEventCnt' = OSEventCnt
      /\ \A f \in Events : IsSem(f)' = IsSem(f)
  BY <1>1 DEF IsSem, eventVars
<1>6. ts \in SUBSET {t \in Tasks : PendCall(t).state = "waiting"}
  BY <1>2, <1>3
<1>7. Abs!Expire
  BY <1>3, <1>4, <1>5, <1>6 DEF Abs!Expire
<1>. QED BY <1>7 DEF Abs!AbsNext
AbsStep == Abs!AbsNext \/ UNCHANGED Abs!absVars

LEMMA PcFrame ==
  ASSUME IInv, NEW t \in Tasks, pc[t] = "run", pc' = pc \/ pc' = [pc EXCEPT ![t] = "sched"]
  PROVE  \A u \in Tasks : pc'[u] \in {"pend", "wake"} <=> pc[u] \in {"pend", "wake"}
  BY DEF IInv, Typed, TypeOK

LEMMA SimSemStep ==
  ASSUME IInv, NEW t \in Tasks, NEW e \in Events, SemStep(t, e)
  PROVE  AbsStep
<1>1. UNCHANGED <<asked, lifeVars>> /\ Alive \in SUBSET Tasks
  BY Lives DEF SemStep, IInv
<1>2. CASE Ready4Call(t) /\ \E cnt \in InitialCnts : OSSemCreate(t, e, cnt)
  <2>1. PICK cnt \in InitialCnts : OSSemCreate(t, e, cnt)
    BY <1>2
  <2>2. Abs!Create(e, cnt)
    BY <1>1, <2>1, SimCreate
  <2>. QED BY <2>2 DEF Abs!AbsNext, AbsStep
<1>3. CASE (Ready4Call(t) /\ Check(t, e)) \/ OSSemUnchanged(t, e)
  <2>1. UNCHANGED coreVars
    BY <1>3 DEF Check, OSSemUnchanged
  <2>2. Alive' = Alive /\ UNCHANGED <<OSEventType, OSEventCnt>>
    BY <1>1, <2>1, SteadyFrame DEF Steady, coreVars, tcbVars, eventVars
  <2>3. SameCalls
    BY <1>1, <2>1, <2>2, SameTCBs DEF coreVars, tcbVars
  <2>. QED BY <2>2, <2>3, SimFrame DEF AbsStep
<1>4. CASE OSSemPendTake(t, e)
  <2>1. /\ OSEventCnt[e] > 0 /\ OSEventCnt' = [OSEventCnt EXCEPT ![e] = OSEventCnt[e] - 1]
        /\ OSEventCnt \in [Events -> Nat]
        /\ UNCHANGED <<tcbVars, tblVars, OSEventType, pc>>
    BY <1>4 DEF OSSemPendTake, IInv, Typed, TypeOK
  <2>2. Alive' = Alive
    BY <1>1, <2>1, SteadyFrame DEF Steady, tcbVars
  <2>3. SameCalls
    BY <1>1, <2>1, <2>2, SameTCBs DEF tcbVars
  <2>4. OSEventCnt' = [f \in Events |-> IF f \in {e} THEN OSEventCnt[f] - 1 ELSE OSEventCnt[f]]
    BY <2>1
  <2>5. {e} \in SUBSET Events /\ \A f \in {e} : OSEventCnt[f] > 0
    BY <2>1
  <2>. QED BY <2>1, <2>2, <2>3, <2>4, <2>5, SimTake DEF AbsStep
<1>5. CASE \E timeout \in Timeouts : OSSemPendBlock(t, e, timeout)
  <2>1. PICK timeout \in Timeouts : OSSemPendBlock(t, e, timeout)
    BY <1>5
  <2>2. Calls(t) /\ ~Deletes(t) /\ IsSem(e) /\ asked[t] = {}
    BY <2>1, EnterT DEF OSSemPendBlock
  <2>3. t \in Alive /\ pc[t] = "run"
    BY <2>2, CallerT
  <2>4. /\ OSTCBStat' = [OSTCBStat EXCEPT ![t] = @ \cup {"SEM"}]
        /\ OSTCBStatPend' = [OSTCBStatPend EXCEPT ![t] = "OK"]
        /\ OSTCBEventPtr' = [OSTCBEventPtr EXCEPT ![t] = e]
        /\ pc' = [pc EXCEPT ![t] = "pend"] /\ OSEventCnt[e] = 0
        /\ UNCHANGED <<OSTCBPrio, tblVars, OSEventType, OSEventCnt>>
    BY <2>1 DEF OSSemPendBlock, OS_EventTaskWait, EventTaskWait, Goto
  <2>5. Alive' = Alive
    BY <1>1, <2>4, SteadyFrame DEF Steady
  <2>6. /\ "SEM" \in OSTCBStat'[t] /\ OSTCBEventPtr'[t] = e
        /\ \A u \in Tasks : u # t => OSTCBStat'[u] = OSTCBStat[u] /\ OSTCBEventPtr'[u] = OSTCBEventPtr[u]
    BY <2>4 DEF IInv, Typed, TypeOK
  <2>7. {e} \in SUBSET Events /\ \A f \in {e} : IsSem(f) /\ OSEventCnt[f] = 0
    BY <2>2, <2>4
  <2>. QED BY <1>1, <2>2, <2>3, <2>4, <2>5, <2>6, <2>7, SimWait DEF AbsStep
<1>6. CASE \E broadcast \in BOOLEAN : OSSemPendAbort(t, e, broadcast)
  <2>1. PICK broadcast \in BOOLEAN : OSSemPendAbort(t, e, broadcast)
    BY <1>6
  <2>2. /\ Enter(t, e) /\ pc' = [pc EXCEPT ![t] = "sched"] /\ UNCHANGED <<OSTCBPrio, tblVars>>
    BY <2>1 DEF OSSemPendAbort, Goto
  <2>3. Alive' = Alive /\ pc[t] = "run"
    BY <1>1, <2>2, SteadyFrame, EnterT DEF Steady, Calls
  <2>4. \A u \in Alive : pc'[u] \in {"pend", "wake"} <=> pc[u] \in {"pend", "wake"}
    BY <1>1, <2>2, <2>3, PcFrame
  <2>5. Abs!Abort(e)
    BY <1>1, <2>1, <2>3, <2>4, SimAbort
  <2>. QED BY <2>5 DEF Abs!AbsNext, AbsStep
<1>7. CASE OSSemPost(t, e)
  <2>1. Enter(t, e) /\ (pc' = pc \/ pc' = [pc EXCEPT ![t] = "sched"])
        /\ (PostToWaiter(e) \/ PostCount(e))
    BY <1>7 DEF OSSemPost, Goto
  <2>2. IsSem(e) /\ pc[t] = "run"
    BY <2>1, EnterT DEF Calls
  <2>3. UNCHANGED <<OSTCBPrio, tblVars>>
    BY <2>1 DEF PostToWaiter, PostCount, tcbVars
  <2>4. Alive' = Alive
    BY <1>1, <2>3, SteadyFrame DEF Steady
  <2>5. \A u \in Alive : pc'[u] \in {"pend", "wake"} <=> pc[u] \in {"pend", "wake"}
    BY <1>1, <2>1, <2>2, PcFrame
  <2>6. CASE PostToWaiter(e)
    BY <1>1, <2>4, <2>5, <2>6, SimSignal DEF Abs!AbsNext, AbsStep
  <2>7. CASE PostCount(e)
    <3>1. SameCalls
      BY <1>1, <2>4, <2>5, <2>7, SameTCBs DEF PostCount, tcbVars
    <3>2. Abs!Signal(e)
      BY <3>1, <2>2, <2>4, <2>7, SimCount
    <3>. QED BY <3>2 DEF Abs!AbsNext, AbsStep
  <2>. QED BY <2>1, <2>6, <2>7
<1>8. CASE CarefulDelete(t, e)
  <2>1. SemDelete(t, e)
    BY <1>8 DEF CarefulDelete
  <2>2. Enter(t, e) /\ (pc' = pc \/ pc' = [pc EXCEPT ![t] = "sched"]) /\ UNCHANGED <<OSTCBPrio, tblVars>>
    BY <2>1 DEF SemDelete, OSSemDelNoPend, OSSemDelAlways, Goto, tcbVars
  <2>3. Alive' = Alive /\ pc[t] = "run" /\ IsSem(e)
    BY <1>1, <2>2, SteadyFrame, EnterT DEF Steady, Calls
  <2>4. \A u \in Alive : pc'[u] \in {"pend", "wake"} <=> pc[u] \in {"pend", "wake"}
    BY <1>1, <2>2, <2>3, PcFrame
  <2>5. Abs!Delete(e)
    BY <1>1, <2>1, <2>3, <2>4, SimDelete
  <2>. QED BY <2>5 DEF Abs!AbsNext, AbsStep
<1>. QED BY <1>2, <1>3, <1>4, <1>5, <1>6, <1>7, <1>8 DEF SemStep

LEMMA SimMultiStep ==
  ASSUME IInv, NEW t \in Tasks, MultiStep(t)
  PROVE  AbsStep
<1>1. UNCHANGED lifeVars /\ Alive \in SUBSET Tasks
  BY Lives DEF MultiStep, IInv
<1>2. CASE Ready4Call(t) /\ \E es \in EventSets : CheckMulti(t, es)
  <2>1. PICK es \in EventSets : CheckMulti(t, es)
    BY <1>2
  <2>2. asked' = [asked EXCEPT ![t] = es] /\ pc[t] = "run" /\ UNCHANGED coreVars
    BY <2>1 DEF CheckMulti, Free, Calls
  <2>3. Alive' = Alive /\ UNCHANGED <<OSEventType, OSEventCnt, pc>>
    BY <1>1, <2>2, SteadyFrame DEF Steady, coreVars, tcbVars, eventVars
  <2>4. SameCalls
    <3>1. \A u \in Tasks : pc[u] \in {"pend", "wake"} => asked'[u] = asked[u]
      BY <2>2 DEF IInv, Typed
    <3>. QED BY <1>1, <2>2, <2>3, <3>1, SameTCBs DEF coreVars, tcbVars
  <2>. QED BY <2>3, <2>4, SimFrame DEF AbsStep
<1>3. CASE MultiTake(t)
  <2>1. PICK es \in SUBSET Available(t) :
          OSEventCnt' = [e \in Events |-> OSEventCnt[e] - (IF e \in es THEN 1 ELSE 0)]
    BY <1>3 DEF MultiTake
  <2>2. asked' = [asked EXCEPT ![t] = {}] /\ pc[t] = "run"
        /\ UNCHANGED <<tcbVars, tblVars, OSEventType, pc>>
    BY <1>3 DEF MultiTake, EnterMulti, Calls
  <2>3. Alive' = Alive
    BY <1>1, <2>2, SteadyFrame DEF Steady, tcbVars
  <2>4. SameCalls
    <3>1. \A u \in Tasks : pc[u] \in {"pend", "wake"} => asked'[u] = asked[u]
      BY <2>2 DEF IInv, Typed
    <3>. QED BY <1>1, <2>2, <2>3, <3>1, SameTCBs DEF tcbVars
  <2>5. es \in SUBSET Events /\ \A f \in es : OSEventCnt[f] > 0
    BY DEF Available, IInv, Typed
  <2>6. OSEventCnt \in [Events -> Nat]
    BY DEF IInv, Typed, TypeOK
  <2>7. OSEventCnt' = [f \in Events |-> IF f \in es THEN OSEventCnt[f] - 1 ELSE OSEventCnt[f]]
    BY <2>1, <2>6
  <2>. QED BY <2>2, <2>3, <2>4, <2>5, <2>6, <2>7, SimTake DEF AbsStep
<1>4. ASSUME NEW timeout \in Timeouts, MultiBlock(t, timeout) PROVE AbsStep
  <2>1. /\ Calls(t) /\ asked[t] # {} /\ ~Deletes(t) /\ asked[t] \in SUBSET Events
        /\ \A f \in asked[t] : IsSem(f) /\ OSEventCnt[f] = 0
    BY <1>4 DEF MultiBlock, EnterMulti, IInv, CallOK, Typed
  <2>2. t \in Alive /\ pc[t] = "run"
    BY <2>1, CallerT
  <2>3. /\ OSTCBStat' = [OSTCBStat EXCEPT ![t] = @ \cup {"SEM", "MULTI"}]
        /\ OSTCBStatPend' = [OSTCBStatPend EXCEPT ![t] = "OK"]
        /\ OSTCBEventPtr' = [OSTCBEventPtr EXCEPT ![t] = NoEvent]
        /\ pc' = [pc EXCEPT ![t] = "pend"]
        /\ UNCHANGED <<OSTCBPrio, tblVars, OSEventType, OSEventCnt, asked>>
    BY <1>4 DEF MultiBlock, Goto
  <2>4. Alive' = Alive
    BY <1>1, <2>3, SteadyFrame DEF Steady
  <2>5. /\ "SEM" \in OSTCBStat'[t]
        /\ \A u \in Tasks : u # t => OSTCBStat'[u] = OSTCBStat[u] /\ OSTCBEventPtr'[u] = OSTCBEventPtr[u]
    BY <2>3 DEF IInv, Typed, TypeOK
  <2>. QED BY <2>1, <2>2, <2>3, <2>4, <2>5, SimWait DEF AbsStep
<1>5. CASE MultiReturn(t)
  <2>1. /\ At(t, "wake") /\ pc' = [pc EXCEPT ![t] = "run"] /\ asked' = [asked EXCEPT ![t] = {}]
        /\ UNCHANGED <<OSTCBPrio, tblVars, OSEventType, OSEventCnt>>
    BY <1>5 DEF MultiReturn, Goto, tcbVars
  <2>2. Alive' = Alive
    BY <1>1, <2>1, SteadyFrame DEF Steady
  <2>3. \A u \in Tasks : u # t =>
           /\ OSTCBStat'[u] = OSTCBStat[u] /\ OSTCBStatPend'[u] = OSTCBStatPend[u]
           /\ OSTCBEventPtr'[u] = OSTCBEventPtr[u] /\ asked'[u] = asked[u]
    BY <1>5, <2>1 DEF MultiReturn, tcbVars, IInv, Typed, TypeOK
  <2>. QED BY <2>1, <2>2, <2>3, SimReturn DEF AbsStep
<1>. QED BY <1>2, <1>3, <1>4, <1>5 DEF MultiStep, MultiCall
(* A suspension or a resumption is no part of a call.                      *)
LEMMA SimSuspend ==
  ASSUME IInv, NEW t \in Tasks, SuspendStep(t)
  PROVE  AbsStep
<1>1. Ready4Call(t) /\ UNCHANGED <<callVars, lifeVars>>
  BY DEF SuspendStep
<1>2. PICK prio \in Prios : OSTaskSuspend(t, prio) \/ OSTaskResume(t, prio)
  BY DEF SuspendStep, CarefulSuspend
<1>3. PICK u \in Tasks : u = OSTCBPrioTbl[prio]
  BY <1>2 DEF OSTaskSuspend, OSTaskResume
<1>4. /\ \/ OSTCBStat' = [OSTCBStat EXCEPT ![u] = @ \cup {"SUSPEND"}]
         \/ OSTCBStat' = [OSTCBStat EXCEPT ![u] = @ \ {"SUSPEND"}]
      /\ pc' = pc \/ pc' = [pc EXCEPT ![t] = "sched"]
      /\ UNCHANGED <<OSTCBPrio, OSTCBStatPend, OSTCBEventPtr, tblVars, eventVars>>
  BY <1>2, <1>3 DEF OSTaskSuspend, OSTaskResume, Goto
<1>5. Alive' = Alive
  BY <1>1, <1>4, SteadyFrame DEF Steady
<1>6. \A v \in Tasks : View(v)
  <2>1. pc[t] = "run"
    BY <1>1 DEF Ready4Call, Free, Calls
  <2>2. \A v \in Tasks : pc'[v] \in {"pend", "wake"} <=> pc[v] \in {"pend", "wake"}
    BY <1>4, <2>1, PcFrame
  <2>3. \A v \in Tasks : "SEM" \in OSTCBStat'[v] <=> "SEM" \in OSTCBStat[v]
    BY <1>4 DEF IInv, Typed, TypeOK
  <2>. QED BY <1>1, <1>4, <2>2, <2>3 DEF View, callVars
<1>7. SameCalls
  BY <1>5, <1>6, SameView DEF SameCalls
<1>. QED BY <1>4, <1>5, <1>7, SimFrame DEF eventVars, AbsStep

LEMMA SimKernel ==
  ASSUME IInv, NEW t \in Tasks, KernelStep(t)
  PROVE  AbsStep
<1>1. UNCHANGED <<checked, asked, lifeVars>> /\ Alive \in SUBSET Tasks
  BY Lives DEF KernelStep, callVars, IInv
<1>2. CASE OS_Sched(t)
  <2>1. /\ \/ pc[t] = "sched" /\ pc' = [pc EXCEPT ![t] = "run"]
           \/ pc[t] = "pend"  /\ pc' = [pc EXCEPT ![t] = "wake"]
        /\ UNCHANGED <<tcbVars, tblVars, eventVars>>
    BY <1>2 DEF OS_Sched, At, Goto
  <2>2. Alive' = Alive
    BY <1>1, <2>1, SteadyFrame DEF Steady, tcbVars
  <2>3. \A u \in Tasks : pc'[u] \in {"pend", "wake"} <=> pc[u] \in {"pend", "wake"}
    BY <2>1 DEF IInv, Typed, TypeOK
  <2>4. SameCalls
    BY <1>1, <2>1, <2>2, <2>3, SameTCBs DEF tcbVars
  <2>. QED BY <2>1, <2>2, <2>4, SimFrame DEF eventVars, AbsStep
<1>3. CASE PendReturn(t)
  <2>1. /\ At(t, "wake") /\ pc' = [pc EXCEPT ![t] = "run"]
        /\ OSTCBStat' = [OSTCBStat EXCEPT ![t] = {}]
        /\ OSTCBStatPend' = [OSTCBStatPend EXCEPT ![t] = "OK"]
        /\ OSTCBEventPtr' = [OSTCBEventPtr EXCEPT ![t] = NoEvent]
        /\ UNCHANGED <<OSTCBPrio, tblVars, OSEventType, OSEventCnt>>
    BY <1>3 DEF PendReturn, Goto
  <2>2. Alive' = Alive
    BY <1>1, <2>1, SteadyFrame DEF Steady
  <2>3. \A u \in Tasks : u # t =>
           /\ OSTCBStat'[u] = OSTCBStat[u] /\ OSTCBStatPend'[u] = OSTCBStatPend[u]
           /\ OSTCBEventPtr'[u] = OSTCBEventPtr[u] /\ asked'[u] = asked[u]
    BY <1>1, <2>1 DEF IInv, Typed, TypeOK
  <2>. QED BY <2>1, <2>2, <2>3, SimReturn DEF AbsStep
<1>. QED BY <1>2, <1>3 DEF KernelStep

LEMMA SimInterrupt ==
  ASSUME IInv, Interrupt
  PROVE  AbsStep
<1>1. UNCHANGED <<asked, lifeVars>> /\ Alive \in SUBSET Tasks
  BY Lives DEF Interrupt, IInv
<1>2. CASE TickISR
  <2>1. UNCHANGED <<OSTCBPrio, tblVars>>
    BY <1>2 DEF TickISR, EnterISR, OSTimeTick, Expire
  <2>2. Alive' = Alive
    BY <1>1, <2>1, SteadyFrame DEF Steady
  <2>. QED BY <1>1, <1>2, <2>2, SimTick DEF AbsStep
<1>3. CASE OSIntExit
  <2>1. UNCHANGED <<tcbVars, tblVars, eventVars, pc>>
    BY <1>3 DEF OSIntExit
  <2>2. Alive' = Alive
    BY <1>1, <2>1, SteadyFrame DEF Steady, tcbVars
  <2>3. SameCalls
    BY <1>1, <2>1, <2>2, SameTCBs DEF tcbVars
  <2>. QED BY <2>1, <2>2, <2>3, SimFrame DEF eventVars, AbsStep
<1>4. ASSUME NEW e \in Events, SemPostISR(e) PROVE AbsStep
  <2>1. IsSem(e) /\ pc' = pc /\ (PostToWaiter(e) \/ PostCount(e))
    BY <1>4 DEF SemPostISR, EnterISR
  <2>2. UNCHANGED <<OSTCBPrio, tblVars>>
    BY <2>1 DEF PostToWaiter, PostCount, tcbVars
  <2>3. Alive' = Alive
    BY <1>1, <2>2, SteadyFrame DEF Steady
  <2>4. CASE PostToWaiter(e)
    BY <1>1, <2>1, <2>3, <2>4, SimSignal DEF Abs!AbsNext, AbsStep
  <2>5. CASE PostCount(e)
    <3>1. SameCalls
      BY <1>1, <2>1, <2>3, <2>5, SameTCBs DEF PostCount, tcbVars
    <3>2. Abs!Signal(e)
      BY <2>1, <2>3, <2>5, <3>1, SimCount
    <3>. QED BY <3>2 DEF Abs!AbsNext, AbsStep
  <2>. QED BY <2>1, <2>4, <2>5
<1>. QED BY <1>2, <1>3, <1>4 DEF Interrupt

(* Tasks that are created and deleted.                                     *)
LEMMA SimQuiet ==
  ASSUME IInv, OSTCBList' = OSTCBList, deleting' = deleting,
         UNCHANGED <<OSEventType, OSEventCnt, asked>>,
         \A u \in Alive : /\ OSTCBStat'[u] = OSTCBStat[u] /\ OSTCBStatPend'[u] = OSTCBStatPend[u]
                          /\ OSTCBEventPtr'[u] = OSTCBEventPtr[u] /\ pc'[u] = pc[u]
  PROVE  AbsStep
<1>1. Alive' = Alive
  BY DEF Alive, Dying
<1>2. \A u \in Alive : View(u)
  BY DEF View
<1>3. SameCalls
  BY <1>1, <1>2, SameView DEF SameCalls
<1>. QED BY <1>1, <1>3, SimFrame DEF AbsStep

LEMMA SimBorn ==
  ASSUME IInv, NEW t \in Tasks, Link(t)
  PROVE  AbsStep
<1>1. /\ Calls(t) /\ Makes(t) /\ ~Deletes(t) /\ making[t].step = "link" /\ MakingOK(t)
  BY MakerT DEF Link
<1>2. PICK v \in Tasks \ (OSTCBFreeList \cup OSTCBList) : v = making[t].ptcb
  BY <1>1 DEF MakingOK
<1>3. /\ OSTCBList' = OSTCBList \cup {v} /\ pc' = [pc EXCEPT ![t] = "sched"]
      /\ UNCHANGED <<tcbVars, eventVars, callVars, deleting>>
  BY <1>2 DEF Link, Goto
<1>4. pc[t] = "run" /\ Alive = OSTCBList /\ \A u \in Tasks : ~Deletes(u)
  BY <1>1, CallerT
<1>5. Alive' = Alive \cup {v} /\ v \notin Alive
  BY <1>2, <1>3, <1>4 DEF Alive, Dying, Deletes
<1>6. \A u \in Tasks : pc'[u] \in {"pend", "wake"} <=> pc[u] \in {"pend", "wake"}
  BY <1>3, <1>4, PcFrame
<1>7. PendCall(v)' = PendCall(v)
  <2>1. pc[v] = "run"
    BY <1>1, <1>2 DEF MakingOK, Clean
  <2>2. ~InPend(v) /\ ~InPend(v)'
    BY <1>5, <1>6, <2>1 DEF InPend
  <2>. QED BY <2>2, CallIs, CallIsPrime
<1>8. \A u \in Tasks \ {v} : PendCall(u)' = PendCall(u)
  BY <1>3, <1>5, <1>6, SameView DEF View, tcbVars, callVars
<1>9. OSEventType' = OSEventType /\ OSEventCnt' = OSEventCnt /\ \A f \in Events : IsSem(f)' = IsSem(f)
  BY <1>3 DEF eventVars, IsSem
<1>10. Abs!Born(v)
  BY <1>5, <1>7, <1>8, <1>9 DEF Abs!Born
<1>. QED BY <1>10 DEF Abs!AbsNext, AbsStep

LEMMA SimKill ==
  ASSUME IInv, NEW t \in Tasks, NEW prio \in NewPrios, CarefulTaskDel(t, prio)
  PROVE  AbsStep
<1>1. Calls(t) /\ ~Deletes(t) /\ prio \in Prios
  BY LifeAssumption DEF CarefulTaskDel, OSTaskDel, Ready4Call, Free, Deletes
<1>2. PICK u \in OSTCBList : u = OSTCBPrioTbl[prio]
  BY DEF CarefulTaskDel
<1> DEFINE d == [prio |-> prio, ptcb |-> u]
<1>3. /\ OSTCBStat' = [OSTCBStat EXCEPT ![u] = {}]
      /\ OSTCBStatPend' = [OSTCBStatPend EXCEPT ![u] = "OK"]
      /\ deleting' = [deleting EXCEPT ![t] = d]
      /\ asked' = [asked EXCEPT ![u] = {}]
      /\ UNCHANGED <<OSTCBEventPtr, tblVars, OSEventType, OSEventCnt, pc>>
  BY <1>2 DEF CarefulTaskDel, OSTaskDel
<1>4. Alive = OSTCBList /\ (\A w \in Tasks : ~Deletes(w)) /\ u \in Tasks
  BY <1>1, CallerT, Lives DEF IInv
<1>5. d \in Deletions /\ d # NotMaking /\ d.ptcb = u
  BY <1>1, <1>4, LifeAssumption DEF Deletions
<1>6. Alive' = Alive \ {u}
  <2>1. deleting'[t] = d /\ \A w \in Tasks : Deletes(w)' <=> w = t
    BY <1>3, <1>4, <1>5 DEF IInv, Typed, Deletes
  <2> HIDE DEF d
  <2>2. Dying' = {u}
    BY <1>5, <2>1 DEF Dying, Deletes
  <2>. QED BY <1>3, <1>4, <2>2 DEF Alive, tblVars
<1>7. \A w \in Tasks : w # u =>
        OSTCBStat'[w] = OSTCBStat[w] /\ OSTCBStatPend'[w] = OSTCBStatPend[w] /\ asked'[w] = asked[w]
  BY <1>3 DEF IInv, Typed, TypeOK
<1>8. \A w \in Tasks \ {u} : PendCall(w)' = PendCall(w)
  BY <1>3, <1>6, <1>7, SameView DEF View
<1>9. PendCall(u)' = [state |-> "idle"]
  <2>1. ~InPend(u)'
    BY <1>6 DEF InPend
  <2>. QED BY <2>1, CallIsPrime
<1>10. \A f \in Events : IsSem(f)' = IsSem(f)
  BY <1>3 DEF IsSem
<1>11. Abs!Kill(u)
  BY <1>3, <1>4, <1>6, <1>8, <1>9, <1>10 DEF Abs!Kill, Abs!Idle
<1>. QED BY <1>4, <1>11 DEF Abs!AbsNext, AbsStep

LEMMA SimUnlink ==
  ASSUME IInv, NEW t \in Tasks, OSTaskDelUnlink(t)
  PROVE  AbsStep
<1>1. Calls(t) /\ Deletes(t)
  BY DEF OSTaskDelUnlink, Deletes
<1>2. PICK u \in OSTCBList : u = deleting[t].ptcb
  BY <1>1 DEF IInv, DeletingOK
<1>3. /\ pc[t] = "run" /\ \A w \in Tasks : Deletes(w) <=> w = t
  BY <1>1 DEF Calls, IInv, DeletingOK
<1>4. /\ OSTCBList' = OSTCBList \ {u} /\ deleting' = [deleting EXCEPT ![t] = NotMaking]
      /\ pc' = [pc EXCEPT ![t] = "sched"]
      /\ UNCHANGED <<tcbVars, eventVars, callVars>>
  BY <1>2 DEF OSTaskDelUnlink, Goto
<1>5. Alive' = Alive
  <2>1. Dying = {u}
    BY <1>2, <1>3 DEF Dying, Deletes
  <2>2. \A w \in Tasks : ~Deletes(w)'
    BY <1>3, <1>4 DEF IInv, Typed, Deletes
  <2>3. Dying' = {}
    BY <2>2 DEF Dying, Deletes
  <2>. QED BY <1>4, <2>1, <2>3 DEF Alive
<1>6. \A w \in Tasks : pc'[w] \in {"pend", "wake"} <=> pc[w] \in {"pend", "wake"}
  BY <1>3, <1>4, PcFrame
<1>7. SameCalls
  <2>1. Alive \in SUBSET Tasks
    BY Lives DEF IInv
  <2>. QED BY <1>4, <1>5, <1>6, <2>1, SameTCBs DEF tcbVars, callVars
<1>. QED BY <1>4, <1>5, <1>7, SimFrame DEF eventVars, AbsStep

LEMMA SimLifeStep ==
  ASSUME IInv, NEW t \in Tasks, LifeStep(t)
  PROVE  AbsStep
<1>1. ASSUME NEW prio \in NewPrios, OSTaskCreate(t, prio) PROVE AbsStep
  BY <1>1, SimQuiet DEF OSTaskCreate, tcbVars, eventVars, callVars
<1>2. ASSUME NEW prio \in NewPrios, CarefulTaskDel(t, prio) PROVE AbsStep
  BY <1>2, SimKill
<1>3. CASE TCBInit(t)
  <2>1. PICK u \in OSTCBFreeList :
          /\ OSTCBStat' = [OSTCBStat EXCEPT ![u] = {}]
          /\ OSTCBStatPend' = [OSTCBStatPend EXCEPT ![u] = "OK"]
          /\ OSTCBEventPtr' = [OSTCBEventPtr EXCEPT ![u] = NoEvent]
          /\ pc' = [pc EXCEPT ![u] = "run"]
    BY <1>3 DEF TCBInit
  <2>2. OSTCBList' = OSTCBList /\ deleting' = deleting
        /\ UNCHANGED <<OSEventType, OSEventCnt, asked>>
    BY <1>3 DEF TCBInit, tblVars, eventVars, callVars
  <2>3. u \notin Alive /\ Alive \in SUBSET Tasks
    BY Lives DEF IInv, Table, Alive
  <2>4. \A w \in Alive : /\ OSTCBStat'[w] = OSTCBStat[w] /\ OSTCBStatPend'[w] = OSTCBStatPend[w]
                         /\ OSTCBEventPtr'[w] = OSTCBEventPtr[w] /\ pc'[w] = pc[w]
    BY <2>1, <2>3 DEF IInv, Typed, TypeOK
  <2>. QED BY <2>2, <2>4, SimQuiet
<1>4. CASE Publish(t) \/ Unreserve(t)
  BY <1>4, SimQuiet DEF Publish, Unreserve, tcbVars, eventVars, callVars
<1>5. CASE GiveUp(t)
  BY <1>5, SimQuiet DEF GiveUp, coreVars, tcbVars, tblVars, eventVars, callVars
<1>6. CASE Link(t)
  BY <1>6, SimBorn
<1>7. CASE OSTaskDelUnlink(t)
  BY <1>7, SimUnlink
<1>. QED BY <1>1, <1>2, <1>3, <1>4, <1>5, <1>6, <1>7 DEF LifeStep, Creation

LEMMA SimNext ==
  ASSUME IInv, [Next]_vars
  PROVE  [Abs!AbsNext]_(Abs!absVars)
<1>1. CASE UNCHANGED vars
  <2>1. Alive' = Alive /\ UNCHANGED <<OSEventType, OSEventCnt>>
    BY <1>1 DEF vars, coreVars, tblVars, eventVars, lifeVars, Alive, Dying
  <2>2. SameCalls
    BY <1>1, <2>1, SameTCBs DEF vars, coreVars, tcbVars, callVars
  <2>. QED BY <2>1, <2>2, SimFrame
<1>2. CASE Next
  BY <1>2, SimSemStep, SimMultiStep, SimSuspend, SimLifeStep, SimKernel, SimInterrupt
     DEF Next, AbsStep
<1>. QED BY <1>1, <1>2

(* A post is one token for one call: the kernel implements semaphores on   *)
(* which a call waits for any of several, while its tasks are created,     *)
(* deleted in the middle of a pend, suspended and timed out.               *)
THEOREM SemAnyImplemented ==
  ASSUME Careful
  PROVE  Spec => ImplementsSemAny
<1>1. Init => Abs!AbsInit
  BY SimInit
<1>2. IInv /\ [Next]_vars => [Abs!AbsNext]_(Abs!absVars)
  BY SimNext
<1>3. Spec => []IInv
  BY Invariance
<1>. QED BY <1>1, <1>2, <1>3, PTL DEF Spec, ImplementsSemAny, Abs!AbsSpec
=============================================================================
