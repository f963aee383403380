--------------------------- MODULE MutexSystem_proofs ---------------------------
(***************************************************************************)
(* The safety properties of the kernel with mutexes, for any tasks,        *)
(* mutexes, ceilings and time-outs, as long as a task is suspended only    *)
(* at its current priority, out of any pend and with the scheduler         *)
(* unlocked: the condition Plain, which run mutex_core makes as well.      *)
(*                                                                         *)
(* The priority of a task changes here, so the ready list is a set of      *)
(* current priorities.  A task on a wait list owns nothing and is not      *)
(* promoted, so the wait lists are sets of base priorities, and what       *)
(* OSCore_proofs says about those holds of them.                           *)
(***************************************************************************)
EXTENDS MutexSystem, OSCore_proofs

Plain == Suspensions = {}

Current(ts) == {OSTCBPrio[t] : t \in ts}
WaitSet(e)  == {t \in Tasks : OnWaitList(t, e)}

(* Every task is found under its current priority and under its base       *)
(* priority: a promotion adds an entry, its end takes that one away.       *)
Lookups ==
  /\ OSTCBList = Tasks
  /\ \A t \in Tasks : /\ OSTCBEventMultiPtr[t] = {}
                      /\ OSTCBPrioTbl[BasePrio[t]] = t
                      /\ OSTCBPrioTbl[OSTCBPrio[t]] = t

(* What a mutex holds: its ceiling and the base priority of its owner, and *)
(* the ceiling is that of this mutex alone.  A task owns one at a time.    *)
MutexHolds(e) ==
  \E c \in Ceilings :
    OSEventCnt[e] = Word(c, IF Owner(e) = NoTCB THEN Available ELSE BasePrio[Owner(e)])

Ownership ==
  /\ OSEventPtr \in [Events -> (Tasks \ {IdleTask}) \cup {NoTCB}]
  /\ \A e \in Events : IF IsMutex(e) THEN MutexHolds(e)
                       ELSE OSEventType[e] = "UNUSED" /\ Owner(e) = NoTCB
  /\ \A e, f \in Events : Owner(e) # NoTCB /\ Owner(e) = Owner(f) => e = f
  /\ \A e, f \in Events : IsMutex(e) /\ IsMutex(f) /\ Pcp(e) = Pcp(f) /\ Pcp(e) # CeilDis => e = f
  /\ \A t \in Tasks : Promoted(t) => \E e \in Events : Owner(e) = t /\ OSTCBPrio[t] = Pcp(e)
  /\ CeilingEntry

(* A call of OSMutexPend(): the task is on the wait list of a mutex that   *)
(* another task owns, or has been given the mutex and is ready.            *)
PendOK(t) ==
  /\ OSTCBStat[t] \subseteq {"MUTEX", "SUSPEND"}
  /\ pc[t] \in {"pend", "wake"} <=> OSTCBEventPtr[t] # NoEvent
  /\ "MUTEX" \in OSTCBStat[t] \/ OSTCBStatPend[t] = "TO" => OSTCBEventPtr[t] # NoEvent
  /\ OSTCBEventPtr[t] # NoEvent =>
       /\ IsMutex(OSTCBEventPtr[t]) /\ Owner(OSTCBEventPtr[t]) # NoTCB
       /\ "SUSPEND" \notin OSTCBStat[t]
       /\ "MUTEX" \notin OSTCBStat[t] => OSTCBDly[t] = 0
       /\ IF OnWaitList(t, OSTCBEventPtr[t]) THEN \A e \in Events : Owner(e) # t
                                             ELSE Owner(OSTCBEventPtr[t]) = t

Lists ==
  /\ OSRdyTbl = MapOf(Current(ReadySet))
  /\ \A e \in Events : OSEventTbl[e] = MapOf(PriosOf(WaitSet(e)))

(* The task that runs is ready unless it is on its way to the scheduler.   *)
Running ==
  /\ OSPrioCur = OSTCBPrio[OSTCBCur]
  /\ pc[OSTCBCur] \in {"run", "wake"} \/ OSLockNesting > 0 => Runnable(OSTCBCur)
  /\ OSLockNesting > 0 => pc[OSTCBCur] \in {"run", "sched"}
  /\ IdleOK /\ OSTCBEventPtr[IdleTask] = NoEvent

IInv ==
  /\ TypeOK /\ Lookups /\ Ownership
  /\ \A t \in Tasks : PendOK(t)
  /\ Lists /\ Running
  /\ OwnerOutranksWaiters

-----------------------------------------------------------------------------
(* The two bytes of a mutex word.                                          *)
LEMMA WordParts ==
  ASSUME NEW c \in 0 .. 255, NEW l \in 0 .. 255
  PROVE  /\ Word(c, l) \in Nat
         /\ Word(c, l) \div 256 = c
         /\ Word(c, l) % 256 = l
  BY DEF Word

LEMMA PrioRange == Prios \subseteq 0 .. 63 /\ \A p \in Prios : p \in Int /\ p # Available
  BY LowestPrioAssumption DEF Prios, Available

LEMMA CeilingRange ==
  ASSUME NEW c \in Ceilings
  PROVE  /\ c \in 0 .. 255
         /\ c # CeilDis => c \in Prios /\ \A t \in Tasks : c < BasePrio[t]
  BY PrioRange, MutexAssumption DEF CeilDis

LEMMA BaseRange ==
  ASSUME NEW t \in Tasks
  PROVE  BasePrio[t] \in Prios /\ BasePrio[t] \in 0 .. 255 /\ BasePrio[t] \in Int /\ BasePrio[t] # Available
<1>1. BasePrio[t] \in Prios
  BY CoreAssumption
<1>2. BasePrio[t] \in 0 .. 63
  BY <1>1, PrioRange
<1>. QED BY <1>1, <1>2 DEF Available

(* The ceiling and the lower byte of a mutex, read back.                   *)
LEMMA WordOfMutex ==
  ASSUME NEW c \in Ceilings, NEW o \in Tasks \cup {NoTCB}, NEW w,
         w = Word(c, IF o = NoTCB THEN Available ELSE BasePrio[o])
  PROVE  /\ w \in Nat
         /\ w \div 256 = c
         /\ w % 256 = IF o = NoTCB THEN Available ELSE BasePrio[o]
<1>. DEFINE l == IF o = NoTCB THEN Available ELSE BasePrio[o]
<1>1. l \in 0 .. 255
  BY BaseRange DEF Available
<1>2. c \in 0 .. 255
  BY CeilingRange
<1>3. w = Word(c, l)
  OBVIOUS
<1>4. w \in Nat /\ w \div 256 = c /\ w % 256 = l
  <2> HIDE DEF l
  <2>. QED BY <1>1, <1>2, <1>3 DEF Word
<1>. QED BY <1>4

LEMMA MutexParts ==
  ASSUME Ownership, NEW e \in Events, IsMutex(e)
  PROVE  /\ Pcp(e) \in Ceilings /\ Pcp(e) \in Int
         /\ Pcp(e) # CeilDis => Pcp(e) \in Prios /\ \A t \in Tasks : Pcp(e) < BasePrio[t]
         /\ OwnerPrio(e) = IF Owner(e) = NoTCB THEN Available ELSE BasePrio[Owner(e)]
         /\ OwnerPrio(e) = Available <=> Owner(e) = NoTCB
         /\ OSEventCnt[e] = Word(Pcp(e), IF Owner(e) = NoTCB THEN Available ELSE BasePrio[Owner(e)])
<1>1. PICK c \in Ceilings :
        OSEventCnt[e] = Word(c, IF Owner(e) = NoTCB THEN Available ELSE BasePrio[Owner(e)])
  BY DEF Ownership, MutexHolds
<1>2. Owner(e) \in Tasks \cup {NoTCB}
  BY DEF Ownership, Owner
<1>3. Pcp(e) = c /\ OwnerPrio(e) = IF Owner(e) = NoTCB THEN Available ELSE BasePrio[Owner(e)]
  BY <1>1, <1>2, WordOfMutex DEF Pcp, OwnerPrio
<1>. QED BY <1>1, <1>2, <1>3, CeilingRange, BaseRange

(* Different tasks have different priorities, a promoted one has that of   *)
(* nobody else, and the idle task keeps the lowest.                        *)
LEMMA PriosApart ==
  ASSUME Lookups, NEW t \in Tasks, NEW u \in Tasks,
         OSTCBPrio[t] = OSTCBPrio[u] \/ OSTCBPrio[t] = BasePrio[u]
  PROVE  t = u
  BY DEF Lookups

LEMMA NotPromoted ==
  ASSUME Ownership, NEW t \in Tasks, \A e \in Events : Owner(e) # t
  PROVE  OSTCBPrio[t] = BasePrio[t]
  BY DEF Ownership, Promoted

(* A promoted task is at the ceiling of the mutex it owns.                 *)
LEMMA OwnersPrio ==
  ASSUME Ownership, NEW e \in Events, NEW t \in Tasks, Owner(e) = t
  PROVE  IsMutex(e) /\ OSTCBPrio[t] \in {BasePrio[t], Pcp(e)}
<1>1. t # NoTCB
  BY CoreAssumption
<1>2. IsMutex(e)
  BY <1>1 DEF Ownership
<1>3. Promoted(t) => OSTCBPrio[t] = Pcp(e)
  <2> SUFFICES ASSUME Promoted(t) PROVE OSTCBPrio[t] = Pcp(e)
    OBVIOUS
  <2>1. PICK f \in Events : Owner(f) = t /\ OSTCBPrio[t] = Pcp(f)
    BY DEF Ownership
  <2>2. f = e
    BY <2>1, <1>1 DEF Ownership
  <2>. QED BY <2>1, <2>2
<1>. QED BY <1>2, <1>3 DEF Promoted

LEMMA OwnsIs ==
  ASSUME Ownership, NEW t \in Tasks
  PROVE  Owns(t) <=> \E e \in Events : Owner(e) = t
  BY CoreAssumption DEF Ownership, Owns, Owner
-----------------------------------------------------------------------------
(* The ready list, as a set of current priorities.                         *)
LEMMA CurrentType ==
  ASSUME TypeOK, NEW A \in SUBSET Tasks
  PROVE  Current(A) \in SUBSET Prios
  BY DEF TypeOK, Current

LEMMA CurrentLeave ==
  ASSUME TypeOK, Lookups, NEW A \in SUBSET Tasks, NEW t \in Tasks
  PROVE  MapClr(MapOf(Current(A)), {OSTCBPrio[t]}) = MapOf(Current(A \ {t}))
<1>1. Current(A) \ {OSTCBPrio[t]} = Current(A \ {t})
  BY PriosApart DEF Current
<1>2. {OSTCBPrio[t]} \in SUBSET Prios
  BY DEF TypeOK
<1>. QED BY <1>1, <1>2, CurrentType, MapClrOf

LEMMA CurrentJoin ==
  ASSUME TypeOK, NEW A \in SUBSET Tasks, NEW B \in SUBSET Tasks
  PROVE  MapSet(MapOf(Current(A)), {OSTCBPrio[t] : t \in B}) = MapOf(Current(A \cup B))
<1>1. Current(A) \cup Current(B) = Current(A \cup B)
  BY DEF Current
<1>2. {OSTCBPrio[t] : t \in B} = Current(B)
  BY DEF Current
<1>. QED BY <1>1, <1>2, CurrentType, MapSetOf

(* A task of the list goes to another priority.                            *)
LEMMA CurrentMoves ==
  ASSUME TypeOK, Lookups, NEW A \in SUBSET Tasks, NEW o \in A, NEW to \in Prios,
         OSTCBPrio' = [OSTCBPrio EXCEPT ![o] = to]
  PROVE  Moved(MapOf(Current(A)), OSTCBPrio[o], to) = MapOf({OSTCBPrio'[t] : t \in A})
<1>1. MapClr(MapOf(Current(A)), {OSTCBPrio[o]}) = MapOf(Current(A \ {o}))
  BY CurrentLeave
<1>2. Current(A \ {o}) \in SUBSET Prios
  BY CurrentType
<1>3. MapSet(MapOf(Current(A \ {o})), {to}) = MapOf(Current(A \ {o}) \cup {to})
  BY <1>2, MapSetOf
<1>4. Current(A \ {o}) \cup {to} = {OSTCBPrio'[t] : t \in A}
  <2>1. \A t \in Tasks : OSTCBPrio'[t] = IF t = o THEN to ELSE OSTCBPrio[t]
    BY DEF TypeOK
  <2>. QED BY <2>1 DEF Current
<1>. QED BY <1>1, <1>3, <1>4 DEF Moved

LEMMA CurrentHas ==
  ASSUME TypeOK, Lookups, NEW A \in SUBSET Tasks, NEW t \in Tasks
  PROVE  MapHas(MapOf(Current(A)), OSTCBPrio[t]) <=> t \in A
<1>1. OSTCBPrio[t] \in Current(A) <=> t \in A
  BY PriosApart DEF Current
<1>. QED BY <1>1, CurrentType, MapHasOf DEF TypeOK

(* The scheduler finds a ready task.                                       *)
LEMMA SwitchM ==
  ASSUME IInv, Switch
  PROVE  /\ OSTCBCur' \in Tasks /\ OSPrioCur' \in Prios
         /\ OSPrioCur' = OSTCBPrio[OSTCBCur']
         /\ Runnable(OSTCBCur')
<1>1. ReadySet \in SUBSET Tasks /\ ReadySet # {}
  BY CoreAssumption DEF IInv, Running, IdleOK, ReadySet
<1>2. Current(ReadySet) \in SUBSET Prios /\ Current(ReadySet) # {}
  BY <1>1, CurrentType DEF IInv, Current
<1>3. MapHighest(OSRdyTbl) \in Current(ReadySet)
  BY <1>2, MapHighestOf DEF IInv, Lists
<1>4. PICK t \in ReadySet : MapHighest(OSRdyTbl) = OSTCBPrio[t]
  BY <1>3 DEF Current
<1>5. t \in Tasks /\ OSTCBPrioTbl[OSTCBPrio[t]] = t /\ OSTCBPrio[t] \in Prios /\ Runnable(t)
  BY DEF IInv, TypeOK, Lookups, ReadySet
<1>6. CASE OSTCBPrio[t] # OSPrioCur
  BY <1>4, <1>5, <1>6 DEF Switch
<1>7. CASE OSTCBPrio[t] = OSPrioCur
  <2>1. OSTCBCur \in Tasks /\ OSPrioCur = OSTCBPrio[OSTCBCur]
    BY DEF IInv, TypeOK, Running
  <2>2. OSTCBCur = t
    BY <2>1, <1>5, <1>7, PriosApart DEF IInv
  <2>. QED BY <1>4, <1>5, <1>7, <2>1, <2>2 DEF Switch, curVars
<1>. QED BY <1>6, <1>7

-----------------------------------------------------------------------------
(* The tasks that act.                                                     *)

(* A task that calls a service is ready and in no pend.                    *)
LEMMA CallerM ==
  ASSUME IInv, NEW t \in Tasks, Calls(t)
  PROVE  /\ OSTCBCur = t /\ t # IdleTask /\ pc[t] = "run" /\ OSIntNesting = 0
         /\ Runnable(t) /\ t \in ReadySet
         /\ OSTCBEventPtr[t] = NoEvent /\ OSTCBStatPend[t] # "TO"
         /\ \A e \in Events : ~OnWaitList(t, e)
<1>1. OSTCBCur = t /\ t # IdleTask /\ pc[t] = "run" /\ OSIntNesting = 0
  BY DEF Calls
<1>2. Runnable(t) /\ OSTCBEventPtr[t] = NoEvent /\ OSTCBStatPend[t] # "TO"
  BY <1>1 DEF IInv, Running, PendOK
<1>3. \A e \in Events : ~OnWaitList(t, e)
  BY <1>2, CoreAssumption DEF IInv, Lookups, OnWaitList
<1>. QED BY <1>1, <1>2, <1>3 DEF ReadySet

(* A task on a wait list owns nothing, so it has its base priority.        *)
LEMMA Waiters ==
  ASSUME IInv, NEW e \in Events, NEW t \in Tasks, OnWaitList(t, e)
  PROVE  /\ OSTCBEventPtr[t] = e /\ IsMutex(e) /\ Owner(e) \in Tasks \ {t}
         /\ \A f \in Events : Owner(f) # t
         /\ OSTCBPrio[t] = BasePrio[t] /\ OSTCBPrioTbl[OSTCBPrio[t]] = t
         /\ "SUSPEND" \notin OSTCBStat[t]
<1>1. OSTCBEventPtr[t] = e /\ e # NoEvent
  BY CoreAssumption DEF IInv, Lookups, OnWaitList
<1>2. /\ IsMutex(e) /\ Owner(e) # NoTCB /\ "SUSPEND" \notin OSTCBStat[t]
      /\ \A f \in Events : Owner(f) # t
  BY <1>1 DEF IInv, PendOK
<1>3. Owner(e) \in Tasks
  BY <1>2 DEF IInv, Ownership, Owner
<1>. QED BY <1>1, <1>2, <1>3, NotPromoted DEF IInv, Lookups

LEMMA WaitSetType ==
  ASSUME NEW e
  PROVE  WaitSet(e) \in SUBSET Tasks
  BY DEF WaitSet

(* The wait lists name the same priorities whichever of the two is meant.  *)
LEMMA WaitersCurrent ==
  ASSUME IInv, NEW e \in Events
  PROVE  PriosOf(WaitSet(e)) = Current(WaitSet(e))
<1>1. \A t \in WaitSet(e) : OSTCBPrio[t] = BasePrio[t]
  BY Waiters DEF WaitSet
<1>. QED BY <1>1 DEF PriosOf, Current

-----------------------------------------------------------------------------
(* What a service that is not one of mutexes leaves alone.                 *)
mutexVars == <<OSTCBPrio, OSTCBEventMultiPtr, OSTCBList, OSTCBPrioTbl,
               OSEventType, OSEventCnt, OSEventPtr>>

LEMMA MutexFrame ==
  ASSUME IInv, UNCHANGED mutexVars
  PROVE  /\ Lookups' /\ Ownership'
         /\ \A e \in Events : Owner(e)' = Owner(e) /\ Pcp(e)' = Pcp(e) /\ (IsMutex(e)' <=> IsMutex(e))
<1>1. Lookups'
  BY DEF IInv, Lookups, mutexVars
<1>2. \A e \in Events : Owner(e)' = Owner(e) /\ Pcp(e)' = Pcp(e) /\ (IsMutex(e)' <=> IsMutex(e))
                          /\ (MutexHolds(e)' <=> MutexHolds(e))
  BY DEF Owner, Pcp, IsMutex, MutexHolds, mutexVars
<1>3. \A t : Promoted(t)' <=> Promoted(t)
  BY DEF Promoted, mutexVars
<1>4. CeilingEntry'
  BY <1>2 DEF IInv, Ownership, CeilingEntry, mutexVars
<1>5. Ownership'
  BY <1>2, <1>3, <1>4 DEF IInv, Ownership, mutexVars
<1>. QED BY <1>1, <1>2, <1>5

LEMMA MutexFrameIInv ==
  ASSUME IInv, UNCHANGED mutexVars,
         TypeOK', Lists', Running', \A t \in Tasks : PendOK(t)',
         \A e \in Events, t \in Tasks : OnWaitList(t, e)' => OnWaitList(t, e)
  PROVE  IInv'
<1>1. OwnerOutranksWaiters'
  BY MutexFrame DEF IInv, OwnerOutranksWaiters, mutexVars
<1>. QED BY <1>1, MutexFrame DEF IInv

(* A task whose TCB stays as it is.                                        *)
LEMMA PendFrame ==
  ASSUME IInv, UNCHANGED mutexVars, NEW t \in Tasks,
         OSTCBStat'[t] = OSTCBStat[t], OSTCBStatPend'[t] = OSTCBStatPend[t],
         OSTCBDly'[t] = OSTCBDly[t], OSTCBEventPtr'[t] = OSTCBEventPtr[t],
         pc'[t] \in {"pend", "wake"} <=> pc[t] \in {"pend", "wake"}
  PROVE  PendOK(t)' /\ \A e : OnWaitList(t, e)' <=> OnWaitList(t, e)
<1>1. \A e : OnWaitList(t, e)' <=> OnWaitList(t, e)
  BY DEF OnWaitList, mutexVars
<1>2. PendOK(t)
  BY DEF IInv
<1>3. OSTCBEventPtr[t] # NoEvent => OSTCBEventPtr[t] \in Events
  BY DEF IInv, TypeOK
<1>. QED BY <1>1, <1>2, <1>3, MutexFrame DEF PendOK

LEMMA WaitFrame ==
  ASSUME NEW e, \A t \in Tasks : OnWaitList(t, e)' <=> OnWaitList(t, e)
  PROVE  WaitSet(e)' = WaitSet(e)
  BY DEF WaitSet

LEMMA ReadyFrameM ==
  ASSUME IInv, UNCHANGED <<OSTCBPrio, OSTCBStat, OSTCBDly, OSRdyTbl>>
  PROVE  (OSRdyTbl = MapOf(Current(ReadySet)))' /\ ReadySet' = ReadySet
<1>1. ReadySet' = ReadySet
  BY DEF ReadySet, Runnable
<1>2. Current(ReadySet)' = Current(ReadySet)
  BY <1>1 DEF Current
<1>. QED BY <1>1, <1>2 DEF IInv, Lists

PrioTyped == OSTCBPrio \in [Tasks -> Prios]
MapsTyped == OSRdyTbl \in PrioMap /\ \A e \in Events : OSEventTbl[e] \in PrioMap

LEMMA ListTypes ==
  ASSUME PrioTyped, Lists
  PROVE  MapsTyped
<1>1. ReadySet \in SUBSET Tasks /\ Current(ReadySet) \in SUBSET Prios
  BY DEF ReadySet, Current, PrioTyped
<1>2. \A e \in Events : PriosOf(WaitSet(e)) \in SUBSET Prios
  BY WaitSetType, PriosOfType
<1>. QED BY <1>1, <1>2, MapOfContents DEF Lists, MapsTyped

LEMMA ListTypesPrime == PrioTyped' /\ Lists' => MapsTyped'
  BY ListTypes, PTL

-----------------------------------------------------------------------------
(* The steps of the kernel.                                                *)
LEMMA InitStep == Init => IInv
<1> SUFFICES ASSUME Init PROVE IInv
  OBVIOUS
<1>1. KInv
  BY InitKInv DEF Init
<1>2. OSTCBPrio = BasePrio /\ \A t \in Tasks : OSTCBEventPtr[t] = NoEvent /\ OSTCBStat[t] = {}
        /\ OSTCBStatPend[t] = "OK" /\ OSTCBEventMultiPtr[t] = {} /\ pc[t] = "run"
  BY DEF Init, CoreInit
<1>3. \A e \in Events : OSEventType[e] = "UNUSED" /\ Owner(e) = NoTCB /\ OSEventTbl[e] = EmptyMap
  BY DEF Init, Owner
<1>4. Lookups
  BY <1>1, <1>2 DEF KInv, Fixed, Lookups
<1>5. Ownership
  <2>1. OSEventPtr \in [Events -> (Tasks \ {IdleTask}) \cup {NoTCB}]
    BY DEF Init
  <2>2. \A t \in Tasks : ~Promoted(t)
    BY <1>2 DEF Promoted
  <2>3. \A e \in Events : ~IsMutex(e)
    BY <1>3 DEF IsMutex
  <2>. QED BY <1>3, <2>1, <2>2, <2>3 DEF Ownership, CeilingEntry
<1>6. \A t \in Tasks : PendOK(t)
  BY <1>2 DEF PendOK
<1>7. \A e \in Events, t \in Tasks : ~OnWaitList(t, e)
  BY <1>2, CoreAssumption DEF OnWaitList
<1>8. Lists
  <2>1. Current(ReadySet) = PriosOf(ReadySet)
    BY <1>2 DEF Current, PriosOf
  <2>2. \A e \in Events : WaitSet(e) = {}
    BY <1>7 DEF WaitSet
  <2>3. PriosOf({}) = {}
    BY DEF PriosOf
  <2>. QED BY <1>1, <1>3, <2>1, <2>2, <2>3, MapOfEmpty DEF KInv, ReadyList, Lists
<1>9. Running
  <2>1. \A t \in Tasks : Runnable(t)
    BY DEF Init, CoreInit, Runnable
  <2>2. OSLockNesting = 0 /\ OSTCBCur \in Tasks
    BY <1>1 DEF Init, CoreInit, KInv, TypeOK
  <2>. QED BY <1>1, <1>2, <2>1, <2>2, CoreAssumption DEF KInv, CurOK, IdleOK, Running
<1>10. OwnerOutranksWaiters
  BY <1>7 DEF OwnerOutranksWaiters
<1>. QED BY <1>1, <1>4, <1>5, <1>6, <1>8, <1>9, <1>10 DEF IInv, KInv

(* A step that changes no TCB and no list.                                 *)
LEMMA QuietStep ==
  ASSUME IInv, UNCHANGED <<tcbVars, tblVars, OSRdyTbl, eventVars, OSEventPtr>>,
         TypeOK', Running',
         \A t \in Tasks : pc'[t] \in {"pend", "wake"} <=> pc[t] \in {"pend", "wake"}
  PROVE  IInv'
<1>1. UNCHANGED mutexVars
  BY DEF mutexVars, tcbVars, tblVars, eventVars
<1>2. \A t \in Tasks : PendOK(t)' /\ \A e : OnWaitList(t, e)' <=> OnWaitList(t, e)
  BY <1>1, PendFrame DEF tcbVars
<1>3. Lists'
  <2>1. \A e : WaitSet(e)' = WaitSet(e)
    BY <1>2, WaitFrame
  <2>2. \A e \in Events : (OSEventTbl[e] = MapOf(PriosOf(WaitSet(e))))'
    BY <2>1 DEF IInv, Lists, PriosOf, eventVars
  <2>. QED BY <2>2, ReadyFrameM DEF Lists, tcbVars
<1>. QED BY <1>1, <1>2, <1>3, MutexFrameIInv

LEMMA SchedStep ==
  ASSUME IInv, NEW t \in Tasks, OS_Sched(t), UNCHANGED OSEventPtr
  PROVE  IInv'
<1>1. UNCHANGED <<tcbVars, tblVars, OSRdyTbl, eventVars, nestVars>>
  BY DEF OS_Sched
<1>2. /\ OSTCBCur = t
      /\ \/ pc[t] = "sched" /\ pc' = [pc EXCEPT ![t] = "run"]
         \/ pc[t] = "pend"  /\ pc' = [pc EXCEPT ![t] = "wake"]
  BY DEF OS_Sched, At, Goto
<1>3. /\ OSLockNesting = 0 => Switch
      /\ OSLockNesting > 0 => UNCHANGED curVars
  BY DEF OS_Sched, IInv, TypeOK
<1>4. OSTCBCur' \in Tasks /\ OSPrioCur' \in Prios /\ OSPrioCur' = OSTCBPrio[OSTCBCur'] /\ Runnable(OSTCBCur')
  BY <1>3, SwitchM DEF IInv, TypeOK, Running, curVars
<1>5. TypeOK'
  BY <1>1, <1>2, <1>4 DEF IInv, TypeOK, Pcs, tcbVars, tblVars, eventVars, nestVars
<1>6. IdleOK'
  BY <1>1, <1>2, CoreAssumption DEF IInv, TypeOK, Running, IdleOK, Runnable, tcbVars
<1>7. Running'
  BY <1>1, <1>2, <1>3, <1>4, <1>6 DEF IInv, Running, TypeOK, Runnable, tcbVars, curVars, nestVars
<1>8. \A u \in Tasks : pc'[u] \in {"pend", "wake"} <=> pc[u] \in {"pend", "wake"}
  BY <1>2 DEF IInv, TypeOK
<1>. QED BY <1>1, <1>5, <1>7, <1>8, QuietStep

LEMMA IntExitStep ==
  ASSUME IInv, OSIntExit, UNCHANGED OSEventPtr
  PROVE  IInv'
<1>1. UNCHANGED <<tcbVars, tblVars, OSRdyTbl, eventVars, OSLockNesting, pc>>
  BY DEF OSIntExit
<1>2. OSIntNesting = 1 /\ OSIntNesting' = 0
  BY DEF OSIntExit, IInv, TypeOK
<1>3. /\ OSLockNesting = 0 => Switch
      /\ OSLockNesting > 0 => UNCHANGED curVars
  BY <1>2 DEF OSIntExit, IInv, TypeOK
<1>4. OSTCBCur' \in Tasks /\ OSPrioCur' \in Prios /\ OSPrioCur' = OSTCBPrio[OSTCBCur'] /\ Runnable(OSTCBCur')
  BY <1>3, SwitchM DEF IInv, TypeOK, Running, curVars
<1>5. TypeOK'
  BY <1>1, <1>2, <1>4 DEF IInv, TypeOK, tcbVars, tblVars, eventVars
<1>6. Running'
  BY <1>1, <1>3, <1>4 DEF IInv, Running, TypeOK, IdleOK, Runnable, tcbVars, curVars
<1>. QED BY <1>1, <1>5, <1>6, QuietStep

LEMMA LockStep ==
  ASSUME IInv, NEW t \in Tasks, OSSchedLock(t) \/ OSSchedUnlock(t), UNCHANGED OSEventPtr
  PROVE  IInv'
<1>1. UNCHANGED <<tcbVars, tblVars, OSRdyTbl, eventVars, curVars, OSIntNesting>>
  BY DEF OSSchedLock, OSSchedUnlock
<1>2. OSTCBCur = t /\ t # IdleTask /\ pc[t] = "run" /\ Runnable(t)
  BY CallerM DEF OSSchedLock, OSSchedUnlock
<1>3. /\ OSLockNesting' \in 0 .. LockNestingMax
      /\ OSLockNesting' = 0 => pc' = [pc EXCEPT ![t] = "sched"]
      /\ OSLockNesting' # 0 => pc' = pc
  BY CoreAssumption DEF OSSchedLock, OSSchedUnlock, Goto, IInv, TypeOK
<1>4. TypeOK'
  BY <1>1, <1>2, <1>3 DEF IInv, TypeOK, Pcs, tcbVars, tblVars, eventVars, curVars
<1>5. Running'
  BY <1>1, <1>2, <1>3, CoreAssumption DEF IInv, Running, TypeOK, IdleOK, Runnable, tcbVars, curVars
<1>6. \A u \in Tasks : pc'[u] \in {"pend", "wake"} <=> pc[u] \in {"pend", "wake"}
  BY <1>2, <1>3 DEF IInv, TypeOK
<1>. QED BY <1>1, <1>4, <1>5, <1>6, QuietStep
-----------------------------------------------------------------------------
(* Delays and suspension.                                                  *)
LEMMA ReadyJoins ==
  ASSUME IInv, NEW ts \in SUBSET Tasks, ReadySet' = ReadySet \cup ts, OSTCBPrio' = OSTCBPrio,
         OSRdyTbl' = MapSet(OSRdyTbl, {OSTCBPrio[t] : t \in ts})
  PROVE  (OSRdyTbl = MapOf(Current(ReadySet)))'
<1>1. ReadySet \in SUBSET Tasks
  BY DEF ReadySet
<1>2. OSRdyTbl' = MapOf(Current(ReadySet \cup ts))
  BY <1>1, CurrentJoin DEF IInv, Lists
<1>3. Current(ReadySet)' = Current(ReadySet \cup ts)
  BY DEF Current
<1>. QED BY <1>2, <1>3

LEMMA ReadyLeaves ==
  ASSUME IInv, NEW t \in Tasks, ReadySet' = ReadySet \ {t}, OSTCBPrio' = OSTCBPrio,
         Unready(t)
  PROVE  (OSRdyTbl = MapOf(Current(ReadySet)))'
<1>1. ReadySet \in SUBSET Tasks
  BY DEF ReadySet
<1>2. OSRdyTbl' = MapOf(Current(ReadySet \ {t}))
  BY <1>1, CurrentLeave DEF IInv, Lists, Unready
<1>3. Current(ReadySet)' = Current(ReadySet \ {t})
  BY DEF Current
<1>. QED BY <1>2, <1>3

(* The wait lists of a step that moves nobody on or off them.              *)
LEMMA WaitListsFrame ==
  ASSUME IInv, OSEventTbl' = OSEventTbl,
         \A e \in Events, t \in Tasks : OnWaitList(t, e)' <=> OnWaitList(t, e)
  PROVE  \A e \in Events : (OSEventTbl[e] = MapOf(PriosOf(WaitSet(e))))'
<1>1. \A e \in Events : WaitSet(e)' = WaitSet(e)
  BY WaitFrame
<1>. QED BY <1>1 DEF IInv, Lists, PriosOf

LEMMA RunningFrame ==
  ASSUME IInv, TypeOK, UNCHANGED <<OSTCBPrio, curVars, OSLockNesting>>,
         Runnable(IdleTask)', pc'[IdleTask] = "run", OSTCBEventPtr'[IdleTask] = NoEvent,
         OSLockNesting > 0 => pc'[OSTCBCur] \in {"run", "sched"},
         pc'[OSTCBCur] \in {"run", "wake"} \/ OSLockNesting > 0 => Runnable(OSTCBCur)'
  PROVE  Running'
<1>1. OSTCBCur' = OSTCBCur /\ OSPrioCur' = OSPrioCur
  BY DEF curVars
<1>. QED BY <1>1 DEF IInv, Running, IdleOK

LEMMA ExpireStep ==
  ASSUME IInv, NEW ts \in SUBSET (Tasks \ {IdleTask}), NEW dly \in [Tasks -> Nat],
         \A t \in ts : OSTCBDly[t] # 0 /\ dly[t] = 0,
         \A t \in Tasks \ ts : dly[t] = 0 <=> OSTCBDly[t] = 0,
         Expire(ts, dly),
         UNCHANGED <<OSTCBPrio, OSTCBEventPtr, OSTCBEventMultiPtr, tblVars, eventVars,
                     curVars, OSLockNesting, OSEventPtr>>,
         GoesOn(OSTCBCur), OSIntNesting' \in {OSIntNesting, 1}
  PROVE  IInv'
<1> DEFINE now == {t \in ts : "SUSPEND" \notin OSTCBStat[t]}
<1>1. /\ OSTCBDly' = dly
      /\ OSTCBStatPend' = [t \in Tasks |->
                             IF t \in ts /\ OSTCBStat[t] \cap PendAny # {} THEN "TO"
                             ELSE IF t \in ts THEN "OK" ELSE OSTCBStatPend[t]]
      /\ OSRdyTbl' = MapSet(OSRdyTbl, {OSTCBPrio[t] : t \in now})
      /\ OSTCBStat' = [t \in Tasks |-> IF t \in ts /\ OSTCBStat[t] \cap PendAny # {}
                                         THEN OSTCBStat[t] \ PendAny ELSE OSTCBStat[t]]
  BY DEF Expire
<1>2. UNCHANGED mutexVars /\ OSEventTbl' = OSEventTbl
  BY DEF mutexVars, tblVars, eventVars
<1>3. \A t \in Tasks : OSTCBStat[t] \subseteq {"MUTEX", "SUSPEND"}
  BY DEF IInv, PendOK
<1>4. \A t \in Tasks : OSTCBStat'[t] = IF t \in ts THEN OSTCBStat[t] \ {"MUTEX"} ELSE OSTCBStat[t]
  BY <1>1, <1>3 DEF PendAny
<1>5. ReadySet' = ReadySet \cup now
  <2>1. ASSUME NEW t \in ts
        PROVE  (Runnable(t)' <=> "SUSPEND" \notin OSTCBStat[t]) /\ ~Runnable(t)
    <3>1. OSTCBStat'[t] = OSTCBStat[t] \ {"MUTEX"} /\ OSTCBDly'[t] = 0 /\ OSTCBDly[t] # 0
      BY <1>1, <1>4
    <3>2. OSTCBStat[t] \subseteq {"MUTEX", "SUSPEND"}
      BY <1>3
    <3>. QED BY <3>1, <3>2 DEF Runnable
  <2>2. ASSUME NEW t \in Tasks \ ts PROVE Runnable(t)' <=> Runnable(t)
    BY <1>1, <1>4 DEF Runnable
  <2>. QED BY <2>1, <2>2 DEF ReadySet
<1>6. \A e \in Events, t \in Tasks : OnWaitList(t, e)' <=> OnWaitList(t, e)
  <2> SUFFICES ASSUME NEW e \in Events, NEW t \in Tasks PROVE OnWaitList(t, e)' <=> OnWaitList(t, e)
    OBVIOUS
  <2>1. CASE t \in ts
    <3>1. OSTCBStat[t] \cap PendAny # {} <=> "MUTEX" \in OSTCBStat[t]
      BY <1>3 DEF PendAny
    <3>2. OSTCBStat'[t] \cap PendAny = {}
      BY <1>3, <1>4, <2>1 DEF PendAny
    <3>3. OSTCBStatPend[t] = "TO" => OSTCBEventPtr[t] # NoEvent
      BY DEF IInv, PendOK
    <3>4. OSTCBEventPtr[t] # NoEvent => "MUTEX" \in OSTCBStat[t]
      BY <2>1 DEF IInv, PendOK
    <3>5. OSTCBStatPend'[t] = "TO" <=> "MUTEX" \in OSTCBStat[t]
      BY <1>1, <2>1, <3>1
    <3>. QED BY <3>1, <3>2, <3>3, <3>4, <3>5, <1>2 DEF OnWaitList, mutexVars
  <2>2. CASE t \notin ts
    <3>1. OSTCBStat'[t] = OSTCBStat[t] /\ OSTCBStatPend'[t] = OSTCBStatPend[t]
      BY <1>1, <1>4, <2>2
    <3>. QED BY <3>1, <1>2 DEF OnWaitList, mutexVars
  <2>. QED BY <2>1, <2>2
<1>7. Lists'
  <2>1. now \in SUBSET Tasks
    OBVIOUS
  <2>2. (OSRdyTbl = MapOf(Current(ReadySet)))'
    <3> HIDE DEF now
    <3>. QED BY <1>1, <1>5, <2>1, ReadyJoins
  <2>. QED BY <1>2, <1>6, <2>2, WaitListsFrame DEF Lists
<1>8. TypeOK'
  <2>1. OSRdyTbl' \in PrioMap
    BY <1>7, ListTypesPrime DEF IInv, TypeOK, PrioTyped, MapsTyped
  <2>2. /\ OSTCBStat' \in [Tasks -> SUBSET Stats]
        /\ OSTCBStatPend' \in [Tasks -> PendStats]
        /\ OSTCBDly' \in [Tasks -> Nat]
        /\ pc' \in [Tasks -> Pcs]
    BY <1>1 DEF IInv, TypeOK, PendStats, Pcs, GoesOn
  <2>. QED BY <2>1, <2>2 DEF IInv, TypeOK, tblVars, eventVars, curVars
<1>9. \A t \in Tasks : PendOK(t)'
  <2> TAKE t \in Tasks
  <2>0. pc'[t] \in {"pend", "wake"} <=> pc[t] \in {"pend", "wake"}
    BY DEF IInv, TypeOK, GoesOn
  <2>1. CASE t \notin ts
    <3>1. dly[t] = 0 <=> OSTCBDly[t] = 0
      BY <2>1
    <3>2. OSTCBEventPtr[t] # NoEvent => OSTCBEventPtr[t] \in Events
      BY DEF IInv, TypeOK
    <3>3. PendOK(t)
      BY DEF IInv
    <3>4. OSTCBStat'[t] = OSTCBStat[t] /\ OSTCBStatPend'[t] = OSTCBStatPend[t] /\ OSTCBEventPtr'[t] = OSTCBEventPtr[t]
      BY <1>1, <1>4, <2>1
    <3>5. OSTCBDly'[t] = 0 <=> OSTCBDly[t] = 0
      BY <1>1, <3>1
    <3>. QED BY <2>0, <3>2, <3>3, <3>4, <3>5, <1>2, <1>6, MutexFrame DEF PendOK
  <2>2. CASE t \in ts
    <3>1. OSTCBDly'[t] = 0 /\ OSTCBStat'[t] = OSTCBStat[t] \ {"MUTEX"} /\ OSTCBEventPtr'[t] = OSTCBEventPtr[t]
      BY <1>1, <1>4, <2>2
    <3>2. OSTCBEventPtr[t] # NoEvent => OSTCBEventPtr[t] \in Events
      BY DEF IInv, TypeOK
    <3>3. PendOK(t)
      BY DEF IInv
    <3>4. OSTCBStatPend'[t] = "TO" => "MUTEX" \in OSTCBStat[t]
      <4>1. OSTCBStat[t] \cap PendAny # {} => "MUTEX" \in OSTCBStat[t]
        BY <1>3 DEF PendAny
      <4>. QED BY <1>1, <2>2, <4>1
    <3>. QED BY <2>0, <3>1, <3>2, <3>3, <3>4, <1>2, <1>6, MutexFrame DEF PendOK
  <2>. QED BY <2>1, <2>2
<1>10. Running'
  <2>1. \A t \in Tasks : Runnable(t) => Runnable(t)'
    BY <1>5 DEF ReadySet
  <2>2. pc'[OSTCBCur] \in {"run", "wake"} => pc[OSTCBCur] \in {"run", "wake"}
    BY DEF IInv, TypeOK, GoesOn
  <2>3. pc'[IdleTask] = "run"
    BY CoreAssumption DEF IInv, TypeOK, Running, IdleOK, GoesOn
  <2>4. OSLockNesting > 0 => pc'[OSTCBCur] \in {"run", "sched"}
    BY DEF IInv, TypeOK, Running, GoesOn
  <2>5. pc'[OSTCBCur] \in {"run", "wake"} \/ OSLockNesting > 0 => Runnable(OSTCBCur)'
    <3>1. OSTCBCur \in Tasks /\ OSTCBCur' = OSTCBCur
      BY DEF IInv, TypeOK, curVars
    <3>2. Runnable(OSTCBCur) => Runnable(OSTCBCur)'
      BY <2>1, <3>1 DEF Runnable
    <3>. QED BY <2>2, <3>2 DEF IInv, Running
  <2>6. Runnable(IdleTask)' /\ OSTCBEventPtr'[IdleTask] = NoEvent
    BY <2>1, CoreAssumption DEF IInv, Running, IdleOK
  <2>. QED BY <2>3, <2>4, <2>5, <2>6, RunningFrame DEF IInv
<1>. QED BY <1>2, <1>6, <1>7, <1>8, <1>9, <1>10, MutexFrameIInv

LEMMA TickStep ==
  ASSUME IInv, TickISR, UNCHANGED OSEventPtr
  PROVE  IInv'
<1> DEFINE walked == OSTCBList \ {IdleTask}
           left   == [t \in Tasks |-> IF t \in walked /\ OSTCBDly[t] # 0
                                        THEN OSTCBDly[t] - 1 ELSE OSTCBDly[t]]
           ts     == {t \in walked : OSTCBDly[t] # 0 /\ left[t] = 0}
<1>1. /\ Expire(ts, left)
      /\ UNCHANGED <<OSTCBPrio, OSTCBEventPtr, OSTCBEventMultiPtr, tblVars, eventVars,
                     curVars, OSLockNesting, OSEventPtr, pc>>
      /\ OSIntNesting' = 1
  BY DEF TickISR, EnterISR, OSTimeTick
<1>2. walked = Tasks \ {IdleTask} /\ ts \in SUBSET (Tasks \ {IdleTask})
  BY DEF IInv, Lookups
<1>3. left \in [Tasks -> Nat]
  BY DEF IInv, TypeOK
<1>4. \A t \in ts : OSTCBDly[t] # 0 /\ left[t] = 0
  BY <1>2
<1>5. \A t \in Tasks \ ts : left[t] = 0 <=> OSTCBDly[t] = 0
  BY <1>2 DEF IInv, TypeOK
<1> HIDE DEF ts, left
<1>. QED BY <1>1, <1>2, <1>3, <1>4, <1>5, ExpireStep DEF GoesOn

LEMMA DlyResumeStep ==
  ASSUME IInv, NEW t \in Tasks, NEW prio \in Prios, OSTimeDlyResume(t, prio), UNCHANGED OSEventPtr
  PROVE  IInv'
<1> DEFINE u   == OSTCBPrioTbl[prio]
           dly == [OSTCBDly EXCEPT ![u] = 0]
<1>1. /\ u \in Tasks /\ OSTCBDly[u] # 0
      /\ Expire({u}, dly)
      /\ IF "SUSPEND" \notin OSTCBStat[u] THEN pc' = [pc EXCEPT ![t] = "sched"] ELSE pc' = pc
      /\ UNCHANGED <<OSTCBPrio, OSTCBEventPtr, OSTCBEventMultiPtr, tblVars, eventVars,
                     curVars, nestVars>>
      /\ OSTCBCur = t /\ pc[t] = "run" /\ t # IdleTask
  BY DEF OSTimeDlyResume, Calls, Goto
<1>2. {u} \in SUBSET (Tasks \ {IdleTask})
  BY <1>1 DEF IInv, Running, IdleOK, Runnable
<1>3. dly \in [Tasks -> Nat]
  BY <1>1 DEF IInv, TypeOK
<1>4. \A v \in {u} : OSTCBDly[v] # 0 /\ dly[v] = 0
  BY <1>1 DEF IInv, TypeOK
<1>5. \A v \in Tasks \ {u} : dly[v] = 0 <=> OSTCBDly[v] = 0
  BY DEF IInv, TypeOK
<1>6. GoesOn(OSTCBCur)
  BY <1>1 DEF GoesOn
<1> HIDE DEF u, dly
<1>. QED BY <1>1, <1>2, <1>3, <1>4, <1>5, <1>6, ExpireStep DEF nestVars
(* The TCB of a task that is in no pend changes.                           *)
LEMMA OutOfPend ==
  ASSUME IInv, UNCHANGED <<mutexVars, OSTCBStatPend, OSTCBEventPtr, OSEventTbl>>,
         NEW u \in Tasks, OSTCBEventPtr[u] = NoEvent,
         \A v \in Tasks \ {u} : OSTCBStat'[v] = OSTCBStat[v] /\ OSTCBDly'[v] = OSTCBDly[v],
         OSTCBStat'[u] \subseteq {"SUSPEND"},
         \A v \in Tasks : pc'[v] \in {"pend", "wake"} <=> pc[v] \in {"pend", "wake"}
  PROVE  /\ \A v \in Tasks : PendOK(v)'
         /\ \A e \in Events, v \in Tasks : OnWaitList(v, e)' <=> OnWaitList(v, e)
         /\ \A e \in Events : (OSEventTbl[e] = MapOf(PriosOf(WaitSet(e))))'
<1>1. ASSUME NEW v \in Tasks \ {u}
      PROVE  PendOK(v)' /\ \A e : OnWaitList(v, e)' <=> OnWaitList(v, e)
  BY <1>1, PendFrame
<1>2. PendOK(u) /\ OSTCBEventMultiPtr[u] = {}
  BY DEF IInv, Lookups
<1>3. PendOK(u)'
  BY <1>2 DEF PendOK
<1>4. \A e \in Events : ~OnWaitList(u, e) /\ ~OnWaitList(u, e)'
  BY <1>2, CoreAssumption DEF OnWaitList, mutexVars
<1>5. \A e \in Events, v \in Tasks : OnWaitList(v, e)' <=> OnWaitList(v, e)
  BY <1>1, <1>4
<1>. QED BY <1>1, <1>3, <1>5, WaitListsFrame

LEMMA DlyStep ==
  ASSUME IInv, NEW t \in Tasks, NEW ticks \in Delays, OSTimeDly(t, ticks), UNCHANGED OSEventPtr
  PROVE  IInv'
<1>1. /\ OSTCBCur = t /\ t # IdleTask /\ pc[t] = "run" /\ Runnable(t) /\ OSLockNesting = 0
      /\ OSTCBEventPtr[t] = NoEvent
  BY CallerM DEF OSTimeDly
<1>2. /\ Unready(t) /\ OSTCBDly' = [OSTCBDly EXCEPT ![t] = ticks]
      /\ pc' = [pc EXCEPT ![t] = "sched"]
      /\ UNCHANGED <<OSTCBPrio, OSTCBStat, OSTCBStatPend, OSTCBEventPtr, OSTCBEventMultiPtr,
                     tblVars, eventVars, curVars, nestVars>>
  BY DEF OSTimeDly, Goto
<1>3. ticks \in Nat \ {0}
  BY TimeAssumption
<1>4. UNCHANGED <<mutexVars, OSTCBStatPend, OSTCBEventPtr, OSEventTbl>>
  BY <1>2 DEF mutexVars, tblVars, eventVars
<1>5. ReadySet' = ReadySet \ {t}
  BY <1>1, <1>2, <1>3 DEF IInv, TypeOK, ReadySet, Runnable
<1>6. /\ \A v \in Tasks : PendOK(v)'
      /\ \A e \in Events, v \in Tasks : OnWaitList(v, e)' <=> OnWaitList(v, e)
      /\ \A e \in Events : (OSEventTbl[e] = MapOf(PriosOf(WaitSet(e))))'
  <2>1. OSTCBStat'[t] \subseteq {"SUSPEND"}
    BY <1>1, <1>2 DEF Runnable
  <2>2. /\ \A v \in Tasks \ {t} : OSTCBStat'[v] = OSTCBStat[v] /\ OSTCBDly'[v] = OSTCBDly[v]
        /\ \A v \in Tasks : pc'[v] \in {"pend", "wake"} <=> pc[v] \in {"pend", "wake"}
    BY <1>1, <1>2 DEF IInv, TypeOK
  <2>. QED BY <1>1, <1>4, <2>1, <2>2, OutOfPend
<1>7. Lists'
  BY <1>2, <1>5, <1>6, ReadyLeaves DEF Lists
<1>8. TypeOK'
  <2>2. OSRdyTbl' \in PrioMap
    BY <1>2, <1>7, ListTypesPrime DEF IInv, TypeOK, PrioTyped, MapsTyped
  <2>. QED BY <1>2, <1>3, <2>2 DEF IInv, TypeOK, Pcs, tblVars, eventVars, curVars, nestVars
<1>9. Running'
  <2>1. Runnable(IdleTask)' /\ pc'[IdleTask] = "run" /\ OSTCBEventPtr'[IdleTask] = NoEvent
    BY <1>1, <1>2, CoreAssumption DEF IInv, TypeOK, Running, IdleOK, Runnable
  <2>2. pc'[OSTCBCur] = "sched"
    BY <1>1, <1>2 DEF IInv, TypeOK
  <2>. QED BY <1>1, <1>2, <2>1, <2>2, RunningFrame DEF IInv, nestVars
<1>. QED BY <1>4, <1>6, <1>7, <1>8, <1>9, MutexFrameIInv

LEMMA SuspendStep ==
  ASSUME Plain, IInv, NEW t \in Tasks, NEW prio \in Prios,
         MaySuspend(t, prio), OSTaskSuspend(t, prio), UNCHANGED OSEventPtr
  PROVE  IInv'
<1>. PICK u \in Tasks : u = OSTCBPrioTbl[prio]
  BY DEF OSTaskSuspend
<1>1. /\ prio < LowestPrio /\ Unready(u)
      /\ OSTCBStat' = [OSTCBStat EXCEPT ![u] = OSTCBStat[u] \cup {"SUSPEND"}]
      /\ IF prio = OSTCBPrio[t] THEN pc' = [pc EXCEPT ![t] = "sched"] ELSE pc' = pc
      /\ UNCHANGED <<OSTCBPrio, OSTCBStatPend, OSTCBDly, OSTCBEventPtr, OSTCBEventMultiPtr,
                     tblVars, eventVars, curVars, nestVars>>
  BY DEF OSTaskSuspend, Goto
<1>2. OSTCBCur = t /\ pc[t] = "run" /\ t # IdleTask
  BY CallerM DEF OSTaskSuspend
<1>3. OSTCBEventPtr[u] = NoEvent /\ OSTCBPrio[u] = prio /\ OSLockNesting = 0
  BY DEF Plain, MaySuspend, IInv, TypeOK
<1>4. u # IdleTask /\ (prio = OSTCBPrio[t] <=> u = t)
  <2>1. u = IdleTask => OSTCBPrio[u] = LowestPrio
    <3>1. \A e \in Events : Owner(e) # IdleTask
      BY CoreAssumption DEF IInv, Ownership, Owner
    <3>. QED BY <3>1, NotPromoted, CoreAssumption DEF IInv
  <2>2. OSTCBPrio[u] = OSTCBPrio[t] => u = t
    BY PriosApart DEF IInv
  <2>. QED BY <1>1, <1>3, <2>1, <2>2, LowestPrioAssumption
<1>5. UNCHANGED <<mutexVars, OSTCBStatPend, OSTCBEventPtr, OSEventTbl>>
  BY <1>1 DEF mutexVars, tblVars, eventVars
<1>6. ReadySet' = ReadySet \ {u}
  BY <1>1 DEF IInv, TypeOK, ReadySet, Runnable
<1>7. /\ \A v \in Tasks : PendOK(v)'
      /\ \A e \in Events, v \in Tasks : OnWaitList(v, e)' <=> OnWaitList(v, e)
      /\ \A e \in Events : (OSEventTbl[e] = MapOf(PriosOf(WaitSet(e))))'
  <2>1. OSTCBStat'[u] \subseteq {"SUSPEND"}
    <3>1. OSTCBStat[u] \subseteq {"SUSPEND"}
      BY <1>3 DEF IInv, PendOK
    <3>. QED BY <1>1, <3>1 DEF IInv, TypeOK
  <2>2. /\ \A v \in Tasks \ {u} : OSTCBStat'[v] = OSTCBStat[v] /\ OSTCBDly'[v] = OSTCBDly[v]
        /\ \A v \in Tasks : pc'[v] \in {"pend", "wake"} <=> pc[v] \in {"pend", "wake"}
    BY <1>1, <1>2 DEF IInv, TypeOK
  <2>. QED BY <1>3, <1>5, <2>1, <2>2, OutOfPend
<1>8. Lists'
  BY <1>1, <1>6, <1>7, ReadyLeaves DEF Lists
<1>9. TypeOK'
  <2>2. OSRdyTbl' \in PrioMap
    BY <1>1, <1>8, ListTypesPrime DEF IInv, TypeOK, PrioTyped, MapsTyped
  <2>3. OSTCBStat' \in [Tasks -> SUBSET Stats] /\ pc' \in [Tasks -> Pcs]
    BY <1>1 DEF IInv, TypeOK, Stats, Pcs
  <2>. QED BY <1>1, <2>2, <2>3 DEF IInv, TypeOK, tblVars, eventVars, curVars, nestVars
<1>10. Running'
  <2>1. Runnable(IdleTask)' /\ pc'[IdleTask] = "run" /\ OSTCBEventPtr'[IdleTask] = NoEvent
    BY <1>1, <1>2, <1>4, CoreAssumption DEF IInv, TypeOK, Running, IdleOK, Runnable
  <2>2. CASE u = t
    <3>1. pc'[OSTCBCur] = "sched"
      BY <1>1, <1>2, <1>4, <2>2 DEF IInv, TypeOK
    <3>. QED BY <1>1, <1>3, <2>1, <3>1, RunningFrame DEF IInv, nestVars
  <2>3. CASE u # t
    <3>1. OSTCBStat'[t] = OSTCBStat[t] /\ OSTCBCur' = t
      BY <1>1, <1>2, <2>3 DEF IInv, TypeOK, curVars
    <3>2. Runnable(OSTCBCur)'
      BY <1>1, <1>2, <3>1 DEF IInv, Running, Runnable
    <3>3. OSLockNesting > 0 => pc'[OSTCBCur] \in {"run", "sched"}
      BY <1>3
    <3>. QED BY <1>1, <2>1, <3>2, <3>3, RunningFrame DEF IInv, nestVars
  <2>. QED BY <2>2, <2>3
<1>. QED BY <1>5, <1>7, <1>8, <1>9, <1>10, MutexFrameIInv

LEMMA ResumeStep ==
  ASSUME IInv, NEW t \in Tasks, NEW prio \in Prios, OSTaskResume(t, prio), UNCHANGED OSEventPtr
  PROVE  IInv'
<1>. PICK u \in Tasks : u = OSTCBPrioTbl[prio]
  BY DEF OSTaskResume
<1>. PICK stat : stat = OSTCBStat[u] \ {"SUSPEND"}
  OBVIOUS
<1>1. /\ "SUSPEND" \in OSTCBStat[u]
      /\ OSTCBStat' = [OSTCBStat EXCEPT ![u] = stat]
      /\ IF stat = {} /\ OSTCBDly[u] = 0
           THEN OSRdyTbl' = MapSet(OSRdyTbl, {OSTCBPrio[u]}) /\ pc' = [pc EXCEPT ![t] = "sched"]
           ELSE OSRdyTbl' = OSRdyTbl /\ pc' = pc
      /\ UNCHANGED <<OSTCBPrio, OSTCBStatPend, OSTCBDly, OSTCBEventPtr, OSTCBEventMultiPtr,
                     tblVars, eventVars, curVars, nestVars>>
  BY DEF OSTaskResume, Goto
<1>2. OSTCBCur = t /\ pc[t] = "run" /\ t # IdleTask /\ Runnable(t)
  BY CallerM DEF OSTaskResume
<1>3. /\ u # IdleTask /\ ~Runnable(u) /\ u # t
      /\ OSTCBEventPtr[u] = NoEvent /\ OSTCBStat[u] \subseteq {"SUSPEND"}
  BY <1>1, <1>2 DEF IInv, Running, IdleOK, Runnable, PendOK
<1>4. UNCHANGED <<mutexVars, OSTCBStatPend, OSTCBEventPtr, OSEventTbl>>
  BY <1>1 DEF mutexVars, tblVars, eventVars
<1>5. stat = {} /\ OSTCBStat'[u] = {}
  BY <1>1, <1>3 DEF IInv, TypeOK
<1>6. /\ \A v \in Tasks : PendOK(v)'
      /\ \A e \in Events, v \in Tasks : OnWaitList(v, e)' <=> OnWaitList(v, e)
      /\ \A e \in Events : (OSEventTbl[e] = MapOf(PriosOf(WaitSet(e))))'
  <2>1. OSTCBStat'[u] \subseteq {"SUSPEND"}
    BY <1>5
  <2>2. /\ \A v \in Tasks \ {u} : OSTCBStat'[v] = OSTCBStat[v] /\ OSTCBDly'[v] = OSTCBDly[v]
        /\ \A v \in Tasks : pc'[v] \in {"pend", "wake"} <=> pc[v] \in {"pend", "wake"}
    BY <1>1, <1>2 DEF IInv, TypeOK
  <2>. QED BY <1>3, <1>4, <2>1, <2>2, OutOfPend
<1>7. \A v \in Tasks : IF v = u THEN Runnable(v)' <=> OSTCBDly[u] = 0
                                ELSE Runnable(v)' <=> Runnable(v)
  <2>1. \A v \in Tasks \ {u} : OSTCBStat'[v] = OSTCBStat[v]
    BY <1>1 DEF IInv, TypeOK
  <2>. QED BY <1>1, <1>5, <2>1 DEF Runnable
<1>8. Lists'
  <2>1. CASE OSTCBDly[u] = 0
    <3>1. ReadySet' = ReadySet \cup {u}
      BY <1>7, <2>1 DEF ReadySet
    <3>2. {OSTCBPrio[u]} = {OSTCBPrio[v] : v \in {u}} /\ {u} \in SUBSET Tasks
      OBVIOUS
    <3>. QED BY <1>1, <1>5, <1>6, <2>1, <3>1, <3>2, ReadyJoins DEF Lists
  <2>2. CASE OSTCBDly[u] # 0
    <3>1. ReadySet' = ReadySet
      BY <1>3, <1>7, <2>2 DEF ReadySet
    <3>2. Current(ReadySet)' = Current(ReadySet)
      BY <1>1, <3>1 DEF Current
    <3>. QED BY <1>1, <1>6, <2>2, <3>2 DEF IInv, Lists
  <2>. QED BY <2>1, <2>2
<1>9. TypeOK'
  <2>2. OSRdyTbl' \in PrioMap
    BY <1>1, <1>8, ListTypesPrime DEF IInv, TypeOK, PrioTyped, MapsTyped
  <2>3. OSTCBStat' \in [Tasks -> SUBSET Stats] /\ pc' \in [Tasks -> Pcs]
    BY <1>1 DEF IInv, TypeOK, Stats, Pcs
  <2>. QED BY <1>1, <2>2, <2>3 DEF IInv, TypeOK, tblVars, eventVars, curVars, nestVars
<1>10. Running'
  <2>1. Runnable(IdleTask)' /\ pc'[IdleTask] = "run" /\ OSTCBEventPtr'[IdleTask] = NoEvent
    BY <1>1, <1>2, <1>3, <1>7, CoreAssumption DEF IInv, TypeOK, Running, IdleOK
  <2>2. OSTCBCur' = t /\ Runnable(t)'
    BY <1>1, <1>2, <1>3, <1>7 DEF curVars
  <2>3. Runnable(OSTCBCur)'
    BY <2>2 DEF Runnable
  <2>4. pc'[OSTCBCur] \in {"run", "sched"}
    BY <1>1, <1>2 DEF IInv, TypeOK
  <2>. QED BY <1>1, <2>1, <2>3, <2>4, RunningFrame DEF IInv, nestVars
<1>. QED BY <1>4, <1>6, <1>8, <1>9, <1>10, MutexFrameIInv
-----------------------------------------------------------------------------
(* OSMutexPend() comes back: a task that timed out leaves the wait list.   *)
LEMMA ReturnStep ==
  ASSUME IInv, NEW t \in Tasks, PendReturn(t), UNCHANGED OSEventPtr
  PROVE  IInv'
<1> DEFINE e == OSTCBEventPtr[t]
           out == OSTCBStatPend[t] \notin {"OK", "ABORT"}
<1>1. /\ OSTCBCur = t /\ pc[t] = "wake" /\ OSIntNesting = 0
      /\ OSEventTbl' = IF out THEN [OSEventTbl EXCEPT ![e] = MapClr(OSEventTbl[e], {OSTCBPrio[t]})]
                              ELSE OSEventTbl
      /\ OSTCBStat' = [OSTCBStat EXCEPT ![t] = {}]
      /\ OSTCBStatPend' = [OSTCBStatPend EXCEPT ![t] = "OK"]
      /\ OSTCBEventPtr' = [OSTCBEventPtr EXCEPT ![t] = NoEvent]
      /\ OSTCBEventMultiPtr' = [OSTCBEventMultiPtr EXCEPT ![t] = {}]
      /\ pc' = [pc EXCEPT ![t] = "run"]
      /\ UNCHANGED <<OSTCBPrio, OSTCBDly, tblVars, OSRdyTbl, OSEventType, OSEventCnt,
                     curVars, nestVars>>
  BY DEF PendReturn, At, Goto
<1>2. Runnable(t) /\ t # IdleTask /\ OSLockNesting = 0
  BY <1>1 DEF IInv, TypeOK, Running, IdleOK
<1>3. e \in Events /\ OSTCBStat[t] = {} /\ OSTCBDly[t] = 0
  BY <1>1, <1>2 DEF IInv, TypeOK, PendOK, Runnable
<1>4. OSTCBEventMultiPtr' = OSTCBEventMultiPtr /\ OSTCBStat' = OSTCBStat
  BY <1>1, <1>3 DEF IInv, TypeOK, Lookups
<1>5. UNCHANGED mutexVars
  BY <1>1, <1>4 DEF mutexVars, tblVars
<1>6. \A v \in Tasks \ {t} : PendOK(v)' /\ \A f : OnWaitList(v, f)' <=> OnWaitList(v, f)
  <2> SUFFICES ASSUME NEW v \in Tasks \ {t}
               PROVE  PendOK(v)' /\ \A f : OnWaitList(v, f)' <=> OnWaitList(v, f)
    OBVIOUS
  <2>1. /\ OSTCBStat'[v] = OSTCBStat[v] /\ OSTCBStatPend'[v] = OSTCBStatPend[v]
        /\ OSTCBDly'[v] = OSTCBDly[v] /\ OSTCBEventPtr'[v] = OSTCBEventPtr[v] /\ pc'[v] = pc[v]
    BY <1>1, <1>4 DEF IInv, TypeOK
  <2>. QED BY <2>1, <1>5, PendFrame
<1>7. PendOK(t)' /\ \A f \in Events : ~OnWaitList(t, f)'
  <2>1. /\ OSTCBStat'[t] = {} /\ OSTCBStatPend'[t] = "OK" /\ OSTCBEventPtr'[t] = NoEvent
        /\ pc'[t] = "run" /\ OSTCBEventMultiPtr'[t] = {}
    BY <1>1 DEF IInv, TypeOK
  <2>. QED BY <2>1 DEF PendOK, OnWaitList, PendAny
<1>8. \A f \in Events : OnWaitList(t, f) <=> out /\ f = e
  BY <1>3 DEF IInv, TypeOK, PendStats, Lookups, OnWaitList
<1>9. Lists'
  <2>1. ASSUME NEW f \in Events PROVE OSEventTbl'[f] = MapOf(PriosOf(WaitSet(f)')) 
    <3>1. CASE out /\ f = e
      <4>1. WaitSet(f)' = WaitSet(f) \ {t} /\ WaitSet(f) \in SUBSET Tasks
        BY <1>6, <1>7 DEF WaitSet
      <4>2. OnWaitList(t, f)
        BY <1>8, <3>1
      <4>3. OSTCBPrio[t] = BasePrio[t]
        BY <4>2, Waiters
      <4>4. OSEventTbl'[f] = MapClr(OSEventTbl[f], PriosOf({t}))
        BY <1>1, <3>1, <4>3, PriosOfOne DEF IInv, TypeOK
      <4>5. OSEventTbl[f] = MapOf(PriosOf(WaitSet(f)))
        BY DEF IInv, Lists
      <4>6. MapClr(MapOf(PriosOf(WaitSet(f))), PriosOf({t})) = MapOf(PriosOf(WaitSet(f) \ {t}))
        BY <4>1, LeaveList
      <4>. QED BY <4>1, <4>4, <4>5, <4>6
    <3>2. CASE ~(out /\ f = e)
      <4>1. WaitSet(f)' = WaitSet(f)
        BY <1>6, <1>7, <1>8, <3>2 DEF WaitSet
      <4>2. OSEventTbl'[f] = OSEventTbl[f]
        BY <1>1, <1>3, <3>2 DEF IInv, TypeOK
      <4>. QED BY <4>1, <4>2 DEF IInv, Lists
    <3>. QED BY <3>1, <3>2
  <2>2. \A f \in Events : (OSEventTbl[f] = MapOf(PriosOf(WaitSet(f))))'
    BY <2>1 DEF PriosOf
  <2>. QED BY <1>1, <1>4, <2>2, ReadyFrameM DEF Lists
<1>10. TypeOK'
  <2>2. OSEventTbl' \in [Events -> PrioMap]
    <3>1. \A f \in Events : OSEventTbl'[f] \in PrioMap
      BY <1>1, <1>9, ListTypesPrime DEF IInv, TypeOK, PrioTyped, MapsTyped
    <3>2. OSEventTbl' = [f \in Events |-> OSEventTbl'[f]]
      BY <1>1 DEF IInv, TypeOK
    <3>. QED BY <3>1, <3>2
  <2>. QED BY <1>1, <1>4, <2>2 DEF IInv, TypeOK, PendStats, Pcs, tblVars, curVars, nestVars
<1>11. Running'
  <2>1. Runnable(IdleTask)' /\ pc'[IdleTask] = "run" /\ OSTCBEventPtr'[IdleTask] = NoEvent
    BY <1>1, <1>2, <1>4, CoreAssumption DEF IInv, TypeOK, Running, IdleOK, Runnable
  <2>2. Runnable(OSTCBCur)'
    BY <1>1, <1>2, <1>4 DEF Runnable, curVars
  <2>. QED BY <1>1, <1>2, <2>1, <2>2, RunningFrame DEF IInv, nestVars
<1>12. \A f \in Events, v \in Tasks : OnWaitList(v, f)' => OnWaitList(v, f)
  BY <1>6, <1>7
<1>. QED BY <1>5, <1>6, <1>7, <1>9, <1>10, <1>11, <1>12, MutexFrameIInv

-----------------------------------------------------------------------------
(* OSMutexCreate() and an OSMutexPend() that finds the mutex available.    *)

(* The parts of IInv that are about the tables of the tasks, in a step     *)
(* that changes none of them.                                              *)
LEMMA TasksFrame ==
  ASSUME IInv, UNCHANGED <<tcbVars, OSRdyTbl, curVars, nestVars, pc>>,
         \A e \in Events : OSEventTbl'[e] = OSEventTbl[e]
  PROVE  /\ Lists' /\ Running'
         /\ \A e, t : OnWaitList(t, e)' <=> OnWaitList(t, e)
<1>1. \A e, t : OnWaitList(t, e)' <=> OnWaitList(t, e)
  BY DEF OnWaitList, tcbVars
<1>2. \A e : WaitSet(e)' = WaitSet(e)
  BY <1>1 DEF WaitSet
<1>3. \A e \in Events : (OSEventTbl[e] = MapOf(PriosOf(WaitSet(e))))'
  BY <1>2 DEF IInv, Lists, PriosOf
<1>4. Lists'
  BY <1>3, ReadyFrameM DEF Lists, tcbVars
<1>5. Running'
  BY DEF IInv, Running, IdleOK, Runnable, tcbVars, curVars, nestVars
<1>. QED BY <1>1, <1>4, <1>5

LEMMA CreateStep ==
  ASSUME IInv, NEW t \in Tasks, NEW e \in Events, NEW prio \in Ceilings, OSMutexCreate(t, e, prio)
  PROVE  IInv'
<1>1. /\ OSEventType[e] = "UNUSED"
      /\ OSEventType' = [OSEventType EXCEPT ![e] = "MUTEX"]
      /\ OSEventCnt' = [OSEventCnt EXCEPT ![e] = Word(prio, Available)]
      /\ OSEventPtr' = [OSEventPtr EXCEPT ![e] = NoTCB]
      /\ OSEventTbl' = [OSEventTbl EXCEPT ![e] = EmptyMap]
      /\ UNCHANGED <<tcbVars, OSTCBList, OSRdyTbl, curVars, nestVars, pc>>
      /\ IF prio = CeilDis THEN OSTCBPrioTbl' = OSTCBPrioTbl
         ELSE /\ OSTCBPrioTbl[prio] = NoTCB
              /\ OSTCBPrioTbl' = [OSTCBPrioTbl EXCEPT ![prio] = Reserved]
  BY DEF OSMutexCreate
<1>2. ~IsMutex(e) /\ Owner(e) = NoTCB
  BY <1>1 DEF IsMutex, IInv, Ownership
<1>3. /\ IsMutex(e)' /\ OSEventCnt'[e] = Word(prio, Available) /\ Owner(e)' = NoTCB
      /\ \A f \in Events : Owner(f)' = Owner(f)
      /\ \A f \in Events \ {e} : /\ IsMutex(f)' <=> IsMutex(f)
                                 /\ OSEventCnt'[f] = OSEventCnt[f] /\ Pcp(f)' = Pcp(f)
                                 /\ OSEventType'[f] = OSEventType[f]
  BY <1>1, <1>2 DEF IInv, TypeOK, Ownership, IsMutex, Owner, Pcp
<1>4. Word(prio, Available) \in Nat /\ Pcp(e)' = prio
  <2>1. prio \in 0 .. 255 /\ Available \in 0 .. 255
    BY CeilingRange DEF Available
  <2>2. Pcp(e)' = Word(prio, Available) \div 256
    BY <1>3 DEF Pcp
  <2>. QED BY <2>1, <2>2 DEF Word
<1>5. \A p \in Prios : OSTCBPrioTbl'[p] = IF p = prio THEN Reserved ELSE OSTCBPrioTbl[p]
  <2>1. prio = CeilDis => prio \notin Prios
    BY PrioRange DEF CeilDis, Available
  <2>. QED BY <1>1, <2>1 DEF IInv, TypeOK
<1>6. prio # CeilDis => prio \in Prios /\ OSTCBPrioTbl[prio] = NoTCB
  BY <1>1, CeilingRange
<1>7. OSEventTbl[e] = EmptyMap
  <2>1. WaitSet(e) = {}
    BY <1>2, Waiters DEF WaitSet
  <2>2. PriosOf({}) = {}
    BY DEF PriosOf
  <2>. QED BY <2>1, <2>2, MapOfEmpty DEF IInv, Lists
<1>8. OSEventTbl' = OSEventTbl
  BY <1>1, <1>7 DEF IInv, TypeOK
<1>9. /\ Lists' /\ Running'
      /\ \A f, u : OnWaitList(u, f)' <=> OnWaitList(u, f)
  BY <1>1, <1>8, TasksFrame
<1>10. Lookups'
  <2>1. \A p \in Prios : OSTCBPrioTbl[p] \in Tasks => OSTCBPrioTbl'[p] = OSTCBPrioTbl[p]
    BY <1>5, <1>6, CoreAssumption, PrioRange DEF CeilDis, Available
  <2>2. \A u \in Tasks : BasePrio[u] \in Prios /\ OSTCBPrio[u] \in Prios
    BY CoreAssumption DEF IInv, TypeOK
  <2>. QED BY <1>1, <2>1, <2>2 DEF IInv, Lookups, tcbVars
<1>11. Ownership'
  <2>1. OSEventPtr' \in [Events -> (Tasks \ {IdleTask}) \cup {NoTCB}]
    BY <1>1 DEF IInv, Ownership
  <2>2. ASSUME NEW f \in Events
        PROVE  IF IsMutex(f)' THEN MutexHolds(f)' ELSE OSEventType'[f] = "UNUSED" /\ Owner(f)' = NoTCB
    <3>1. CASE f = e
      BY <1>3, <3>1 DEF MutexHolds
    <3>2. CASE f # e
      BY <1>3, <3>2 DEF IInv, Ownership, MutexHolds
    <3>. QED BY <3>1, <3>2
  <2>3. \A f, g \in Events : Owner(f)' # NoTCB /\ Owner(f)' = Owner(g)' => f = g
    BY <1>3 DEF IInv, Ownership
  <2>4. ASSUME NEW f \in Events, f # e, IsMutex(f), Pcp(f) # CeilDis
        PROVE  Pcp(f) # prio
    <3>1. Pcp(f) \in Prios
      BY <2>4, MutexParts DEF IInv
    <3>2. OSTCBPrioTbl[Pcp(f)] # NoTCB
      BY <2>4, CoreAssumption DEF IInv, Ownership, CeilingEntry
    <3>. QED BY <2>4, <3>2, <1>6
  <2>5. \A f, g \in Events : IsMutex(f)' /\ IsMutex(g)' /\ Pcp(f)' = Pcp(g)' /\ Pcp(f)' # CeilDis => f = g
    BY <1>3, <1>4, <2>4 DEF IInv, Ownership
  <2>6. \A u \in Tasks : Promoted(u)' => \E f \in Events : Owner(f)' = u /\ OSTCBPrio'[u] = Pcp(f)'
    <3> SUFFICES ASSUME NEW u \in Tasks, Promoted(u)'
                 PROVE  \E f \in Events : Owner(f)' = u /\ OSTCBPrio'[u] = Pcp(f)'
      OBVIOUS
    <3>1. Promoted(u) /\ OSTCBPrio' = OSTCBPrio
      BY <1>1 DEF Promoted, tcbVars
    <3>2. PICK f \in Events : Owner(f) = u /\ OSTCBPrio[u] = Pcp(f)
      BY <3>1 DEF IInv, Ownership
    <3>3. f # e
      BY <1>2, <3>2, CoreAssumption
    <3>. QED BY <1>3, <3>1, <3>2, <3>3
  <2>7. CeilingEntry'
    <3> SUFFICES ASSUME NEW f \in Events, IsMutex(f)', Pcp(f)' # CeilDis
                 PROVE  OSTCBPrioTbl'[Pcp(f)'] =
                          IF Owner(f)' # NoTCB /\ OSTCBPrio'[Owner(f)'] = Pcp(f)' THEN Owner(f)' ELSE Reserved
      BY DEF CeilingEntry
    <3>1. CASE f = e
      BY <1>3, <1>4, <1>5, <1>6, <3>1
    <3>2. CASE f # e
      <4>1. IsMutex(f) /\ Pcp(f)' = Pcp(f) /\ Pcp(f) # CeilDis
        BY <1>3, <3>2
      <4>2. Pcp(f) \in Prios /\ Pcp(f) # prio
        BY <4>1, <3>2, <2>4, MutexParts DEF IInv
      <4>3. OSTCBPrioTbl'[Pcp(f)] = OSTCBPrioTbl[Pcp(f)] /\ OSTCBPrio' = OSTCBPrio /\ Owner(f)' = Owner(f)
        BY <1>1, <1>3, <1>5, <4>2 DEF tcbVars
      <4>. QED BY <4>1, <4>3 DEF IInv, Ownership, CeilingEntry
    <3>. QED BY <3>1, <3>2
  <2>. QED BY <2>1, <2>2, <2>3, <2>5, <2>6, <2>7 DEF Ownership
<1>12. TypeOK'
  <2>1. OSTCBPrioTbl' \in [Prios -> Tasks \cup {NoTCB, Reserved}]
    BY <1>1 DEF IInv, TypeOK
  <2>2. /\ OSEventType' \in [Events -> {"UNUSED", "SEM", "MUTEX"}]
        /\ OSEventCnt' \in [Events -> Nat]
    BY <1>1, <1>4 DEF IInv, TypeOK
  <2>. QED BY <1>1, <1>8, <2>1, <2>2 DEF IInv, TypeOK, tcbVars, curVars, nestVars
<1>13. \A u \in Tasks : PendOK(u)'
  <2> TAKE u \in Tasks
  <2>1. PendOK(u) /\ (OSTCBEventPtr[u] # NoEvent => OSTCBEventPtr[u] \in Events)
    BY DEF IInv, TypeOK
  <2>2. OSTCBEventPtr[u] # NoEvent => OSTCBEventPtr[u] # e
    BY <2>1, <1>2 DEF PendOK
  <2>3. UNCHANGED <<OSTCBStat, OSTCBStatPend, OSTCBDly, OSTCBEventPtr, pc>>
    BY <1>1 DEF tcbVars
  <2>. QED BY <1>3, <1>9, <2>1, <2>2, <2>3 DEF PendOK
<1>14. OwnerOutranksWaiters'
  <2> SUFFICES ASSUME NEW f \in Events, NEW u \in Tasks, IsMutex(f)', Pcp(f)' # CeilDis, OnWaitList(u, f)'
               PROVE  Owner(f)' # NoTCB /\ OSTCBPrio'[Owner(f)'] < OSTCBPrio'[u]
    BY DEF OwnerOutranksWaiters
  <2>1. OnWaitList(u, f) /\ f # e
    BY <1>2, <1>9, Waiters
  <2>2. IsMutex(f) /\ Pcp(f) # CeilDis
    BY <1>3, <2>1
  <2>3. Owner(f) # NoTCB /\ OSTCBPrio[Owner(f)] < OSTCBPrio[u]
    BY <2>1, <2>2 DEF IInv, OwnerOutranksWaiters
  <2>. QED BY <1>1, <1>3, <2>3 DEF tcbVars
<1>. QED BY <1>9, <1>10, <1>11, <1>12, <1>13, <1>14 DEF IInv
-----------------------------------------------------------------------------
(* A mutex gets another owner, or none: the old one goes back to its base  *)
(* priority, and the ceiling is reserved again.                            *)
LEMMA HandOver ==
  ASSUME IInv, NEW e \in Events, IsMutex(e), NEW o \in (Tasks \ {IdleTask}) \cup {NoTCB},
         o # NoTCB => \A f \in Events : Owner(f) # o,
         OSEventPtr' = [OSEventPtr EXCEPT ![e] = o],
         OSEventCnt' = [OSEventCnt EXCEPT ![e] = Word(Pcp(e), IF o = NoTCB THEN Available ELSE BasePrio[o])],
         UNCHANGED <<OSEventType, OSTCBList, OSTCBEventMultiPtr>>,
         \A u \in Tasks : OSTCBPrio'[u] = IF u = Owner(e) THEN BasePrio[u] ELSE OSTCBPrio[u],
         \A p \in Prios : OSTCBPrioTbl'[p] = IF p = Pcp(e) THEN Reserved ELSE OSTCBPrioTbl[p]
  PROVE  /\ Lookups' /\ Ownership' /\ OSEventCnt' \in [Events -> Nat]
         /\ Owner(e)' = o
         /\ \A f \in Events \ {e} : Owner(f)' = Owner(f)
         /\ \A f \in Events : Pcp(f)' = Pcp(f) /\ (IsMutex(f)' <=> IsMutex(f))
<1>1. /\ Pcp(e) \in Ceilings
      /\ Pcp(e) # CeilDis => Pcp(e) \in Prios /\ \A u \in Tasks : Pcp(e) < BasePrio[u]
      /\ Pcp(e) = CeilDis => Pcp(e) \notin Prios
  BY MutexParts, PrioRange DEF IInv, CeilDis, Available
<1>2. /\ Owner(e)' = o
      /\ \A f \in Events \ {e} : Owner(f)' = Owner(f) /\ OSEventCnt'[f] = OSEventCnt[f] /\ Pcp(f)' = Pcp(f)
      /\ \A f \in Events : (IsMutex(f)' <=> IsMutex(f)) /\ OSEventType'[f] = OSEventType[f]
      /\ OSEventCnt'[e] = Word(Pcp(e), IF o = NoTCB THEN Available ELSE BasePrio[o])
  BY DEF IInv, TypeOK, Ownership, Owner, Pcp, IsMutex
<1>3. OSEventCnt'[e] \in Nat /\ Pcp(e)' = Pcp(e)
  <2>1. OSEventCnt'[e] \in Nat /\ OSEventCnt'[e] \div 256 = Pcp(e)
    BY <1>1, <1>2, WordOfMutex
  <2>. QED BY <2>1 DEF Pcp
<1>4. \A u \in Tasks : Pcp(e) # BasePrio[u] /\ BasePrio[u] \in Prios /\ OSTCBPrio[u] \in Prios
  <2> TAKE u \in Tasks
  <2>1. BasePrio[u] \in Prios /\ BasePrio[u] \in Int /\ OSTCBPrio[u] \in Prios
    BY BaseRange DEF IInv, TypeOK
  <2>2. CASE Pcp(e) = CeilDis
    BY <1>1, <2>1, <2>2
  <2>3. CASE Pcp(e) # CeilDis
    <3>1. Pcp(e) < BasePrio[u] /\ Pcp(e) \in Int
      BY <1>1, <2>3, PrioRange
    <3>. QED BY <2>1, <3>1
  <2>. QED BY <2>2, <2>3
<1>5. \A u \in Tasks : u # Owner(e) => OSTCBPrio[u] # Pcp(e)
  <2> SUFFICES ASSUME NEW u \in Tasks, OSTCBPrio[u] = Pcp(e) PROVE u = Owner(e)
    OBVIOUS
  <2>1. Promoted(u) /\ Pcp(e) # CeilDis
    BY <1>1, <1>4 DEF Promoted
  <2>2. PICK f \in Events : Owner(f) = u /\ OSTCBPrio[u] = Pcp(f)
    BY <2>1 DEF IInv, Ownership
  <2>3. IsMutex(f) /\ Pcp(f) = Pcp(e)
    BY <2>2, OwnersPrio DEF IInv
  <2>4. f = e
    BY <2>1, <2>3 DEF IInv, Ownership
  <2>. QED BY <2>2, <2>4
<1>6. Lookups'
  BY <1>4, <1>5 DEF IInv, Lookups
<1>7. OSEventPtr' \in [Events -> (Tasks \ {IdleTask}) \cup {NoTCB}]
  BY DEF IInv, Ownership
<1>8. ASSUME NEW f \in Events
      PROVE  IF IsMutex(f)' THEN MutexHolds(f)' ELSE OSEventType'[f] = "UNUSED" /\ Owner(f)' = NoTCB
  <2>1. CASE f = e
    BY <1>1, <1>2, <2>1 DEF MutexHolds
  <2>2. CASE f # e
    BY <1>2, <2>2 DEF IInv, Ownership, MutexHolds
  <2>. QED BY <2>1, <2>2
<1>9. \A f, g \in Events : Owner(f)' # NoTCB /\ Owner(f)' = Owner(g)' => f = g
  BY <1>2 DEF IInv, Ownership
<1>10. \A f, g \in Events : IsMutex(f)' /\ IsMutex(g)' /\ Pcp(f)' = Pcp(g)' /\ Pcp(f)' # CeilDis => f = g
  BY <1>2, <1>3 DEF IInv, Ownership
<1>11. ASSUME NEW u \in Tasks, Promoted(u)'
       PROVE  \E f \in Events : Owner(f)' = u /\ OSTCBPrio'[u] = Pcp(f)'
  <2>1. u # Owner(e) /\ OSTCBPrio'[u] = OSTCBPrio[u] /\ Promoted(u)
    BY <1>11 DEF Promoted
  <2>2. PICK f \in Events : Owner(f) = u /\ OSTCBPrio[u] = Pcp(f)
    BY <2>1 DEF IInv, Ownership
  <2>3. f # e
    BY <2>1, <2>2
  <2>. QED BY <1>2, <2>1, <2>2, <2>3
<1>12. CeilingEntry'
  <2> SUFFICES ASSUME NEW f \in Events, IsMutex(f)', Pcp(f)' # CeilDis
               PROVE  OSTCBPrioTbl'[Pcp(f)'] =
                        IF Owner(f)' # NoTCB /\ OSTCBPrio'[Owner(f)'] = Pcp(f)' THEN Owner(f)' ELSE Reserved
    BY DEF CeilingEntry
  <2>1. CASE f = e
    <3>1. Pcp(e) \in Prios /\ OSTCBPrioTbl'[Pcp(e)] = Reserved
      BY <1>1, <1>3, <2>1
    <3>2. o # NoTCB => OSTCBPrio'[o] # Pcp(e)
      <4> SUFFICES ASSUME o # NoTCB PROVE OSTCBPrio'[o] # Pcp(e)
        OBVIOUS
      <4>1. o \in Tasks /\ o # Owner(e)
        OBVIOUS
      <4>. QED BY <4>1, <1>5
    <3>. QED BY <1>2, <1>3, <2>1, <3>1, <3>2
  <2>2. CASE f # e
    <3>1. IsMutex(f) /\ Pcp(f)' = Pcp(f) /\ Pcp(f) # CeilDis /\ Owner(f)' = Owner(f)
      BY <1>2, <2>2
    <3>2. Pcp(f) \in Prios /\ Pcp(f) # Pcp(e)
      BY <2>2, <3>1, MutexParts DEF IInv, Ownership
    <3>3. Owner(f) # NoTCB => Owner(f) \in Tasks /\ Owner(f) # Owner(e)
      BY <2>2 DEF IInv, Ownership, Owner
    <3>4. OSTCBPrioTbl'[Pcp(f)] = OSTCBPrioTbl[Pcp(f)]
      BY <3>2
    <3>5. OSTCBPrioTbl[Pcp(f)] = IF Owner(f) # NoTCB /\ OSTCBPrio[Owner(f)] = Pcp(f)
                                   THEN Owner(f) ELSE Reserved
      BY <3>1 DEF IInv, Ownership, CeilingEntry
    <3>. QED BY <3>1, <3>3, <3>4, <3>5
  <2>. QED BY <2>1, <2>2
<1>13. Ownership'
  BY <1>7, <1>8, <1>9, <1>10, <1>11, <1>12 DEF Ownership
<1>14. OSEventCnt' \in [Events -> Nat]
  <2>1. \A f \in Events : OSEventCnt'[f] \in Nat
    BY <1>2, <1>3 DEF IInv, TypeOK
  <2>2. OSEventCnt' = [f \in Events |-> OSEventCnt'[f]]
    BY DEF IInv, TypeOK
  <2>. QED BY <2>1, <2>2
<1>. QED BY <1>2, <1>3, <1>6, <1>13, <1>14

LEMMA TakeStep ==
  ASSUME IInv, NEW t \in Tasks, NEW e \in Events, OSMutexPendTake(t, e)
  PROVE  IInv'
<1>1. /\ IsMutex(e) /\ ~Owns(t) /\ OwnerPrio(e) = Available
      /\ OSEventCnt' = [OSEventCnt EXCEPT ![e] = Word(Pcp(e), OSTCBPrio[t])]
      /\ OSEventPtr' = [OSEventPtr EXCEPT ![e] = t]
      /\ UNCHANGED <<tcbVars, tblVars, OSRdyTbl, OSEventType, OSEventTbl, curVars, nestVars, pc>>
  BY DEF OSMutexPendTake
<1>2. t # IdleTask /\ OSTCBEventPtr[t] = NoEvent
  BY CallerM DEF OSMutexPendTake
<1>3. Owner(e) = NoTCB
  BY <1>1, MutexParts DEF IInv
<1>4. /\ \A f \in Events : Owner(f) # t
      /\ OSTCBPrio[t] = BasePrio[t]
  BY <1>1, OwnsIs, NotPromoted DEF IInv
<1>5. \A p \in Prios : OSTCBPrioTbl'[p] = IF p = Pcp(e) THEN Reserved ELSE OSTCBPrioTbl[p]
  <2>1. Pcp(e) \in Prios => Pcp(e) # CeilDis
    BY PrioRange DEF CeilDis, Available
  <2>2. Pcp(e) \in Prios => OSTCBPrioTbl[Pcp(e)] = Reserved
    BY <1>1, <1>3, <2>1 DEF IInv, Ownership, CeilingEntry
  <2>. QED BY <1>1, <2>2 DEF tblVars
<1>6. /\ Lookups' /\ Ownership' /\ OSEventCnt' \in [Events -> Nat]
      /\ Owner(e)' = t
      /\ \A f \in Events \ {e} : Owner(f)' = Owner(f)
      /\ \A f \in Events : Pcp(f)' = Pcp(f) /\ (IsMutex(f)' <=> IsMutex(f))
  <2>1. t # NoTCB
    BY CoreAssumption
  <2>2. OSEventCnt' = [OSEventCnt EXCEPT ![e] = Word(Pcp(e), IF t = NoTCB THEN Available ELSE BasePrio[t])]
    BY <1>1, <1>4, <2>1
  <2>3. \A u \in Tasks : OSTCBPrio'[u] = IF u = Owner(e) THEN BasePrio[u] ELSE OSTCBPrio[u]
    BY <1>1, <1>3, CoreAssumption DEF tcbVars
  <2>. QED BY <1>1, <1>2, <1>4, <1>5, <2>2, <2>3, HandOver DEF tcbVars, tblVars
<1>7. /\ Lists' /\ Running'
      /\ \A f, u : OnWaitList(u, f)' <=> OnWaitList(u, f)
  BY <1>1, TasksFrame
<1>8. TypeOK'
  BY <1>1, <1>6 DEF IInv, TypeOK, tcbVars, tblVars, curVars, nestVars
<1>9. \A u \in Tasks : PendOK(u)'
  <2> TAKE u \in Tasks
  <2>1. PendOK(u) /\ (OSTCBEventPtr[u] # NoEvent => OSTCBEventPtr[u] \in Events)
    BY DEF IInv, TypeOK
  <2>2. OSTCBEventPtr[u] # NoEvent => OSTCBEventPtr[u] # e /\ u # t
    BY <2>1, <1>2, <1>3 DEF PendOK
  <2>3. UNCHANGED <<OSTCBStat, OSTCBStatPend, OSTCBDly, OSTCBEventPtr, pc>>
    BY <1>1 DEF tcbVars
  <2>4. OSTCBEventPtr[u] # NoEvent =>
          ((\A f \in Events : Owner(f) # u) => (\A f \in Events : Owner(f)' # u))
    BY <1>6, <2>2
  <2>. QED BY <1>6, <1>7, <2>1, <2>2, <2>3, <2>4 DEF PendOK
<1>10. OwnerOutranksWaiters'
  <2> SUFFICES ASSUME NEW f \in Events, NEW u \in Tasks, IsMutex(f)', Pcp(f)' # CeilDis, OnWaitList(u, f)'
               PROVE  Owner(f)' # NoTCB /\ OSTCBPrio'[Owner(f)'] < OSTCBPrio'[u]
    BY DEF OwnerOutranksWaiters
  <2>1. OnWaitList(u, f) /\ f # e
    BY <1>3, <1>7, CoreAssumption, Waiters
  <2>2. Owner(f) # NoTCB /\ OSTCBPrio[Owner(f)] < OSTCBPrio[u]
    BY <1>6, <2>1 DEF IInv, OwnerOutranksWaiters
  <2>. QED BY <1>1, <1>6, <2>1, <2>2 DEF tcbVars
<1>. QED BY <1>6, <1>7, <1>8, <1>9, <1>10 DEF IInv
-----------------------------------------------------------------------------
(* OSMutexPend() that blocks, and the promotion of the owner.              *)

(* A promotion changes the priority of the owner alone, from its base      *)
(* priority to the ceiling, and the ceiling leads to it from then on.      *)
LEMMA Promotion ==
  ASSUME IInv, NEW e \in Events, NEW t \in Tasks, NEW o \in Tasks, IsMutex(e), Owner(e) = o, o # t,
         IF MustPromote(t, e) THEN /\ OSTCBPrio' = [OSTCBPrio EXCEPT ![o] = Pcp(e)]
                                   /\ OSTCBPrioTbl' = [OSTCBPrioTbl EXCEPT ![Pcp(e)] = o]
                              ELSE UNCHANGED <<OSTCBPrio, OSTCBPrioTbl>>,
         UNCHANGED <<OSTCBList, OSTCBEventMultiPtr, OSEventType, OSEventCnt, OSEventPtr>>
  PROVE  /\ Lookups' /\ Ownership'
         /\ OSTCBPrio' \in [Tasks -> Prios]
         /\ OSTCBPrioTbl' \in [Prios -> Tasks \cup {NoTCB, Reserved}]
         /\ \A u \in Tasks \ {o} : OSTCBPrio'[u] = OSTCBPrio[u]
         /\ OSTCBPrio'[o] <= OSTCBPrio[o]
         /\ Pcp(e) # CeilDis /\ OSTCBPrio[t] = BasePrio[t] => OSTCBPrio'[o] < BasePrio[t]
         /\ \A f \in Events : Owner(f)' = Owner(f) /\ Pcp(f)' = Pcp(f) /\ (IsMutex(f)' <=> IsMutex(f))
<1> DEFINE up == MustPromote(t, e)
<1>1. /\ Pcp(e) # CeilDis => Pcp(e) \in Prios /\ \A u \in Tasks : Pcp(e) < BasePrio[u]
      /\ OwnerPrio(e) = BasePrio[o] /\ Pcp(e) \in Int
  BY MutexParts, CoreAssumption DEF IInv
<1>2. OSTCBPrio[o] \in {BasePrio[o], Pcp(e)}
  BY OwnersPrio DEF IInv
<1>3. \A u \in Tasks : BasePrio[u] \in Int /\ OSTCBPrio[u] \in Int /\ OSTCBPrio[u] \in Prios /\ BasePrio[u] \in Prios
  BY BaseRange, PrioRange DEF IInv, TypeOK
<1>4. up => Pcp(e) # CeilDis /\ Pcp(e) \in Prios /\ OSTCBPrio[o] = BasePrio[o] /\ OSTCBPrio[o] > Pcp(e)
  <2>1. up => Pcp(e) # CeilDis /\ OSTCBPrio[o] > Pcp(e)
    BY DEF MustPromote, Owner
  <2>. QED BY <2>1, <1>1, <1>2, <1>3
<1>5. /\ \A u \in Tasks : OSTCBPrio'[u] = IF up /\ u = o THEN Pcp(e) ELSE OSTCBPrio[u]
      /\ \A p \in Prios : OSTCBPrioTbl'[p] = IF up /\ p = Pcp(e) THEN o ELSE OSTCBPrioTbl[p]
  BY <1>4 DEF IInv, TypeOK
<1>6. /\ OSTCBPrio' \in [Tasks -> Prios]
      /\ OSTCBPrioTbl' \in [Prios -> Tasks \cup {NoTCB, Reserved}]
  BY <1>4 DEF IInv, TypeOK
<1>7. \A f \in Events : Owner(f)' = Owner(f) /\ Pcp(f)' = Pcp(f) /\ (IsMutex(f)' <=> IsMutex(f))
                          /\ (MutexHolds(f)' <=> MutexHolds(f))
  BY DEF Owner, Pcp, IsMutex, MutexHolds
<1>8. up => OSTCBPrioTbl[Pcp(e)] = Reserved
  <2>1. up => OSTCBPrio[o] # Pcp(e)
    BY <1>4, <1>1, <1>3
  <2>. QED BY <1>4, <2>1 DEF IInv, Ownership, CeilingEntry
<1>9. \A u \in Tasks : up => BasePrio[u] # Pcp(e) /\ OSTCBPrio[u] # Pcp(e)
  BY <1>8, CoreAssumption DEF IInv, Lookups
<1>10. Lookups'
  <2>1. \A u \in Tasks : OSTCBPrioTbl'[BasePrio[u]] = u
    BY <1>3, <1>5, <1>9 DEF IInv, Lookups
  <2>2. \A u \in Tasks : OSTCBPrioTbl'[OSTCBPrio'[u]] = u
    <3> TAKE u \in Tasks
    <3>1. CASE up /\ u = o
      BY <1>4, <1>5, <3>1
    <3>2. CASE ~(up /\ u = o)
      BY <1>3, <1>5, <1>9, <3>2 DEF IInv, Lookups
    <3>. QED BY <3>1, <3>2
  <2>. QED BY <2>1, <2>2 DEF IInv, Lookups
<1>11. ASSUME NEW u \in Tasks, Promoted(u)'
       PROVE  \E f \in Events : Owner(f)' = u /\ OSTCBPrio'[u] = Pcp(f)'
  <2>1. CASE up /\ u = o
    BY <1>5, <1>7, <2>1
  <2>2. CASE ~(up /\ u = o)
    <3>1. OSTCBPrio'[u] = OSTCBPrio[u] /\ Promoted(u)
      BY <1>5, <1>11, <2>2 DEF Promoted
    <3>. QED BY <1>7, <3>1 DEF IInv, Ownership
  <2>. QED BY <2>1, <2>2
<1>12. CeilingEntry'
  <2> SUFFICES ASSUME NEW f \in Events, IsMutex(f), Pcp(f) # CeilDis
               PROVE  OSTCBPrioTbl'[Pcp(f)] =
                        IF Owner(f) # NoTCB /\ OSTCBPrio'[Owner(f)] = Pcp(f) THEN Owner(f) ELSE Reserved
    BY <1>7 DEF CeilingEntry
  <2>1. OSTCBPrioTbl[Pcp(f)] = IF Owner(f) # NoTCB /\ OSTCBPrio[Owner(f)] = Pcp(f)
                                 THEN Owner(f) ELSE Reserved
    BY DEF IInv, Ownership, CeilingEntry
  <2>2. Pcp(f) \in Prios
    BY MutexParts DEF IInv
  <2>3. CASE up /\ f = e
    BY <1>5, <2>2, <2>3, CoreAssumption
  <2>4. CASE ~up
    <3>1. OSTCBPrioTbl' = OSTCBPrioTbl /\ OSTCBPrio' = OSTCBPrio
      BY <2>4
    <3>. QED BY <2>1, <3>1
  <2>5. CASE f # e
    <3>1. Pcp(f) # Pcp(e)
      BY <2>5 DEF IInv, Ownership
    <3>2. Owner(f) # NoTCB => Owner(f) \in Tasks /\ Owner(f) # o
      BY <2>5 DEF IInv, Ownership, Owner
    <3>. QED BY <1>5, <2>1, <2>2, <3>1, <3>2
  <2>. QED BY <2>3, <2>4, <2>5
<1>13. Ownership'
  BY <1>7, <1>11, <1>12 DEF IInv, Ownership
<1>14. OSTCBPrio'[o] <= OSTCBPrio[o] /\ \A u \in Tasks \ {o} : OSTCBPrio'[u] = OSTCBPrio[u]
  BY <1>1, <1>3, <1>4, <1>5
<1>15. Pcp(e) # CeilDis /\ OSTCBPrio[t] = BasePrio[t] => OSTCBPrio'[o] < BasePrio[t]
  <2> SUFFICES ASSUME Pcp(e) # CeilDis, OSTCBPrio[t] = BasePrio[t] PROVE OSTCBPrio'[o] < BasePrio[t]
    OBVIOUS
  <2>1. Pcp(e) < BasePrio[t] /\ BasePrio[o] # BasePrio[t]
    BY <1>1, CoreAssumption
  <2>2. CASE up
    BY <1>5, <2>1, <2>2
  <2>3. CASE ~up
    <3>1. OSTCBPrio'[o] = OSTCBPrio[o]
      BY <1>5, <2>3
    <3>2. ~(OSTCBPrio[o] > Pcp(e)) \/ ~(BasePrio[o] > BasePrio[t])
      BY <2>3, <1>1 DEF MustPromote, Owner
    <3>. QED BY <1>1, <1>2, <1>3, <2>1, <3>1, <3>2
  <2>. QED BY <2>2, <2>3
<1>. QED BY <1>6, <1>7, <1>10, <1>13, <1>14, <1>15

(* The owner is ready or in no pend: the wait lists need no change.        *)
LEMMA OwnerOffLists ==
  ASSUME IInv, NEW e \in Events, NEW o \in Tasks, Owner(e) = o, o \notin ReadySet
  PROVE  OSTCBEventPtr[o] = NoEvent
<1> SUFFICES ASSUME OSTCBEventPtr[o] # NoEvent PROVE FALSE
  OBVIOUS
<1>1. PendOK(o) /\ ~OnWaitList(o, OSTCBEventPtr[o])
  BY DEF IInv, PendOK
<1>2. OSTCBStat[o] \subseteq {"MUTEX", "SUSPEND"} /\ OSTCBStat[o] \cap PendAny = {}
  BY <1>1 DEF PendOK, OnWaitList
<1>3. OSTCBStat[o] = {}
  BY <1>1, <1>2 DEF PendOK, PendAny
<1>4. OSTCBDly[o] = 0
  BY <1>1, <1>3 DEF PendOK
<1>. QED BY <1>3, <1>4 DEF ReadySet, Runnable

LEMMA BlockStep ==
  ASSUME IInv, NEW t \in Tasks, NEW e \in Events, NEW timeout \in MutexTimeouts,
         OSMutexPendBlock(t, e, timeout)
  PROVE  IInv'
<1>1. IsMutex(e) /\ ~Owns(t) /\ OwnerPrio(e) # Available
  BY DEF OSMutexPendBlock
<1>2. /\ OSTCBCur = t /\ t # IdleTask /\ pc[t] = "run" /\ Runnable(t) /\ OSLockNesting = 0
      /\ OSTCBEventPtr[t] = NoEvent /\ OSTCBStat[t] = {}
      /\ \A f \in Events : ~OnWaitList(t, f)
  BY CallerM DEF OSMutexPendBlock, Runnable
<1>3. /\ \A f \in Events : Owner(f) # t
      /\ OSTCBPrio[t] = BasePrio[t] /\ OSTCBEventMultiPtr[t] = {}
  BY <1>1, OwnsIs, NotPromoted DEF IInv, Lookups
<1>. PICK o \in Tasks : o = Owner(e)
  BY <1>1, MutexParts DEF IInv, Ownership, Owner
<1>4. o # t /\ o = OSEventPtr[e]
  BY <1>3 DEF Owner
<1> DEFINE up  == MustPromote(t, e)
           rdy == MapHas(OSRdyTbl, OSTCBPrio[o])
           rdyTbl == IF up /\ rdy THEN Moved(OSRdyTbl, OSTCBPrio[o], Pcp(e)) ELSE OSRdyTbl
           evTbl  == [f \in Events |-> IF up /\ ~rdy /\ f = OSTCBEventPtr[o]
                                         THEN Moved(OSEventTbl[f], OSTCBPrio[o], Pcp(e)) ELSE OSEventTbl[f]]
<1>5. /\ IF up THEN /\ OSTCBPrio' = [OSTCBPrio EXCEPT ![o] = Pcp(e)]
                    /\ OSTCBPrioTbl' = [OSTCBPrioTbl EXCEPT ![Pcp(e)] = o]
               ELSE UNCHANGED <<OSTCBPrio, OSTCBPrioTbl>>
      /\ OSTCBStat' = [OSTCBStat EXCEPT ![t] = OSTCBStat[t] \cup {"MUTEX"}]
      /\ OSTCBStatPend' = [OSTCBStatPend EXCEPT ![t] = "OK"]
      /\ OSTCBDly' = [OSTCBDly EXCEPT ![t] = timeout]
      /\ OSTCBEventPtr' = [OSTCBEventPtr EXCEPT ![t] = e]
      /\ OSEventTbl' = [evTbl EXCEPT ![e] = MapSet(evTbl[e], {OSTCBPrio[t]})]
      /\ OSRdyTbl' = MapClr(rdyTbl, {OSTCBPrio[t]})
      /\ pc' = [pc EXCEPT ![t] = "pend"]
      /\ UNCHANGED <<OSTCBEventMultiPtr, OSTCBList, OSEventType, OSEventCnt, OSEventPtr,
                     curVars, nestVars>>
  BY <1>4 DEF OSMutexPendBlock, EventTaskWait, Goto
<1>6. /\ Lookups' /\ Ownership'
      /\ OSTCBPrio' \in [Tasks -> Prios]
      /\ OSTCBPrioTbl' \in [Prios -> Tasks \cup {NoTCB, Reserved}]
      /\ \A u \in Tasks \ {o} : OSTCBPrio'[u] = OSTCBPrio[u]
      /\ OSTCBPrio'[o] <= OSTCBPrio[o]
      /\ Pcp(e) # CeilDis /\ OSTCBPrio[t] = BasePrio[t] => OSTCBPrio'[o] < BasePrio[t]
      /\ \A f \in Events : Owner(f)' = Owner(f) /\ Pcp(f)' = Pcp(f) /\ (IsMutex(f)' <=> IsMutex(f))
  BY <1>1, <1>4, <1>5, Promotion
<1>7. /\ OSTCBStat'[t] = {"MUTEX"} /\ OSTCBStatPend'[t] = "OK" /\ OSTCBEventPtr'[t] = e
      /\ pc'[t] = "pend" /\ OSTCBEventMultiPtr' = OSTCBEventMultiPtr
      /\ \A u \in Tasks \ {t} : /\ OSTCBStat'[u] = OSTCBStat[u] /\ OSTCBStatPend'[u] = OSTCBStatPend[u]
                                /\ OSTCBDly'[u] = OSTCBDly[u] /\ OSTCBEventPtr'[u] = OSTCBEventPtr[u]
                                /\ pc'[u] = pc[u]
  BY <1>2, <1>5 DEF IInv, TypeOK
<1>8. ReadySet' = ReadySet \ {t} /\ t \in ReadySet /\ ReadySet \in SUBSET Tasks
  BY <1>2, <1>7 DEF ReadySet, Runnable
<1>9. rdy <=> o \in ReadySet
  BY <1>8, CurrentHas DEF IInv, Lists
<1>10. rdyTbl = MapOf({OSTCBPrio'[u] : u \in ReadySet})
  <2>1. CASE up /\ rdy
    <3>1. Pcp(e) \in Prios
      BY <1>1, <2>1, MutexParts DEF IInv, MustPromote
    <3>2. Moved(MapOf(Current(ReadySet)), OSTCBPrio[o], Pcp(e)) = MapOf({OSTCBPrio'[u] : u \in ReadySet})
      <4>1. OSTCBPrio' = [OSTCBPrio EXCEPT ![o] = Pcp(e)]
        BY <1>5, <2>1
      <4>2. o \in ReadySet
        BY <1>9, <2>1
      <4>. QED BY <1>8, <3>1, <4>1, <4>2, CurrentMoves DEF IInv
    <3>3. OSRdyTbl = MapOf(Current(ReadySet))
      BY DEF IInv, Lists
    <3>. QED BY <2>1, <3>2, <3>3
  <2>2. CASE ~(up /\ rdy)
    <3>1. \A u \in ReadySet : OSTCBPrio'[u] = OSTCBPrio[u]
      BY <1>5, <1>6, <1>8, <1>9, <2>2
    <3>2. {OSTCBPrio'[u] : u \in ReadySet} = Current(ReadySet)
      BY <3>1 DEF Current
    <3>. QED BY <2>2, <3>2 DEF IInv, Lists
  <2>. QED BY <2>1, <2>2
<1>11. \A f \in Events : evTbl[f] = OSEventTbl[f]
  <2>1. ~rdy => OSTCBEventPtr[o] = NoEvent
    BY <1>9, OwnerOffLists
  <2>. QED BY <2>1, CoreAssumption
<1>12. \A u \in Tasks \ {t}, f \in Events : OnWaitList(u, f)' <=> OnWaitList(u, f)
  BY <1>7 DEF OnWaitList
<1>13. \A f \in Events : OnWaitList(t, f)' <=> f = e
  BY <1>3, <1>7 DEF OnWaitList, PendAny
<1> HIDE DEF rdyTbl, evTbl
<1>14. Lists'
  <2>1. OSRdyTbl' = MapOf({OSTCBPrio'[u] : u \in ReadySet \ {t}})
    <3>1. {OSTCBPrio'[u] : u \in ReadySet} \ {OSTCBPrio[t]} = {OSTCBPrio'[u] : u \in ReadySet \ {t}}
      <4>1. \A u \in Tasks : OSTCBPrio'[u] = OSTCBPrio'[t] => u = t
        BY <1>6 DEF Lookups
      <4>2. OSTCBPrio'[t] = OSTCBPrio[t]
        BY <1>4, <1>6
      <4>. QED BY <4>1, <4>2, <1>8
    <3>2. {OSTCBPrio'[u] : u \in ReadySet} \in SUBSET Prios /\ {OSTCBPrio[t]} \in SUBSET Prios
      BY <1>6, <1>8 DEF IInv, TypeOK
    <3>. QED BY <1>5, <1>10, <3>1, <3>2, MapClrOf
  <2>2. ASSUME NEW f \in Events PROVE OSEventTbl'[f] = MapOf(PriosOf(WaitSet(f)'))
    <3>0. OSEventTbl[f] = MapOf(PriosOf(WaitSet(f))) /\ WaitSet(f) \in SUBSET Tasks
      BY WaitSetType DEF IInv, Lists
    <3>1. CASE f = e
      <4>1. WaitSet(f)' = WaitSet(f) \cup {t}
        BY <1>12, <1>13, <3>1 DEF WaitSet
      <4>2. OSEventTbl'[f] = MapSet(OSEventTbl[f], PriosOf({t}))
        <5>1. evTbl \in [Events -> {evTbl[x] : x \in Events}]
          BY DEF evTbl
        <5>. QED BY <5>1, <1>3, <1>5, <1>11, <3>1, PriosOfOne
      <4>. QED BY <3>0, <4>1, <4>2, JoinList
    <3>2. CASE f # e
      <4>1. WaitSet(f)' = WaitSet(f)
        BY <1>2, <1>12, <1>13, <3>2 DEF WaitSet
      <4>2. OSEventTbl'[f] = OSEventTbl[f]
        <5>1. evTbl \in [Events -> {evTbl[x] : x \in Events}]
          BY DEF evTbl
        <5>. QED BY <5>1, <1>5, <1>11, <3>2
      <4>. QED BY <3>0, <4>1, <4>2
    <3>. QED BY <3>1, <3>2
  <2>3. \A f \in Events : (OSEventTbl[f] = MapOf(PriosOf(WaitSet(f))))'
    BY <2>2 DEF PriosOf
  <2>. QED BY <1>8, <2>1, <2>3 DEF Lists, Current
<1>15. TypeOK'
  <2>1. OSRdyTbl' \in PrioMap /\ \A f \in Events : OSEventTbl'[f] \in PrioMap
    BY <1>6, <1>14, ListTypesPrime DEF PrioTyped, MapsTyped
  <2>2. OSEventTbl' \in [Events -> PrioMap]
    <3>1. OSEventTbl' = [f \in Events |-> OSEventTbl'[f]]
      BY <1>5 DEF evTbl
    <3>. QED BY <2>1, <3>1
  <2>3. timeout \in Nat
    BY MutexAssumption
  <2>4. /\ OSTCBStat' \in [Tasks -> SUBSET Stats]
        /\ OSTCBStatPend' \in [Tasks -> PendStats]
        /\ OSTCBDly' \in [Tasks -> Nat]
        /\ OSTCBEventPtr' \in [Tasks -> Events \cup {NoEvent}]
        /\ pc' \in [Tasks -> Pcs]
    <3>1. OSTCBStat[t] \cup {"MUTEX"} \in SUBSET Stats
      BY <1>2 DEF Stats, PendAny
    <3>. QED BY <1>5, <2>3, <3>1 DEF IInv, TypeOK, PendStats, Pcs
  <2>. QED BY <1>5, <1>6, <2>1, <2>2, <2>4 DEF IInv, TypeOK, curVars, nestVars
<1>16. \A u \in Tasks : PendOK(u)'
  <2> TAKE u \in Tasks
  <2>1. CASE u = t
    <3>1. Owner(e) # NoTCB
      BY CoreAssumption
    <3>. QED BY <1>1, <1>3, <1>6, <1>7, <1>13, <2>1, <3>1, CoreAssumption DEF PendOK
  <2>2. CASE u # t
    <3>1. PendOK(u) /\ (OSTCBEventPtr[u] # NoEvent => OSTCBEventPtr[u] \in Events)
      BY DEF IInv, TypeOK
    <3>. QED BY <1>6, <1>7, <1>12, <2>2, <3>1 DEF PendOK
  <2>. QED BY <2>1, <2>2
<1>17. Running'
  <2>1. OSPrioCur' = OSTCBPrio'[OSTCBCur'] /\ OSTCBCur' = t
    BY <1>2, <1>4, <1>5, <1>6 DEF IInv, Running, curVars
  <2>2. Runnable(IdleTask)' /\ pc'[IdleTask] = "run" /\ OSTCBEventPtr'[IdleTask] = NoEvent
    BY <1>2, <1>7, CoreAssumption DEF IInv, Running, IdleOK, Runnable
  <2>3. OSLockNesting' = 0
    BY <1>2, <1>5 DEF nestVars
  <2>. QED BY <1>7, <2>1, <2>2, <2>3 DEF Running, IdleOK
<1>18. OwnerOutranksWaiters'
  <2> SUFFICES ASSUME NEW f \in Events, NEW u \in Tasks, IsMutex(f), Pcp(f) # CeilDis, OnWaitList(u, f)'
               PROVE  Owner(f) # NoTCB /\ OSTCBPrio'[Owner(f)] < OSTCBPrio'[u]
    BY <1>6 DEF OwnerOutranksWaiters
  <2>1. CASE u = t
    <3>1. f = e
      BY <1>13, <2>1
    <3>2. OSTCBPrio'[t] = BasePrio[t]
      BY <1>3, <1>4, <1>6
    <3>. QED BY <1>3, <1>6, <2>1, <3>1, <3>2, CoreAssumption
  <2>2. CASE u # t
    <3>1. OnWaitList(u, f)
      BY <1>12, <2>2
    <3>2. u # o /\ OSTCBPrio'[u] = OSTCBPrio[u]
      BY <1>6, <3>1, Waiters
    <3>3. Owner(f) \in Tasks /\ OSTCBPrio[Owner(f)] < OSTCBPrio[u]
      BY <3>1, Waiters DEF IInv, OwnerOutranksWaiters
    <3>4. OSTCBPrio'[Owner(f)] <= OSTCBPrio[Owner(f)]
      <4>1. OSTCBPrio[Owner(f)] \in Int
        BY <3>3, PrioRange DEF IInv, TypeOK
      <4>. QED BY <1>6, <3>3, <4>1
    <3>5. OSTCBPrio'[Owner(f)] \in Int /\ OSTCBPrio[Owner(f)] \in Int /\ OSTCBPrio[u] \in Int
      BY <1>6, <3>3, PrioRange DEF IInv, TypeOK
    <3>. QED BY <3>2, <3>3, <3>4, <3>5, CoreAssumption
  <2>. QED BY <2>1, <2>2
<1>. QED BY <1>6, <1>14, <1>15, <1>16, <1>17, <1>18 DEF IInv
-----------------------------------------------------------------------------
(* OSMutexPost().                                                          *)

(* Whether or not the owner had been promoted, it has its base priority    *)
(* after the release, in its TCB, the ready list and OSPrioCur, and the    *)
(* ceiling is reserved.                                                    *)
LEMMA Release ==
  ASSUME IInv, NEW e \in Events, NEW t \in Tasks, IsMutex(e), Owner(e) = t, Calls(t),
         IF MustRestore(t, e) THEN OSMutex_RdyAtPrio(t, OwnerPrio(e))
                              ELSE UNCHANGED <<OSTCBPrio, OSPrioCur>>
  PROVE  /\ OSTCBPrio' \in [Tasks -> Prios]
         /\ \A u \in Tasks : OSTCBPrio'[u] = IF u = t THEN BasePrio[u] ELSE OSTCBPrio[u]
         /\ OSPrioCur' = BasePrio[t]
         /\ \A p \in Prios : PrioTblAfterPost(t, e)[p] = IF p = Pcp(e) THEN Reserved ELSE OSTCBPrioTbl[p]
         /\ (IF MustRestore(t, e) THEN Moved(OSRdyTbl, OSTCBPrio[t], OwnerPrio(e)) ELSE OSRdyTbl)
              = MapOf({OSTCBPrio'[u] : u \in ReadySet})
<1>1. OSTCBCur = t /\ t \in ReadySet /\ ReadySet \in SUBSET Tasks
  BY CallerM DEF ReadySet
<1>2. /\ OwnerPrio(e) = BasePrio[t] /\ BasePrio[t] \in Prios
      /\ Pcp(e) # CeilDis => Pcp(e) \in Prios
  BY MutexParts, CoreAssumption DEF IInv
<1>3. OSTCBPrio[t] \in {BasePrio[t], Pcp(e)} /\ OSTCBPrio[t] \in Prios
  BY OwnersPrio DEF IInv, TypeOK
<1>4. Pcp(e) = CeilDis => Pcp(e) \notin Prios
  BY PrioRange DEF CeilDis, Available
<1>5. ~MustRestore(t, e) => OSTCBPrio[t] = BasePrio[t]
  BY <1>3, <1>4 DEF MustRestore
<1>6. OSTCBPrio' = [OSTCBPrio EXCEPT ![t] = BasePrio[t]]
  BY <1>2, <1>5 DEF OSMutex_RdyAtPrio, IInv, TypeOK
<1>7. OSPrioCur' = BasePrio[t]
  BY <1>1, <1>2, <1>5 DEF OSMutex_RdyAtPrio, IInv, Running
<1>8. /\ OSTCBPrio' \in [Tasks -> Prios]
      /\ \A u \in Tasks : OSTCBPrio'[u] = IF u = t THEN BasePrio[u] ELSE OSTCBPrio[u]
  BY <1>2, <1>6 DEF IInv, TypeOK
<1>9. \A p \in Prios : PrioTblAfterPost(t, e)[p] = IF p = Pcp(e) THEN Reserved ELSE OSTCBPrioTbl[p]
  BY <1>2 DEF PrioTblAfterPost, IInv, Lookups
<1>10. (IF MustRestore(t, e) THEN Moved(OSRdyTbl, OSTCBPrio[t], OwnerPrio(e)) ELSE OSRdyTbl)
         = MapOf({OSTCBPrio'[u] : u \in ReadySet})
  <2>1. OSRdyTbl = MapOf(Current(ReadySet))
    BY DEF IInv, Lists
  <2>2. CASE MustRestore(t, e)
    <3>1. Moved(MapOf(Current(ReadySet)), OSTCBPrio[t], BasePrio[t]) = MapOf({OSTCBPrio'[u] : u \in ReadySet})
      BY <1>1, <1>2, <1>6, CurrentMoves DEF IInv
    <3>. QED BY <1>2, <2>1, <2>2, <3>1
  <2>3. CASE ~MustRestore(t, e)
    <3>1. OSTCBPrio' = OSTCBPrio
      BY <2>3
    <3>. QED BY <2>1, <2>3, <3>1 DEF Current
  <2>. QED BY <2>2, <2>3
<1>. QED BY <1>7, <1>8, <1>9, <1>10

(* What becomes of the parts of IInv that do not depend on the waiter.     *)
LEMMA ReleaseOutranks ==
  ASSUME IInv, NEW e \in Events, NEW t \in Tasks, Owner(e) = t, Ownership', Lookups',
         OSTCBPrio' \in [Tasks -> Prios],
         \A u \in Tasks : OSTCBPrio'[u] = IF u = t THEN BasePrio[u] ELSE OSTCBPrio[u],
         \A f \in Events \ {e} : Owner(f)' = Owner(f),
         \A f \in Events : Pcp(f)' = Pcp(f) /\ (IsMutex(f)' <=> IsMutex(f)),
         \A f \in Events, u \in Tasks : OnWaitList(u, f)' => OnWaitList(u, f),
         \A u \in Tasks : OnWaitList(u, e)' => Owner(e)' \in Tasks /\ BasePrio[Owner(e)'] < BasePrio[u]
                                                 /\ OSTCBPrio'[Owner(e)'] = BasePrio[Owner(e)']
  PROVE  OwnerOutranksWaiters'
<1> SUFFICES ASSUME NEW f \in Events, NEW u \in Tasks, IsMutex(f)', Pcp(f)' # CeilDis, OnWaitList(u, f)'
             PROVE  Owner(f)' # NoTCB /\ OSTCBPrio'[Owner(f)'] < OSTCBPrio'[u]
  BY DEF OwnerOutranksWaiters
<1>1. OnWaitList(u, f) /\ IsMutex(f) /\ Pcp(f) # CeilDis
  OBVIOUS
<1>2. u # t /\ OSTCBPrio[u] = BasePrio[u] /\ OSTCBPrio'[u] = OSTCBPrio[u] /\ Owner(f) \in Tasks
  BY <1>1, Waiters
<1>3. CASE f = e
  BY <1>2, <1>3, CoreAssumption
<1>4. CASE f # e
  <2>1. Owner(f) # t
    BY <1>4, CoreAssumption DEF IInv, Ownership
  <2>2. OSTCBPrio[Owner(f)] < OSTCBPrio[u]
    BY <1>1 DEF IInv, OwnerOutranksWaiters
  <2>. QED BY <1>2, <1>4, <2>1, <2>2, CoreAssumption
<1>. QED BY <1>3, <1>4

(* Nobody waits: the mutex becomes available.                              *)
LEMMA PostFreeStep ==
  ASSUME IInv, NEW t \in Tasks, NEW e \in Events, OSMutexPost(t, e), ~Waiting(e)
  PROVE  IInv'
<1>1. /\ Calls(t) /\ IsMutex(e) /\ Owner(e) = t
      /\ IF MustRestore(t, e) THEN OSMutex_RdyAtPrio(t, OwnerPrio(e))
                              ELSE UNCHANGED <<OSTCBPrio, OSPrioCur>>
      /\ OSTCBPrioTbl' = PrioTblAfterPost(t, e)
      /\ OSRdyTbl' = IF MustRestore(t, e) THEN Moved(OSRdyTbl, OSTCBPrio[t], OwnerPrio(e)) ELSE OSRdyTbl
      /\ OSEventCnt' = [OSEventCnt EXCEPT ![e] = Word(Pcp(e), Available)]
      /\ OSEventPtr' = [OSEventPtr EXCEPT ![e] = NoTCB]
      /\ UNCHANGED <<OSTCBStat, OSTCBStatPend, OSTCBDly, OSTCBEventPtr, OSEventTbl, pc>>
      /\ UNCHANGED <<OSTCBEventMultiPtr, OSTCBList, OSEventType, OSTCBCur, nestVars>>
  BY DEF OSMutexPost, Owner
<1>2. OSTCBCur = t /\ t # IdleTask /\ OSTCBEventPtr[t] = NoEvent
  BY <1>1, CallerM
<1>3. /\ OSTCBPrio' \in [Tasks -> Prios]
      /\ \A u \in Tasks : OSTCBPrio'[u] = IF u = t THEN BasePrio[u] ELSE OSTCBPrio[u]
      /\ OSPrioCur' = BasePrio[t]
      /\ \A p \in Prios : OSTCBPrioTbl'[p] = IF p = Pcp(e) THEN Reserved ELSE OSTCBPrioTbl[p]
      /\ OSRdyTbl' = MapOf({OSTCBPrio'[u] : u \in ReadySet})
  BY <1>1, Release
<1>4. /\ Lookups' /\ Ownership' /\ OSEventCnt' \in [Events -> Nat]
      /\ Owner(e)' = NoTCB
      /\ \A f \in Events \ {e} : Owner(f)' = Owner(f)
      /\ \A f \in Events : Pcp(f)' = Pcp(f) /\ (IsMutex(f)' <=> IsMutex(f))
  <2>1. OSEventCnt' = [OSEventCnt EXCEPT ![e] = Word(Pcp(e), IF NoTCB = NoTCB THEN Available ELSE BasePrio[NoTCB])]
    BY <1>1
  <2>. QED BY <1>1, <1>3, <2>1, HandOver
<1>5. \A u, f : OnWaitList(u, f)' <=> OnWaitList(u, f)
  BY <1>1 DEF OnWaitList
<1>6. \A u \in Tasks : ~OnWaitList(u, e)
  <2>1. PriosOf(WaitSet(e)) \in SUBSET Prios /\ OSEventTbl[e] = MapOf(PriosOf(WaitSet(e)))
    BY WaitSetType, PriosOfType DEF IInv, Lists
  <2>2. PriosOf(WaitSet(e)) = {}
    BY <2>1, GrpOf DEF Waiting
  <2>. QED BY <2>2 DEF PriosOf, WaitSet
<1>7. Lists'
  <2>1. ReadySet' = ReadySet
    BY <1>1 DEF ReadySet, Runnable
  <2>2. \A f : WaitSet(f)' = WaitSet(f)
    BY <1>5 DEF WaitSet
  <2>3. \A f \in Events : (OSEventTbl[f] = MapOf(PriosOf(WaitSet(f))))'
    BY <1>1, <2>2 DEF IInv, Lists, PriosOf
  <2>. QED BY <1>3, <2>1, <2>3 DEF Lists, Current
<1>8. TypeOK'
  <2>1. OSRdyTbl' \in PrioMap
    BY <1>3, <1>7, ListTypesPrime DEF PrioTyped, MapsTyped
  <2>2. OSTCBPrioTbl' \in [Prios -> Tasks \cup {NoTCB, Reserved}]
    <3>1. \A p \in Prios : OSTCBPrioTbl'[p] \in Tasks \cup {NoTCB, Reserved}
      BY <1>3 DEF IInv, TypeOK
    <3>2. OSTCBPrioTbl' = [p \in Prios |-> OSTCBPrioTbl'[p]]
      BY <1>1 DEF PrioTblAfterPost
    <3>. QED BY <3>1, <3>2
  <2>3. OSPrioCur' \in Prios
    BY <1>3, CoreAssumption
  <2>. QED BY <1>1, <1>3, <1>4, <2>1, <2>2, <2>3 DEF IInv, TypeOK, nestVars
<1>9. \A u \in Tasks : PendOK(u)'
  <2> TAKE u \in Tasks
  <2>1. PendOK(u) /\ (OSTCBEventPtr[u] # NoEvent => OSTCBEventPtr[u] \in Events)
    BY DEF IInv, TypeOK
  <2>2. OSTCBEventPtr[u] # NoEvent => u # t /\ OSTCBEventPtr[u] # e
    BY <1>1, <1>2, <1>6, <2>1 DEF PendOK
  <2>3. OSTCBEventPtr[u] # NoEvent =>
          ((\A f \in Events : Owner(f) # u) => (\A f \in Events : Owner(f)' # u))
    BY <1>4, CoreAssumption
  <2>. QED BY <1>1, <1>4, <1>5, <2>1, <2>2, <2>3 DEF PendOK
<1>10. Running'
  <2>1. OSPrioCur' = OSTCBPrio'[OSTCBCur']
    BY <1>1, <1>2, <1>3
  <2>. QED BY <1>1, <2>1 DEF IInv, Running, IdleOK, Runnable, nestVars
<1>11. OwnerOutranksWaiters'
  BY <1>1, <1>3, <1>4, <1>5, <1>6, ReleaseOutranks
<1>. QED BY <1>4, <1>7, <1>8, <1>9, <1>10, <1>11 DEF IInv
(* The waiter of highest priority, as OSMutexPost() finds it.              *)
LEMMA NextOwner ==
  ASSUME IInv, NEW e \in Events, Waiting(e)
  PROVE  \E w \in WaitSet(e) : /\ MapHighest(OSEventTbl[e]) = BasePrio[w]
                               /\ \A u \in WaitSet(e) : BasePrio[w] <= BasePrio[u]
<1>1. OSEventTbl[e] = MapOf(PriosOf(WaitSet(e))) /\ WaitSet(e) \in SUBSET Tasks
  BY WaitSetType DEF IInv, Lists
<1>2. WaitSet(e) # {}
  <2>1. PriosOf(WaitSet(e)) \in SUBSET Prios /\ PriosOf({}) = {}
    BY <1>1, PriosOfType DEF PriosOf
  <2>. QED BY <1>1, <2>1, GrpOf DEF Waiting
<1>. QED BY <1>1, <1>2, HeadOf

(* OSMutexPost() makes ready the waiter of highest priority, w, and this   *)
(* is what it does to the TCBs and the lists.                              *)
GivenTo(w, e, rdyTbl) ==
  /\ OSEventPtr' = [OSEventPtr EXCEPT ![e] = w]
  /\ OSEventCnt' = [OSEventCnt EXCEPT ![e] = Word(Pcp(e), BasePrio[w])]
  /\ OSTCBDly' = [u \in Tasks |-> IF u = w THEN 0 ELSE OSTCBDly[u]]
  /\ OSTCBStat' = [u \in Tasks |-> IF u = w THEN OSTCBStat[u] \ {"MUTEX"} ELSE OSTCBStat[u]]
  /\ OSTCBStatPend' = [u \in Tasks |-> IF u = w THEN "OK" ELSE OSTCBStatPend[u]]
  /\ OSRdyTbl' = MapOr(rdyTbl, {Row(p) : p \in {BasePrio[w]}},
                       {<<Row(p), Col(p)>> : p \in {BasePrio[w]}})
  /\ OSEventTbl' = [f \in Events |-> MapClr(OSEventTbl[f], IF f = e THEN {OSTCBPrio[w]} ELSE {})]
  /\ OSTCBEventPtr' = OSTCBEventPtr

LEMMA Given ==
  ASSUME IInv, NEW t \in Tasks, NEW e \in Events, OSMutexPost(t, e), Waiting(e),
         NEW rdyTbl,
         rdyTbl = IF MustRestore(t, e) THEN Moved(OSRdyTbl, OSTCBPrio[t], OwnerPrio(e)) ELSE OSRdyTbl
  PROVE  \E w \in WaitSet(e) :
           /\ \A u \in WaitSet(e) : BasePrio[w] <= BasePrio[u]
           /\ w \in Tasks /\ w # t /\ OnWaitList(w, e) /\ OSTCBEventPtr[w] = e
           /\ \A f \in Events : Owner(f) # w
           /\ OSTCBPrio[w] = BasePrio[w] /\ "SUSPEND" \notin OSTCBStat[w] /\ w # IdleTask
           /\ GivenTo(w, e, rdyTbl)
<1> DEFINE next    == MapHighest(OSEventTbl[e])
           prioTbl == PrioTblAfterPost(t, e)
<1>1. /\ Calls(t) /\ IsMutex(e) /\ Owner(e) = t
      /\ IF MustRestore(t, e) THEN OSMutex_RdyAtPrio(t, OwnerPrio(e))
                              ELSE UNCHANGED <<OSTCBPrio, OSPrioCur>>
      /\ EventTaskRdy(prioTbl, rdyTbl, e, {next}, "MUTEX", "OK")
      /\ OSEventCnt' = [OSEventCnt EXCEPT ![e] = Word(Pcp(e), next)]
      /\ OSEventPtr' = [OSEventPtr EXCEPT ![e] = prioTbl[next]]
  BY DEF OSMutexPost, Owner
<1>3. \A p \in Prios : prioTbl[p] = IF p = Pcp(e) THEN Reserved ELSE OSTCBPrioTbl[p]
  BY <1>1, Release
<1> HIDE DEF prioTbl
<1>4. PICK w \in WaitSet(e) : next = BasePrio[w] /\ \A u \in WaitSet(e) : BasePrio[w] <= BasePrio[u]
  BY NextOwner
<1>5. /\ w \in Tasks /\ w # t /\ OnWaitList(w, e) /\ OSTCBEventPtr[w] = e
      /\ \A f \in Events : Owner(f) # w
      /\ OSTCBPrio[w] = BasePrio[w] /\ "SUSPEND" \notin OSTCBStat[w] /\ w # IdleTask
  <2>1. w \in Tasks /\ OnWaitList(w, e)
    BY <1>4 DEF WaitSet
  <2>2. w # IdleTask
    BY <2>1, Waiters, CoreAssumption DEF IInv, Running
  <2>. QED BY <1>1, <2>1, <2>2, Waiters
<1>6. prioTbl[next] = w
  <2>1. next \in Prios /\ next \in Int
    BY <1>4, <1>5, BaseRange
  <2>2. next # Pcp(e)
    <3>1. CASE Pcp(e) = CeilDis
      BY <2>1, <3>1, PrioRange DEF CeilDis, Available
    <3>2. CASE Pcp(e) # CeilDis
      <4>1. Pcp(e) < BasePrio[w] /\ Pcp(e) \in Int
        BY <1>1, <1>5, <3>2, MutexParts DEF IInv
      <4>. QED BY <1>4, <2>1, <4>1
    <3>. QED BY <3>1, <3>2
  <2>. QED BY <1>3, <1>4, <1>5, <2>1, <2>2 DEF IInv, Lookups
<1>8. /\ OSTCBDly' = [u \in Tasks |-> IF u = w THEN 0 ELSE OSTCBDly[u]]
      /\ OSTCBStat' = [u \in Tasks |-> IF u = w THEN OSTCBStat[u] \ {"MUTEX"} ELSE OSTCBStat[u]]
      /\ OSTCBStatPend' = [u \in Tasks |-> IF u = w THEN "OK" ELSE OSTCBStatPend[u]]
      /\ OSRdyTbl' = MapOr(rdyTbl, {Row(p) : p \in {next}}, {<<Row(p), Col(p)>> : p \in {next}})
      /\ OSEventTbl' = [f \in Events |-> MapClr(OSEventTbl[f], IF f = e THEN {OSTCBPrio[w]} ELSE {})]
      /\ OSTCBEventPtr' = OSTCBEventPtr
  <2> DEFINE tcb == {prioTbl[p] : p \in {next}}
             rdy == {p \in {next} : "SUSPEND" \notin OSTCBStat[prioTbl[p]]}
             off == [f \in Events |-> {OSTCBPrio[u] : u \in {v \in tcb : f = e \/ f \in OSTCBEventMultiPtr[v]}}]
  <2>1. tcb = {w} /\ rdy = {next} /\ OSTCBEventMultiPtr[w] = {}
    BY <1>5, <1>6 DEF IInv, Lookups
  <2>2. \A f \in Events : off[f] = IF f = e THEN {OSTCBPrio[w]} ELSE {}
    BY <2>1
  <2>3. /\ OSTCBDly' = [u \in Tasks |-> IF u \in tcb THEN 0 ELSE OSTCBDly[u]]
        /\ OSTCBStat' = [u \in Tasks |-> IF u \in tcb THEN OSTCBStat[u] \ {"MUTEX"} ELSE OSTCBStat[u]]
        /\ OSTCBStatPend' = [u \in Tasks |-> IF u \in tcb THEN "OK" ELSE OSTCBStatPend[u]]
        /\ OSRdyTbl' = MapOr(rdyTbl, {Row(OSTCBPrio[prioTbl[p]]) : p \in rdy},
                             {<<Row(p), Col(OSTCBPrio[prioTbl[p]])>> : p \in rdy})
        /\ OSEventTbl' = [f \in Events |-> MapClr(OSEventTbl[f], off[f])]
        /\ OSTCBEventPtr' = [u \in Tasks |-> IF u \in tcb /\ OSTCBEventMultiPtr[u] # {}
                                               THEN e ELSE OSTCBEventPtr[u]]
    BY <1>1 DEF EventTaskRdy
  <2>4. OSTCBPrio[prioTbl[next]] = next
    BY <1>4, <1>5, <1>6
  <2> HIDE DEF tcb, rdy, off, next
  <2>5. OSRdyTbl' = MapOr(rdyTbl, {Row(p) : p \in {next}}, {<<Row(p), Col(p)>> : p \in {next}})
    <3>1. {Row(OSTCBPrio[prioTbl[p]]) : p \in rdy} = {Row(p) : p \in {next}}
      BY <2>1, <2>4
    <3>2. {<<Row(p), Col(OSTCBPrio[prioTbl[p]])>> : p \in rdy} = {<<Row(p), Col(p)>> : p \in {next}}
      BY <2>1, <2>4
    <3>. QED BY <2>3, <3>1, <3>2
  <2>6. OSTCBEventPtr' = OSTCBEventPtr
    BY <2>1, <2>3 DEF IInv, TypeOK
  <2>7. OSEventTbl' = [f \in Events |-> MapClr(OSEventTbl[f], IF f = e THEN {OSTCBPrio[w]} ELSE {})]
    BY <2>2, <2>3
  <2>. QED BY <2>1, <2>3, <2>5, <2>6, <2>7
<1>. QED BY <1>1, <1>4, <1>5, <1>6, <1>8 DEF GivenTo

(* A waiter gets the mutex and becomes ready.                              *)
LEMMA PostGiveStep ==
  ASSUME IInv, NEW t \in Tasks, NEW e \in Events, OSMutexPost(t, e), Waiting(e)
  PROVE  IInv'
<1> DEFINE prioTbl == PrioTblAfterPost(t, e)
           rdyTbl  == IF MustRestore(t, e) THEN Moved(OSRdyTbl, OSTCBPrio[t], OwnerPrio(e)) ELSE OSRdyTbl
<1>1. /\ Calls(t) /\ IsMutex(e) /\ Owner(e) = t
      /\ IF MustRestore(t, e) THEN OSMutex_RdyAtPrio(t, OwnerPrio(e))
                              ELSE UNCHANGED <<OSTCBPrio, OSPrioCur>>
      /\ OSTCBPrioTbl' = prioTbl
      /\ pc' = [pc EXCEPT ![t] = "sched"]
      /\ UNCHANGED <<OSTCBEventMultiPtr, OSTCBList, OSEventType, OSTCBCur, nestVars>>
  BY DEF OSMutexPost, Owner, Goto
<1>2. OSTCBCur = t /\ t # IdleTask /\ OSTCBEventPtr[t] = NoEvent /\ Runnable(t) /\ pc[t] = "run"
  BY <1>1, CallerM
<1>3. /\ OSTCBPrio' \in [Tasks -> Prios]
      /\ \A u \in Tasks : OSTCBPrio'[u] = IF u = t THEN BasePrio[u] ELSE OSTCBPrio[u]
      /\ OSPrioCur' = BasePrio[t]
      /\ \A p \in Prios : prioTbl[p] = IF p = Pcp(e) THEN Reserved ELSE OSTCBPrioTbl[p]
      /\ rdyTbl = MapOf({OSTCBPrio'[u] : u \in ReadySet})
  BY <1>1, Release
<1> HIDE DEF prioTbl, rdyTbl
<1>4. PICK w \in WaitSet(e) :
           /\ \A u \in WaitSet(e) : BasePrio[w] <= BasePrio[u]
           /\ w \in Tasks /\ w # t /\ OnWaitList(w, e) /\ OSTCBEventPtr[w] = e
           /\ \A f \in Events : Owner(f) # w
           /\ OSTCBPrio[w] = BasePrio[w] /\ "SUSPEND" \notin OSTCBStat[w] /\ w # IdleTask
           /\ GivenTo(w, e, rdyTbl)
  BY Given DEF rdyTbl
<1> DEFINE next == BasePrio[w]
<1>5. /\ w \in Tasks /\ w # t /\ OnWaitList(w, e) /\ OSTCBEventPtr[w] = e
      /\ \A f \in Events : Owner(f) # w
      /\ OSTCBPrio[w] = BasePrio[w] /\ "SUSPEND" \notin OSTCBStat[w] /\ w # IdleTask
  BY <1>4
<1>7. /\ Lookups' /\ Ownership' /\ OSEventCnt' \in [Events -> Nat]
      /\ Owner(e)' = w
      /\ \A f \in Events \ {e} : Owner(f)' = Owner(f)
      /\ \A f \in Events : Pcp(f)' = Pcp(f) /\ (IsMutex(f)' <=> IsMutex(f))
  <2>1. OSEventCnt' = [OSEventCnt EXCEPT ![e] = Word(Pcp(e), IF w = NoTCB THEN Available ELSE BasePrio[w])]
    BY <1>4, <1>5, CoreAssumption DEF GivenTo
  <2>2. OSEventPtr' = [OSEventPtr EXCEPT ![e] = w]
    BY <1>4 DEF GivenTo
  <2>3. \A p \in Prios : OSTCBPrioTbl'[p] = IF p = Pcp(e) THEN Reserved ELSE OSTCBPrioTbl[p]
    BY <1>1, <1>3
  <2>4. \A u \in Tasks : OSTCBPrio'[u] = IF u = Owner(e) THEN BasePrio[u] ELSE OSTCBPrio[u]
    BY <1>1, <1>3
  <2>5. w \in (Tasks \ {IdleTask}) \cup {NoTCB} /\ (w # NoTCB => \A f \in Events : Owner(f) # w)
    BY <1>5
  <2>6. IsMutex(e) /\ UNCHANGED <<OSEventType, OSTCBList, OSTCBEventMultiPtr>>
    BY <1>1
  <2>. QED BY <2>1, <2>2, <2>3, <2>4, <2>5, <2>6, HandOver
<1>8. /\ OSTCBDly' = [u \in Tasks |-> IF u = w THEN 0 ELSE OSTCBDly[u]]
      /\ OSTCBStat' = [u \in Tasks |-> IF u = w THEN OSTCBStat[u] \ {"MUTEX"} ELSE OSTCBStat[u]]
      /\ OSTCBStatPend' = [u \in Tasks |-> IF u = w THEN "OK" ELSE OSTCBStatPend[u]]
      /\ OSRdyTbl' = MapOr(rdyTbl, {Row(p) : p \in {next}}, {<<Row(p), Col(p)>> : p \in {next}})
      /\ OSEventTbl' = [f \in Events |-> MapClr(OSEventTbl[f], IF f = e THEN {OSTCBPrio[w]} ELSE {})]
      /\ OSTCBEventPtr' = OSTCBEventPtr
  BY <1>4 DEF GivenTo
<1>9. /\ OSTCBStat'[w] = {} /\ OSTCBDly'[w] = 0 /\ OSTCBStatPend'[w] = "OK"
      /\ \A u \in Tasks \ {w} : /\ OSTCBStat'[u] = OSTCBStat[u] /\ OSTCBStatPend'[u] = OSTCBStatPend[u]
                                /\ OSTCBDly'[u] = OSTCBDly[u]
  <2>1. OSTCBStat[w] \subseteq {"MUTEX", "SUSPEND"}
    BY <1>5 DEF IInv, PendOK
  <2>2. OSTCBStat[w] \ {"MUTEX"} = {}
    BY <2>1, <1>5
  <2>. QED BY <1>5, <1>8, <2>2
<1>10. \A f \in Events : (\A u \in Tasks \ {w} : OnWaitList(u, f)' <=> OnWaitList(u, f)) /\ ~OnWaitList(w, f)'
  <2>1. OSTCBEventMultiPtr' = OSTCBEventMultiPtr /\ OSTCBEventPtr' = OSTCBEventPtr
    BY <1>1, <1>8
  <2>. QED BY <1>9, <2>1 DEF OnWaitList
<1>11. ReadySet' = ReadySet \cup {w} /\ ReadySet \in SUBSET Tasks
  BY <1>5, <1>9 DEF ReadySet, Runnable
<1>12. Lists'
  <2>1. OSRdyTbl' = MapOf({OSTCBPrio'[u] : u \in ReadySet'})
    <3>1. {OSTCBPrio'[u] : u \in ReadySet} \in SUBSET Prios /\ {next} \in SUBSET Prios
      BY <1>3, <1>4, <1>5, <1>11, BaseRange
    <3>2. {OSTCBPrio'[u] : u \in ReadySet} \cup {next} = {OSTCBPrio'[u] : u \in ReadySet'}
      <4>1. OSTCBPrio'[w] = next
        BY <1>3, <1>4, <1>5
      <4>. QED BY <4>1, <1>11
    <3> HIDE DEF next
    <3>. QED BY <1>3, <1>8, <3>1, <3>2, MapOrOf
  <2>2. ASSUME NEW f \in Events PROVE OSEventTbl'[f] = MapOf(PriosOf(WaitSet(f)'))
    <3>0. OSEventTbl[f] = MapOf(PriosOf(WaitSet(f))) /\ WaitSet(f) \in SUBSET Tasks
      BY WaitSetType DEF IInv, Lists
    <3>1. CASE f = e
      <4>1. WaitSet(f)' = WaitSet(f) \ {w}
        BY <1>10, <3>1 DEF WaitSet
      <4>2. OSEventTbl'[f] = MapClr(OSEventTbl[f], PriosOf({w}))
        BY <1>5, <1>8, <3>1, PriosOfOne
      <4>. QED BY <1>5, <3>0, <4>1, <4>2, LeaveList
    <3>2. CASE f # e
      <4>1. WaitSet(f)' = WaitSet(f)
        <5>1. ~OnWaitList(w, f)
          BY <1>5, <3>2, Waiters
        <5>. QED BY <1>10, <5>1 DEF WaitSet
      <4>2. OSEventTbl'[f] = MapClr(OSEventTbl[f], {})
        BY <1>8, <3>2
      <4>3. MapClr(MapOf(PriosOf(WaitSet(f))), {}) = MapOf(PriosOf(WaitSet(f)) \ {})
        <5>1. PriosOf(WaitSet(f)) \in SUBSET Prios /\ {} \in SUBSET Prios
          BY <3>0, PriosOfType
        <5>. QED BY <5>1, MapClrOf
      <4>4. PriosOf(WaitSet(f)) \ {} = PriosOf(WaitSet(f))
        OBVIOUS
      <4>. QED BY <3>0, <4>1, <4>2, <4>3, <4>4
    <3>. QED BY <3>1, <3>2
  <2>3. \A f \in Events : (OSEventTbl[f] = MapOf(PriosOf(WaitSet(f))))'
    BY <2>2 DEF PriosOf
  <2>. QED BY <2>1, <2>3 DEF Lists, Current
<1>13. TypeOK'
  <2>1. OSRdyTbl' \in PrioMap /\ \A f \in Events : OSEventTbl'[f] \in PrioMap
    BY <1>3, <1>12, ListTypesPrime DEF PrioTyped, MapsTyped
  <2>2. OSEventTbl' \in [Events -> PrioMap]
    <3>1. OSEventTbl' = [f \in Events |-> OSEventTbl'[f]]
      BY <1>8
    <3>. QED BY <2>1, <3>1
  <2>3. OSTCBPrioTbl' \in [Prios -> Tasks \cup {NoTCB, Reserved}]
    <3>1. \A p \in Prios : OSTCBPrioTbl'[p] \in Tasks \cup {NoTCB, Reserved}
      BY <1>1, <1>3 DEF IInv, TypeOK
    <3>2. OSTCBPrioTbl' = [p \in Prios |-> OSTCBPrioTbl'[p]]
      BY <1>1 DEF PrioTblAfterPost, prioTbl
    <3>. QED BY <3>1, <3>2
  <2>4. OSPrioCur' \in Prios
    BY <1>3, CoreAssumption
  <2>5. /\ OSTCBStat' \in [Tasks -> SUBSET Stats]
        /\ OSTCBStatPend' \in [Tasks -> PendStats]
        /\ OSTCBDly' \in [Tasks -> Nat]
        /\ pc' \in [Tasks -> Pcs]
    BY <1>1, <1>8 DEF IInv, TypeOK, PendStats, Pcs
  <2>6. UNCHANGED <<OSTCBEventPtr, OSTCBEventMultiPtr, OSTCBList, OSEventType, OSTCBCur, nestVars>>
    BY <1>1, <1>8
  <2>. QED BY <1>3, <1>7, <2>1, <2>2, <2>3, <2>4, <2>5, <2>6 DEF IInv, TypeOK, nestVars
<1>14. \A u \in Tasks : pc'[u] \in {"pend", "wake"} <=> pc[u] \in {"pend", "wake"}
  BY <1>1, <1>2 DEF IInv, TypeOK
<1>15. \A u \in Tasks : PendOK(u)'
  <2> TAKE u \in Tasks
  <2>1. PendOK(u) /\ (OSTCBEventPtr[u] # NoEvent => OSTCBEventPtr[u] \in Events)
    BY DEF IInv, TypeOK
  <2>2. CASE u = w
    <3>1. w # NoTCB /\ e # NoEvent
      BY <1>5, CoreAssumption
    <3>2. OSTCBEventPtr'[w] = e
      BY <1>5, <1>8
    <3>3. pc'[w] \in {"pend", "wake"}
      BY <1>5, <1>14, <2>1, <2>2, <3>1 DEF PendOK
    <3>. QED BY <1>1, <1>7, <1>9, <1>10, <2>2, <3>1, <3>2, <3>3 DEF PendOK
  <2>3. CASE u # w
    <3>1. OSTCBEventPtr[u] # NoEvent => u # t
      BY <1>2
    <3>2. OSTCBEventPtr[u] # NoEvent =>
            ((\A f \in Events : Owner(f) # u) => (\A f \in Events : Owner(f)' # u))
      BY <1>7, <2>3
    <3>3. \A f \in Events : Owner(f) # NoTCB => Owner(f)' # NoTCB
      BY <1>5, <1>7, CoreAssumption
    <3>4. \A f \in Events : Owner(f) = u /\ u # t => Owner(f)' = u
      BY <1>1, <1>7
    <3>5. /\ OSTCBStat'[u] = OSTCBStat[u] /\ OSTCBStatPend'[u] = OSTCBStatPend[u]
          /\ OSTCBDly'[u] = OSTCBDly[u] /\ OSTCBEventPtr'[u] = OSTCBEventPtr[u]
      BY <1>8, <1>9, <2>3
    <3>6. CASE OSTCBEventPtr[u] = NoEvent
      BY <1>14, <2>1, <3>5, <3>6 DEF PendOK
    <3>7. CASE OSTCBEventPtr[u] # NoEvent
      <4>. PICK f \in Events : f = OSTCBEventPtr[u]
        BY <2>1, <3>7
      <4>1. IsMutex(f)' /\ Owner(f)' # NoTCB
        BY <1>7, <2>1, <3>3, <3>7 DEF PendOK
      <4>2. IF OnWaitList(u, f)' THEN \A g \in Events : Owner(g)' # u ELSE Owner(f)' = u
        BY <1>10, <2>1, <2>3, <3>1, <3>2, <3>4, <3>7 DEF PendOK
      <4>3. OSTCBEventPtr'[u] = f /\ f # NoEvent
        BY <3>5, <3>7
      <4>4. /\ OSTCBStat'[u] \subseteq {"MUTEX", "SUSPEND"} /\ "SUSPEND" \notin OSTCBStat'[u]
            /\ pc'[u] \in {"pend", "wake"}
            /\ "MUTEX" \notin OSTCBStat'[u] => OSTCBDly'[u] = 0
        BY <1>14, <2>1, <3>5, <3>7 DEF PendOK
      <4>. QED BY <4>1, <4>2, <4>3, <4>4 DEF PendOK, Owner, IsMutex, OnWaitList
    <3>. QED BY <3>6, <3>7
  <2>. QED BY <2>2, <2>3
<1>16. Running'
  <2>1. OSPrioCur' = OSTCBPrio'[OSTCBCur]
    BY <1>2, <1>3
  <2>2. Runnable(t)' /\ Runnable(IdleTask)'
    BY <1>2, <1>5, <1>9, CoreAssumption DEF IInv, Running, IdleOK, Runnable
  <2>3. pc'[t] = "sched" /\ pc'[IdleTask] = "run" /\ OSTCBEventPtr'[IdleTask] = NoEvent
    BY <1>1, <1>2, <1>8, CoreAssumption DEF IInv, TypeOK, Running, IdleOK
  <2>. QED BY <1>1, <1>2, <2>1, <2>2, <2>3 DEF Running, IdleOK, Runnable
<1>17. OwnerOutranksWaiters'
  <2>1. \A u \in Tasks : OnWaitList(u, e)' => u \in WaitSet(e) /\ u # w
    BY <1>10 DEF WaitSet
  <2>2. \A u \in Tasks : OnWaitList(u, e)' => BasePrio[w] < BasePrio[u]
    <3> TAKE u \in Tasks
    <3>1. BasePrio[u] \in Int /\ BasePrio[w] \in Int
      BY <1>5, BaseRange
    <3>. QED BY <1>4, <1>5, <2>1, <3>1, CoreAssumption
  <2>3. OSTCBPrio'[w] = BasePrio[w]
    BY <1>3, <1>5
  <2>4. \A f \in Events, u \in Tasks : OnWaitList(u, f)' => OnWaitList(u, f)
    BY <1>10
  <2>. QED BY <1>1, <1>3, <1>5, <1>7, <2>2, <2>3, <2>4, ReleaseOutranks
<1>. QED BY <1>7, <1>12, <1>13, <1>15, <1>16, <1>17 DEF IInv
-----------------------------------------------------------------------------
LEMMA StutterStep == IInv /\ UNCHANGED vars => IInv'
<1> SUFFICES ASSUME IInv, UNCHANGED vars PROVE IInv'
  OBVIOUS
<1>1. UNCHANGED <<tcbVars, tblVars, OSRdyTbl, eventVars, curVars, nestVars, pc, OSEventPtr>>
  BY DEF vars, coreVars
<1>2. TypeOK'
  BY <1>1 DEF IInv, TypeOK, tcbVars, tblVars, eventVars, curVars, nestVars
<1>3. Running'
  BY <1>1 DEF IInv, Running, IdleOK, Runnable, tcbVars, curVars, nestVars
<1>. QED BY <1>1, <1>2, <1>3, QuietStep

LEMMA NextStep == Plain /\ IInv /\ [Next]_vars => IInv'
<1> SUFFICES ASSUME Plain, IInv, [Next]_vars PROVE IInv'
  OBVIOUS
<1>1. ASSUME NEW t \in Tasks, MutexCall(t) PROVE IInv'
  <2>1. ASSUME NEW e \in Events, NEW prio \in Ceilings, OSMutexCreate(t, e, prio) PROVE IInv'
    BY <2>1, CreateStep
  <2>2. ASSUME NEW e \in Events, OSMutexPendTake(t, e) PROVE IInv'
    BY <2>2, TakeStep
  <2>3. ASSUME NEW e \in Events, NEW timeout \in MutexTimeouts, OSMutexPendBlock(t, e, timeout) PROVE IInv'
    BY <2>3, BlockStep
  <2>4. ASSUME NEW e \in Events, OSMutexPost(t, e) PROVE IInv'
    BY <2>4, PostFreeStep, PostGiveStep
  <2>. QED BY <1>1, <2>1, <2>2, <2>3, <2>4 DEF MutexCall
<1>2. ASSUME NEW t \in Tasks, TaskStep(t) PROVE IInv'
  <2>1. ASSUME NEW ticks \in Delays, OSTimeDly(t, ticks), UNCHANGED OSEventPtr PROVE IInv'
    BY <2>1, DlyStep
  <2>2. ASSUME NEW prio \in Prios, OSTimeDlyResume(t, prio), UNCHANGED OSEventPtr PROVE IInv'
    BY <2>2, DlyResumeStep
  <2>3. ASSUME NEW prio \in Prios, OSTaskResume(t, prio), UNCHANGED OSEventPtr PROVE IInv'
    BY <2>3, ResumeStep
  <2>4. ASSUME NEW prio \in Prios, MaySuspend(t, prio), OSTaskSuspend(t, prio), UNCHANGED OSEventPtr
        PROVE IInv'
    BY <2>4, SuspendStep
  <2>5. ASSUME OSSchedLock(t) \/ OSSchedUnlock(t), UNCHANGED OSEventPtr PROVE IInv'
    BY <2>5, LockStep
  <2>. QED BY <1>1, <1>2, <2>1, <2>2, <2>3, <2>4, <2>5 DEF TaskStep
<1>3. ASSUME NEW t \in Tasks, KernelStep(t) PROVE IInv'
  BY <1>3, SchedStep, ReturnStep DEF KernelStep
<1>4. ASSUME Interrupt PROVE IInv'
  BY <1>4, TickStep, IntExitStep DEF Interrupt
<1>5. ASSUME UNCHANGED vars PROVE IInv'
  BY <1>5, StutterStep
<1>. QED BY <1>2, <1>3, <1>4, <1>5 DEF Next

(* The parts a reader knows from the runs.                                 *)
LEMMA IInvLists == IInv => PriorityListsExact
<1> SUFFICES ASSUME IInv PROVE PriorityListsExact
  OBVIOUS
<1>1. {u \in OSTCBList : Runnable(u)} = ReadySet
  BY DEF IInv, Lookups, ReadySet
<1>2. ReadyListExact
  BY <1>1 DEF IInv, Lists, ReadyListExact, Current
<1>3. WaitListExact
  <2> SUFFICES ASSUME NEW e \in Events
               PROVE  OSEventTbl[e] = MapOf({OSTCBPrio[t] : t \in {u \in OSTCBList : OnWaitList(u, e)}})
    BY DEF WaitListExact
  <2>1. {u \in OSTCBList : OnWaitList(u, e)} = WaitSet(e)
    BY DEF IInv, Lookups, WaitSet
  <2>. QED BY <2>1, WaitersCurrent DEF IInv, Lists, Current
<1>. QED BY <1>2, <1>3 DEF PriorityListsExact

LEMMA IInvPromotion == IInv => PromotionRecorded
<1> SUFFICES ASSUME IInv PROVE PromotionRecorded
  OBVIOUS
<1>1. \A t \in Tasks : Promoted(t) =>
        \E e \in Events : IsMutex(e) /\ Owner(e) = t /\ OSTCBPrio[t] = Pcp(e)
  BY OwnersPrio DEF IInv, Ownership
<1>2. OwnerRecorded
  BY <1>1, MutexParts DEF IInv, OwnerRecorded
<1>. QED BY <1>2 DEF IInv, Ownership, PromotionRecorded

LEMMA IInvCurrent == IInv => CurrentTaskConsistent
<1> SUFFICES ASSUME IInv PROVE CurrentTaskConsistent
  OBVIOUS
<1>1. OSTCBCur \in Tasks
  BY DEF IInv, TypeOK
<1>. QED BY <1>1 DEF IInv, Running, Lookups, CurrentTaskConsistent

(* IInv is inductive: it relates the priority of every task to the mutex   *)
(* it owns, the lists to the TCBs, and each call of OSMutexPend() to the   *)
(* owner of the mutex it waits for (os_mutex.c, os_core.c).                *)
THEOREM MutexInvariance == Plain => (Spec => []IInv)
<1> SUFFICES ASSUME Plain PROVE Spec => []IInv
  OBVIOUS
<1>1. Init => IInv
  BY InitStep
<1>2. IInv /\ [Next]_vars => IInv'
  BY NextStep
<1>. QED BY <1>1, <1>2, PTL DEF Spec

(* The state has its type, whatever the tasks do with their mutexes.       *)
THEOREM MutexTypeCorrect == Plain => (Spec => []TypeOK)
<1>1. IInv => TypeOK
  BY DEF IInv
<1>. QED BY <1>1, MutexInvariance, PTL

(* The ready list and the wait lists hold each task at its current         *)
(* priority: what OSMutexPend() moves up, OSMutexPost() moves down, and no *)
(* delay, time-out or resumption in between leaves a bit behind.           *)
THEOREM PriorityListsHold == Plain => (Spec => []PriorityListsExact)
BY IInvLists, MutexInvariance, PTL

(* The owner field, the lower byte of the mutex, the priority of the TCB   *)
(* and the entry of the ceiling in OSTCBPrioTbl tell the same story.       *)
THEOREM PromotionsOnRecord == Plain => (Spec => []PromotionRecorded)
BY IInvPromotion, MutexInvariance, PTL

(* No unbounded priority inversion: the owner of a mutex with a ceiling    *)
(* outranks every task that waits for the mutex.                           *)
THEOREM NoInversion == Plain => (Spec => []OwnerOutranksWaiters)
<1>1. IInv => OwnerOutranksWaiters
  BY DEF IInv
<1>. QED BY <1>1, MutexInvariance, PTL

(* OSPrioCur is the priority of the running task through promotions and    *)
(* their end, and the running task is ready.                               *)
THEOREM CurrentConsistent == Plain => (Spec => []CurrentTaskConsistent)
BY IInvCurrent, MutexInvariance, PTL
-----------------------------------------------------------------------------
(* Which steps may leave a ready task of higher priority than the running  *)
(* one.                                                                    *)
Settled == OSIntNesting = 0 /\ OSLockNesting = 0 /\ pc[OSTCBCur] \in {"run", "wake"}
OnTop   == OSPrioCur = MapHighest(OSRdyTbl)

(* The rest of HighestPriorityRuns always holds.                           *)
LEMMA HighestIs == IInv => (HighestPriorityRuns <=> (Settled => OnTop))
<1> SUFFICES ASSUME IInv PROVE HighestPriorityRuns <=> (Settled => OnTop)
  OBVIOUS
<1>1. OSTCBCur \in Tasks
  BY DEF IInv, TypeOK
<1>2. OSTCBCur = OSTCBPrioTbl[OSPrioCur]
  BY <1>1 DEF IInv, Running, Lookups
<1>3. Settled => Runnable(OSTCBCur)
  BY DEF IInv, Running, Settled
<1>. QED BY <1>2, <1>3 DEF HighestPriorityRuns, Settled, OnTop

LEMMA HighestIsPrime == IInv' => (HighestPriorityRuns' <=> (Settled' => OnTop'))
  BY HighestIs, PTL

(* The running task stays on top when others leave the ready list.         *)
LEMMA TopStays ==
  ASSUME IInv, IInv', OnTop, ReadySet' \subseteq ReadySet, OSTCBCur' \in ReadySet',
         UNCHANGED <<OSTCBPrio, curVars>>
  PROVE  OnTop'
<1>1. ReadySet' \in SUBSET Tasks /\ ReadySet \in SUBSET Tasks
  BY DEF ReadySet
<1>2. Current(ReadySet) \in SUBSET Prios /\ Current(ReadySet') \in SUBSET Prios
  BY <1>1, CurrentType DEF IInv
<1>3. Current(ReadySet)' = Current(ReadySet')
  BY DEF Current
<1>4. OSRdyTbl' = MapOf(Current(ReadySet')) /\ OSRdyTbl = MapOf(Current(ReadySet))
  BY <1>3 DEF IInv, Lists
<1>5. Current(ReadySet') \subseteq Current(ReadySet) /\ OSPrioCur \in Current(ReadySet')
  BY <1>1 DEF Current, IInv, Running, curVars
<1>6. /\ MapHighest(MapOf(Current(ReadySet'))) \in Current(ReadySet')
      /\ \A p \in Current(ReadySet') : MapHighest(MapOf(Current(ReadySet'))) <= p
      /\ \A p \in Current(ReadySet) : OSPrioCur <= p
  BY <1>2, <1>4, <1>5, MapHighestOf DEF OnTop
<1>7. \A p \in Prios : p \in Int
  BY PrioRange
<1>8. MapHighest(MapOf(Current(ReadySet'))) = OSPrioCur
  BY <1>2, <1>5, <1>6, <1>7
<1>. QED BY <1>4, <1>8 DEF OnTop, curVars

Defers == HighestPriorityRuns /\ ~HighestPriorityRuns'

Lowers == \E e \in Events : /\ Owner(e) = OSTCBCur /\ Promoted(OSTCBCur)
                            /\ Owner(e)' = NoTCB /\ ~Promoted(OSTCBCur)'

(* A step after which nobody is on the way to the scheduler who was not so *)
(* before, with the same ready list and the same task.                     *)
LEMMA SameTop ==
  ASSUME IInv, IInv', Settled' => Settled, UNCHANGED <<OSRdyTbl, OSPrioCur>>
  PROVE  ~Defers
  BY HighestIs, HighestIsPrime DEF OnTop, Defers

LEMMA NotSettled ==
  ASSUME IInv', ~Settled'
  PROVE  ~Defers
  BY HighestIsPrime DEF Defers

LEMMA SwitchOnTop ==
  ASSUME IInv, IInv', Switch, OSRdyTbl' = OSRdyTbl
  PROVE  ~Defers
<1>1. OSPrioCur' = MapHighest(OSRdyTbl)
  BY DEF Switch, curVars
<1>. QED BY <1>1, HighestIsPrime DEF OnTop, Defers

LEMMA DefersPost ==
  ASSUME IInv, IInv', NEW t \in Tasks, NEW e \in Events, OSMutexPost(t, e), Defers
  PROVE  Lowers
<1>1. Calls(t) /\ IsMutex(e) /\ OSEventPtr[e] = t /\ OSTCBCur' = OSTCBCur
  BY DEF OSMutexPost
<1>2. OSTCBCur = t /\ t # IdleTask
  BY <1>1, CallerM
<1>3. CASE Waiting(e)
  <2>1. pc' = [pc EXCEPT ![t] = "sched"]
    BY <1>3 DEF OSMutexPost, Goto
  <2>2. ~Settled'
    BY <1>1, <1>2, <2>1 DEF IInv, TypeOK, Settled
  <2>. QED BY <2>2, NotSettled
<1>4. CASE ~Waiting(e)
  <2>1. /\ OSEventPtr' = [OSEventPtr EXCEPT ![e] = NoTCB]
        /\ UNCHANGED <<pc, nestVars>>
    BY <1>4 DEF OSMutexPost
  <2>2. CASE MustRestore(t, e)
    <3>1. Promoted(t) /\ OwnerPrio(e) = BasePrio[t]
      <4>1. Pcp(e) # CeilDis /\ OSTCBPrio[t] = Pcp(e)
        BY <2>2 DEF MustRestore
      <4>2. OwnerPrio(e) = BasePrio[t] /\ Pcp(e) < BasePrio[t] /\ Pcp(e) \in Int
        BY <1>1, <4>1, MutexParts, CoreAssumption DEF IInv, Owner
      <4>3. BasePrio[t] \in Int
        BY BaseRange
      <4>. QED BY <4>1, <4>2, <4>3 DEF Promoted
    <3>2. OSTCBPrio' = [OSTCBPrio EXCEPT ![t] = OwnerPrio(e)]
      BY <2>2 DEF OSMutexPost, OSMutex_RdyAtPrio
    <3>3. ~Promoted(t)'
      BY <3>1, <3>2 DEF IInv, TypeOK, Promoted
    <3>4. Owner(e) = t /\ Owner(e)' = NoTCB
      BY <1>1, <2>1 DEF IInv, Ownership, Owner
    <3>5. Promoted(OSTCBCur) /\ ~Promoted(OSTCBCur)'
      BY <1>1, <1>2, <3>1, <3>3 DEF Promoted
    <3>. QED BY <1>2, <3>4, <3>5 DEF Lowers
  <2>3. CASE ~MustRestore(t, e)
    <3>1. UNCHANGED <<OSRdyTbl, OSPrioCur>>
      BY <1>4, <2>3 DEF OSMutexPost
    <3>2. Settled' => Settled
      BY <1>1, <2>1 DEF Settled, nestVars
    <3>. QED BY <3>1, <3>2, SameTop
  <2>. QED BY <2>2, <2>3
<1>. QED BY <1>3, <1>4

LEMMA DefersMutexCall ==
  ASSUME IInv, IInv', NEW t \in Tasks, MutexCall(t), Defers
  PROVE  Lowers
<1>1. ASSUME NEW e \in Events, NEW prio \in Ceilings, OSMutexCreate(t, e, prio) PROVE FALSE
  <2>1. UNCHANGED <<OSRdyTbl, curVars, nestVars, pc>>
    BY <1>1 DEF OSMutexCreate
  <2>. QED BY <2>1, SameTop DEF Settled, curVars, nestVars
<1>2. ASSUME NEW e \in Events, OSMutexPendTake(t, e) PROVE FALSE
  <2>1. UNCHANGED <<OSRdyTbl, curVars, nestVars, pc>>
    BY <1>2 DEF OSMutexPendTake
  <2>. QED BY <2>1, SameTop DEF Settled, curVars, nestVars
<1>3. ASSUME NEW e \in Events, NEW timeout \in MutexTimeouts, OSMutexPendBlock(t, e, timeout) PROVE FALSE
  <2>1. OSTCBCur' = t /\ pc' = [pc EXCEPT ![t] = "pend"]
    BY <1>3, CallerM DEF OSMutexPendBlock, EventTaskWait, Goto, curVars
  <2>2. ~Settled'
    BY <2>1 DEF IInv, TypeOK, Settled
  <2>. QED BY <2>2, NotSettled
<1>. QED BY <1>1, <1>2, <1>3, DefersPost DEF MutexCall

LEMMA DefersTaskStep ==
  ASSUME Plain, IInv, IInv', NEW t \in Tasks, TaskStep(t), Defers
  PROVE  Lowers
<1>1. ASSUME NEW ticks \in Delays, OSTimeDly(t, ticks) PROVE FALSE
  <2>1. OSTCBCur' = t /\ pc' = [pc EXCEPT ![t] = "sched"]
    BY <1>1, CallerM DEF OSTimeDly, Goto, curVars
  <2>2. ~Settled'
    BY <2>1 DEF IInv, TypeOK, Settled
  <2>. QED BY <2>2, NotSettled
<1>2. ASSUME NEW prio \in Prios, OSTimeDlyResume(t, prio) PROVE FALSE
  <2> DEFINE u == OSTCBPrioTbl[prio]
  <2>1. OSTCBCur = t /\ UNCHANGED <<curVars, nestVars>> /\ u \in Tasks
    BY <1>2, CallerM DEF OSTimeDlyResume
  <2>2. CASE "SUSPEND" \notin OSTCBStat[u]
    <3>1. pc' = [pc EXCEPT ![t] = "sched"]
      BY <1>2, <2>2 DEF OSTimeDlyResume, Goto
    <3>2. ~Settled'
      BY <2>1, <3>1 DEF IInv, TypeOK, Settled, curVars
    <3>. QED BY <3>2, NotSettled
  <2>3. CASE "SUSPEND" \in OSTCBStat[u]
    <3>1. pc' = pc /\ OSRdyTbl' = MapSet(OSRdyTbl, {OSTCBPrio[v] : v \in {}})
      <4>1. {v \in {u} : "SUSPEND" \notin OSTCBStat[v]} = {}
        BY <2>3
      <4>. QED BY <1>2, <2>3, <4>1 DEF OSTimeDlyResume, Expire
    <3>2. OSRdyTbl' = OSRdyTbl
      <4>1. ReadySet \in SUBSET Tasks /\ {} \in SUBSET Tasks /\ ReadySet \cup {} = ReadySet
        BY DEF ReadySet
      <4>. QED BY <3>1, <4>1, CurrentJoin DEF IInv, Lists
    <3>. QED BY <2>1, <3>1, <3>2, SameTop DEF Settled, curVars, nestVars
  <2>. QED BY <2>2, <2>3
<1>3. ASSUME NEW prio \in Prios, OSTaskResume(t, prio) PROVE FALSE
  <2>1. OSTCBCur = t /\ UNCHANGED <<curVars, nestVars>>
    BY <1>3, CallerM DEF OSTaskResume
  <2>2. CASE pc' = [pc EXCEPT ![t] = "sched"]
    <3>1. ~Settled'
      BY <2>1, <2>2 DEF IInv, TypeOK, Settled, curVars
    <3>. QED BY <3>1, NotSettled
  <2>3. CASE UNCHANGED <<OSRdyTbl, pc>>
    BY <2>1, <2>3, SameTop DEF Settled, curVars, nestVars
  <2>. QED BY <1>3, <2>2, <2>3 DEF OSTaskResume, Goto
<1>4. ASSUME NEW prio \in Prios, MaySuspend(t, prio), OSTaskSuspend(t, prio) PROVE FALSE
  <2>. PICK u \in Tasks : u = OSTCBPrioTbl[prio]
    BY <1>4 DEF OSTaskSuspend
  <2>1. /\ OSTCBCur = t /\ UNCHANGED <<OSTCBPrio, OSTCBDly, curVars, nestVars>>
        /\ OSTCBStat' = [OSTCBStat EXCEPT ![u] = OSTCBStat[u] \cup {"SUSPEND"}]
        /\ t \in ReadySet
    BY <1>4, CallerM DEF OSTaskSuspend
  <2>2. CASE prio = OSTCBPrio[t]
    <3>1. pc' = [pc EXCEPT ![t] = "sched"]
      BY <1>4, <2>2 DEF OSTaskSuspend, Goto
    <3>2. ~Settled'
      BY <2>1, <3>1 DEF IInv, TypeOK, Settled, curVars
    <3>. QED BY <3>2, NotSettled
  <2>3. CASE prio # OSTCBPrio[t]
    <3>1. pc' = pc /\ OSTCBPrio[u] = prio
      BY <1>4, <2>3 DEF OSTaskSuspend, MaySuspend, Plain
    <3>2. u # t
      BY <2>3, <3>1
    <3>3. ReadySet' \subseteq ReadySet /\ OSTCBCur' \in ReadySet'
      BY <2>1, <3>2 DEF IInv, TypeOK, ReadySet, Runnable, curVars
    <3>4. Settled' => Settled
      BY <2>1, <3>1 DEF Settled, curVars, nestVars
    <3>5. OnTop => OnTop'
      BY <2>1, <3>3, TopStays
    <3>. QED BY <3>4, <3>5, HighestIs, HighestIsPrime DEF Defers
  <2>. QED BY <2>2, <2>3
<1>5. ASSUME OSSchedLock(t) PROVE FALSE
  <2>1. OSLockNesting' # 0
    BY <1>5 DEF OSSchedLock, IInv, TypeOK
  <2>. QED BY <2>1, NotSettled DEF Settled
<1>6. ASSUME OSSchedUnlock(t) PROVE FALSE
  <2>1. OSTCBCur' = t /\ (OSLockNesting' = 0 => pc' = [pc EXCEPT ![t] = "sched"])
    BY <1>6, CallerM DEF OSSchedUnlock, Goto, curVars
  <2>2. ~Settled'
    BY <2>1 DEF IInv, TypeOK, Settled
  <2>. QED BY <2>2, NotSettled
<1>. QED BY <1>1, <1>2, <1>3, <1>4, <1>5, <1>6, DefersMutexCall DEF TaskStep

LEMMA DefersStep == Plain /\ IInv /\ IInv' /\ [Next]_vars => (Defers => Lowers)
<1> SUFFICES ASSUME Plain, IInv, IInv', [Next]_vars, Defers PROVE Lowers
  OBVIOUS
<1>1. ASSUME NEW t \in Tasks, OS_Sched(t) PROVE FALSE
  <2>1. OSRdyTbl' = OSRdyTbl /\ UNCHANGED nestVars
    BY <1>1 DEF OS_Sched
  <2>2. CASE OSLockNesting = 0
    <3>1. Switch
      BY <1>1, <2>2 DEF OS_Sched
    <3>. QED BY <2>1, <3>1, SwitchOnTop
  <2>3. CASE OSLockNesting # 0
    BY <2>1, <2>3, NotSettled DEF Settled, nestVars
  <2>. QED BY <2>2, <2>3
<1>2. ASSUME NEW t \in Tasks, PendReturn(t) PROVE FALSE
  <2>1. /\ UNCHANGED <<OSRdyTbl, curVars, nestVars>>
        /\ OSTCBCur = t /\ pc[t] = "wake"
    BY <1>2 DEF PendReturn, At
  <2>. QED BY <2>1, SameTop DEF Settled, curVars, nestVars
<1>3. ASSUME TickISR PROVE FALSE
  <2>1. OSIntNesting' = 1
    BY <1>3 DEF TickISR, EnterISR
  <2>. QED BY <2>1, NotSettled DEF Settled
<1>4. ASSUME OSIntExit PROVE FALSE
  <2>1. OSRdyTbl' = OSRdyTbl /\ OSIntNesting' = 0 /\ OSLockNesting' = OSLockNesting
    BY <1>4 DEF OSIntExit, IInv, TypeOK
  <2>2. CASE OSLockNesting = 0
    <3>1. Switch
      BY <1>4, <2>1, <2>2 DEF OSIntExit
    <3>. QED BY <2>1, <3>1, SwitchOnTop
  <2>3. CASE OSLockNesting # 0
    BY <2>1, <2>3, NotSettled DEF Settled
  <2>. QED BY <2>2, <2>3
<1>5. ASSUME UNCHANGED vars PROVE FALSE
  <2>1. UNCHANGED <<OSRdyTbl, curVars, nestVars, pc>>
    BY <1>5 DEF vars, coreVars
  <2>. QED BY <2>1, SameTop DEF Settled, curVars, nestVars
<1>. QED BY <1>1, <1>2, <1>3, <1>4, <1>5, DefersTaskStep DEF Next, KernelStep, Interrupt

(* A ready task of higher priority than the running one is passed over     *)
(* only by an OSMutexPost() that ends its caller's promotion and leaves    *)
(* nobody waiting: os_mutex.c returns there without OS_Sched().            *)
THEOREM LoweringAlone == Plain => (Spec => OnlyLoweringDefers)
<1> SUFFICES ASSUME Plain PROVE Spec => OnlyLoweringDefers
  OBVIOUS
<1>1. IInv /\ IInv' /\ [Next]_vars =>
        [HighestPriorityRuns /\ ~HighestPriorityRuns' =>
           \E e \in Events : /\ Owner(e) = OSTCBCur /\ Promoted(OSTCBCur)
                             /\ Owner(e)' = NoTCB /\ ~Promoted(OSTCBCur)']_vars
  BY DefersStep DEF Defers, Lowers
<1>. QED BY <1>1, MutexInvariance, PTL DEF Spec, OnlyLoweringDefers
-----------------------------------------------------------------------------
(* The calls of OSMutexPend() as MutexAbs sees them.  Every step maps to   *)
(* one of its actions, or leaves what it can see as it is.                 *)
On(t) == IF OSTCBEventPtr[t] = NoEvent THEN "none" ELSE OSTCBEventPtr[t]

SeenTCB(t) ==
  /\ OSTCBEventPtr'[t] = OSTCBEventPtr[t]
  /\ "MUTEX" \in OSTCBStat'[t] <=> "MUTEX" \in OSTCBStat[t]
  /\ OSTCBStatPend'[t] = OSTCBStatPend[t]

LEMMA SameCall ==
  ASSUME NEW t, SeenTCB(t)
  PROVE  PendState(t)' = PendState(t) /\ On(t)' = On(t)
  BY DEF SeenTCB, PendState, On

LEMMA SimFrame ==
  ASSUME \A e \in Events : IsMutex(e)' <=> IsMutex(e), UNCHANGED OSEventPtr,
         \A t \in Tasks : SeenTCB(t)
  PROVE  UNCHANGED Abs!absVars
<1>1. \A e \in Events : IsMutex(e)' = IsMutex(e)
  BY DEF IsMutex
<1>2. \A t \in Tasks : PendState(t)' = PendState(t) /\ On(t)' = On(t)
  BY SameCall
<1>. QED BY <1>1, <1>2 DEF Abs!absVars, On

(* Three kinds of call.                                                    *)
LEMMA CallKinds ==
  ASSUME IInv, NEW t \in Tasks
  PROVE  /\ OSTCBEventPtr[t] = NoEvent <=> PendState(t) = "idle"
         /\ PendState(t) \in {"waiting", "expired"}
              <=> OSTCBEventPtr[t] # NoEvent /\ OnWaitList(t, OSTCBEventPtr[t])
         /\ PendState(t) \in {"idle", "waiting", "expired", "acquired"}
<1>1. OSTCBStat[t] \cap PendAny # {} <=> "MUTEX" \in OSTCBStat[t]
  BY DEF IInv, PendOK, PendAny
<1>2. CASE OSTCBEventPtr[t] = NoEvent
  <2>1. PendState(t) = "idle"
    BY <1>2 DEF PendState
  <2>. QED BY <1>2, <2>1
<1>3. CASE OSTCBEventPtr[t] # NoEvent
  <2>1. PendState(t) = IF "MUTEX" \in OSTCBStat[t] THEN "waiting"
                       ELSE IF OSTCBStatPend[t] = "TO" THEN "expired" ELSE "acquired"
    BY <1>3 DEF PendState
  <2>2. OnWaitList(t, OSTCBEventPtr[t]) <=> "MUTEX" \in OSTCBStat[t] \/ OSTCBStatPend[t] = "TO"
    BY <1>1 DEF OnWaitList
  <2>. QED BY <1>3, <2>1, <2>2
<1>. QED BY <1>2, <1>3

LEMMA ReachableIs ==
  ASSUME IInv, NEW e \in Events
  PROVE  Abs!Reachable(e) = WaitSet(e)
<1> SUFFICES ASSUME NEW t \in Tasks
             PROVE  On(t) = e /\ PendState(t) \in {"waiting", "expired"} <=> OnWaitList(t, e)
  BY DEF Abs!Reachable, WaitSet, On
<1>1. ASSUME OnWaitList(t, e) PROVE OSTCBEventPtr[t] = e /\ OSTCBEventPtr[t] # NoEvent
  BY <1>1, Waiters, CoreAssumption
<1>. QED BY <1>1, CallKinds DEF On

LEMMA SimInit == Init => Abs!AbsInit
<1> SUFFICES ASSUME Init PROVE Abs!AbsInit
  OBVIOUS
<1>1. \A e \in Events : IsMutex(e) = FALSE
  BY DEF Init, IsMutex
<1>2. \A t \in Tasks : PendState(t) = "idle" /\ OSTCBEventPtr[t] = NoEvent
  BY DEF Init, CoreInit, PendState
<1>. QED BY <1>1, <1>2 DEF Abs!AbsInit, Abs!NoMutex, Init

LEMMA SimCreate ==
  ASSUME IInv, NEW t \in Tasks, NEW e \in Events, NEW prio \in Ceilings, OSMutexCreate(t, e, prio)
  PROVE  Abs!Make(e)
<1>1. /\ UNCHANGED tcbVars
      /\ OSEventType[e] = "UNUSED" /\ OSEventType' = [OSEventType EXCEPT ![e] = "MUTEX"]
      /\ OSEventPtr' = [OSEventPtr EXCEPT ![e] = NoTCB]
  BY DEF OSMutexCreate
<1>2. ~IsMutex(e) /\ IsMutex(e)' = TRUE /\ \A f \in Events \ {e} : IsMutex(f)' = IsMutex(f)
  BY <1>1 DEF IsMutex, IInv, TypeOK
<1>3. OSEventPtr' = OSEventPtr
  BY <1>1, <1>2 DEF IInv, Ownership, Owner
<1>4. \A u \in Tasks : PendState(u)' = PendState(u) /\ On(u)' = On(u)
  BY <1>1, SameCall DEF SeenTCB, tcbVars
<1>. QED BY <1>2, <1>3, <1>4 DEF Abs!Make, On

LEMMA SimTake ==
  ASSUME IInv, NEW t \in Tasks, NEW e \in Events, OSMutexPendTake(t, e)
  PROVE  Abs!Acquire(t, e)
<1>1. /\ Calls(t) /\ IsMutex(e) /\ OwnerPrio(e) = Available
      /\ OSEventPtr' = [OSEventPtr EXCEPT ![e] = t]
      /\ UNCHANGED tcbVars /\ OSEventType' = OSEventType
  BY DEF OSMutexPendTake
<1>2. OSEventPtr[e] = NoTCB
  BY <1>1, MutexParts DEF IInv, Owner
<1>3. PendState(t) = "idle"
  BY <1>1, CallerM, CallKinds
<1>4. \A u \in Tasks : PendState(u)' = PendState(u) /\ On(u)' = On(u)
  BY <1>1, SameCall DEF SeenTCB, tcbVars
<1>5. \A f \in Events : IsMutex(f)' = IsMutex(f)
  BY <1>1 DEF IsMutex
<1>. QED BY <1>1, <1>2, <1>3, <1>4, <1>5 DEF Abs!Acquire, On

LEMMA SimBlock ==
  ASSUME IInv, NEW t \in Tasks, NEW e \in Events, NEW timeout \in MutexTimeouts,
         OSMutexPendBlock(t, e, timeout)
  PROVE  Abs!Wait(t, e)
<1>1. /\ Calls(t) /\ IsMutex(e) /\ ~Owns(t) /\ OwnerPrio(e) # Available
      /\ OSTCBStat' = [OSTCBStat EXCEPT ![t] = OSTCBStat[t] \cup {"MUTEX"}]
      /\ OSTCBStatPend' = [OSTCBStatPend EXCEPT ![t] = "OK"]
      /\ OSTCBEventPtr' = [OSTCBEventPtr EXCEPT ![t] = e]
      /\ UNCHANGED <<OSEventType, OSEventPtr>>
  BY DEF OSMutexPendBlock, EventTaskWait
<1>2. OSEventPtr[e] \notin {NoTCB, t}
  BY <1>1, MutexParts DEF IInv, Owner, Owns
<1>3. PendState(t) = "idle"
  BY <1>1, CallerM, CallKinds
<1>4. PendState(t)' = "waiting" /\ On(t)' = e
  <2>1. OSTCBEventPtr'[t] = e /\ e # NoEvent /\ "MUTEX" \in OSTCBStat'[t]
    BY <1>1, CoreAssumption DEF IInv, TypeOK
  <2>. QED BY <2>1 DEF PendState, On
<1>5. \A u \in Tasks \ {t} : PendState(u)' = PendState(u) /\ On(u)' = On(u)
  <2>1. \A u \in Tasks \ {t} : SeenTCB(u)
    BY <1>1 DEF SeenTCB, IInv, TypeOK
  <2>. QED BY <2>1, SameCall
<1>6. \A f \in Events : IsMutex(f)' = IsMutex(f)
  BY <1>1 DEF IsMutex
<1>7. [u \in Tasks |-> PendState(u)]' = [[u \in Tasks |-> PendState(u)] EXCEPT ![t] = "waiting"]
  BY <1>4, <1>5
<1>8. [u \in Tasks |-> On(u)]' = [[u \in Tasks |-> On(u)] EXCEPT ![t] = e]
  BY <1>4, <1>5
<1>. QED BY <1>1, <1>2, <1>3, <1>6, <1>7, <1>8 DEF Abs!Wait, On

LEMMA SimPost ==
  ASSUME IInv, NEW t \in Tasks, NEW e \in Events, OSMutexPost(t, e)
  PROVE  Abs!Release(t, e)
<1>1. /\ Calls(t) /\ OSEventPtr[e] = t /\ OSEventType' = OSEventType
  BY DEF OSMutexPost
<1>2. PendState(t) = "idle"
  BY <1>1, CallerM, CallKinds
<1>3. Abs!Reachable(e) = WaitSet(e)
  BY ReachableIs
<1>4. \A f \in Events : IsMutex(f)' = IsMutex(f)
  BY <1>1 DEF IsMutex
<1>5. CASE ~Waiting(e)
  <2>1. WaitSet(e) = {}
    <3>1. PriosOf(WaitSet(e)) \in SUBSET Prios /\ OSEventTbl[e] = MapOf(PriosOf(WaitSet(e)))
      BY WaitSetType, PriosOfType DEF IInv, Lists
    <3>2. PriosOf(WaitSet(e)) = {}
      BY <1>5, <3>1, GrpOf DEF Waiting
    <3>. QED BY <3>2 DEF PriosOf
  <2>2. /\ OSEventPtr' = [OSEventPtr EXCEPT ![e] = NoTCB]
        /\ UNCHANGED <<OSTCBStat, OSTCBStatPend, OSTCBEventPtr>>
    BY <1>5 DEF OSMutexPost
  <2>3. \A u \in Tasks : PendState(u)' = PendState(u) /\ On(u)' = On(u)
    BY <2>2, SameCall DEF SeenTCB
  <2>. QED BY <1>1, <1>2, <1>3, <1>4, <2>1, <2>2, <2>3 DEF Abs!Release, On
<1>6. CASE Waiting(e)
  <2>1. PICK w \in WaitSet(e) :
           /\ \A u \in WaitSet(e) : BasePrio[w] <= BasePrio[u]
           /\ w \in Tasks /\ OSTCBEventPtr[w] = e
           /\ GivenTo(w, e, IF MustRestore(t, e) THEN Moved(OSRdyTbl, OSTCBPrio[t], OwnerPrio(e))
                                                 ELSE OSRdyTbl)
    BY <1>6, Given
  <2>2. /\ OSEventPtr' = [OSEventPtr EXCEPT ![e] = w]
        /\ OSTCBEventPtr' = OSTCBEventPtr
        /\ OSTCBStat' = [u \in Tasks |-> IF u = w THEN OSTCBStat[u] \ {"MUTEX"} ELSE OSTCBStat[u]]
        /\ OSTCBStatPend' = [u \in Tasks |-> IF u = w THEN "OK" ELSE OSTCBStatPend[u]]
    BY <2>1 DEF GivenTo
  <2>3. PendState(w)' = "acquired" /\ On(w)' = On(w)
    <3>1. OSTCBEventPtr'[w] = e /\ e # NoEvent /\ "MUTEX" \notin OSTCBStat'[w] /\ OSTCBStatPend'[w] = "OK"
      BY <2>1, <2>2, CoreAssumption
    <3>. QED BY <2>2, <3>1 DEF PendState, On
  <2>4. \A u \in Tasks \ {w} : PendState(u)' = PendState(u) /\ On(u)' = On(u)
    <3>1. \A u \in Tasks \ {w} : SeenTCB(u)
      BY <2>2 DEF SeenTCB
    <3>. QED BY <3>1, SameCall
  <2>5. w \in Abs!Reachable(e) /\ \A u \in Abs!Reachable(e) : BasePrio[w] <= BasePrio[u]
    BY <1>3, <2>1
  <2>. QED BY <1>1, <1>2, <1>4, <2>1, <2>2, <2>3, <2>4, <2>5 DEF Abs!Release, On
<1>. QED BY <1>5, <1>6

LEMMA SimReturn ==
  ASSUME IInv, NEW t \in Tasks, PendReturn(t), UNCHANGED OSEventPtr
  PROVE  Abs!Return(t)
<1>1. /\ OSTCBCur = t /\ pc[t] = "wake" /\ OSEventType' = OSEventType
      /\ OSTCBStat' = [OSTCBStat EXCEPT ![t] = {}]
      /\ OSTCBStatPend' = [OSTCBStatPend EXCEPT ![t] = "OK"]
      /\ OSTCBEventPtr' = [OSTCBEventPtr EXCEPT ![t] = NoEvent]
  BY DEF PendReturn, At
<1>2. OSTCBEventPtr[t] \in Events /\ OSTCBEventPtr[t] # NoEvent /\ OSTCBStat[t] = {}
  BY <1>1, CoreAssumption DEF IInv, TypeOK, PendOK, Running, Runnable
<1>3. PendState(t)' = "idle" /\ On(t)' = "none" /\ On(t) = OSTCBEventPtr[t]
  <2>1. OSTCBEventPtr'[t] = NoEvent
    BY <1>1 DEF IInv, TypeOK
  <2>. QED BY <1>2, <2>1 DEF PendState, On
<1>4. \/ PendState(t) = "expired" /\ OSEventPtr[OSTCBEventPtr[t]] # t
      \/ PendState(t) = "acquired" /\ OSEventPtr[OSTCBEventPtr[t]] = t
  <2>1. OnWaitList(t, OSTCBEventPtr[t]) <=> OSTCBStatPend[t] = "TO"
    BY <1>2 DEF OnWaitList
  <2>2. PendState(t) = IF OSTCBStatPend[t] = "TO" THEN "expired" ELSE "acquired"
    BY <1>2 DEF PendState
  <2>3. IF OSTCBStatPend[t] = "TO" THEN Owner(OSTCBEventPtr[t]) # t ELSE Owner(OSTCBEventPtr[t]) = t
    BY <1>2, <2>1 DEF IInv, PendOK
  <2>. QED BY <2>2, <2>3 DEF Owner
<1>5. \A u \in Tasks \ {t} : PendState(u)' = PendState(u) /\ On(u)' = On(u)
  <2>1. \A u \in Tasks \ {t} : SeenTCB(u)
    BY <1>1 DEF SeenTCB, IInv, TypeOK
  <2>. QED BY <2>1, SameCall
<1>6. \A f \in Events : IsMutex(f)' = IsMutex(f)
  BY <1>1 DEF IsMutex
<1>. QED BY <1>2, <1>3, <1>4, <1>5, <1>6 DEF Abs!Return, Abs!NoMutex, On

(* Delays that run out.                                                    *)
LEMMA SimExpire ==
  ASSUME IInv, NEW ts \in SUBSET Tasks, NEW dly, Expire(ts, dly),
         \A t \in ts : OSTCBDly[t] # 0,
         UNCHANGED <<OSTCBEventPtr, OSEventType, OSEventPtr>>
  PROVE  Abs!TimeOut({t \in ts : "MUTEX" \in OSTCBStat[t]})
<1>1. /\ OSTCBStat' = [t \in Tasks |-> IF t \in ts /\ OSTCBStat[t] \cap PendAny # {}
                                          THEN OSTCBStat[t] \ PendAny ELSE OSTCBStat[t]]
      /\ OSTCBStatPend' = [t \in Tasks |->
                             IF t \in ts /\ OSTCBStat[t] \cap PendAny # {} THEN "TO"
                             ELSE IF t \in ts THEN "OK" ELSE OSTCBStatPend[t]]
  BY DEF Expire
<1>2. \A t \in Tasks : OSTCBStat[t] \cap PendAny # {} <=> "MUTEX" \in OSTCBStat[t]
  BY DEF IInv, PendOK, PendAny
<1>3. ASSUME NEW t \in Tasks
      PROVE  /\ On(t)' = On(t)
             /\ t \in ts /\ "MUTEX" \in OSTCBStat[t] =>
                  PendState(t) = "waiting" /\ PendState(t)' = "expired"
             /\ ~(t \in ts /\ "MUTEX" \in OSTCBStat[t]) => PendState(t)' = PendState(t)
  <2>1. CASE t \in ts /\ "MUTEX" \in OSTCBStat[t]
    <3>1. OSTCBEventPtr[t] # NoEvent
      BY <2>1 DEF IInv, PendOK
    <3>2. OSTCBStatPend'[t] = "TO" /\ "MUTEX" \notin OSTCBStat'[t]
      BY <1>1, <1>2, <2>1 DEF PendAny
    <3>3. PendState(t) = "waiting"
      BY <2>1, <3>1 DEF PendState
    <3>4. PendState(t)' = "expired"
      BY <3>1, <3>2 DEF PendState
    <3>. QED BY <2>1, <3>3, <3>4 DEF On
  <2>2. CASE ~(t \in ts /\ "MUTEX" \in OSTCBStat[t])
    <3>1. OSTCBStat'[t] = OSTCBStat[t]
      BY <1>1, <1>2, <2>2
    <3>2. CASE OSTCBEventPtr[t] = NoEvent
      <4>1. PendState(t) = "idle" /\ PendState(t)' = "idle" /\ On(t)' = On(t)
        BY <3>2 DEF PendState, On
      <4>. QED BY <2>2, <4>1
    <3>3. CASE OSTCBEventPtr[t] # NoEvent
      <4>1. t \notin ts
        BY <2>2, <3>3 DEF IInv, PendOK
      <4>2. SeenTCB(t)
        BY <1>1, <3>1, <4>1 DEF SeenTCB
      <4>. QED BY <4>2, <2>2, SameCall
    <3>. QED BY <2>2, <3>2, <3>3
  <2>. QED BY <2>1, <2>2
<1>4. \A f \in Events : IsMutex(f)' = IsMutex(f)
  BY DEF IsMutex
<1>. QED BY <1>3, <1>4 DEF Abs!TimeOut, On

LEMMA SimTaskStep ==
  ASSUME IInv, NEW t \in Tasks, TaskStep(t)
  PROVE  Abs!AbsNext \/ UNCHANGED Abs!absVars
<1>1. CASE MutexCall(t)
  BY <1>1, SimCreate, SimTake, SimBlock, SimPost DEF MutexCall, Abs!AbsNext
<1>2. ASSUME NEW prio \in Prios, OSTimeDlyResume(t, prio), UNCHANGED OSEventPtr
      PROVE  Abs!AbsNext
  <2> DEFINE u == OSTCBPrioTbl[prio]
  <2>1. /\ u \in Tasks /\ Expire({u}, [OSTCBDly EXCEPT ![u] = 0]) /\ OSTCBDly[u] # 0
        /\ UNCHANGED <<OSTCBEventPtr, OSEventType, OSEventPtr>>
    BY <1>2 DEF OSTimeDlyResume, eventVars
  <2> HIDE DEF u
  <2>2. Abs!TimeOut({v \in {u} : "MUTEX" \in OSTCBStat[v]})
    BY <2>1, SimExpire
  <2>3. {v \in {u} : "MUTEX" \in OSTCBStat[v]} \in SUBSET Tasks
    BY <2>1
  <2>. QED BY <2>2, <2>3 DEF Abs!AbsNext
<1>3. CASE /\ UNCHANGED OSEventPtr
           /\ \/ \E ticks \in Delays : OSTimeDly(t, ticks)
              \/ \E prio \in Prios : OSTaskSuspend(t, prio) \/ OSTaskResume(t, prio)
              \/ OSSchedLock(t) \/ OSSchedUnlock(t)
  <2>1. UNCHANGED <<OSTCBEventPtr, OSTCBStatPend, OSEventType>>
    BY <1>3 DEF OSTimeDly, OSTaskSuspend, OSTaskResume, OSSchedLock, OSSchedUnlock, tcbVars, eventVars
  <2>2. \A u \in Tasks : "MUTEX" \in OSTCBStat'[u] <=> "MUTEX" \in OSTCBStat[u]
    <3>1. CASE \E prio \in Prios : OSTaskSuspend(t, prio) \/ OSTaskResume(t, prio)
      BY <3>1 DEF OSTaskSuspend, OSTaskResume, IInv, TypeOK
    <3>2. CASE \E ticks \in Delays : OSTimeDly(t, ticks)
      BY <3>2 DEF OSTimeDly
    <3>3. CASE OSSchedLock(t) \/ OSSchedUnlock(t)
      BY <3>3 DEF OSSchedLock, OSSchedUnlock, tcbVars
    <3>. QED BY <1>3, <3>1, <3>2, <3>3
  <2>. QED BY <1>3, <2>1, <2>2, SimFrame DEF SeenTCB, IsMutex
<1>. QED BY <1>1, <1>2, <1>3 DEF TaskStep

LEMMA SimNext == IInv /\ [Next]_vars => [Abs!AbsNext]_Abs!absVars
<1> SUFFICES ASSUME IInv, [Next]_vars PROVE Abs!AbsNext \/ UNCHANGED Abs!absVars
  OBVIOUS
<1>1. ASSUME NEW t \in Tasks, PendReturn(t), UNCHANGED OSEventPtr PROVE Abs!AbsNext
  BY <1>1, SimReturn DEF Abs!AbsNext
<1>2. ASSUME TickISR, UNCHANGED OSEventPtr PROVE Abs!AbsNext
  <2> DEFINE walked == OSTCBList \ {IdleTask}
             left   == [t \in Tasks |-> IF t \in walked /\ OSTCBDly[t] # 0
                                          THEN OSTCBDly[t] - 1 ELSE OSTCBDly[t]]
             ts     == {t \in walked : OSTCBDly[t] # 0 /\ left[t] = 0}
  <2>1. /\ Expire(ts, left)
        /\ UNCHANGED <<OSTCBEventPtr, OSEventType, OSEventPtr>>
    BY <1>2 DEF TickISR, OSTimeTick, eventVars
  <2>2. ts \in SUBSET Tasks /\ \A t \in ts : OSTCBDly[t] # 0
    BY DEF IInv, Lookups
  <2> HIDE DEF ts, left
  <2>3. Abs!TimeOut({t \in ts : "MUTEX" \in OSTCBStat[t]})
    BY <2>1, <2>2, SimExpire
  <2>4. {t \in ts : "MUTEX" \in OSTCBStat[t]} \in SUBSET Tasks
    BY <2>2
  <2>. QED BY <2>3, <2>4 DEF Abs!AbsNext
<1>3. CASE (\E t \in Tasks : OS_Sched(t) /\ UNCHANGED OSEventPtr) \/ (OSIntExit /\ UNCHANGED OSEventPtr)
           \/ UNCHANGED vars
  <2>1. UNCHANGED <<tcbVars, eventVars, OSEventPtr>>
    BY <1>3 DEF OS_Sched, OSIntExit, vars, coreVars
  <2>. QED BY <2>1, SimFrame DEF SeenTCB, IsMutex, tcbVars, eventVars
<1>. QED BY <1>1, <1>2, <1>3, SimTaskStep DEF Next, KernelStep, Interrupt

(* The kernel implements MutexAbs: mutual exclusion, release by the owner  *)
(* only, and hand-over to the waiter of highest priority, for any number   *)
(* of tasks and mutexes (os_mutex.c).                                      *)
THEOREM MutexImplemented == Plain => (Spec => ImplementsMutex)
<1> SUFFICES ASSUME Plain PROVE Spec => ImplementsMutex
  OBVIOUS
<1>. QED BY SimInit, SimNext, MutexInvariance, PTL DEF Spec, ImplementsMutex, Abs!AbsSpec

=============================================================================
