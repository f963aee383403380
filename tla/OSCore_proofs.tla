----------------------------- MODULE OSCore_proofs -----------------------------
(***************************************************************************)
(* First, what the operations on a two-level priority bitmap do to the set *)
(* of priorities it stands for: all the proofs about the kernel need to    *)
(* know of rows, columns and group bits.  Then, what the compositions of   *)
(* the kernel have in common as long as no task changes its priority: the  *)
(* ready list as a set of tasks, the task at its head, and the steps of    *)
(* the scheduler.                                                          *)
(***************************************************************************)
EXTENDS OSTime, OSTask, TLAPS

(* A priority is determined by its row and its column.                     *)
LEMMA RowCol ==
  ASSUME NEW p \in Prios
  PROVE  /\ Row(p) \in Rows /\ Col(p) \in Cols
         /\ p = 8 * Row(p) + Col(p)
  BY LowestPrioAssumption, SMT DEF Prios, Rows, Cols, Row, Col

LEMMA RowColUnique ==
  ASSUME NEW p \in Prios, NEW q \in Prios, Row(p) = Row(q), Col(p) = Col(q)
  PROVE  p = q
  BY RowCol

(* The contents of the bitmap of a set of priorities.                      *)
LEMMA MapOfContents ==
  ASSUME NEW S \in SUBSET Prios
  PROVE  /\ MapOf(S) \in PrioMap
         /\ MapOf(S).grp = {y \in Rows : \E p \in S : y = Row(p)}
         /\ MapOf(S).tbl = [y \in Rows |-> {x \in Cols : \E p \in S : y = Row(p) /\ x = Col(p)}]
  BY DEF MapOf, MapSet, EmptyMap, PrioMap

LEMMA MapHasOf ==
  ASSUME NEW S \in SUBSET Prios, NEW p \in Prios
  PROVE  MapHas(MapOf(S), p) <=> p \in S
<1>1. Row(p) \in Rows /\ Col(p) \in Cols
  BY RowCol
<1>2. MapHas(MapOf(S), p) <=> \E q \in S : Row(p) = Row(q) /\ Col(p) = Col(q)
  BY <1>1 DEF MapHas, MapOf, MapSet, EmptyMap
<1>3. \A q \in S : Row(p) = Row(q) /\ Col(p) = Col(q) => p = q
  BY RowColUnique
<1>. QED BY <1>2, <1>3

LEMMA GrpOf ==
  ASSUME NEW S \in SUBSET Prios
  PROVE  MapOf(S).grp = {} <=> S = {}
<1>1. \A p \in S : Row(p) \in Rows
  BY RowCol
<1>. QED BY <1>1 DEF MapOf, MapSet, EmptyMap

LEMMA MapOfEmpty == MapOf({}) = EmptyMap
  BY DEF MapOf, MapSet, EmptyMap

(* Setting and clearing bits adds to and removes from the set.             *)
LEMMA MapSetOf ==
  ASSUME NEW S \in SUBSET Prios, NEW ps \in SUBSET Prios
  PROVE  MapSet(MapOf(S), ps) = MapOf(S \cup ps)
<1>1. MapSet(MapOf(S), ps).grp = MapOf(S \cup ps).grp
  BY DEF MapSet, MapOf, EmptyMap
<1>2. ASSUME NEW y \in Rows
      PROVE  MapSet(MapOf(S), ps).tbl[y] = MapOf(S \cup ps).tbl[y]
  BY DEF MapSet, MapOf, EmptyMap
<1>3. MapSet(MapOf(S), ps).tbl = MapOf(S \cup ps).tbl
  BY <1>2 DEF MapSet, MapOf
<1>. QED BY <1>1, <1>3 DEF MapSet, MapOf

LEMMA MapClrOf ==
  ASSUME NEW S \in SUBSET Prios, NEW ps \in SUBSET Prios
  PROVE  MapClr(MapOf(S), ps) = MapOf(S \ ps)
<1> DEFINE bits(P, y) == {x \in Cols : \E p \in P : y = Row(p) /\ x = Col(p)}
           row(y) == MapOf(S).tbl[y] \ bits(ps, y)
<1>1. ASSUME NEW y \in Rows
      PROVE  row(y) = bits(S \ ps, y)
  <2>1. MapOf(S).tbl[y] = bits(S, y)
    BY DEF MapOf, MapSet, EmptyMap
  <2>2. \A p \in S, q \in ps : Row(p) = Row(q) /\ Col(p) = Col(q) => p = q
    BY RowColUnique
  <2>. QED BY <2>1, <2>2
<1>2. MapClr(MapOf(S), ps) =
        [grp |-> MapOf(S).grp \ {y \in Rows : row(y) = {} /\ \E p \in ps : y = Row(p)},
         tbl |-> [y \in Rows |-> row(y)]]
  BY DEF MapClr
<1>3. MapOf(S \ ps) =
        [grp |-> {y \in Rows : \E p \in S \ ps : y = Row(p)},
         tbl |-> [y \in Rows |-> bits(S \ ps, y)]]
  <2>1. \A y \in Rows : EmptyMap.tbl[y] \cup bits(S \ ps, y) = bits(S \ ps, y)
    BY DEF EmptyMap
  <2>2. EmptyMap.grp = {}
    BY DEF EmptyMap
  <2>. QED BY <2>1, <2>2 DEF MapOf, MapSet
<1>4. ASSUME NEW y \in Rows
      PROVE  row(y) = {} <=> ~\E p \in S \ ps : y = Row(p)
  <2>1. \A p \in S : Col(p) \in Cols
    BY RowCol
  <2>. QED BY <1>1, <2>1
<1>5. MapOf(S).grp = {y \in Rows : \E p \in S : y = Row(p)}
  BY DEF MapOf, MapSet, EmptyMap
<1>6. MapOf(S).grp \ {y \in Rows : row(y) = {} /\ \E p \in ps : y = Row(p)}
        = {y \in Rows : \E p \in S \ ps : y = Row(p)}
  <2> HIDE DEF row
  <2>. QED BY <1>4, <1>5
<1>7. [y \in Rows |-> row(y)] = [y \in Rows |-> bits(S \ ps, y)]
  BY <1>1
<1>. QED BY <1>2, <1>3, <1>6, <1>7

(* OS_EventTaskRdy sets the group bit and the column of the TCB in the row *)
(* of the wait list: when the two agree, the bits of the priorities.       *)
LEMMA MapOrOf ==
  ASSUME NEW S \in SUBSET Prios, NEW ps \in SUBSET Prios
  PROVE  MapOr(MapOf(S), {Row(p) : p \in ps}, {<<Row(p), Col(p)>> : p \in ps})
           = MapOf(S \cup ps)
<1>1. \A p \in ps : Row(p) \in Rows
  BY RowCol
<1>2. MapOf(S).grp \cup {Row(p) : p \in ps} = MapSet(MapOf(S), ps).grp
  BY <1>1 DEF MapSet
<1>3. ASSUME NEW y \in Rows
      PROVE  {x \in Cols : <<y, x>> \in {<<Row(p), Col(p)>> : p \in ps}}
               = {x \in Cols : \E p \in ps : y = Row(p) /\ x = Col(p)}
  OBVIOUS
<1>4. MapOr(MapOf(S), {Row(p) : p \in ps}, {<<Row(p), Col(p)>> : p \in ps})
        = MapSet(MapOf(S), ps)
  BY <1>2, <1>3 DEF MapOr, MapSet
<1>. QED BY <1>4, MapSetOf

(* OSUnMapTbl gives the least element of a byte.                           *)
LEMMA LeastBit ==
  ASSUME NEW byte \in SUBSET Cols, byte # {}
  PROVE  /\ OSUnMapTbl(byte) \in byte
         /\ \A z \in byte : OSUnMapTbl(byte) <= z
<1>1. \A z \in byte : z \in {0, 1, 2, 3, 4, 5, 6, 7}
  BY DEF Cols
<1>2. CASE 0 \in byte
  BY <1>1, <1>2 DEF OSUnMapTbl
<1>3. CASE 1 \in byte /\ byte \cap 0 .. 0 = {}
  BY <1>1, <1>3 DEF OSUnMapTbl
<1>4. CASE 2 \in byte /\ byte \cap 0 .. 1 = {}
  BY <1>1, <1>4 DEF OSUnMapTbl
<1>5. CASE 3 \in byte /\ byte \cap 0 .. 2 = {}
  BY <1>1, <1>5 DEF OSUnMapTbl
<1>6. CASE 4 \in byte /\ byte \cap 0 .. 3 = {}
  BY <1>1, <1>6 DEF OSUnMapTbl
<1>7. CASE 5 \in byte /\ byte \cap 0 .. 4 = {}
  BY <1>1, <1>7 DEF OSUnMapTbl
<1>8. CASE 6 \in byte /\ byte \cap 0 .. 5 = {}
  BY <1>1, <1>8 DEF OSUnMapTbl
<1>9. CASE 7 \in byte /\ byte \cap 0 .. 6 = {}
  BY <1>1, <1>9 DEF OSUnMapTbl
<1>. QED BY <1>1, <1>2, <1>3, <1>4, <1>5, <1>6, <1>7, <1>8, <1>9

(* The scheduler picks the smallest priority number of the set.            *)
THEOREM MapHighestOf ==
  ASSUME NEW S \in SUBSET Prios, S # {}
  PROVE  /\ MapHighest(MapOf(S)) \in S
         /\ \A p \in S : MapHighest(MapOf(S)) <= p
<1> DEFINE grp == {r \in Rows : \E p \in S : r = Row(p)}
           byte(r) == {c \in Cols : \E p \in S : r = Row(p) /\ c = Col(p)}
           y == OSUnMapTbl(grp)
           x == OSUnMapTbl(byte(y))
<1>1. MapOf(S).grp = grp
  BY DEF MapOf, MapSet, EmptyMap
<1>2. \A r \in Rows : MapOf(S).tbl[r] = byte(r)
  BY DEF MapOf, MapSet, EmptyMap
<1>3. \A p \in S : Row(p) \in grp /\ Col(p) \in byte(Row(p))
  BY RowCol
<1>4. y \in grp /\ \A r \in grp : y <= r
  <2>1. grp \in SUBSET Cols
    BY LowestPrioAssumption DEF Cols, Rows
  <2>2. grp # {}
    BY <1>3
  <2>. QED BY <2>1, <2>2, LeastBit
<1>5. x \in byte(y) /\ \A c \in byte(y) : x <= c
  <2>1. byte(y) # {}
    BY <1>4, <1>3
  <2>. QED BY <2>1, LeastBit
<1>6. MapHighest(MapOf(S)) = 8 * y + x
  BY <1>1, <1>2, <1>4 DEF MapHighest
<1>7. PICK p \in S : y = Row(p) /\ x = Col(p)
  BY <1>5
<1>8. p = 8 * y + x
  BY <1>7, RowCol
<1> HIDE DEF y, x, grp, byte
<1>9. ASSUME NEW q \in S PROVE p <= q
  <2>1. q = 8 * Row(q) + Col(q) /\ Row(q) \in Int /\ Col(q) \in 0 .. 7
    BY RowCol, LowestPrioAssumption DEF Rows, Cols
  <2>2. y \in Int /\ x \in 0 .. 7
    <3>1. y \in Rows /\ x \in Cols
      BY <1>7, RowCol
    <3>. QED BY <3>1, LowestPrioAssumption DEF Rows, Cols
  <2>3. y <= Row(q)
    BY <1>3, <1>4
  <2>4. y = Row(q) => x <= Col(q)
    BY <1>3, <1>5
  <2>. QED BY <1>8, <2>1, <2>2, <2>3, <2>4
<1>. QED BY <1>6, <1>8, <1>9
--------------------------------------------------------------------------------
(* Sets of tasks and the sets of their priorities.                         *)
PriosOf(ts) == {BasePrio[t] : t \in ts}
ReadySet    == {t \in Tasks : Runnable(t)}

(* What no service changes but those of mutexes, of the life of tasks and  *)
(* of OSEventPendMulti(): priorities, and the table that leads from a      *)
(* priority to its task.                                                   *)
Fixed ==
  /\ OSTCBPrio = BasePrio
  /\ OSTCBList = Tasks
  /\ \A t \in Tasks : OSTCBPrioTbl[BasePrio[t]] = t
  /\ \A p \in Prios : OSTCBPrioTbl[p] \in Tasks => BasePrio[OSTCBPrioTbl[p]] = p
  /\ \A t \in Tasks : OSTCBEventMultiPtr[t] = {}

(* The idle task is always there for the scheduler to fall back on.        *)
IdleOK == Runnable(IdleTask) /\ pc[IdleTask] = "run"

(* The current priority is that of the current task, and a task that holds *)
(* the scheduler lock does not pend.                                       *)
CurOK ==
  /\ OSPrioCur = BasePrio[OSTCBCur]
  /\ OSLockNesting > 0 => pc[OSTCBCur] \in {"run", "sched"}

ReadyList == OSRdyTbl = MapOf(PriosOf(ReadySet))

(* The part of an inductive invariant that is about the scheduler.         *)
KInv ==
  /\ TypeOK /\ Fixed /\ IdleOK /\ CurOK
  /\ ReadyList /\ HighestPriorityRuns

-----------------------------------------------------------------------------
LEMMA PriosOfType ==
  ASSUME NEW ts \in SUBSET Tasks
  PROVE  PriosOf(ts) \in SUBSET Prios
  BY CoreAssumption DEF PriosOf

LEMMA PriosOfHas ==
  ASSUME NEW ts \in SUBSET Tasks, NEW t \in Tasks
  PROVE  BasePrio[t] \in PriosOf(ts) <=> t \in ts
  BY CoreAssumption DEF PriosOf

LEMMA PriosOfDiff ==
  ASSUME NEW A \in SUBSET Tasks, NEW B \in SUBSET Tasks
  PROVE  PriosOf(A) \ PriosOf(B) = PriosOf(A \ B)
  BY CoreAssumption DEF PriosOf

LEMMA PriosOfUnion ==
  ASSUME NEW A \in SUBSET Tasks, NEW B \in SUBSET Tasks
  PROVE  PriosOf(A) \cup PriosOf(B) = PriosOf(A \cup B)
  BY DEF PriosOf

LEMMA PriosOfOne == \A t : PriosOf({t}) = {BasePrio[t]}
  BY DEF PriosOf

(* The task at the head of a bitmap.                                       *)
LEMMA HeadOf ==
  ASSUME NEW A \in SUBSET Tasks, A # {}
  PROVE  \E t \in A : /\ MapHighest(MapOf(PriosOf(A))) = BasePrio[t]
                      /\ \A u \in A : BasePrio[t] <= BasePrio[u]
<1>1. PriosOf(A) \in SUBSET Prios /\ PriosOf(A) # {}
  BY PriosOfType DEF PriosOf
<1>2. /\ MapHighest(MapOf(PriosOf(A))) \in PriosOf(A)
      /\ \A p \in PriosOf(A) : MapHighest(MapOf(PriosOf(A))) <= p
  BY <1>1, MapHighestOf
<1>. QED BY <1>2 DEF PriosOf

(* The head stays at the head when others leave.                           *)
LEMMA HeadStays ==
  ASSUME NEW A \in SUBSET Tasks, NEW B \in SUBSET A, NEW t \in B,
         BasePrio[t] = MapHighest(MapOf(PriosOf(A)))
  PROVE  BasePrio[t] = MapHighest(MapOf(PriosOf(B)))
<1>1. PICK a \in A : /\ MapHighest(MapOf(PriosOf(A))) = BasePrio[a]
                     /\ \A u \in A : BasePrio[a] <= BasePrio[u]
  BY HeadOf
<1>2. PICK b \in B : /\ MapHighest(MapOf(PriosOf(B))) = BasePrio[b]
                     /\ \A u \in B : BasePrio[b] <= BasePrio[u]
  BY HeadOf
<1>3. BasePrio[t] \in Int /\ BasePrio[b] \in Int
  BY CoreAssumption DEF Prios
<1>. QED BY <1>1, <1>2, <1>3

-----------------------------------------------------------------------------
(* Tasks that leave and join a list.                                       *)

LEMMA LeaveList ==
  ASSUME NEW A \in SUBSET Tasks, NEW B \in SUBSET Tasks
  PROVE  MapClr(MapOf(PriosOf(A)), PriosOf(B)) = MapOf(PriosOf(A \ B))
  BY PriosOfType, PriosOfDiff, MapClrOf

LEMMA JoinList ==
  ASSUME NEW A \in SUBSET Tasks, NEW B \in SUBSET Tasks
  PROVE  MapSet(MapOf(PriosOf(A)), PriosOf(B)) = MapOf(PriosOf(A \cup B))
  BY PriosOfType, PriosOfUnion, MapSetOf

LEMMA JoinRow ==
  ASSUME NEW A \in SUBSET Tasks, NEW B \in SUBSET Tasks
  PROVE  MapOr(MapOf(PriosOf(A)), {Row(p) : p \in PriosOf(B)},
               {<<Row(p), Col(p)>> : p \in PriosOf(B)}) = MapOf(PriosOf(A \cup B))
  BY PriosOfType, PriosOfUnion, MapOrOf

LEMMA Unreadied ==
  ASSUME KInv, NEW t \in Tasks, Unready(t)
  PROVE  OSRdyTbl' = MapOf(PriosOf(ReadySet \ {t}))
<1>1. OSRdyTbl' = MapClr(MapOf(PriosOf(ReadySet)), PriosOf({t}))
  BY PriosOfOne DEF Unready, KInv, Fixed, ReadyList
<1>2. ReadySet \in SUBSET Tasks
  BY DEF ReadySet
<1>. QED BY <1>1, <1>2, LeaveList

LEMMA Readied ==
  ASSUME KInv, NEW ts \in SUBSET Tasks,
         OSRdyTbl' = MapSet(OSRdyTbl, {OSTCBPrio[t] : t \in ts})
  PROVE  OSRdyTbl' = MapOf(PriosOf(ReadySet \cup ts))
<1>1. {OSTCBPrio[t] : t \in ts} = PriosOf(ts)
  BY DEF KInv, Fixed, PriosOf
<1>2. ReadySet \in SUBSET Tasks
  BY DEF ReadySet
<1>. QED BY <1>1, <1>2, JoinList DEF KInv, ReadyList

ReadyTyped == OSRdyTbl \in PrioMap

LEMMA ReadyListType == ReadyList => ReadyTyped
<1>1. ReadySet \in SUBSET Tasks
  BY DEF ReadySet
<1>. QED BY <1>1, PriosOfType, MapOfContents DEF ReadyList, ReadyTyped

LEMMA ReadyListTypePrime == ReadyList' => ReadyTyped'
  BY ReadyListType, PTL

(* In these compositions the ready list as a set is ReadyListExact.        *)
LEMMA ReadyIsExact == Fixed => (ReadyList <=> ReadyListExact)
<1>1. Fixed => {OSTCBPrio[t] : t \in {u \in OSTCBList : Runnable(u)}} = PriosOf(ReadySet)
  BY DEF Fixed, PriosOf, ReadySet
<1>. QED BY <1>1 DEF ReadyList, ReadyListExact

-----------------------------------------------------------------------------
(* The initial state: the tasks are created, and the highest of them runs. *)
LEMMA InitKInv ==
  ASSUME CoreInit,
         OSEventType = [e \in Events |-> "UNUSED"],
         OSEventCnt = [e \in Events |-> 0],
         OSEventTbl = [e \in Events |-> EmptyMap]
  PROVE  KInv
<1>1. Fixed
  BY CoreAssumption DEF Fixed, CoreInit
<1>2. ReadySet = Tasks
  BY CoreAssumption DEF ReadySet, Runnable, CoreInit
<1>3. ReadyList
  BY <1>2 DEF ReadyList, PriosOf, CoreInit
<1>4. OSRdyTbl \in PrioMap /\ EmptyMap \in PrioMap
  <2>1. {} \in SUBSET Prios
    OBVIOUS
  <2>. QED BY <2>1, <1>3, ReadyListType, MapOfContents, MapOfEmpty DEF ReadyTyped
<1>5. PICK t \in Tasks : OSPrioCur = BasePrio[t]
  <2>1. Tasks # {} /\ Tasks \in SUBSET Tasks
    BY CoreAssumption
  <2>2. OSPrioCur = MapHighest(OSRdyTbl) /\ OSRdyTbl = MapOf(PriosOf(Tasks))
    BY <1>2, <1>3 DEF ReadyList, CoreInit
  <2>. QED BY <2>1, <2>2, HeadOf
<1>6. OSTCBCur = t /\ OSPrioCur \in Prios
  <2>1. OSTCBPrioTbl[BasePrio[t]] = t
    BY <1>1 DEF Fixed
  <2>2. OSTCBCur = OSTCBPrioTbl[OSPrioCur]
    BY DEF CoreInit
  <2>. QED BY <1>5, <2>1, <2>2, CoreAssumption
<1>7. TypeOK
  <2>1. OSTCBPrioTbl \in [Prios -> Tasks \cup {NoTCB, Reserved}]
    <3>1. ASSUME NEW p \in Prios
          PROVE  OSTCBPrioTbl[p] \in Tasks \cup {NoTCB, Reserved}
      <4>1. CASE \E u \in Tasks : BasePrio[u] = p
        <5>1. OSTCBPrioTbl[p] = CHOOSE u \in Tasks : BasePrio[u] = p
          BY <4>1 DEF CoreInit
        <5>. QED BY <4>1, <5>1
      <4>2. CASE ~\E u \in Tasks : BasePrio[u] = p
        BY <4>2 DEF CoreInit
      <4>. QED BY <4>1, <4>2
    <3>2. OSTCBPrioTbl = [p \in Prios |-> OSTCBPrioTbl[p]]
      BY DEF CoreInit
    <3>. QED BY <3>1, <3>2
  <2>2. /\ OSTCBPrio \in [Tasks -> Prios]
        /\ OSTCBStat \in [Tasks -> SUBSET Stats]
        /\ OSTCBStatPend \in [Tasks -> PendStats]
        /\ OSTCBDly \in [Tasks -> Nat]
        /\ OSTCBEventPtr \in [Tasks -> Events \cup {NoEvent}]
        /\ OSTCBEventMultiPtr \in [Tasks -> SUBSET Events]
        /\ pc \in [Tasks -> Pcs]
    BY CoreAssumption DEF PendStats, Pcs, CoreInit
  <2>3. OSLockNesting \in 0 .. LockNestingMax
    BY CoreAssumption DEF CoreInit
  <2>. QED BY <1>4, <1>6, <2>1, <2>2, <2>3 DEF TypeOK, CoreInit
<1>8. \A u \in Tasks : Runnable(u)
  BY DEF Runnable, CoreInit
<1>9. IdleOK /\ CurOK
  BY <1>5, <1>6, <1>8, CoreAssumption DEF IdleOK, CurOK, CoreInit
<1>10. HighestPriorityRuns
  BY <1>6, <1>8 DEF HighestPriorityRuns, CoreInit
<1>. QED BY <1>1, <1>3, <1>7, <1>9, <1>10 DEF KInv

-----------------------------------------------------------------------------
(* The scheduler finds a task, the ready one of highest priority.          *)
LEMMA HighestReady ==
  ASSUME KInv
  PROVE  \E t \in Tasks : /\ MapHighest(OSRdyTbl) = BasePrio[t]
                          /\ OSTCBPrioTbl[BasePrio[t]] = t
                          /\ Runnable(t)
<1>1. ReadySet # {} /\ ReadySet \in SUBSET Tasks
  BY CoreAssumption DEF KInv, IdleOK, ReadySet
<1>2. PICK t \in ReadySet : MapHighest(OSRdyTbl) = BasePrio[t]
  BY <1>1, HeadOf DEF KInv, ReadyList
<1>. QED BY <1>2 DEF KInv, Fixed, ReadySet

LEMMA SwitchPicks ==
  ASSUME KInv, Switch
  PROVE  /\ OSTCBCur' \in Tasks /\ OSPrioCur' \in Prios
         /\ OSPrioCur' = BasePrio[OSTCBCur']
         /\ OSPrioCur' = MapHighest(OSRdyTbl)
         /\ OSTCBCur' = OSTCBPrioTbl[OSPrioCur']
         /\ Runnable(OSTCBCur')
<1>1. PICK t \in Tasks : /\ MapHighest(OSRdyTbl) = BasePrio[t]
                         /\ OSTCBPrioTbl[BasePrio[t]] = t
                         /\ Runnable(t)
  BY HighestReady
<1>2. OSTCBCur \in Tasks /\ OSPrioCur = BasePrio[OSTCBCur]
  BY DEF KInv, TypeOK, CurOK
<1>3. OSTCBCur' = t /\ OSPrioCur' = BasePrio[t]
  BY <1>1, <1>2, CoreAssumption DEF Switch, curVars
<1>. QED BY <1>1, <1>3, CoreAssumption

(* The parts of the state ReadyList reads.                                 *)
LEMMA ReadyFrame ==
  ASSUME ReadyList, UNCHANGED <<OSTCBStat, OSTCBDly, OSRdyTbl>>
  PROVE  ReadyList' /\ ReadySet' = ReadySet
<1>1. ReadySet' = ReadySet
  BY DEF ReadySet, Runnable
<1>. QED BY <1>1 DEF ReadyList

LEMMA SchedKInv ==
  ASSUME KInv, NEW t \in Tasks, OS_Sched(t)
  PROVE  KInv'
<1>1. UNCHANGED <<tcbVars, tblVars, OSRdyTbl, eventVars, nestVars>>
  BY DEF OS_Sched
<1>2. /\ OSTCBCur = t
      /\ \/ pc[t] = "sched" /\ pc' = [pc EXCEPT ![t] = "run"]
         \/ pc[t] = "pend"  /\ pc' = [pc EXCEPT ![t] = "wake"]
  BY DEF OS_Sched, At, Goto
<1>3. /\ OSLockNesting = 0 => Switch
      /\ OSLockNesting > 0 => UNCHANGED curVars
  BY DEF OS_Sched, KInv, TypeOK
<1>4. ReadyList' /\ Fixed'
  BY <1>1, ReadyFrame DEF KInv, Fixed, tcbVars, tblVars, eventVars
<1>5. OSTCBCur' \in Tasks /\ OSPrioCur' \in Prios /\ OSPrioCur' = BasePrio[OSTCBCur']
  BY <1>3, SwitchPicks DEF KInv, TypeOK, CurOK, curVars
<1>6. TypeOK'
  BY <1>1, <1>2, <1>5 DEF KInv, TypeOK, Pcs, tcbVars, tblVars, eventVars, nestVars
<1>7. IdleOK'
  BY <1>1, <1>2, CoreAssumption DEF KInv, TypeOK, IdleOK, Runnable, tcbVars
<1>8. CurOK'
  BY <1>1, <1>2, <1>3, <1>5 DEF KInv, CurOK, TypeOK, curVars, nestVars
<1>9. HighestPriorityRuns'
  BY <1>1, <1>3, SwitchPicks
     DEF KInv, TypeOK, HighestPriorityRuns, Runnable, tcbVars, tblVars, nestVars
<1>. QED BY <1>4, <1>6, <1>7, <1>8, <1>9 DEF KInv

LEMMA IntExitKInv ==
  ASSUME KInv, OSIntExit
  PROVE  KInv'
<1>1. UNCHANGED <<tcbVars, tblVars, OSRdyTbl, eventVars, OSLockNesting, pc>>
  BY DEF OSIntExit
<1>2. OSIntNesting = 1 /\ OSIntNesting' = 0
  BY DEF OSIntExit, KInv, TypeOK
<1>3. /\ OSLockNesting = 0 => Switch
      /\ OSLockNesting > 0 => UNCHANGED curVars
  BY <1>2 DEF OSIntExit, KInv, TypeOK
<1>4. ReadyList' /\ Fixed'
  BY <1>1, ReadyFrame DEF KInv, Fixed, tcbVars, tblVars, eventVars
<1>5. OSTCBCur' \in Tasks /\ OSPrioCur' \in Prios /\ OSPrioCur' = BasePrio[OSTCBCur']
  BY <1>3, SwitchPicks DEF KInv, TypeOK, CurOK, curVars
<1>6. TypeOK'
  BY <1>1, <1>2, <1>5 DEF KInv, TypeOK, tcbVars, tblVars, eventVars
<1>7. IdleOK' /\ CurOK'
  BY <1>1, <1>3, <1>5 DEF KInv, TypeOK, IdleOK, CurOK, Runnable, tcbVars, curVars
<1>8. HighestPriorityRuns'
  BY <1>1, <1>3, SwitchPicks
     DEF KInv, TypeOK, HighestPriorityRuns, Runnable, tcbVars, tblVars
<1>. QED BY <1>4, <1>6, <1>7, <1>8 DEF KInv

LEMMA LockKInv ==
  ASSUME KInv, NEW t \in Tasks, OSSchedLock(t) \/ OSSchedUnlock(t)
  PROVE  /\ KInv'
         /\ OSTCBCur = t /\ t # IdleTask /\ pc[t] = "run"
         /\ pc' \in {pc, [pc EXCEPT ![t] = "sched"]}
         /\ UNCHANGED <<tcbVars, tblVars, OSRdyTbl, eventVars, curVars, OSIntNesting>>
<1>1. UNCHANGED <<tcbVars, tblVars, OSRdyTbl, eventVars, curVars, OSIntNesting>>
  BY DEF OSSchedLock, OSSchedUnlock
<1>2. OSTCBCur = t /\ t # IdleTask /\ pc[t] = "run"
  BY DEF OSSchedLock, OSSchedUnlock, Calls
<1>3. /\ OSLockNesting' \in 0 .. LockNestingMax
      /\ OSLockNesting' = 0 => pc' = [pc EXCEPT ![t] = "sched"]
      /\ OSLockNesting' # 0 => pc' = pc
  BY CoreAssumption DEF OSSchedLock, OSSchedUnlock, Goto, KInv, TypeOK
<1>4. ReadyList' /\ Fixed'
  BY <1>1, ReadyFrame DEF KInv, Fixed, tcbVars, tblVars, eventVars
<1>5. TypeOK'
  BY <1>1, <1>2, <1>3 DEF KInv, TypeOK, Pcs, tcbVars, tblVars, eventVars, curVars
<1>6. IdleOK' /\ CurOK'
  BY <1>1, <1>2, <1>3, CoreAssumption DEF KInv, TypeOK, IdleOK, CurOK, Runnable, tcbVars, curVars
<1>7. HighestPriorityRuns'
  BY <1>1, <1>2, <1>3 DEF KInv, TypeOK, HighestPriorityRuns, curVars
<1>. QED BY <1>1, <1>2, <1>3, <1>4, <1>5, <1>6, <1>7 DEF KInv

(* A step that ends at the scheduler or in an interrupt, or one after      *)
(* which the task that runs is ready and nobody else has become ready.     *)
LEMMA StepKInv ==
  ASSUME KInv, TypeOK', ReadyList',
         UNCHANGED <<OSTCBPrio, OSTCBEventMultiPtr, tblVars, curVars, OSLockNesting>>,
         Runnable(IdleTask)', pc'[IdleTask] = "run",
         OSLockNesting > 0 => pc'[OSTCBCur] \in {"run", "sched"},
         \/ OSIntNesting' = 1
         \/ pc'[OSTCBCur] \in {"sched", "pend"}
         \/ /\ OSIntNesting' = OSIntNesting
            /\ pc[OSTCBCur] \in {"run", "wake"}
            /\ \A t \in Tasks : Runnable(t)' => Runnable(t)
            /\ Runnable(OSTCBCur) => Runnable(OSTCBCur)'
         \/ /\ OSIntNesting' = OSIntNesting
            /\ pc'[OSTCBCur] = pc[OSTCBCur]
            /\ \A t \in Tasks : Runnable(t)' <=> Runnable(t)
  PROVE  KInv'
<1>1. Fixed'
  BY DEF KInv, Fixed, tblVars
<1>2. IdleOK'
  BY DEF IdleOK
<1>3. CurOK'
  BY DEF KInv, CurOK, curVars
<1>4. OSTCBCur' = OSTCBCur /\ OSTCBCur \in Tasks
  BY DEF KInv, TypeOK, curVars
<1>5. HighestPriorityRuns'
  <2>1. CASE OSIntNesting' = 1 \/ pc'[OSTCBCur] \in {"sched", "pend"}
    BY <2>1, <1>4 DEF HighestPriorityRuns
  <2>2. CASE /\ OSIntNesting' = OSIntNesting
             /\ pc'[OSTCBCur] \in {"run", "wake"} => pc[OSTCBCur] \in {"run", "wake"}
             /\ \A t \in Tasks : Runnable(t)' => Runnable(t)
             /\ Runnable(OSTCBCur) => Runnable(OSTCBCur)'
    <3> SUFFICES ASSUME OSIntNesting = 0, OSLockNesting = 0, pc[OSTCBCur] \in {"run", "wake"}
                 PROVE  /\ OSPrioCur' = MapHighest(OSRdyTbl')
                        /\ OSTCBCur' = OSTCBPrioTbl'[OSPrioCur']
                        /\ Runnable(OSTCBCur)'
      BY <2>2, <1>4 DEF HighestPriorityRuns
    <3>1. OSPrioCur = MapHighest(OSRdyTbl) /\ OSTCBCur = OSTCBPrioTbl[OSPrioCur] /\ Runnable(OSTCBCur)
      BY DEF KInv, HighestPriorityRuns
    <3>2. Runnable(OSTCBCur)' /\ OSTCBCur \in ReadySet'
      BY <3>1, <2>2, <1>4 DEF ReadySet
    <3>3. ReadySet' \in SUBSET ReadySet /\ ReadySet \in SUBSET Tasks
      BY <2>2 DEF ReadySet
    <3>4. BasePrio[OSTCBCur] = MapHighest(MapOf(PriosOf(ReadySet)))
      BY <3>1 DEF KInv, ReadyList, CurOK
    <3>5. BasePrio[OSTCBCur] = MapHighest(MapOf(PriosOf(ReadySet')))
      BY <3>2, <3>3, <3>4, HeadStays
    <3>. QED BY <3>1, <3>2, <3>5 DEF KInv, CurOK, ReadyList, curVars, tblVars
  <2>3. OSIntNesting' = OSIntNesting \/ OSIntNesting' = 1 \/ pc'[OSTCBCur] \in {"sched", "pend"}
    OBVIOUS
  <2>. QED BY <2>1, <2>2, <1>4
<1>. QED BY <1>1, <1>2, <1>3, <1>5 DEF KInv

-----------------------------------------------------------------------------
(* The task that calls a service: with the scheduler unlocked it is ready. *)
LEMMA CallerK ==
  ASSUME KInv, NEW t \in Tasks, Calls(t)
  PROVE  /\ OSTCBCur = t /\ t # IdleTask /\ pc[t] = "run" /\ OSIntNesting = 0
         /\ OSLockNesting = 0 => Runnable(t)
  BY DEF Calls, KInv, HighestPriorityRuns

(* The task whose pend comes back is ready, and has not locked the         *)
(* scheduler.                                                              *)
LEMMA WakerK ==
  ASSUME KInv, NEW t \in Tasks, At(t, "wake")
  PROVE  /\ OSTCBCur = t /\ t # IdleTask /\ pc[t] = "wake" /\ OSIntNesting = 0
         /\ OSLockNesting = 0 /\ Runnable(t)
  BY DEF At, KInv, TypeOK, CurOK, IdleOK, HighestPriorityRuns
-----------------------------------------------------------------------------
(* Delays, suspension and the tick, in any composition without calls of    *)
(* OSEventPendMulti().                                                     *)
NoMulti == \A t \in Tasks : "MULTI" \notin OSTCBStat[t]

(* A service goes on to the scheduler or returns.                          *)
GoesOn(t) == pc' = pc \/ (pc[t] = "run" /\ t # IdleTask /\ pc' = [pc EXCEPT ![t] = "sched"])

LEMMA ExpireKInv ==
  ASSUME KInv, NEW ts \in SUBSET (Tasks \ {IdleTask}), NEW dly \in [Tasks -> Nat],
         \A t \in ts : OSTCBDly[t] # 0 /\ dly[t] = 0 /\ "MULTI" \notin OSTCBStat[t],
         \A t \in Tasks \ ts : dly[t] = 0 <=> OSTCBDly[t] = 0,
         Expire(ts, dly),
         UNCHANGED <<OSTCBPrio, OSTCBEventPtr, OSTCBEventMultiPtr, tblVars, eventVars,
                     curVars, OSLockNesting>>,
         GoesOn(OSTCBCur), OSIntNesting' \in {OSIntNesting, 1},
         OSIntNesting' = 1 \/ pc' # pc \/ \A t \in ts : "SUSPEND" \in OSTCBStat[t]
  PROVE  KInv'
<1> DEFINE now == {t \in ts : "SUSPEND" \notin OSTCBStat[t]}
<1>1. /\ OSTCBDly' = dly
      /\ OSTCBStat' = [t \in Tasks |-> IF t \in ts /\ OSTCBStat[t] \cap PendAny # {}
                                          THEN OSTCBStat[t] \ PendAny ELSE OSTCBStat[t]]
      /\ OSTCBStatPend' = [t \in Tasks |->
                             IF t \in ts /\ OSTCBStat[t] \cap PendAny # {} THEN "TO"
                             ELSE IF t \in ts THEN "OK" ELSE OSTCBStatPend[t]]
      /\ OSRdyTbl' = MapSet(OSRdyTbl, {OSTCBPrio[t] : t \in now})
  BY DEF Expire
<1>2. \A t \in Tasks : OSTCBStat'[t] = IF t \in ts THEN OSTCBStat[t] \ PendAny ELSE OSTCBStat[t]
  <2>1. \A t \in Tasks : OSTCBStat[t] \cap PendAny = {} => OSTCBStat[t] \ PendAny = OSTCBStat[t]
    OBVIOUS
  <2>. QED BY <1>1, <2>1
<1>3. ReadySet' = ReadySet \cup now
  <2>1. ASSUME NEW t \in ts
        PROVE  (Runnable(t)' <=> "SUSPEND" \notin OSTCBStat[t]) /\ ~Runnable(t)
    <3>1. OSTCBStat[t] \subseteq PendAny \cup {"SUSPEND"}
      BY DEF KInv, TypeOK, Stats
    <3>2. OSTCBStat'[t] = OSTCBStat[t] \ PendAny /\ OSTCBDly'[t] = 0 /\ OSTCBDly[t] # 0
      BY <1>1, <1>2
    <3>. QED BY <3>1, <3>2 DEF Runnable, PendAny
  <2>2. ASSUME NEW t \in Tasks \ ts PROVE Runnable(t)' <=> Runnable(t)
    BY <1>1, <1>2 DEF Runnable
  <2>. QED BY <2>1, <2>2 DEF ReadySet
<1>4. ReadyList'
  <2>1. now \in SUBSET Tasks
    OBVIOUS
  <2> HIDE DEF now
  <2>. QED BY <2>1, <1>1, <1>3, Readied DEF ReadyList
<1>5. TypeOK'
  <2>1. OSRdyTbl' \in PrioMap
    BY <1>4, ReadyListTypePrime DEF ReadyTyped
  <2>2. /\ OSTCBStat' \in [Tasks -> SUBSET Stats]
        /\ OSTCBStatPend' \in [Tasks -> PendStats]
        /\ OSTCBDly' \in [Tasks -> Nat]
        /\ pc' \in [Tasks -> Pcs]
    BY <1>1 DEF KInv, TypeOK, PendStats, Pcs, GoesOn
  <2>. QED BY <2>1, <2>2 DEF KInv, TypeOK, tblVars, eventVars, curVars
<1>6. Runnable(IdleTask)' /\ pc'[IdleTask] = "run"
  BY <1>1, <1>2, CoreAssumption DEF KInv, TypeOK, IdleOK, Runnable, GoesOn
<1>7. OSLockNesting > 0 => pc'[OSTCBCur] \in {"run", "sched"}
  BY DEF KInv, TypeOK, CurOK, GoesOn
<1>8. \/ OSIntNesting' = 1
      \/ pc'[OSTCBCur] = "sched"
      \/ /\ OSIntNesting' = OSIntNesting
         /\ pc'[OSTCBCur] = pc[OSTCBCur]
         /\ \A t \in Tasks : Runnable(t)' <=> Runnable(t)
  <2>1. CASE OSIntNesting' = 1 \/ pc' # pc
    BY <2>1 DEF KInv, TypeOK, GoesOn
  <2>2. CASE pc' = pc /\ OSIntNesting' # 1 /\ \A t \in ts : "SUSPEND" \in OSTCBStat[t]
    BY <2>2, <1>3 DEF ReadySet
  <2>. QED BY <2>1, <2>2
<1>. QED BY <1>4, <1>5, <1>6, <1>7, <1>8, StepKInv

LEMMA TickKInv ==
  ASSUME KInv, NoMulti, TickISR
  PROVE  KInv'
<1> DEFINE walked == OSTCBList \ {IdleTask}
           left   == [t \in Tasks |-> IF t \in walked /\ OSTCBDly[t] # 0
                                        THEN OSTCBDly[t] - 1 ELSE OSTCBDly[t]]
           ts     == {t \in walked : OSTCBDly[t] # 0 /\ left[t] = 0}
<1>1. /\ Expire(ts, left)
      /\ UNCHANGED <<OSTCBPrio, OSTCBEventPtr, OSTCBEventMultiPtr, tblVars, eventVars,
                     curVars, OSLockNesting, pc>>
      /\ OSIntNesting' = 1
  BY DEF TickISR, EnterISR, OSTimeTick
<1>2. walked = Tasks \ {IdleTask} /\ ts \in SUBSET (Tasks \ {IdleTask})
  BY DEF KInv, Fixed
<1>3. left \in [Tasks -> Nat]
  BY DEF KInv, TypeOK
<1>4. \A t \in ts : OSTCBDly[t] # 0 /\ left[t] = 0 /\ "MULTI" \notin OSTCBStat[t]
  BY <1>2 DEF NoMulti
<1>5. \A t \in Tasks \ ts : left[t] = 0 <=> OSTCBDly[t] = 0
  BY <1>2 DEF KInv, TypeOK
<1> HIDE DEF ts, left
<1>. QED BY <1>1, <1>2, <1>3, <1>4, <1>5, ExpireKInv DEF GoesOn

LEMMA DlyResumeKInv ==
  ASSUME KInv, NoMulti, NEW t \in Tasks, NEW prio \in Prios, OSTimeDlyResume(t, prio)
  PROVE  KInv'
<1> DEFINE u   == OSTCBPrioTbl[prio]
           dly == [OSTCBDly EXCEPT ![u] = 0]
<1>1. /\ prio < LowestPrio /\ u \in Tasks /\ OSTCBDly[u] # 0
      /\ Expire({u}, dly)
      /\ IF "SUSPEND" \notin OSTCBStat[u] THEN pc' = [pc EXCEPT ![t] = "sched"] ELSE pc' = pc
      /\ UNCHANGED <<OSTCBPrio, OSTCBEventPtr, OSTCBEventMultiPtr, tblVars, eventVars,
                     curVars, nestVars>>
      /\ OSTCBCur = t /\ pc[t] = "run" /\ t # IdleTask
  BY DEF OSTimeDlyResume, Calls, Goto
<1>2. {u} \in SUBSET (Tasks \ {IdleTask})
  BY <1>1 DEF KInv, IdleOK, Runnable
<1>3. dly \in [Tasks -> Nat]
  BY <1>1 DEF KInv, TypeOK
<1>4. \A v \in {u} : OSTCBDly[v] # 0 /\ dly[v] = 0 /\ "MULTI" \notin OSTCBStat[v]
  BY <1>1 DEF KInv, TypeOK, NoMulti
<1>5. \A v \in Tasks \ {u} : dly[v] = 0 <=> OSTCBDly[v] = 0
  BY DEF KInv, TypeOK
<1>6. pc' # pc \/ \A v \in {u} : "SUSPEND" \in OSTCBStat[v]
  BY <1>1 DEF KInv, TypeOK
<1>7. GoesOn(OSTCBCur)
  BY <1>1 DEF GoesOn
<1> HIDE DEF u, dly
<1>. QED BY <1>1, <1>2, <1>3, <1>4, <1>5, <1>6, <1>7, ExpireKInv DEF nestVars

LEMMA DlyKInv ==
  ASSUME KInv, NEW t \in Tasks, NEW ticks \in Delays, OSTimeDly(t, ticks)
  PROVE  KInv'
<1>1. OSTCBCur = t /\ t # IdleTask /\ pc[t] = "run" /\ Runnable(t) /\ OSLockNesting = 0
  BY CallerK DEF OSTimeDly
<1>2. /\ Unready(t) /\ OSTCBDly' = [OSTCBDly EXCEPT ![t] = ticks]
      /\ pc' = [pc EXCEPT ![t] = "sched"]
      /\ UNCHANGED <<OSTCBPrio, OSTCBStat, OSTCBStatPend, OSTCBEventPtr, OSTCBEventMultiPtr,
                     tblVars, eventVars, curVars, nestVars>>
  BY DEF OSTimeDly, Goto
<1>3. ticks \in Nat \ {0}
  BY TimeAssumption
<1>4. ReadySet' = ReadySet \ {t}
  BY <1>1, <1>2, <1>3 DEF KInv, TypeOK, ReadySet, Runnable
<1>5. ReadyList'
  BY <1>2, <1>4, Unreadied DEF ReadyList
<1>6. TypeOK'
  BY <1>2, <1>3, <1>5, ReadyListTypePrime
     DEF ReadyTyped, KInv, TypeOK, Pcs, tblVars, eventVars, curVars, nestVars
<1>7. Runnable(IdleTask)' /\ pc'[IdleTask] = "run" /\ pc'[t] = "sched"
  BY <1>1, <1>2, CoreAssumption DEF KInv, TypeOK, IdleOK, Runnable
<1>. QED BY <1>1, <1>2, <1>5, <1>6, <1>7, StepKInv DEF nestVars

(* OSTCBStat changes by the bit SUSPEND in the TCB of one task.            *)
LEMMA SuspendKInv ==
  ASSUME KInv, NEW t \in Tasks, NEW prio \in Prios, OSTaskSuspend(t, prio)
  PROVE  KInv'
<1>. PICK u \in Tasks : u = OSTCBPrioTbl[prio]
  BY DEF OSTaskSuspend
<1>1. /\ prio < LowestPrio /\ Unready(u)
      /\ OSTCBStat' = [OSTCBStat EXCEPT ![u] = OSTCBStat[u] \cup {"SUSPEND"}]
      /\ IF prio = OSTCBPrio[t] THEN pc' = [pc EXCEPT ![t] = "sched"] ELSE pc' = pc
      /\ UNCHANGED <<OSTCBPrio, OSTCBStatPend, OSTCBDly, OSTCBEventPtr, OSTCBEventMultiPtr,
                     tblVars, eventVars, curVars, nestVars>>
      /\ OSTCBCur = t /\ pc[t] = "run" /\ t # IdleTask /\ OSIntNesting = 0
  BY DEF OSTaskSuspend, Calls, Goto
<1>2. BasePrio[u] = prio /\ u # IdleTask /\ (prio = OSTCBPrio[t] <=> u = t)
  BY <1>1, CoreAssumption DEF KInv, Fixed, Prios
<1>3. ReadySet' = ReadySet \ {u}
  BY <1>1 DEF KInv, TypeOK, ReadySet, Runnable
<1>4. ReadyList'
  BY <1>1, <1>3, Unreadied DEF ReadyList
<1>5. TypeOK'
  <2>1. OSRdyTbl' \in PrioMap
    BY <1>4, ReadyListTypePrime DEF ReadyTyped
  <2>2. OSTCBStat' \in [Tasks -> SUBSET Stats] /\ pc' \in [Tasks -> Pcs]
    BY <1>1 DEF KInv, TypeOK, Stats, Pcs
  <2>. QED BY <1>1, <2>1, <2>2 DEF KInv, TypeOK, tblVars, eventVars, curVars, nestVars
<1>6. Runnable(IdleTask)' /\ pc'[IdleTask] = "run" /\ pc'[t] \in {"run", "sched"}
  BY <1>1, <1>2, CoreAssumption DEF KInv, TypeOK, IdleOK, Runnable
<1>7. CASE u = t
  <2>1. pc'[t] = "sched"
    BY <1>1, <1>2, <1>7 DEF KInv, TypeOK
  <2>. QED BY <2>1, <1>1, <1>4, <1>5, <1>6, StepKInv DEF nestVars
<1>8. CASE u # t
  <2>1. (\A v \in Tasks : Runnable(v)' => Runnable(v)) /\ (Runnable(t) => Runnable(t)')
    BY <1>3, <1>8 DEF ReadySet
  <2>. QED BY <2>1, <1>1, <1>4, <1>5, <1>6, StepKInv DEF Runnable, curVars, nestVars
<1>. QED BY <1>7, <1>8

LEMMA ResumeKInv ==
  ASSUME KInv, NEW t \in Tasks, NEW prio \in Prios, OSTaskResume(t, prio)
  PROVE  KInv'
<1>. PICK u \in Tasks : u = OSTCBPrioTbl[prio]
  BY DEF OSTaskResume
<1>. PICK stat : stat = OSTCBStat[u] \ {"SUSPEND"}
  OBVIOUS
<1>1. /\ prio < LowestPrio /\ "SUSPEND" \in OSTCBStat[u]
      /\ OSTCBStat' = [OSTCBStat EXCEPT ![u] = stat]
      /\ IF stat = {} /\ OSTCBDly[u] = 0
           THEN OSRdyTbl' = MapSet(OSRdyTbl, {OSTCBPrio[u]}) /\ pc' = [pc EXCEPT ![t] = "sched"]
           ELSE OSRdyTbl' = OSRdyTbl /\ pc' = pc
      /\ UNCHANGED <<OSTCBPrio, OSTCBStatPend, OSTCBDly, OSTCBEventPtr, OSTCBEventMultiPtr,
                     tblVars, eventVars, curVars, nestVars>>
      /\ OSTCBCur = t /\ pc[t] = "run" /\ t # IdleTask /\ OSIntNesting = 0
  BY DEF OSTaskResume, Calls, Goto
<1>2. u # IdleTask /\ ~Runnable(u)
  BY <1>1 DEF KInv, IdleOK, Runnable
<1>3. \A v \in Tasks : IF v = u THEN Runnable(v)' <=> stat = {} /\ OSTCBDly[u] = 0
                                ELSE Runnable(v)' <=> Runnable(v)
  <2>1. OSTCBStat'[u] = stat
    BY <1>1 DEF KInv, TypeOK
  <2>2. \A v \in Tasks \ {u} : OSTCBStat'[v] = OSTCBStat[v]
    BY <1>1 DEF KInv, TypeOK
  <2>3. \A v \in Tasks : OSTCBDly'[v] = OSTCBDly[v]
    BY <1>1
  <2>. QED BY <2>1, <2>2, <2>3 DEF Runnable
<1>4. TypeOK' /\ Runnable(IdleTask)' /\ pc'[IdleTask] = "run" /\ pc'[t] \in {"run", "sched"}
          /\ ReadyList'
  <2>1. ReadyList'
    <3>1. CASE stat = {} /\ OSTCBDly[u] = 0
      <4>1. ReadySet' = ReadySet \cup {u}
        BY <1>3, <3>1 DEF ReadySet
      <4>2. {OSTCBPrio[u]} = {OSTCBPrio[v] : v \in {u}} /\ {u} \in SUBSET Tasks
        OBVIOUS
      <4>. QED BY <1>1, <3>1, <4>1, <4>2, Readied DEF ReadyList
    <3>2. CASE ~(stat = {} /\ OSTCBDly[u] = 0)
      <4>1. ReadySet' = ReadySet
        BY <1>2, <1>3, <3>2 DEF ReadySet
      <4>. QED BY <1>1, <3>2, <4>1 DEF KInv, ReadyList
    <3>. QED BY <3>1, <3>2
  <2>2. OSRdyTbl' \in PrioMap
    BY <2>1, ReadyListTypePrime DEF ReadyTyped
  <2>3. OSTCBStat' \in [Tasks -> SUBSET Stats] /\ pc' \in [Tasks -> Pcs]
    BY <1>1 DEF KInv, TypeOK, Pcs
  <2>4. TypeOK'
    BY <1>1, <2>2, <2>3 DEF KInv, TypeOK, tblVars, eventVars, curVars, nestVars
  <2>5. Runnable(IdleTask)'
    BY <1>2, <1>3, CoreAssumption DEF KInv, IdleOK
  <2>6. pc'[IdleTask] = "run" /\ pc'[t] \in {"run", "sched"}
    BY <1>1, CoreAssumption DEF KInv, TypeOK, IdleOK
  <2>. QED BY <2>1, <2>4, <2>5, <2>6
<1>5. CASE stat = {} /\ OSTCBDly[u] = 0
  <2>1. pc'[t] = "sched"
    BY <1>1, <1>5 DEF KInv, TypeOK
  <2>. QED BY <2>1, <1>1, <1>4, StepKInv DEF nestVars
<1>6. CASE ~(stat = {} /\ OSTCBDly[u] = 0)
  <2>1. \A v \in Tasks : Runnable(v)' <=> Runnable(v)
    BY <1>2, <1>3, <1>6
  <2>. QED BY <2>1, <1>1, <1>4, <1>6, StepKInv DEF nestVars
<1>. QED BY <1>5, <1>6
=============================================================================
