--------------------------- MODULE FlagSystem_proofs ---------------------------
(***************************************************************************)
(* The invariants of FlagSystem hold for every set of tasks, groups and    *)
(* flags, every set of requests and every assignment of priorities.        *)
(***************************************************************************)
EXTENDS FlagSystem, OSCore_proofs

FlagTypeOK ==
  /\ OSFlagType \in [Grps -> {"UNUSED", "FLAG"}]
  /\ OSFlagFlags \in [Grps -> SUBSET Flags]
  /\ OSFlagWaitList \in [Grps -> SUBSET Tasks]
  /\ OSFlagNode \in [Tasks -> [grp : Grps \cup {NoGrp}, req : Requests \cup {NoNode.req}]]
  /\ OSTCBFlagsRdy \in [Tasks -> SUBSET Flags]

(* A call of OSFlagPend() that has been given flags and has not returned.  *)
HasFlags(t) == InPend(t) /\ "FLAG" \notin OSTCBStat[t] /\ OSTCBStatPend[t] = "OK"

(* The TCB of a task and its node agree with how far its pend is.          *)
TaskOK(t) ==
  /\ OSTCBStat[t] \subseteq {"FLAG", "SUSPEND"}
  /\ OSTCBStatPend[t] \in {"OK", "TO"}
  /\ OSFlagNode[t].grp = NoGrp <=> ~InPend(t)
  /\ ~InPend(t) => "FLAG" \notin OSTCBStat[t] /\ OSTCBStatPend[t] = "OK"
  /\ "FLAG" \in OSTCBStat[t] => OSTCBStatPend[t] = "OK"
  /\ InPend(t) /\ "FLAG" \notin OSTCBStat[t] => OSTCBDly[t] = 0
  /\ HasFlags(t) => OSTCBFlagsRdy[t] \subseteq OSFlagNode[t].req.flags

(* A group that is not in use has no node in its list.                     *)
FreeGrpsEmpty == \A g \in Grps : ~IsGrp(g) => OSFlagWaitList[g] = {}

FInv ==
  /\ FlagTypeOK /\ FlagListExact /\ FreeGrpsEmpty
  /\ \A t \in Tasks : TaskOK(t)

(* A service that has passed its check finds the group still there.        *)
Checks ==
  /\ passed \in [Tasks -> Grps \cup {NoGrp}]
  /\ \A t \in Tasks : passed[t] # NoGrp => IsGrp(passed[t])

IInv == KInv /\ FInv /\ Checks

-----------------------------------------------------------------------------
LEMMA NoMultiF == FInv => NoMulti
  BY DEF FInv, TaskOK, NoMulti

LEMMA InitIInv == Init => IInv
<1> SUFFICES ASSUME Init PROVE IInv
  OBVIOUS
<1>1. KInv
  BY InitKInv DEF Init
<1>2. FlagTypeOK
  BY DEF Init, FlagTypeOK, NoNode
<1>3. \A t \in Tasks : ~InPend(t)
  BY DEF Init, CoreInit, InPend
<1>4. \A t \in Tasks : TaskOK(t)
  BY <1>3 DEF TaskOK, HasFlags, NoNode, Init, CoreInit
<1>5. FlagListExact /\ FreeGrpsEmpty
  BY <1>3 DEF FlagListExact, FreeGrpsEmpty, Init
<1>6. Checks
  BY DEF Checks, Init
<1>. QED BY <1>1, <1>2, <1>4, <1>5, <1>6 DEF IInv, FInv

(* The part of the state a step leaves alone that FInv reads; the program  *)
(* counter may go on inside the service or the pend.                       *)
LEMMA FlagFrame ==
  ASSUME FInv, UNCHANGED <<OSTCBStat, OSTCBStatPend, OSTCBDly, flagVars>>,
         \A t \in Tasks : pc'[t] \in {"pend", "wake"} <=> pc[t] \in {"pend", "wake"}
  PROVE  FInv'
<1>1. \A t \in Tasks : InPend(t)' <=> InPend(t)
  BY DEF InPend
<1>2. FlagTypeOK' /\ FreeGrpsEmpty'
  BY DEF FInv, FlagTypeOK, FreeGrpsEmpty, IsGrp, flagVars
<1>3. \A t \in Tasks : TaskOK(t)'
  BY <1>1 DEF FInv, TaskOK, HasFlags, flagVars
<1>4. FlagListExact'
  BY <1>1 DEF FInv, FlagListExact, flagVars
<1>. QED BY <1>2, <1>3, <1>4 DEF FInv

LEMMA SchedIInv ==
  ASSUME IInv, NEW t \in Tasks, OS_Sched(t), UNCHANGED <<flagVars, passed>>
  PROVE  IInv'
<1>1. KInv'
  BY SchedKInv DEF IInv
<1>2. UNCHANGED tcbVars
  BY DEF OS_Sched
<1>3. \A u \in Tasks : pc'[u] \in {"pend", "wake"} <=> pc[u] \in {"pend", "wake"}
  BY DEF OS_Sched, At, Goto, IInv, KInv, TypeOK
<1>4. FInv'
  BY <1>2, <1>3, FlagFrame DEF IInv, tcbVars
<1>. QED BY <1>1, <1>4 DEF IInv, Checks, IsGrp, flagVars

LEMMA IntExitIInv ==
  ASSUME IInv, OSIntExit, UNCHANGED <<flagVars, passed>>
  PROVE  IInv'
<1>1. KInv'
  BY IntExitKInv DEF IInv
<1>2. FInv'
  BY FlagFrame DEF IInv, OSIntExit, tcbVars
<1>. QED BY <1>1, <1>2 DEF IInv, Checks, IsGrp, flagVars

LEMMA LockIInv ==
  ASSUME IInv, NEW t \in Tasks, OSSchedLock(t) \/ OSSchedUnlock(t), UNCHANGED <<flagVars, passed>>
  PROVE  IInv'
<1>1. /\ KInv'
      /\ pc[t] = "run" /\ pc' \in {pc, [pc EXCEPT ![t] = "sched"]}
      /\ UNCHANGED tcbVars
  BY LockKInv DEF IInv
<1>2. FInv'
  BY <1>1, FlagFrame DEF IInv, KInv, TypeOK, tcbVars
<1>. QED BY <1>1, <1>2 DEF IInv, Checks, IsGrp, flagVars

-----------------------------------------------------------------------------
(* Delays, the tick and suspension.                                        *)

(* A delay that runs out ends the wait of a task and leaves its node.      *)
LEMMA ExpireFInv ==
  ASSUME IInv, NEW ts \in SUBSET Tasks, NEW dly \in [Tasks -> Nat],
         \A t \in ts : OSTCBDly[t] # 0 /\ dly[t] = 0,
         \A t \in Tasks \ ts : dly[t] = 0 <=> OSTCBDly[t] = 0,
         Expire(ts, dly), UNCHANGED flagVars, GoesOn(OSTCBCur)
  PROVE  FInv'
<1>1. /\ OSTCBDly' = dly
      /\ OSTCBStat' = [t \in Tasks |-> IF t \in ts /\ OSTCBStat[t] \cap PendAny # {}
                                          THEN OSTCBStat[t] \ PendAny ELSE OSTCBStat[t]]
      /\ OSTCBStatPend' = [t \in Tasks |->
                             IF t \in ts /\ OSTCBStat[t] \cap PendAny # {} THEN "TO"
                             ELSE IF t \in ts THEN "OK" ELSE OSTCBStatPend[t]]
  BY DEF Expire
<1>2. \A t \in Tasks : OSTCBStat[t] \cap PendAny # {} <=> "FLAG" \in OSTCBStat[t]
  BY DEF IInv, FInv, TaskOK, PendAny
<1>3. \A t \in Tasks : OSTCBStat'[t] = IF t \in ts THEN OSTCBStat[t] \ {"FLAG"} ELSE OSTCBStat[t]
  <2> SUFFICES ASSUME NEW t \in Tasks
               PROVE  OSTCBStat'[t] = IF t \in ts THEN OSTCBStat[t] \ {"FLAG"} ELSE OSTCBStat[t]
    OBVIOUS
  <2>1. OSTCBStat[t] \in SUBSET {"FLAG", "SUSPEND"}
    BY DEF IInv, FInv, TaskOK
  <2>2. OSTCBStat[t] \ PendAny = OSTCBStat[t] \ {"FLAG"}
    BY <2>1 DEF PendAny
  <2>3. OSTCBStat[t] \cap PendAny = {} => OSTCBStat[t] \ {"FLAG"} = OSTCBStat[t]
    BY <1>2
  <2>. QED BY <1>1, <2>2, <2>3
<1>4. \A t \in Tasks : OSTCBStatPend'[t] = IF t \in ts /\ "FLAG" \in OSTCBStat[t] THEN "TO"
                                           ELSE IF t \in ts THEN "OK" ELSE OSTCBStatPend[t]
  BY <1>1, <1>2
<1>5. \A t \in Tasks : InPend(t)' <=> InPend(t)
  BY DEF InPend, GoesOn, IInv, KInv, TypeOK
<1>6. ASSUME NEW t \in Tasks
      PROVE  /\ TaskOK(t)'
             /\ ("FLAG" \in OSTCBStat'[t] \/ OSTCBStatPend'[t] = "TO")
                  <=> ("FLAG" \in OSTCBStat[t] \/ OSTCBStatPend[t] = "TO")
  <2>1. TaskOK(t) /\ UNCHANGED <<OSFlagNode, OSTCBFlagsRdy>>
    BY DEF IInv, FInv, flagVars
  <2>2. CASE t \in ts
    <3>1. OSTCBDly[t] # 0 /\ OSTCBDly'[t] = 0
      BY <2>2, <1>1
    <3>. QED BY <2>1, <2>2, <3>1, <1>3, <1>4, <1>5 DEF TaskOK, HasFlags
  <2>3. CASE t \notin ts
    <3>1. OSTCBDly[t] = 0 <=> OSTCBDly'[t] = 0
      BY <2>3, <1>1
    <3>. QED BY <2>1, <2>3, <3>1, <1>3, <1>4, <1>5 DEF TaskOK, HasFlags
  <2>. QED BY <2>2, <2>3
<1>7. FlagListExact'
  BY <1>5, <1>6 DEF IInv, FInv, FlagListExact, flagVars
<1>8. FlagTypeOK' /\ FreeGrpsEmpty'
  BY DEF IInv, FInv, FlagTypeOK, FreeGrpsEmpty, IsGrp, flagVars
<1>. QED BY <1>6, <1>7, <1>8 DEF FInv

LEMMA TickIInv ==
  ASSUME IInv, TickISR, UNCHANGED <<flagVars, passed>>
  PROVE  IInv'
<1> DEFINE walked == OSTCBList \ {IdleTask}
           left   == [t \in Tasks |-> IF t \in walked /\ OSTCBDly[t] # 0
                                        THEN OSTCBDly[t] - 1 ELSE OSTCBDly[t]]
           ts     == {t \in walked : OSTCBDly[t] # 0 /\ left[t] = 0}
<1>1. Expire(ts, left) /\ GoesOn(OSTCBCur)
  BY DEF TickISR, EnterISR, OSTimeTick, GoesOn
<1>2. walked \in SUBSET Tasks /\ ts \in SUBSET Tasks
  BY DEF IInv, KInv, Fixed
<1>3. left \in [Tasks -> Nat]
  BY DEF IInv, KInv, TypeOK
<1>4. \A t \in ts : OSTCBDly[t] # 0 /\ left[t] = 0
  OBVIOUS
<1>5. \A t \in Tasks \ ts : left[t] = 0 <=> OSTCBDly[t] = 0
  BY <1>2 DEF IInv, KInv, TypeOK
<1> HIDE DEF ts, left
<1>6. FInv'
  BY <1>1, <1>2, <1>3, <1>4, <1>5, ExpireFInv
<1>7. KInv'
  BY TickKInv, NoMultiF DEF IInv
<1>. QED BY <1>6, <1>7 DEF IInv, Checks, IsGrp, flagVars

LEMMA DlyResumeIInv ==
  ASSUME IInv, NEW t \in Tasks, NEW prio \in Prios, OSTimeDlyResume(t, prio),
         UNCHANGED <<flagVars, passed>>
  PROVE  IInv'
<1>. PICK u \in Tasks : u = OSTCBPrioTbl[prio]
  BY DEF OSTimeDlyResume
<1>. DEFINE dly == [OSTCBDly EXCEPT ![u] = 0]
<1>1. OSTCBDly[u] # 0 /\ Expire({u}, dly) /\ GoesOn(OSTCBCur)
  BY DEF OSTimeDlyResume, Calls, Goto, GoesOn
<1>2. dly \in [Tasks -> Nat]
  BY DEF IInv, KInv, TypeOK
<1>3. \A v \in {u} : OSTCBDly[v] # 0 /\ dly[v] = 0
  BY <1>1 DEF IInv, KInv, TypeOK
<1>4. \A v \in Tasks \ {u} : dly[v] = 0 <=> OSTCBDly[v] = 0
  BY DEF IInv, KInv, TypeOK
<1> HIDE DEF dly
<1>5. FInv'
  BY <1>1, <1>2, <1>3, <1>4, ExpireFInv
<1>6. KInv'
  BY DlyResumeKInv, NoMultiF DEF IInv
<1>. QED BY <1>5, <1>6 DEF IInv, Checks, IsGrp, flagVars

LEMMA DlyIInv ==
  ASSUME IInv, NEW t \in Tasks, NEW ticks \in Delays, OSTimeDly(t, ticks),
         UNCHANGED <<flagVars, passed>>
  PROVE  IInv'
<1>1. /\ pc[t] = "run" /\ pc' = [pc EXCEPT ![t] = "sched"]
      /\ OSTCBDly' = [OSTCBDly EXCEPT ![t] = ticks]
      /\ UNCHANGED <<OSTCBStat, OSTCBStatPend>>
  BY DEF OSTimeDly, Calls, Goto
<1>2. \A u \in Tasks : InPend(u)' <=> InPend(u)
  BY <1>1 DEF InPend, IInv, KInv, TypeOK
<1>3. \A u \in Tasks : InPend(u) => OSTCBDly'[u] = OSTCBDly[u]
  BY <1>1 DEF InPend, IInv, KInv, TypeOK
<1>4. \A u \in Tasks : TaskOK(u)'
  BY <1>1, <1>2, <1>3 DEF IInv, FInv, TaskOK, HasFlags, flagVars
<1>5. FlagTypeOK' /\ FreeGrpsEmpty' /\ FlagListExact'
  BY <1>1, <1>2 DEF IInv, FInv, FlagTypeOK, FreeGrpsEmpty, FlagListExact, IsGrp, flagVars
<1>6. KInv'
  BY DlyKInv DEF IInv
<1>. QED BY <1>4, <1>5, <1>6 DEF IInv, FInv, Checks, IsGrp, flagVars

LEMMA SuspendIInv ==
  ASSUME IInv, NEW t \in Tasks, NEW prio \in Prios,
         OSTaskSuspend(t, prio) \/ OSTaskResume(t, prio),
         UNCHANGED <<flagVars, passed>>
  PROVE  IInv'
<1>. PICK u \in Tasks : u = OSTCBPrioTbl[prio]
  BY DEF OSTaskSuspend, OSTaskResume
<1>1. /\ OSTCBStat' = [OSTCBStat EXCEPT ![u] = OSTCBStat[u] \cup {"SUSPEND"}]
           \/ OSTCBStat' = [OSTCBStat EXCEPT ![u] = OSTCBStat[u] \ {"SUSPEND"}]
      /\ GoesOn(t) /\ UNCHANGED <<OSTCBStatPend, OSTCBDly>>
  BY DEF OSTaskSuspend, OSTaskResume, Calls, Goto, GoesOn
<1>2. \A v \in Tasks : InPend(v)' <=> InPend(v)
  BY <1>1 DEF InPend, GoesOn, IInv, KInv, TypeOK
<1>3. \A v \in Tasks : /\ "FLAG" \in OSTCBStat'[v] <=> "FLAG" \in OSTCBStat[v]
                       /\ OSTCBStat'[v] \subseteq OSTCBStat[v] \cup {"SUSPEND"}
  <2>1. OSTCBStat \in [Tasks -> SUBSET Stats]
    BY DEF IInv, KInv, TypeOK
  <2>2. CASE OSTCBStat' = [OSTCBStat EXCEPT ![u] = OSTCBStat[u] \cup {"SUSPEND"}]
    BY <2>1, <2>2
  <2>3. CASE OSTCBStat' = [OSTCBStat EXCEPT ![u] = OSTCBStat[u] \ {"SUSPEND"}]
    BY <2>1, <2>3
  <2>. QED BY <1>1, <2>2, <2>3
<1>4. \A v \in Tasks : TaskOK(v)'
  BY <1>1, <1>2, <1>3 DEF IInv, FInv, TaskOK, HasFlags, flagVars
<1>5. FlagTypeOK' /\ FreeGrpsEmpty' /\ FlagListExact'
  BY <1>1, <1>2, <1>3 DEF IInv, FInv, FlagTypeOK, FreeGrpsEmpty, FlagListExact, IsGrp, flagVars
<1>6. KInv'
  BY SuspendKInv, ResumeKInv DEF IInv
<1>. QED BY <1>4, <1>5, <1>6 DEF IInv, FInv, Checks, IsGrp, flagVars

-----------------------------------------------------------------------------
(* OS_FlagTaskRdy() for any of the tasks on the list of a group.           *)

LEMMA ReadyEffect ==
  ASSUME IInv, NEW g \in Grps, NEW ts \in SUBSET OSFlagWaitList[g], NEW got,
         OS_FlagTaskRdy(ts, got)
  PROVE  /\ OSTCBDly' = [t \in Tasks |-> IF t \in ts THEN 0 ELSE OSTCBDly[t]]
         /\ OSTCBFlagsRdy' = [t \in Tasks |-> IF t \in ts THEN got[t] ELSE OSTCBFlagsRdy[t]]
         /\ OSTCBStat' = [t \in Tasks |-> IF t \in ts THEN OSTCBStat[t] \ {"FLAG"} ELSE OSTCBStat[t]]
         /\ OSTCBStatPend' = [t \in Tasks |-> IF t \in ts THEN "OK" ELSE OSTCBStatPend[t]]
         /\ OSFlagWaitList' = [f \in Grps |-> OSFlagWaitList[f] \ ts]
         /\ \A t \in ts : t \in Tasks /\ t # IdleTask /\ InPend(t) /\ OSFlagNode[t].grp = g
         /\ \A t \in Tasks : Runnable(t)' <=> IF t \in ts THEN OSTCBStat'[t] = {} ELSE Runnable(t)
         /\ \A t \in Tasks : Runnable(t) => Runnable(t)'
         /\ ReadyList'
<1>1. /\ OSTCBDly' = [t \in Tasks |-> IF t \in ts THEN 0 ELSE OSTCBDly[t]]
      /\ OSTCBStat' = [t \in Tasks |-> IF t \in ts THEN OSTCBStat[t] \ {"FLAG"} ELSE OSTCBStat[t]]
      /\ OSTCBFlagsRdy' = [t \in Tasks |-> IF t \in ts THEN got[t] ELSE OSTCBFlagsRdy[t]]
      /\ OSTCBStatPend' = [t \in Tasks |-> IF t \in ts THEN "OK" ELSE OSTCBStatPend[t]]
      /\ OSFlagWaitList' = [f \in Grps |-> OSFlagWaitList[f] \ ts]
  BY DEF OS_FlagTaskRdy, OS_FlagUnlink
<1>2. \A t \in ts : t \in Tasks /\ InPend(t) /\ OSFlagNode[t].grp = g
  BY DEF IInv, FInv, FlagListExact
<1>3. \A t \in ts : t # IdleTask
  BY <1>2 DEF IInv, KInv, IdleOK, InPend
<1>4. \A t \in Tasks : Runnable(t)' <=> IF t \in ts THEN OSTCBStat'[t] = {} ELSE Runnable(t)
  BY <1>1 DEF Runnable
<1>5. \A t \in Tasks : Runnable(t) => Runnable(t)'
  <2> SUFFICES ASSUME NEW t \in Tasks, Runnable(t) PROVE Runnable(t)'
    OBVIOUS
  <2>1. OSTCBStat'[t] = {}
    BY <1>1 DEF Runnable
  <2>. QED BY <2>1, <1>4
<1>6. ReadyList'
  <2> DEFINE now == {u \in ts : OSTCBStat'[u] = {}}
  <2>1. OSRdyTbl' = MapSet(OSRdyTbl, {OSTCBPrio[t] : t \in now})
    BY DEF OS_FlagTaskRdy
  <2>2. ReadySet' = ReadySet \cup now
    BY <1>2, <1>4, <1>5 DEF ReadySet
  <2>3. now \in SUBSET Tasks
    BY <1>2
  <2> HIDE DEF now
  <2>. QED BY <2>1, <2>2, <2>3, Readied DEF IInv, ReadyList
<1>. QED BY <1>1, <1>2, <1>3, <1>4, <1>5, <1>6

LEMMA ReadyStep ==
  ASSUME IInv, NEW g \in Grps, NEW ts \in SUBSET OSFlagWaitList[g], NEW got,
         OS_FlagTaskRdy(ts, got),
         \A t \in ts : got[t] \in SUBSET (Flags \cap OSFlagNode[t].req.flags),
         UNCHANGED <<OSTCBPrio, OSTCBEventPtr, OSTCBEventMultiPtr, tblVars, eventVars,
                     curVars, OSLockNesting, OSFlagNode>>,
         GoesOn(OSTCBCur), OSIntNesting' \in {OSIntNesting, 1},
         OSIntNesting' = 1 \/ pc' # pc \/ \A t \in ts : OSTCBStat'[t] # {},
         OSFlagType' \in [Grps -> {"UNUSED", "FLAG"}],
         OSFlagFlags' \in [Grps -> SUBSET Flags],
         \A f \in Grps : OSFlagType'[f] = OSFlagType[f] \/ (f = g /\ ts = OSFlagWaitList[g])
  PROVE  KInv' /\ FInv'
<1>1. /\ OSTCBDly' = [t \in Tasks |-> IF t \in ts THEN 0 ELSE OSTCBDly[t]]
      /\ OSTCBFlagsRdy' = [t \in Tasks |-> IF t \in ts THEN got[t] ELSE OSTCBFlagsRdy[t]]
      /\ OSTCBStat' = [t \in Tasks |-> IF t \in ts THEN OSTCBStat[t] \ {"FLAG"} ELSE OSTCBStat[t]]
      /\ OSTCBStatPend' = [t \in Tasks |-> IF t \in ts THEN "OK" ELSE OSTCBStatPend[t]]
      /\ OSFlagWaitList' = [f \in Grps |-> OSFlagWaitList[f] \ ts]
      /\ \A t \in ts : t \in Tasks /\ t # IdleTask /\ InPend(t) /\ OSFlagNode[t].grp = g
      /\ \A t \in Tasks : Runnable(t)' <=> IF t \in ts THEN OSTCBStat'[t] = {} ELSE Runnable(t)
      /\ \A t \in Tasks : Runnable(t) => Runnable(t)'
      /\ ReadyList'
  BY ReadyEffect
<1>2. \A t \in Tasks : InPend(t)' <=> InPend(t)
  BY DEF InPend, GoesOn, IInv, KInv, TypeOK
<1>3. TypeOK'
  <2>1. OSRdyTbl' \in PrioMap
    BY <1>1, ReadyListTypePrime DEF ReadyTyped
  <2>2. /\ OSTCBStat' \in [Tasks -> SUBSET Stats]
        /\ OSTCBStatPend' \in [Tasks -> PendStats]
        /\ OSTCBDly' \in [Tasks -> Nat]
        /\ pc' \in [Tasks -> Pcs]
    BY <1>1 DEF IInv, KInv, TypeOK, PendStats, Pcs, GoesOn
  <2>. QED BY <2>1, <2>2 DEF IInv, KInv, TypeOK, tblVars, eventVars, curVars
<1>4. KInv'
  <2>1. Runnable(IdleTask)' /\ pc'[IdleTask] = "run"
    BY <1>1, CoreAssumption DEF IInv, KInv, TypeOK, IdleOK, GoesOn
  <2>2. OSLockNesting > 0 => pc'[OSTCBCur] \in {"run", "sched"}
    BY DEF IInv, KInv, TypeOK, CurOK, GoesOn
  <2>3. \/ OSIntNesting' = 1
        \/ pc'[OSTCBCur] = "sched"
        \/ /\ OSIntNesting' = OSIntNesting
           /\ pc'[OSTCBCur] = pc[OSTCBCur]
           /\ \A t \in Tasks : Runnable(t)' <=> Runnable(t)
    <3>1. CASE OSIntNesting' = 1 \/ pc' # pc
      BY <3>1 DEF IInv, KInv, TypeOK, GoesOn
    <3>2. CASE OSIntNesting' # 1 /\ pc' = pc
      BY <3>2, <1>1
    <3>. QED BY <3>1, <3>2
  <2>. QED BY <1>1, <1>3, <2>1, <2>2, <2>3, StepKInv DEF IInv
<1>5. FlagTypeOK'
  <2>1. OSFlagWaitList' \in [Grps -> SUBSET Tasks] /\ OSTCBFlagsRdy' \in [Tasks -> SUBSET Flags]
    BY <1>1 DEF IInv, FInv, FlagTypeOK
  <2>. QED BY <2>1 DEF IInv, FInv, FlagTypeOK
<1>6. ASSUME NEW t \in Tasks PROVE TaskOK(t)'
  <2>1. TaskOK(t)
    BY DEF IInv, FInv
  <2>2. CASE t \in ts
    BY <2>1, <2>2, <1>1, <1>2 DEF TaskOK, HasFlags
  <2>3. CASE t \notin ts
    BY <2>1, <2>3, <1>1, <1>2 DEF TaskOK, HasFlags
  <2>. QED BY <2>2, <2>3
<1>7. FlagListExact'
  <2> SUFFICES ASSUME NEW f \in Grps, NEW t \in Tasks
               PROVE  t \in OSFlagWaitList'[f]
                        <=> /\ InPend(t)' /\ OSFlagNode'[t].grp = f
                            /\ "FLAG" \in OSTCBStat'[t] \/ OSTCBStatPend'[t] = "TO"
    BY <1>5 DEF FlagListExact, FlagTypeOK
  <2>1. t \in OSFlagWaitList[f]
          <=> /\ InPend(t) /\ OSFlagNode[t].grp = f
              /\ "FLAG" \in OSTCBStat[t] \/ OSTCBStatPend[t] = "TO"
    BY DEF IInv, FInv, FlagListExact
  <2>2. CASE t \in ts
    BY <2>2, <1>1
  <2>3. CASE t \notin ts
    BY <2>1, <2>3, <1>1, <1>2
  <2>. QED BY <2>2, <2>3
<1>8. FreeGrpsEmpty'
  BY <1>1 DEF IInv, FInv, FreeGrpsEmpty, IsGrp
<1>. QED BY <1>4, <1>5, <1>6, <1>7, <1>8 DEF FInv

(* The part of a request that the flags fulfil.                            *)
LEMMA FlagsRdyPart ==
  ASSUME NEW r, NEW flags
  PROVE  FlagsRdy(r, flags) \subseteq r.flags
  BY DEF FlagsRdy

LEMMA NodeTyped ==
  ASSUME FlagTypeOK, NEW t \in Tasks
  PROVE  /\ OSFlagNode[t].req.flags \subseteq Flags
         /\ OSFlagNode[t].req \in Requests \cup {NoNode.req}
         /\ OSFlagNode[t].grp \in Grps \cup {NoGrp}
<1>1. OSFlagNode[t] \in [grp : Grps \cup {NoGrp}, req : Requests \cup {NoNode.req}]
  BY DEF FlagTypeOK
<1>2. \A r \in Requests \cup {NoNode.req} : r.flags \subseteq Flags
  BY FlagAssumption DEF NoNode
<1>. QED BY <1>1, <1>2

LEMMA PostIInv ==
  ASSUME IInv, NEW g \in Grps, NEW flags \in SUBSET Flags, IsGrp(g), Post(g, flags),
         UNCHANGED <<curVars, OSLockNesting>>, GoesOn(OSTCBCur),
         OSIntNesting' \in {OSIntNesting, 1},
         OSIntNesting' = 1 \/ pc' # pc \/ \A t \in Matching(g, flags) : OSTCBStat'[t] # {}
  PROVE  KInv' /\ FInv'
<1> DEFINE ts  == Matching(g, flags)
           got == [t \in Tasks |-> FlagsRdy(OSFlagNode[t].req, flags)]
<1>1. ts \in SUBSET OSFlagWaitList[g] /\ OSFlagWaitList[g] \in SUBSET Tasks
  BY DEF Matching, IInv, FInv, FlagTypeOK
<1>2. \A t \in ts : got[t] \in SUBSET (Flags \cap OSFlagNode[t].req.flags)
  BY <1>1, FlagsRdyPart, NodeTyped DEF IInv, FInv
<1>3. /\ OS_FlagTaskRdy(ts, got)
      /\ OSFlagFlags' = [OSFlagFlags EXCEPT ![g] = flags]
      /\ UNCHANGED <<OSTCBPrio, OSTCBEventPtr, OSTCBEventMultiPtr, tblVars, eventVars,
                     OSFlagType, OSFlagNode>>
  BY DEF Post
<1>4. /\ OSFlagType' \in [Grps -> {"UNUSED", "FLAG"}]
      /\ OSFlagFlags' \in [Grps -> SUBSET Flags]
  BY <1>3 DEF IInv, FInv, FlagTypeOK
<1> HIDE DEF ts, got
<1>5. OSIntNesting' = 1 \/ pc' # pc \/ \A t \in ts : OSTCBStat'[t] # {}
  BY DEF ts
<1>. QED BY <1>1, <1>2, <1>3, <1>4, <1>5, ReadyStep

LEMMA PostedTyped ==
  ASSUME FlagTypeOK, NEW g \in Grps, NEW fs \in FlagSets, NEW opt
  PROVE  Posted(g, fs, opt) \in SUBSET Flags
  BY FlagAssumption DEF FlagTypeOK, Posted

-----------------------------------------------------------------------------
(* The services of a group.                                                *)

(* A step of the task that runs which leaves the kernel alone.             *)
LEMMA KernelFrame ==
  ASSUME KInv, UNCHANGED coreVars
  PROVE  KInv'
<1>1. UNCHANGED <<tcbVars, tblVars, OSRdyTbl, eventVars, curVars, nestVars, pc>>
  BY DEF coreVars
<1>2. ReadyList'
  BY <1>1, ReadyFrame DEF KInv, tcbVars
<1>3. TypeOK' /\ Fixed' /\ IdleOK' /\ CurOK'
  BY <1>1 DEF KInv, TypeOK, Fixed, IdleOK, CurOK, Runnable, tcbVars, tblVars, eventVars,
              curVars, nestVars
<1>4. HighestPriorityRuns'
  BY <1>1 DEF KInv, HighestPriorityRuns, Runnable, tcbVars, tblVars, curVars, nestVars
<1>. QED BY <1>2, <1>3, <1>4 DEF KInv

(* The word of a group changes, or what the caller has been given.         *)
LEMMA WordStep ==
  ASSUME IInv, UNCHANGED coreVars, UNCHANGED <<OSFlagType, OSFlagWaitList, OSFlagNode>>,
         OSFlagFlags' \in [Grps -> SUBSET Flags],
         OSTCBFlagsRdy' \in [Tasks -> SUBSET Flags],
         \A t \in Tasks : OSTCBFlagsRdy'[t] = OSTCBFlagsRdy[t] \/ ~InPend(t)
  PROVE  KInv' /\ FInv'
<1>1. \A t \in Tasks : InPend(t)' <=> InPend(t)
  BY DEF InPend, coreVars
<1>2. UNCHANGED <<OSTCBStat, OSTCBStatPend, OSTCBDly>>
  BY DEF coreVars, tcbVars
<1>3. \A t \in Tasks : TaskOK(t)'
  BY <1>1, <1>2 DEF IInv, FInv, TaskOK, HasFlags
<1>4. FlagTypeOK' /\ FreeGrpsEmpty' /\ FlagListExact'
  BY <1>1, <1>2 DEF IInv, FInv, FlagTypeOK, FreeGrpsEmpty, FlagListExact, IsGrp
<1>. QED BY <1>3, <1>4, KernelFrame DEF IInv, FInv

LEMMA ConsumedTyped ==
  ASSUME FlagTypeOK, NEW g \in Grps, NEW r \in Requests \cup {NoNode.req},
         NEW got \in SUBSET Flags
  PROVE  Consumed(r, OSFlagFlags[g], got) \in SUBSET Flags
  BY FlagAssumption DEF FlagTypeOK, Consumed

LEMMA TakeIInv ==
  ASSUME IInv, NEW t \in Tasks, NEW g \in Grps, NEW r \in Requests,
         OSFlagAccept(t, g, r) \/ OSFlagPendTake(t, g, r)
  PROVE  KInv' /\ FInv'
<1>1. /\ UNCHANGED coreVars /\ UNCHANGED <<OSFlagType, OSFlagWaitList, OSFlagNode>>
      /\ OSFlagFlags' = [OSFlagFlags EXCEPT ![g] = Consumed(r, OSFlagFlags[g],
                                                           FlagsRdy(r, OSFlagFlags[g]))]
      /\ \/ OSTCBFlagsRdy' = OSTCBFlagsRdy
         \/ OSTCBFlagsRdy' = [OSTCBFlagsRdy EXCEPT ![t] = FlagsRdy(r, OSFlagFlags[g])]
      /\ ~InPend(t)
  BY DEF OSFlagAccept, OSFlagPendTake, EnterGrp, Calls, InPend
<1>2. FlagsRdy(r, OSFlagFlags[g]) \in SUBSET Flags
  BY FlagsRdyPart, FlagAssumption
<1>3. OSFlagFlags' \in [Grps -> SUBSET Flags]
  BY <1>1, <1>2, ConsumedTyped DEF IInv, FInv, FlagTypeOK
<1>4. /\ OSTCBFlagsRdy' \in [Tasks -> SUBSET Flags]
      /\ \A u \in Tasks : OSTCBFlagsRdy'[u] = OSTCBFlagsRdy[u] \/ ~InPend(u)
  BY <1>1, <1>2 DEF IInv, FInv, FlagTypeOK
<1>. QED BY <1>1, <1>3, <1>4, WordStep

LEMMA BlockIInv ==
  ASSUME IInv, NEW t \in Tasks, NEW g \in Grps, NEW r \in Requests, NEW timeout \in FlagTimeouts,
         IsGrp(g), OSFlagPendBlock(t, g, r, timeout)
  PROVE  KInv' /\ FInv'
<1>1. /\ OSTCBCur = t /\ t # IdleTask /\ pc[t] = "run" /\ OSLockNesting = 0 /\ Runnable(t)
  BY CallerK DEF OSFlagPendBlock, EnterGrp, IInv
<1>2. /\ OSTCBStat' = [OSTCBStat EXCEPT ![t] = OSTCBStat[t] \cup {"FLAG"}]
      /\ OSTCBStatPend' = [OSTCBStatPend EXCEPT ![t] = "OK"]
      /\ OSTCBDly' = [OSTCBDly EXCEPT ![t] = timeout]
      /\ OSFlagNode' = [OSFlagNode EXCEPT ![t] = [grp |-> g, req |-> r]]
      /\ OSFlagWaitList' = [OSFlagWaitList EXCEPT ![g] = OSFlagWaitList[g] \cup {t}]
      /\ Unready(t) /\ pc' = [pc EXCEPT ![t] = "pend"]
      /\ UNCHANGED <<OSTCBPrio, OSTCBEventPtr, OSTCBEventMultiPtr, tblVars, eventVars,
                     curVars, nestVars, OSFlagType, OSFlagFlags, OSTCBFlagsRdy>>
  BY DEF OSFlagPendBlock, Goto
<1>3. timeout \in Nat /\ g # NoGrp
  BY FlagAssumption
<1>4. ReadySet' = ReadySet \ {t}
  BY <1>1, <1>2 DEF IInv, KInv, TypeOK, ReadySet, Runnable
<1>5. ReadyList'
  BY <1>2, <1>4, Unreadied DEF IInv, ReadyList
<1>6. TypeOK'
  BY <1>2, <1>3, <1>5, ReadyListTypePrime
     DEF ReadyTyped, IInv, KInv, TypeOK, Stats, PendAny, PendStats, Pcs, tblVars, eventVars,
         curVars, nestVars
<1>7. KInv'
  <2>1. Runnable(IdleTask)' /\ pc'[IdleTask] = "run" /\ pc'[t] = "pend"
    BY <1>1, <1>2, CoreAssumption DEF IInv, KInv, TypeOK, IdleOK, Runnable
  <2>. QED BY <1>1, <1>2, <1>5, <1>6, <2>1, StepKInv DEF IInv, nestVars
<1>8. FlagTypeOK'
  <2>1. [grp |-> g, req |-> r] \in [grp : Grps \cup {NoGrp}, req : Requests \cup {NoNode.req}]
    OBVIOUS
  <2>2. OSFlagNode' \in [Tasks -> [grp : Grps \cup {NoGrp}, req : Requests \cup {NoNode.req}]]
    BY <1>2, <2>1 DEF IInv, FInv, FlagTypeOK
  <2>. QED BY <1>2, <2>2 DEF IInv, FInv, FlagTypeOK
<1>9. InPend(t)' /\ ~InPend(t) /\ \A u \in Tasks \ {t} : InPend(u)' <=> InPend(u)
  BY <1>1, <1>2 DEF InPend, IInv, KInv, TypeOK
<1>10. /\ OSFlagNode'[t].grp = g
       /\ "FLAG" \in OSTCBStat'[t] /\ OSTCBStatPend'[t] = "OK"
       /\ OSTCBStat'[t] \subseteq {"FLAG"}
  BY <1>1, <1>2 DEF IInv, KInv, TypeOK, FInv, FlagTypeOK, Runnable
<1>11. \A u \in Tasks \ {t} : /\ OSFlagNode'[u] = OSFlagNode[u]
                              /\ OSTCBStat'[u] = OSTCBStat[u]
                              /\ OSTCBStatPend'[u] = OSTCBStatPend[u]
                              /\ OSTCBDly'[u] = OSTCBDly[u]
  BY <1>2 DEF IInv, KInv, TypeOK, FInv, FlagTypeOK
<1>12. ASSUME NEW u \in Tasks PROVE TaskOK(u)'
  <2>1. CASE u = t
    BY <2>1, <1>3, <1>9, <1>10 DEF TaskOK, HasFlags
  <2>2. CASE u # t
    BY <2>2, <1>2, <1>9, <1>11 DEF IInv, FInv, TaskOK, HasFlags
  <2>. QED BY <2>1, <2>2
<1>13. FlagListExact'
  <2> SUFFICES ASSUME NEW f \in Grps, NEW u \in Tasks
               PROVE  u \in OSFlagWaitList'[f]
                        <=> /\ InPend(u)' /\ OSFlagNode'[u].grp = f
                            /\ "FLAG" \in OSTCBStat'[u] \/ OSTCBStatPend'[u] = "TO"
    BY <1>8 DEF FlagListExact, FlagTypeOK
  <2>1. u \in OSFlagWaitList[f]
          <=> /\ InPend(u) /\ OSFlagNode[u].grp = f
              /\ "FLAG" \in OSTCBStat[u] \/ OSTCBStatPend[u] = "TO"
    BY DEF IInv, FInv, FlagListExact
  <2>2. OSFlagWaitList'[f] = IF f = g THEN OSFlagWaitList[f] \cup {t} ELSE OSFlagWaitList[f]
    BY <1>2 DEF IInv, FInv, FlagTypeOK
  <2>3. CASE u = t
    BY <2>1, <2>2, <2>3, <1>9, <1>10
  <2>4. CASE u # t
    BY <2>1, <2>2, <2>4, <1>9, <1>11
  <2>. QED BY <2>3, <2>4
<1>14. FreeGrpsEmpty'
  BY <1>2 DEF IInv, FInv, FlagTypeOK, FreeGrpsEmpty, IsGrp
<1>. QED BY <1>7, <1>8, <1>12, <1>13, <1>14 DEF FInv

LEMMA CreateIInv ==
  ASSUME IInv, NEW t \in Tasks, NEW g \in Grps, NEW fs \in FlagSets, OSFlagCreate(t, g, fs)
  PROVE  KInv' /\ FInv'
<1>1. /\ UNCHANGED coreVars /\ OSFlagType[g] = "UNUSED"
      /\ OSFlagType' = [OSFlagType EXCEPT ![g] = "FLAG"]
      /\ OSFlagFlags' = [OSFlagFlags EXCEPT ![g] = fs]
      /\ OSFlagWaitList' = [OSFlagWaitList EXCEPT ![g] = {}]
      /\ UNCHANGED <<OSFlagNode, OSTCBFlagsRdy>>
  BY DEF OSFlagCreate
<1>2. OSFlagWaitList' = OSFlagWaitList
  BY <1>1 DEF IInv, FInv, FlagTypeOK, FreeGrpsEmpty, IsGrp
<1>3. FlagTypeOK' /\ FreeGrpsEmpty'
  BY <1>1, <1>2, FlagAssumption DEF IInv, FInv, FlagTypeOK, FreeGrpsEmpty, IsGrp
<1>4. UNCHANGED <<OSTCBStat, OSTCBStatPend, OSTCBDly, pc>>
  BY <1>1 DEF coreVars, tcbVars
<1>5. FlagListExact' /\ \A u \in Tasks : TaskOK(u)'
  BY <1>1, <1>2, <1>4 DEF IInv, FInv, FlagListExact, TaskOK, HasFlags, InPend
<1>. QED BY <1>1, <1>3, <1>5, KernelFrame DEF IInv, FInv

LEMMA DelNoPendIInv ==
  ASSUME IInv, NEW t \in Tasks, NEW g \in Grps, OSFlagDelNoPend(t, g)
  PROVE  KInv' /\ FInv'
<1>1. /\ UNCHANGED coreVars /\ OSFlagWaitList[g] = {}
      /\ OSFlagType' = [OSFlagType EXCEPT ![g] = "UNUSED"]
      /\ OSFlagFlags' = [OSFlagFlags EXCEPT ![g] = {}]
      /\ UNCHANGED <<OSFlagWaitList, OSFlagNode, OSTCBFlagsRdy>>
  BY DEF OSFlagDelNoPend, FreeGrp
<1>2. FlagTypeOK' /\ FreeGrpsEmpty'
  BY <1>1 DEF IInv, FInv, FlagTypeOK, FreeGrpsEmpty, IsGrp
<1>3. UNCHANGED <<OSTCBStat, OSTCBStatPend, OSTCBDly, pc>>
  BY <1>1 DEF coreVars, tcbVars
<1>4. FlagListExact' /\ \A u \in Tasks : TaskOK(u)'
  BY <1>1, <1>3 DEF IInv, FInv, FlagListExact, TaskOK, HasFlags, InPend
<1>. QED BY <1>1, <1>2, <1>4, KernelFrame DEF IInv, FInv

LEMMA DelAlwaysIInv ==
  ASSUME IInv, NEW t \in Tasks, NEW g \in Grps, OSFlagDelAlways(t, g)
  PROVE  KInv' /\ FInv'
<1> DEFINE ts  == OSFlagWaitList[g]
           got == [u \in Tasks |-> {}]
<1>1. /\ OS_FlagTaskRdy(ts, got)
      /\ UNCHANGED <<OSTCBPrio, OSTCBEventPtr, OSTCBEventMultiPtr, tblVars, eventVars,
                     curVars, nestVars, OSFlagNode>>
      /\ OSTCBCur = t /\ pc[t] = "run" /\ t # IdleTask
      /\ IF ts # {} THEN pc' = [pc EXCEPT ![t] = "sched"] ELSE pc' = pc
  BY DEF OSFlagDelAlways, EnterGrp, Calls, Goto
<1>2. /\ OSFlagType' = [OSFlagType EXCEPT ![g] = "UNUSED"]
      /\ OSFlagFlags' = [OSFlagFlags EXCEPT ![g] = {}]
  BY DEF OSFlagDelAlways, FreeGrp
<1>3. /\ OSFlagType' \in [Grps -> {"UNUSED", "FLAG"}]
      /\ OSFlagFlags' \in [Grps -> SUBSET Flags]
      /\ \A f \in Grps : OSFlagType'[f] = OSFlagType[f] \/ (f = g /\ ts = OSFlagWaitList[g])
  BY <1>2 DEF IInv, FInv, FlagTypeOK
<1>4. \A u \in ts : got[u] \in SUBSET (Flags \cap OSFlagNode[u].req.flags)
  BY DEF IInv, FInv, FlagTypeOK
<1>5. GoesOn(OSTCBCur) /\ (pc' # pc \/ ts = {})
  BY <1>1 DEF GoesOn, IInv, KInv, TypeOK
<1> HIDE DEF ts, got
<1>6. ts \in SUBSET OSFlagWaitList[g] /\ (ts = OSFlagWaitList[g])
  BY DEF ts
<1>7. OSIntNesting' \in {OSIntNesting, 1} /\ OSLockNesting' = OSLockNesting
  BY <1>1 DEF nestVars
<1>8. OSIntNesting' = 1 \/ pc' # pc \/ \A u \in ts : OSTCBStat'[u] # {}
  BY <1>5
<1>. QED BY <1>1, <1>3, <1>4, <1>5, <1>6, <1>7, <1>8, ReadyStep, ZenonT(60)

LEMMA OSFlagPostIInv ==
  ASSUME IInv, NEW t \in Tasks, NEW g \in Grps, NEW fs \in FlagSets, NEW opt,
         IsGrp(g), OSFlagPost(t, g, fs, opt)
  PROVE  KInv' /\ FInv'
<1> DEFINE flags == Posted(g, fs, opt)
<1>1. /\ Post(g, flags) /\ UNCHANGED <<curVars, nestVars>>
      /\ OSTCBCur = t /\ pc[t] = "run" /\ t # IdleTask
      /\ IF \E u \in Matching(g, flags) : OSTCBStat'[u] = {}
           THEN pc' = [pc EXCEPT ![t] = "sched"] ELSE pc' = pc
  BY DEF OSFlagPost, EnterGrp, Calls, SchedIfReadied, Goto
<1>2. flags \in SUBSET Flags
  BY PostedTyped DEF IInv, FInv
<1> HIDE DEF flags
<1>3. GoesOn(OSTCBCur) /\ (pc' # pc \/ \A u \in Matching(g, flags) : OSTCBStat'[u] # {})
  BY <1>1 DEF GoesOn, IInv, KInv, TypeOK
<1>. QED BY <1>1, <1>2, <1>3, PostIInv DEF nestVars

LEMMA FlagPostISRIInv ==
  ASSUME IInv, NEW g \in Grps, NEW fs \in FlagSets, NEW opt, FlagPostISR(g, fs, opt)
  PROVE  KInv' /\ FInv'
<1> DEFINE flags == Posted(g, fs, opt)
<1>1. /\ Post(g, flags) /\ UNCHANGED <<curVars, OSLockNesting>>
      /\ IsGrp(g) /\ OSIntNesting' = 1 /\ GoesOn(OSTCBCur)
  BY DEF FlagPostISR, EnterISR, GoesOn
<1>2. flags \in SUBSET Flags
  BY PostedTyped DEF IInv, FInv
<1> HIDE DEF flags
<1>. QED BY <1>1, <1>2, PostIInv

-----------------------------------------------------------------------------
(* The end of a pend.  The task runs, so whatever ended its wait has       *)
(* cleared the bit FLAG, and only a time-out has left its node linked.     *)
LEMMA ReturnStep ==
  ASSUME IInv, NEW t \in Tasks, At(t, "wake"),
         pc' = [pc EXCEPT ![t] = "run"],
         OSFlagNode' = [OSFlagNode EXCEPT ![t] = NoNode],
         OSTCBStatPend' = [OSTCBStatPend EXCEPT ![t] = "OK"],
         OSFlagWaitList' = [f \in Grps |-> OSFlagWaitList[f] \ {t}],
         OSFlagFlags' \in [Grps -> SUBSET Flags],
         UNCHANGED <<OSTCBPrio, OSTCBStat, OSTCBDly, OSTCBEventPtr, OSTCBEventMultiPtr, tblVars,
                     OSRdyTbl, eventVars, curVars, nestVars, OSFlagType, OSTCBFlagsRdy>>
  PROVE  KInv' /\ FInv'
<1>1. /\ OSTCBCur = t /\ t # IdleTask /\ pc[t] = "wake"
      /\ OSLockNesting = 0 /\ Runnable(t)
  BY WakerK DEF IInv
<1>2. ReadyList' /\ \A u \in Tasks : Runnable(u)' <=> Runnable(u)
  BY ReadyFrame DEF IInv, KInv, Runnable
<1>3. TypeOK'
  BY DEF IInv, KInv, TypeOK, PendStats, Pcs, tblVars, eventVars, curVars, nestVars
<1>4. KInv'
  <2>1. pc'[IdleTask] = "run" /\ Runnable(IdleTask)' /\ pc'[t] = "run"
    BY <1>1, <1>2, CoreAssumption DEF IInv, KInv, TypeOK, IdleOK
  <2>2. Runnable(OSTCBCur) => Runnable(OSTCBCur)'
    BY <1>1 DEF Runnable, curVars
  <2>. QED BY <1>1, <1>2, <1>3, <2>1, <2>2, StepKInv DEF IInv, nestVars
<1>5. FlagTypeOK'
  BY DEF IInv, FInv, FlagTypeOK, NoNode
<1>6. /\ \A u \in Tasks \ {t} : InPend(u)' <=> InPend(u)
      /\ ~InPend(t)'
  BY <1>1 DEF InPend, IInv, KInv, TypeOK
<1>7. \A u \in Tasks : TaskOK(u)'
  <2> SUFFICES ASSUME NEW u \in Tasks PROVE TaskOK(u)'
    OBVIOUS
  <2>1. CASE u = t
    <3>1. OSTCBStat'[t] = {} /\ OSTCBStatPend'[t] = "OK" /\ OSFlagNode'[t].grp = NoGrp
      BY <1>1 DEF Runnable, NoNode, IInv, FInv, FlagTypeOK, KInv, TypeOK
    <3>. QED BY <2>1, <3>1, <1>6 DEF TaskOK, HasFlags
  <2>2. CASE u # t
    <3>1. OSFlagNode'[u] = OSFlagNode[u] /\ OSTCBStatPend'[u] = OSTCBStatPend[u]
      BY <2>2 DEF IInv, FInv, FlagTypeOK, KInv, TypeOK
    <3>. QED BY <2>2, <3>1, <1>6 DEF IInv, FInv, TaskOK, HasFlags
  <2>. QED BY <2>1, <2>2
<1>8. FlagListExact'
  <2> SUFFICES ASSUME NEW f \in Grps, NEW u \in Tasks
               PROVE  u \in OSFlagWaitList'[f]
                        <=> /\ InPend(u)' /\ OSFlagNode'[u].grp = f
                            /\ "FLAG" \in OSTCBStat'[u] \/ OSTCBStatPend'[u] = "TO"
    BY <1>5 DEF FlagListExact, FlagTypeOK
  <2>1. u \in OSFlagWaitList[f]
          <=> /\ InPend(u) /\ OSFlagNode[u].grp = f
              /\ "FLAG" \in OSTCBStat[u] \/ OSTCBStatPend[u] = "TO"
    BY DEF IInv, FInv, FlagListExact
  <2>2. CASE u = t
    BY <2>2, <1>6
  <2>3. CASE u # t
    <3>1. OSFlagNode'[u] = OSFlagNode[u] /\ OSTCBStatPend'[u] = OSTCBStatPend[u]
      BY <2>3 DEF IInv, FInv, FlagTypeOK, KInv, TypeOK
    <3>. QED BY <2>1, <2>3, <3>1, <1>6
  <2>. QED BY <2>2, <2>3
<1>9. FreeGrpsEmpty'
  BY DEF IInv, FInv, FreeGrpsEmpty, IsGrp
<1>. QED BY <1>4, <1>5, <1>7, <1>8, <1>9 DEF FInv

LEMMA GotIInv ==
  ASSUME IInv, NEW t \in Tasks, OSFlagPendGot(t)
  PROVE  KInv' /\ FInv'
<1>. PICK r : r = OSFlagNode[t].req
  OBVIOUS
<1>. PICK g : g = OSFlagNode[t].grp
  OBVIOUS
<1>1. /\ At(t, "wake") /\ OSTCBStatPend[t] = "OK"
      /\ OSFlagFlags' = [OSFlagFlags EXCEPT ![g] = Consumed(r, OSFlagFlags[g], OSTCBFlagsRdy[t])]
      /\ OSFlagNode' = [OSFlagNode EXCEPT ![t] = NoNode]
      /\ pc' = [pc EXCEPT ![t] = "run"]
      /\ UNCHANGED <<tcbVars, tblVars, OSRdyTbl, eventVars, curVars, nestVars,
                     OSFlagType, OSFlagWaitList, OSTCBFlagsRdy>>
  BY DEF OSFlagPendGot, Goto
<1>2. InPend(t) /\ Runnable(t)
  BY <1>1, WakerK DEF IInv, InPend
<1>3. g \in Grps /\ r \in Requests \cup {NoNode.req}
  BY <1>2, NodeTyped DEF IInv, FInv, TaskOK
<1>4. OSFlagFlags' \in [Grps -> SUBSET Flags]
  <2>1. Consumed(r, OSFlagFlags[g], OSTCBFlagsRdy[t]) \in SUBSET Flags
    BY <1>3, ConsumedTyped DEF IInv, FInv, FlagTypeOK
  <2>. QED BY <1>1, <2>1 DEF IInv, FInv, FlagTypeOK
<1>5. \A f \in Grps : t \notin OSFlagWaitList[f]
  BY <1>1, <1>2 DEF IInv, FInv, FlagListExact, Runnable
<1>6. OSFlagWaitList' = [f \in Grps |-> OSFlagWaitList[f] \ {t}]
  <2>1. OSFlagWaitList \in [Grps -> SUBSET Tasks]
    BY DEF IInv, FInv, FlagTypeOK
  <2>2. \A f \in Grps : OSFlagWaitList[f] = OSFlagWaitList[f] \ {t}
    BY <1>5
  <2>. QED BY <2>1, <2>2, <1>1
<1>7. OSTCBStatPend' = [OSTCBStatPend EXCEPT ![t] = "OK"]
  BY <1>1 DEF IInv, KInv, TypeOK, tcbVars
<1>. QED BY <1>1, <1>4, <1>6, <1>7, ReturnStep DEF tcbVars

LEMMA TimedOutIInv ==
  ASSUME IInv, NEW t \in Tasks, OSFlagPendTimedOut(t)
  PROVE  KInv' /\ FInv'
<1>1. /\ At(t, "wake")
      /\ OSTCBStatPend' = [OSTCBStatPend EXCEPT ![t] = "OK"]
      /\ OSTCBStat' = [OSTCBStat EXCEPT ![t] = {}]
      /\ OSFlagWaitList' = [f \in Grps |-> OSFlagWaitList[f] \ {t}]
      /\ OSFlagNode' = [OSFlagNode EXCEPT ![t] = NoNode]
      /\ pc' = [pc EXCEPT ![t] = "run"]
      /\ UNCHANGED <<OSTCBPrio, OSTCBDly, OSTCBEventPtr, OSTCBEventMultiPtr, tblVars, OSRdyTbl,
                     eventVars, curVars, nestVars, OSFlagType, OSFlagFlags, OSTCBFlagsRdy>>
  BY DEF OSFlagPendTimedOut, OS_FlagUnlink, Goto
<1>2. OSTCBStat' = OSTCBStat
  <2>1. OSTCBStat[t] = {}
    BY <1>1, WakerK DEF IInv, Runnable
  <2>. QED BY <1>1, <2>1 DEF IInv, KInv, TypeOK
<1>3. OSFlagFlags' \in [Grps -> SUBSET Flags]
  BY <1>1 DEF IInv, FInv, FlagTypeOK
<1>. QED BY <1>1, <1>2, <1>3, ReturnStep
-----------------------------------------------------------------------------
(* Between the check of a service and its critical section.                *)

LEMMA ChecksFrame ==
  ASSUME Checks, OSFlagType' = OSFlagType,
         passed' = passed \/ \E t \in Tasks : passed' = [passed EXCEPT ![t] = NoGrp]
  PROVE  Checks'
  BY DEF Checks, IsGrp

(* A service that leaves the kernel and the groups alone.                  *)
LEMMA NothingDone ==
  ASSUME IInv, UNCHANGED <<coreVars, flagVars>>
  PROVE  KInv' /\ FInv'
<1>1. UNCHANGED <<OSTCBStat, OSTCBStatPend, OSTCBDly, pc>>
  BY DEF coreVars, tcbVars
<1>. QED BY <1>1, KernelFrame, FlagFrame DEF IInv

LEMMA FlagCallIInv ==
  ASSUME IInv, NEW t \in Tasks, NEW g \in Grps, FlagCall(t, g)
  PROVE  IInv'
<1>1. passed[t] = g /\ passed' = [passed EXCEPT ![t] = NoGrp] /\ OSFlagType' = OSFlagType
  BY DEF FlagCall, OSFlagAccept, OSFlagPendTake, OSFlagPendBlock, OSFlagPost, Post,
         OSFlagUnchanged, EnterGrp, flagVars
<1>2. Checks'
  BY <1>1, ChecksFrame DEF IInv
<1>3. IsGrp(g)
  BY <1>1, FlagAssumption DEF IInv, Checks
<1>4. KInv' /\ FInv'
  <2>1. CASE \E r \in Requests : OSFlagAccept(t, g, r) \/ OSFlagPendTake(t, g, r)
    BY <2>1, TakeIInv
  <2>2. CASE \E r \in Requests, timeout \in FlagTimeouts : OSFlagPendBlock(t, g, r, timeout)
    BY <2>2, <1>3, BlockIInv
  <2>3. CASE \E fs \in FlagSets, opt \in {"SET", "CLR"} : OSFlagPost(t, g, fs, opt)
    BY <2>3, <1>3, OSFlagPostIInv
  <2>4. CASE OSFlagUnchanged(t, g)
    BY <2>4, NothingDone DEF OSFlagUnchanged
  <2>. QED BY <2>1, <2>2, <2>3, <2>4 DEF FlagCall
<1>. QED BY <1>2, <1>4 DEF IInv

LEMMA FlagStepIInv ==
  ASSUME IInv, NEW t \in Tasks, NEW g \in Grps, FlagStep(t, g)
  PROVE  IInv'
<1>1. CASE \E fs \in FlagSets : OSFlagCreate(t, g, fs)
  <2>1. Checks'
    BY <1>1 DEF OSFlagCreate, IInv, Checks, IsGrp, FInv, FlagTypeOK
  <2>. QED BY <1>1, <2>1, CreateIInv DEF IInv
<1>2. CASE CheckGrp(t, g)
  <2>1. Checks'
    BY <1>2 DEF CheckGrp, IInv, Checks, IsGrp, flagVars
  <2>. QED BY <1>2, <2>1, NothingDone DEF CheckGrp, IInv
<1>3. CASE FlagCall(t, g)
  BY <1>3, FlagCallIInv
<1>4. CASE CarefulFlagDelete(t, g)
  <2>1. /\ passed[t] = g /\ passed' = [passed EXCEPT ![t] = NoGrp]
        /\ OSFlagType' = [OSFlagType EXCEPT ![g] = "UNUSED"]
        /\ \A u \in Tasks \ {t} : passed[u] # g
    BY <1>4 DEF CarefulFlagDelete, FlagDelete, OSFlagDelNoPend, OSFlagDelAlways, EnterGrp, FreeGrp
  <2>2. \A u \in Tasks : passed'[u] = IF u = t THEN NoGrp ELSE passed[u]
    BY <2>1 DEF IInv, Checks
  <2>3. \A f \in Grps \ {g} : IsGrp(f) => IsGrp(f)'
    BY <2>1 DEF IInv, FInv, FlagTypeOK, IsGrp
  <2>4. Checks'
    BY <2>1, <2>2, <2>3 DEF IInv, Checks
  <2>. QED BY <1>4, <2>4, DelNoPendIInv, DelAlwaysIInv DEF CarefulFlagDelete, FlagDelete, IInv
<1>. QED BY <1>1, <1>2, <1>3, <1>4 DEF FlagStep

LEMMA KernelStepIInv ==
  ASSUME IInv, NEW t \in Tasks, KernelStep(t)
  PROVE  IInv'
<1>1. CASE OS_Sched(t) /\ UNCHANGED <<flagVars, passed>>
  BY <1>1, SchedIInv
<1>2. CASE FlagPendReturn(t) /\ UNCHANGED passed
  <2>1. Checks'
    BY <1>2, ChecksFrame DEF FlagPendReturn, OSFlagPendGot, OSFlagPendTimedOut, IInv
  <2>. QED BY <1>2, <2>1, GotIInv, TimedOutIInv DEF FlagPendReturn, IInv
<1>. QED BY <1>1, <1>2 DEF KernelStep

LEMMA OtherStepIInv ==
  ASSUME IInv, NEW t \in Tasks, OtherStep(t)
  PROVE  IInv'
<1>. UNCHANGED <<flagVars, passed>>
  BY DEF OtherStep
<1>1. CASE TimeCall(t)
  BY <1>1, DlyIInv, DlyResumeIInv DEF TimeCall
<1>2. CASE TaskCall(t)
  BY <1>2, SuspendIInv DEF TaskCall
<1>3. CASE OSSchedLock(t) \/ OSSchedUnlock(t)
  BY <1>3, LockIInv
<1>. QED BY <1>1, <1>2, <1>3 DEF OtherStep

LEMMA DeviceIInv ==
  ASSUME IInv, DeviceISR
  PROVE  IInv'
<1>1. PICK g \in Grps, fs \in FlagSets, opt \in {"SET", "CLR"} : FlagPostISR(g, fs, opt)
  BY DEF DeviceISR
<1>2. Checks'
  BY <1>1, ChecksFrame DEF FlagPostISR, Post, IInv
<1>. QED BY <1>1, <1>2, FlagPostISRIInv DEF IInv

LEMMA NextIInv == IInv /\ [Next]_vars => IInv'
<1> SUFFICES ASSUME IInv, [Next]_vars PROVE IInv'
  OBVIOUS
<1>1. CASE \E t \in Tasks, g \in Grps : FlagStep(t, g)
  BY <1>1, FlagStepIInv
<1>2. CASE \E t \in Tasks : OtherStep(t) \/ KernelStep(t)
  BY <1>2, OtherStepIInv, KernelStepIInv
<1>3. CASE DeviceISR
  BY <1>3, DeviceIInv
<1>4. CASE Interrupt
  BY <1>4, TickIInv, IntExitIInv DEF Interrupt
<1>5. CASE UNCHANGED vars
  <2>1. UNCHANGED <<coreVars, flagVars>> /\ passed' = passed
    BY <1>5 DEF vars
  <2>2. OSFlagType' = OSFlagType
    BY <2>1 DEF flagVars
  <2>. QED BY <2>1, <2>2, NothingDone, ChecksFrame DEF IInv
<1>. QED BY <1>1, <1>2, <1>3, <1>4, <1>5 DEF Next

-----------------------------------------------------------------------------
(* The inductive invariant holds in every reachable state.                 *)
THEOREM FlagInvariance == Spec => []IInv
<1>. QED BY InitIInv, NextIInv, PTL DEF Spec

(* The kernel variables have their types: the bitmaps are well-formed and  *)
(* the nesting counters never leave their ranges.                          *)
THEOREM FlagTypeCorrect == Spec => []TypeOK
<1>1. IInv => TypeOK
  BY DEF IInv, KInv
<1>. QED BY <1>1, FlagInvariance, PTL

(* A post that readies several tasks, a deletion, time-outs and            *)
(* suspensions leave the ready list and the list of every group with the   *)
(* tasks that belong there: no node of a call that has returned stays      *)
(* linked, and none is unlinked while its task still waits.                *)
THEOREM FlagListsExact == Spec => []ListsOfFlagsExact
<1>1. IInv => ListsOfFlagsExact
  BY ReadyIsExact DEF IInv, KInv, FInv, ListsOfFlagsExact
<1>. QED BY <1>1, FlagInvariance, PTL

(* Whatever a post, an interrupt or a time-out readies, the task that runs *)
(* is the highest ready one as soon as no service is on its way to the     *)
(* scheduler.                                                              *)
THEOREM FlagPreemption == Spec => []HighestPriorityRuns
<1>1. IInv => HighestPriorityRuns
  BY DEF IInv, KInv
<1>. QED BY <1>1, FlagInvariance, PTL
-----------------------------------------------------------------------------
(* The flags of a group stay short of what its waiting tasks asked for.    *)

(* No request that consumes shares a flag with a request for the opposite  *)
(* value of it.  OSFlagPend() and OSFlagAccept() look at no waiting task   *)
(* when they consume, so without this they could meet a request and leave  *)
(* its task asleep.                                                        *)
KindsApart ==
  \A r, q \in Requests :
    r.consume /\ (r.type \in SetTypes <=> q.type \notin SetTypes) => r.flags \cap q.flags = {}

(* What a request consumes brings no other request nearer.                 *)
LEMMA ConsumedMeetsNone ==
  ASSUME KindsApart, NEW r \in Requests \cup {NoNode.req}, NEW q \in Requests \cup {NoNode.req},
         NEW flags \in SUBSET Flags, NEW got \in SUBSET r.flags,
         ~Met(q, flags)
  PROVE  ~Met(q, Consumed(r, flags, got))
<1> DEFINE left == Consumed(r, flags, got)
<1>1. CASE ~r.consume
  BY <1>1 DEF Consumed
<1>2. CASE r.consume
  <2>1. r \in Requests
    BY <1>2 DEF NoNode
  <2>2. (r.type \in SetTypes <=> q.type \notin SetTypes) => r.flags \cap q.flags = {}
    BY <1>2, <2>1 DEF KindsApart, NoNode
  <2>3. left = IF r.type \in SetTypes THEN flags \ got ELSE flags \cup got
    BY <1>2 DEF Consumed
  <2> HIDE DEF left
  <2>4. FlagsRdy(q, left) \subseteq FlagsRdy(q, flags)
    BY <2>2, <2>3 DEF FlagsRdy
  <2>5. FlagsRdy(q, flags) \subseteq q.flags
    BY FlagsRdyPart
  <2>6. ~Met(q, left)
    BY <2>4, <2>5 DEF Met
  <2>. QED BY <2>6 DEF left
<1>. QED BY <1>1, <1>2

LEMMA UnmetFrame ==
  ASSUME NoSatisfiedWaiter,
         \A t \in Tasks : "FLAG" \in OSTCBStat'[t] =>
           /\ "FLAG" \in OSTCBStat[t]
           /\ OSFlagNode'[t] = OSFlagNode[t]
           /\ OSFlagFlags'[OSFlagNode[t].grp] = OSFlagFlags[OSFlagNode[t].grp]
  PROVE  NoSatisfiedWaiter'
  BY DEF NoSatisfiedWaiter

(* A call, or the end of a pend, that consumes flags of the group g.       *)
LEMMA UnmetConsume ==
  ASSUME KindsApart, IInv, NoSatisfiedWaiter, NEW g \in Grps, NEW t \in Tasks,
         NEW r \in Requests \cup {NoNode.req}, NEW got \in SUBSET r.flags,
         OSFlagFlags' = [OSFlagFlags EXCEPT ![g] = Consumed(r, OSFlagFlags[g], got)],
         OSTCBStat' = OSTCBStat,
         \A u \in Tasks : "FLAG" \in OSTCBStat[u] => OSFlagNode'[u] = OSFlagNode[u]
  PROVE  NoSatisfiedWaiter'
<1> SUFFICES ASSUME NEW u \in Tasks, "FLAG" \in OSTCBStat[u]
             PROVE  ~Met(OSFlagNode[u].req, OSFlagFlags'[OSFlagNode[u].grp])
  BY DEF NoSatisfiedWaiter
<1>1. ~Met(OSFlagNode[u].req, OSFlagFlags[OSFlagNode[u].grp])
  BY DEF NoSatisfiedWaiter
<1>2. OSFlagNode[u].req \in Requests \cup {NoNode.req} /\ OSFlagFlags \in [Grps -> SUBSET Flags]
  BY NodeTyped DEF IInv, FInv, FlagTypeOK
<1>3. CASE OSFlagNode[u].grp = g
  BY <1>1, <1>2, <1>3, ConsumedMeetsNone
<1>4. CASE OSFlagNode[u].grp # g
  BY <1>1, <1>2, <1>4
<1>. QED BY <1>3, <1>4

(* A post readies every task whose request the new flags meet.             *)
LEMMA UnmetPost ==
  ASSUME IInv, NoSatisfiedWaiter, NEW g \in Grps, NEW flags, Post(g, flags)
  PROVE  NoSatisfiedWaiter'
<1>1. /\ OSFlagFlags' = [OSFlagFlags EXCEPT ![g] = flags]
      /\ OSTCBStat' = [t \in Tasks |-> IF t \in Matching(g, flags)
                                         THEN OSTCBStat[t] \ {"FLAG"} ELSE OSTCBStat[t]]
      /\ OSFlagNode' = OSFlagNode
  BY DEF Post, OS_FlagTaskRdy
<1> SUFFICES ASSUME NEW u \in Tasks, "FLAG" \in OSTCBStat'[u]
             PROVE  ~Met(OSFlagNode[u].req, OSFlagFlags'[OSFlagNode[u].grp])
  BY <1>1 DEF NoSatisfiedWaiter
<1>2. u \notin Matching(g, flags) /\ "FLAG" \in OSTCBStat[u]
  BY <1>1
<1>3. InPend(u) /\ OSFlagFlags \in [Grps -> SUBSET Flags]
  BY <1>2 DEF IInv, FInv, TaskOK, FlagTypeOK
<1>4. CASE OSFlagNode[u].grp = g
  <2>1. u \in OSFlagWaitList[g]
    BY <1>2, <1>3, <1>4 DEF IInv, FInv, FlagListExact
  <2>. QED BY <1>1, <1>2, <1>3, <1>4, <2>1 DEF Matching
<1>5. CASE OSFlagNode[u].grp # g
  BY <1>1, <1>2, <1>5 DEF NoSatisfiedWaiter
<1>. QED BY <1>4, <1>5

LEMMA UnmetFlagCall ==
  ASSUME KindsApart, IInv, NoSatisfiedWaiter, NEW t \in Tasks, NEW g \in Grps, FlagCall(t, g)
  PROVE  NoSatisfiedWaiter'
<1>1. CASE \E r \in Requests : OSFlagAccept(t, g, r) \/ OSFlagPendTake(t, g, r)
  <2>1. PICK r \in Requests : OSFlagAccept(t, g, r) \/ OSFlagPendTake(t, g, r)
    BY <1>1
  <2>2. FlagsRdy(r, OSFlagFlags[g]) \in SUBSET r.flags
    BY FlagsRdyPart
  <2>3. /\ OSFlagFlags' = [OSFlagFlags EXCEPT ![g] = Consumed(r, OSFlagFlags[g],
                                                             FlagsRdy(r, OSFlagFlags[g]))]
        /\ OSTCBStat' = OSTCBStat /\ OSFlagNode' = OSFlagNode
    BY <2>1 DEF OSFlagAccept, OSFlagPendTake, coreVars, tcbVars
  <2>. QED BY <2>2, <2>3, UnmetConsume
<1>2. CASE \E r \in Requests, timeout \in FlagTimeouts : OSFlagPendBlock(t, g, r, timeout)
  <2>1. PICK r \in Requests, timeout \in FlagTimeouts : OSFlagPendBlock(t, g, r, timeout)
    BY <1>2
  <2>2. /\ ~Met(r, OSFlagFlags[g])
        /\ OSTCBStat' = [OSTCBStat EXCEPT ![t] = OSTCBStat[t] \cup {"FLAG"}]
        /\ OSFlagNode' = [OSFlagNode EXCEPT ![t] = [grp |-> g, req |-> r]]
        /\ OSFlagFlags' = OSFlagFlags
    BY <2>1 DEF OSFlagPendBlock
  <2>3. OSFlagNode'[t] = [grp |-> g, req |-> r]
    BY <2>2 DEF IInv, FInv, FlagTypeOK
  <2>4. \A u \in Tasks \ {t} : OSFlagNode'[u] = OSFlagNode[u] /\ OSTCBStat'[u] = OSTCBStat[u]
    BY <2>2 DEF IInv, FInv, FlagTypeOK, KInv, TypeOK
  <2>. QED BY <2>2, <2>3, <2>4 DEF NoSatisfiedWaiter
<1>3. CASE \E fs \in FlagSets, opt \in {"SET", "CLR"} : OSFlagPost(t, g, fs, opt)
  BY <1>3, UnmetPost DEF OSFlagPost
<1>4. CASE OSFlagUnchanged(t, g)
  BY <1>4, UnmetFrame DEF OSFlagUnchanged, coreVars, tcbVars, flagVars
<1>. QED BY <1>1, <1>2, <1>3, <1>4 DEF FlagCall

(* A group that is created or deleted has no task waiting on it after.     *)
LEMMA UnmetFlagStep ==
  ASSUME KindsApart, IInv, NoSatisfiedWaiter, NEW t \in Tasks, NEW g \in Grps, FlagStep(t, g)
  PROVE  NoSatisfiedWaiter'
<1>1. \A u \in Tasks : /\ "FLAG" \in OSTCBStat[u] => u \in OSFlagWaitList[OSFlagNode[u].grp]
                       /\ "FLAG" \in OSTCBStat[u] => OSFlagNode[u].grp \in Grps
  BY NodeTyped DEF IInv, FInv, TaskOK, FlagListExact
<1>2. OSFlagFlags \in [Grps -> SUBSET Flags]
  BY DEF IInv, FInv, FlagTypeOK
<1>3. CASE \E fs \in FlagSets : OSFlagCreate(t, g, fs)
  <2>1. /\ OSFlagWaitList[g] = {} /\ OSTCBStat' = OSTCBStat /\ OSFlagNode' = OSFlagNode
        /\ \A f \in Grps \ {g} : OSFlagFlags'[f] = OSFlagFlags[f]
    BY <1>2, <1>3 DEF OSFlagCreate, IInv, FInv, FreeGrpsEmpty, IsGrp, coreVars, tcbVars
  <2>. QED BY <1>1, <2>1, UnmetFrame
<1>4. CASE CheckGrp(t, g)
  BY <1>4, UnmetFrame DEF CheckGrp, coreVars, tcbVars, flagVars
<1>5. CASE FlagCall(t, g)
  BY <1>5, UnmetFlagCall
<1>6. CASE OSFlagDelNoPend(t, g)
  <2>1. /\ OSFlagWaitList[g] = {} /\ OSTCBStat' = OSTCBStat /\ OSFlagNode' = OSFlagNode
        /\ \A f \in Grps \ {g} : OSFlagFlags'[f] = OSFlagFlags[f]
    BY <1>2, <1>6 DEF OSFlagDelNoPend, FreeGrp, coreVars, tcbVars
  <2>. QED BY <1>1, <2>1, UnmetFrame
<1>7. CASE OSFlagDelAlways(t, g)
  <2>1. /\ \A u \in Tasks : OSTCBStat'[u] = IF u \in OSFlagWaitList[g]
                                              THEN OSTCBStat[u] \ {"FLAG"} ELSE OSTCBStat[u]
        /\ OSFlagNode' = OSFlagNode
        /\ \A f \in Grps \ {g} : OSFlagFlags'[f] = OSFlagFlags[f]
    BY <1>2, <1>7 DEF OSFlagDelAlways, OS_FlagTaskRdy, FreeGrp
  <2>. QED BY <1>1, <2>1, UnmetFrame
<1>. QED BY <1>3, <1>4, <1>5, <1>6, <1>7 DEF FlagStep, CarefulFlagDelete, FlagDelete

LEMMA UnmetReturn ==
  ASSUME KindsApart, IInv, NoSatisfiedWaiter, NEW t \in Tasks, FlagPendReturn(t)
  PROVE  NoSatisfiedWaiter'
<1>1. Runnable(t) /\ InPend(t)
  BY WakerK DEF FlagPendReturn, OSFlagPendGot, OSFlagPendTimedOut, IInv, InPend
<1>2. CASE OSFlagPendGot(t)
  <2>. PICK r : r = OSFlagNode[t].req
    OBVIOUS
  <2>. PICK g : g = OSFlagNode[t].grp
    OBVIOUS
  <2>1. /\ OSTCBStatPend[t] = "OK"
        /\ OSFlagFlags' = [OSFlagFlags EXCEPT ![g] = Consumed(r, OSFlagFlags[g],
                                                             OSTCBFlagsRdy[t])]
        /\ OSFlagNode' = [OSFlagNode EXCEPT ![t] = NoNode]
        /\ OSTCBStat' = OSTCBStat
    BY <1>2 DEF OSFlagPendGot, tcbVars
  <2>2. g \in Grps /\ r \in Requests \cup {NoNode.req} /\ OSTCBFlagsRdy[t] \subseteq r.flags
    BY <1>1, <2>1, NodeTyped DEF IInv, FInv, TaskOK, HasFlags, Runnable
  <2>3. \A u \in Tasks : "FLAG" \in OSTCBStat[u] => OSFlagNode'[u] = OSFlagNode[u]
    BY <1>1, <2>1 DEF IInv, FInv, FlagTypeOK, Runnable
  <2>. QED BY <2>1, <2>2, <2>3, UnmetConsume
<1>3. CASE OSFlagPendTimedOut(t)
  <2>1. \A u \in Tasks : "FLAG" \in OSTCBStat'[u] =>
          "FLAG" \in OSTCBStat[u] /\ OSFlagNode'[u] = OSFlagNode[u]
    BY <1>3 DEF OSFlagPendTimedOut, IInv, FInv, FlagTypeOK, KInv, TypeOK
  <2>. QED BY <1>3, <2>1, UnmetFrame DEF OSFlagPendTimedOut
<1>. QED BY <1>2, <1>3 DEF FlagPendReturn

LEMMA UnmetNext ==
  ASSUME KindsApart, IInv, NoSatisfiedWaiter, [Next]_vars
  PROVE  NoSatisfiedWaiter'
<1>1. CASE \E t \in Tasks, g \in Grps : FlagStep(t, g)
  BY <1>1, UnmetFlagStep
<1>2. CASE \E t \in Tasks : OtherStep(t)
  <2>. PICK t \in Tasks : OtherStep(t)
    BY <1>2
  <2>1. \A u \in Tasks : "FLAG" \in OSTCBStat'[u] => "FLAG" \in OSTCBStat[u]
    <3>1. CASE TimeCall(t)
      <4>1. OSTCBStat' = OSTCBStat \/ \E ts \in SUBSET Tasks : \E dly : Expire(ts, dly)
        BY <3>1 DEF TimeCall, OSTimeDly, OSTimeDlyResume
      <4>. QED BY <4>1 DEF Expire
    <3>2. CASE TaskCall(t)
      BY <3>2 DEF TaskCall, OSTaskSuspend, OSTaskResume, IInv, KInv, TypeOK
    <3>3. CASE OSSchedLock(t) \/ OSSchedUnlock(t)
      BY <3>3 DEF OSSchedLock, OSSchedUnlock, tcbVars
    <3>. QED BY <3>1, <3>2, <3>3 DEF OtherStep
  <2>. QED BY <1>2, <2>1, UnmetFrame DEF OtherStep, flagVars
<1>3. CASE \E t \in Tasks : KernelStep(t)
  <2>1. CASE \E t \in Tasks : FlagPendReturn(t)
    BY <2>1, UnmetReturn
  <2>2. CASE \E t \in Tasks : OS_Sched(t) /\ UNCHANGED <<flagVars, passed>>
    BY <2>2, UnmetFrame DEF OS_Sched, tcbVars, flagVars
  <2>. QED BY <1>3, <2>1, <2>2 DEF KernelStep
<1>4. CASE DeviceISR
  BY <1>4, UnmetPost DEF DeviceISR, FlagPostISR
<1>5. CASE Interrupt
  <2>1. \A u \in Tasks : "FLAG" \in OSTCBStat'[u] => "FLAG" \in OSTCBStat[u]
    BY <1>5 DEF Interrupt, TickISR, OSTimeTick, Expire, OSIntExit, tcbVars, IInv, KInv, TypeOK
  <2>. QED BY <1>5, <2>1, UnmetFrame DEF Interrupt, flagVars
<1>6. CASE UNCHANGED vars
  BY <1>6, UnmetFrame DEF vars, coreVars, tcbVars, flagVars
<1>. QED BY <1>1, <1>2, <1>3, <1>4, <1>5, <1>6 DEF Next

(* As long as requests that consume keep to flags nobody awaits the other  *)
(* way, no task sleeps on a group whose flags meet its request: no post,   *)
(* consumption, deletion or late time-out leaves a satisfied task behind.  *)
THEOREM NobodySleepsThrough == KindsApart => (Spec => []NoSatisfiedWaiter)
<1> SUFFICES ASSUME KindsApart PROVE Spec => []NoSatisfiedWaiter
  OBVIOUS
<1>1. Init => NoSatisfiedWaiter
  BY DEF Init, CoreInit, NoSatisfiedWaiter
<1>2. IInv /\ NoSatisfiedWaiter /\ [Next]_vars => NoSatisfiedWaiter'
  BY UnmetNext
<1>. QED BY <1>1, <1>2, FlagInvariance, PTL DEF Spec
-----------------------------------------------------------------------------
(* The kernel implements the abstract flag groups: every step is a step of *)
(* FlagAbs, or leaves what FlagAbs can see as it is.                       *)

Linked(t) == InPend(t) /\ ("FLAG" \in OSTCBStat[t] \/ OSTCBStatPend[t] = "TO")

(* What the TCB and the node of a task say of its call.                    *)
LEMMA CallIdle == \A t : ~InPend(t) => PendCall(t) = [state |-> "idle"]
  BY DEF PendCall

LEMMA CallLinked ==
  \A t : Linked(t) =>
    PendCall(t) = [state |-> IF "FLAG" \in OSTCBStat[t] THEN "waiting" ELSE "expired",
                   on |-> OSFlagNode[t].grp, ask |-> OSFlagNode[t].req]
  BY DEF PendCall, Linked

LEMMA CallGranted ==
  \A t : HasFlags(t) =>
    PendCall(t) = [state |-> "granted", on |-> OSFlagNode[t].grp, ask |-> OSFlagNode[t].req,
                   got |-> OSTCBFlagsRdy[t]]
  BY DEF PendCall, HasFlags

LEMMA CallsSplit == FInv => \A t \in Tasks : ~InPend(t) \/ Linked(t) \/ HasFlags(t)
  BY DEF FInv, TaskOK, Linked, HasFlags

LEMMA OpenIs ==
  ASSUME FInv, NEW g \in Grps
  PROVE  Abs!Open(g) = OSFlagWaitList[g]
<1> SUFFICES ASSUME NEW t \in Tasks
             PROVE  (PendCall(t).state \in {"waiting", "expired"} /\ PendCall(t).on = g)
                      <=> t \in OSFlagWaitList[g]
  BY DEF Abs!Open, FInv, FlagTypeOK
<1>1. t \in OSFlagWaitList[g] <=> Linked(t) /\ OSFlagNode[t].grp = g
  BY DEF FInv, FlagListExact, Linked
<1>2. CASE ~InPend(t)
  BY <1>1, <1>2, CallIdle DEF Linked
<1>3. CASE Linked(t)
  BY <1>1, <1>3, CallLinked
<1>4. CASE HasFlags(t)
  BY <1>1, <1>4, CallGranted DEF Linked, HasFlags
<1>. QED BY <1>2, <1>3, <1>4, CallsSplit

LEMMA SameFlags ==
  ASSUME NEW r \in Requests \cup {NoNode.req}, NEW fs, NEW got
  PROVE  /\ Abs!Part(r, fs) = FlagsRdy(r, fs)
         /\ Abs!Fulfilled(r, fs) <=> Met(r, fs)
         /\ Abs!After(r, fs, got) = Consumed(r, fs, got)
<1>1. r.type \in WaitTypes /\ r.consume \in BOOLEAN
  <2>1. CASE r \in Requests
    BY <2>1, FlagAssumption
  <2>2. CASE r = NoNode.req
    BY <2>2 DEF NoNode, WaitTypes
  <2>. QED BY <2>1, <2>2
<1>2. Abs!Part(r, fs) = FlagsRdy(r, fs)
  BY DEF Abs!Part, FlagsRdy, SetTypes
<1>3. Abs!Fulfilled(r, fs) <=> Met(r, fs)
  BY <1>1, <1>2 DEF Abs!Fulfilled, Met, AllTypes, WaitTypes
<1>4. Abs!After(r, fs, got) = Consumed(r, fs, got)
  BY <1>1 DEF Abs!After, Consumed, SetTypes, WaitTypes
<1>. QED BY <1>2, <1>3, <1>4

(* The calls a step leaves alone.                                          *)
LEMMA SameCall ==
  ASSUME NEW t \in Tasks, InPend(t)' <=> InPend(t),
         ("FLAG" \in OSTCBStat'[t]) <=> ("FLAG" \in OSTCBStat[t]),
         OSTCBStatPend'[t] = OSTCBStatPend[t], OSFlagNode'[t] = OSFlagNode[t],
         OSTCBFlagsRdy'[t] = OSTCBFlagsRdy[t] \/ ~InPend(t)
  PROVE  PendCall(t)' = PendCall(t)
  BY DEF PendCall

LEMMA SimFrame ==
  ASSUME UNCHANGED <<OSFlagType, OSFlagFlags>>, \A t \in Tasks : PendCall(t)' = PendCall(t)
  PROVE  UNCHANGED Abs!absVars
<1>1. \A g \in Grps : IsGrp(g)' = IsGrp(g)
  BY DEF IsGrp
<1>. QED BY <1>1 DEF Abs!absVars

LEMMA SimInit == Init => Abs!AbsInit
<1> SUFFICES ASSUME Init PROVE Abs!AbsInit
  OBVIOUS
<1>1. \A g \in Grps : IsGrp(g) = FALSE
  BY DEF Init, IsGrp
<1>2. \A t \in Tasks : PendCall(t) = [state |-> "idle"]
  BY CallIdle DEF Init, CoreInit, InPend
<1>. QED BY <1>1, <1>2 DEF Abs!AbsInit, Abs!Idle, Init

LEMMA SimCreate ==
  ASSUME IInv, NEW t \in Tasks, NEW g \in Grps, NEW fs \in FlagSets, OSFlagCreate(t, g, fs)
  PROVE  Abs!Create(g, fs)
<1>1. /\ UNCHANGED <<pc, OSTCBStat, OSTCBStatPend, OSFlagNode, OSTCBFlagsRdy>>
      /\ OSFlagType[g] = "UNUSED"
      /\ OSFlagType' = [OSFlagType EXCEPT ![g] = "FLAG"]
      /\ OSFlagFlags' = [OSFlagFlags EXCEPT ![g] = fs]
  BY DEF OSFlagCreate, coreVars, tcbVars
<1>2. \A u \in Tasks : PendCall(u)' = PendCall(u)
  BY <1>1, SameCall DEF InPend
<1>3. ~IsGrp(g) /\ IsGrp(g)' /\ \A f \in Grps \ {g} : IsGrp(f)' = IsGrp(f)
  BY <1>1 DEF IsGrp, IInv, FInv, FlagTypeOK
<1>. QED BY <1>1, <1>2, <1>3 DEF Abs!Create

LEMMA SimTake ==
  ASSUME IInv, NEW t \in Tasks, NEW g \in Grps, NEW r \in Requests, IsGrp(g),
         OSFlagAccept(t, g, r) \/ OSFlagPendTake(t, g, r)
  PROVE  Abs!Take(g, r)
<1>1. /\ UNCHANGED <<pc, OSTCBStat, OSTCBStatPend, OSFlagNode, OSFlagType>>
      /\ Met(r, OSFlagFlags[g])
      /\ OSFlagFlags' = [OSFlagFlags EXCEPT ![g] = Consumed(r, OSFlagFlags[g],
                                                           FlagsRdy(r, OSFlagFlags[g]))]
      /\ \A u \in Tasks : OSTCBFlagsRdy'[u] = OSTCBFlagsRdy[u] \/ ~InPend(u)
  BY DEF OSFlagAccept, OSFlagPendTake, EnterGrp, Calls, InPend, coreVars, tcbVars, IInv, FInv,
         FlagTypeOK
<1>2. \A u \in Tasks : PendCall(u)' = PendCall(u)
  BY <1>1, SameCall DEF InPend
<1>3. \A f \in Grps : IsGrp(f)' = IsGrp(f)
  BY <1>1 DEF IsGrp
<1>. QED BY <1>1, <1>2, <1>3, SameFlags DEF Abs!Take

LEMMA SimWait ==
  ASSUME IInv, NEW t \in Tasks, NEW g \in Grps, NEW r \in Requests, NEW timeout \in FlagTimeouts,
         IsGrp(g), OSFlagPendBlock(t, g, r, timeout)
  PROVE  Abs!Wait(t, g, r)
<1>1. /\ pc[t] = "run" /\ pc' = [pc EXCEPT ![t] = "pend"]
      /\ ~Met(r, OSFlagFlags[g])
      /\ OSTCBStat' = [OSTCBStat EXCEPT ![t] = OSTCBStat[t] \cup {"FLAG"}]
      /\ OSTCBStatPend' = [OSTCBStatPend EXCEPT ![t] = "OK"]
      /\ OSFlagNode' = [OSFlagNode EXCEPT ![t] = [grp |-> g, req |-> r]]
      /\ UNCHANGED <<OSFlagType, OSFlagFlags, OSTCBFlagsRdy>>
  BY DEF OSFlagPendBlock, EnterGrp, Calls, Goto
<1>2. PendCall(t) = Abs!Idle
  BY <1>1, CallIdle DEF InPend, Abs!Idle
<1>3. PendCall(t)' = Abs!Waiting(g, r)
  <2>1. Linked(t)' /\ "FLAG" \in OSTCBStat'[t] /\ OSFlagNode'[t] = [grp |-> g, req |-> r]
    BY <1>1 DEF Linked, InPend, IInv, KInv, TypeOK, FInv, FlagTypeOK
  <2>2. Linked(t)' =>
          PendCall(t)' = [state |-> IF "FLAG" \in OSTCBStat'[t] THEN "waiting" ELSE "expired",
                          on |-> OSFlagNode'[t].grp, ask |-> OSFlagNode'[t].req]
    BY DEF PendCall, Linked
  <2>. QED BY <2>1, <2>2 DEF Abs!Waiting
<1>4. \A u \in Tasks \ {t} : PendCall(u)' = PendCall(u)
  <2> SUFFICES ASSUME NEW u \in Tasks \ {t} PROVE PendCall(u)' = PendCall(u)
    OBVIOUS
  <2>1. /\ pc'[u] = pc[u] /\ OSTCBStat'[u] = OSTCBStat[u]
        /\ OSTCBStatPend'[u] = OSTCBStatPend[u] /\ OSFlagNode'[u] = OSFlagNode[u]
        /\ OSTCBFlagsRdy'[u] = OSTCBFlagsRdy[u]
    BY <1>1 DEF IInv, KInv, TypeOK, FInv, FlagTypeOK
  <2>. QED BY <2>1, SameCall DEF InPend
<1>5. \A f \in Grps : IsGrp(f)' = IsGrp(f)
  BY <1>1 DEF IsGrp
<1>. QED BY <1>1, <1>2, <1>3, <1>4, <1>5, SameFlags DEF Abs!Wait
(* Calls that a post or a deletion serves.                                 *)
LEMMA ServedCalls ==
  ASSUME IInv, FInv', NEW g \in Grps, NEW ts \in SUBSET OSFlagWaitList[g], NEW got,
         OS_FlagTaskRdy(ts, got), UNCHANGED OSFlagNode,
         \A t \in Tasks : InPend(t)' <=> InPend(t)
  PROVE  \A t \in Tasks :
           PendCall(t)' = IF t \in ts THEN Abs!Granted(PendCall(t), got[t]) ELSE PendCall(t)
<1> SUFFICES ASSUME NEW t \in Tasks
             PROVE  PendCall(t)' = IF t \in ts THEN Abs!Granted(PendCall(t), got[t])
                                               ELSE PendCall(t)
  OBVIOUS
<1>1. /\ OSTCBFlagsRdy' = [u \in Tasks |-> IF u \in ts THEN got[u] ELSE OSTCBFlagsRdy[u]]
      /\ OSTCBStat' = [u \in Tasks |-> IF u \in ts THEN OSTCBStat[u] \ {"FLAG"} ELSE OSTCBStat[u]]
      /\ OSTCBStatPend' = [u \in Tasks |-> IF u \in ts THEN "OK" ELSE OSTCBStatPend[u]]
      /\ \A u \in ts : InPend(u) /\ OSFlagNode[u].grp = g
  BY DEF OS_FlagTaskRdy, IInv, FInv, FlagListExact
<1>2. CASE t \in ts
  <2>1. t \in OSFlagWaitList[g] /\ Linked(t)
    BY <1>2 DEF IInv, FInv, FlagListExact, Linked
  <2>2. InPend(t)' /\ "FLAG" \notin OSTCBStat'[t] /\ OSTCBStatPend'[t] = "OK"
        /\ OSTCBFlagsRdy'[t] = got[t]
    BY <1>1, <1>2
  <2>3. PendCall(t)' = [state |-> "granted", on |-> OSFlagNode[t].grp,
                        ask |-> OSFlagNode[t].req, got |-> got[t]]
    BY <2>2 DEF PendCall
  <2>4. PendCall(t).on = OSFlagNode[t].grp /\ PendCall(t).ask = OSFlagNode[t].req
    BY <2>1, CallLinked
  <2>. QED BY <1>2, <2>3, <2>4 DEF Abs!Granted
<1>3. CASE t \notin ts
  BY <1>1, <1>3, SameCall
<1>. QED BY <1>2, <1>3

LEMMA SimPost ==
  ASSUME IInv, FInv', NEW g \in Grps, NEW flags \in SUBSET Flags, IsGrp(g), Post(g, flags),
         GoesOn(OSTCBCur)
  PROVE  Abs!Change(g, flags)
<1> DEFINE ts  == Matching(g, flags)
           got == [t \in Tasks |-> FlagsRdy(OSFlagNode[t].req, flags)]
<1>1. /\ ts \in SUBSET OSFlagWaitList[g] /\ OSFlagNode' = OSFlagNode /\ OSFlagType' = OSFlagType
      /\ OS_FlagTaskRdy(ts, got)
      /\ OSFlagFlags' = [OSFlagFlags EXCEPT ![g] = flags]
  BY DEF Post, Matching
<1>2. \A t \in Tasks : InPend(t)' <=> InPend(t)
  BY DEF GoesOn, InPend, IInv, KInv, TypeOK
<1> HIDE DEF ts, got
<1>3. \A t \in Tasks : PendCall(t)' = IF t \in ts THEN Abs!Granted(PendCall(t), got[t])
                                                  ELSE PendCall(t)
  BY <1>1, <1>2, ServedCalls
<1>4. ASSUME NEW t \in Tasks
      PROVE  PendCall(t)' = IF t \in Abs!Open(g) /\ Abs!Fulfilled(PendCall(t).ask, flags)
                              THEN Abs!Granted(PendCall(t), Abs!Part(PendCall(t).ask, flags))
                              ELSE PendCall(t)
  <2>1. t \in Abs!Open(g) <=> t \in OSFlagWaitList[g]
    BY OpenIs DEF IInv
  <2>2. CASE t \in OSFlagWaitList[g]
    <3>1. PendCall(t).ask = OSFlagNode[t].req
      BY <2>2, CallLinked DEF Linked, IInv, FInv, FlagListExact
    <3>2. OSFlagNode[t].req \in Requests \cup {NoNode.req}
      BY NodeTyped DEF IInv, FInv
    <3>3. /\ Abs!Fulfilled(OSFlagNode[t].req, flags) <=> Met(OSFlagNode[t].req, flags)
          /\ Abs!Part(OSFlagNode[t].req, flags) = FlagsRdy(OSFlagNode[t].req, flags)
      BY <3>2, SameFlags
    <3>4. /\ t \in ts <=> Met(OSFlagNode[t].req, flags)
          /\ got[t] = FlagsRdy(OSFlagNode[t].req, flags)
      BY <2>2 DEF ts, got, Matching
    <3>. QED BY <1>3, <2>1, <2>2, <3>1, <3>3, <3>4
  <2>3. CASE t \notin OSFlagWaitList[g]
    BY <1>1, <1>3, <2>1, <2>3
  <2>. QED BY <2>2, <2>3
<1>5. \A f \in Grps : IsGrp(f)' = IsGrp(f)
  BY <1>1 DEF IsGrp
<1>. QED BY <1>1, <1>4, <1>5 DEF Abs!Change

LEMMA SimDelete ==
  ASSUME IInv, FInv', NEW t \in Tasks, NEW g \in Grps, IsGrp(g),
         OSFlagDelNoPend(t, g) \/ OSFlagDelAlways(t, g)
  PROVE  Abs!Delete(g)
<1>1. /\ OSFlagType' = [OSFlagType EXCEPT ![g] = "UNUSED"]
      /\ OSFlagFlags' = [OSFlagFlags EXCEPT ![g] = {}]
  BY DEF OSFlagDelNoPend, OSFlagDelAlways, FreeGrp
<1>2. \A u \in Tasks : PendCall(u)' = IF u \in OSFlagWaitList[g]
                                        THEN Abs!Granted(PendCall(u), {}) ELSE PendCall(u)
  <2>1. CASE OSFlagDelNoPend(t, g)
    BY <2>1, SameCall DEF OSFlagDelNoPend, InPend, coreVars, tcbVars
  <2>2. CASE OSFlagDelAlways(t, g)
    <3> DEFINE got == [u \in Tasks |-> {}]
               ts  == OSFlagWaitList[g]
    <3>1. OS_FlagTaskRdy(ts, got) /\ OSFlagNode' = OSFlagNode /\ GoesOn(OSTCBCur)
      BY <2>2 DEF OSFlagDelAlways, EnterGrp, Calls, Goto, GoesOn
    <3>2. \A u \in Tasks : InPend(u)' <=> InPend(u)
      BY <3>1 DEF GoesOn, InPend, IInv, KInv, TypeOK
    <3>3. ts \in SUBSET OSFlagWaitList[g]
      OBVIOUS
    <3>4. \A u \in Tasks : got[u] = {}
      OBVIOUS
    <3> HIDE DEF got
    <3>5. \A u \in Tasks : PendCall(u)' = IF u \in ts THEN Abs!Granted(PendCall(u), got[u])
                                                      ELSE PendCall(u)
      BY <3>1, <3>2, <3>3, ServedCalls
    <3>. QED BY <3>4, <3>5
  <2>. QED BY <2>1, <2>2
<1>3. IsGrp(g)' = FALSE /\ \A f \in Grps \ {g} : IsGrp(f)' = IsGrp(f)
  BY <1>1 DEF IsGrp, IInv, FInv, FlagTypeOK
<1>4. Abs!Open(g) = OSFlagWaitList[g]
  BY OpenIs DEF IInv
<1>. QED BY <1>1, <1>2, <1>3, <1>4 DEF Abs!Delete

LEMMA SimReturn ==
  ASSUME IInv, NEW t \in Tasks, FlagPendReturn(t)
  PROVE  Abs!Return(t)
<1>1. /\ pc[t] = "wake" /\ pc' = [pc EXCEPT ![t] = "run"] /\ Runnable(t)
      /\ OSFlagNode' = [OSFlagNode EXCEPT ![t] = NoNode]
      /\ \A u \in Tasks : u # t => OSTCBStatPend'[u] = OSTCBStatPend[u]
      /\ \A u \in Tasks : u # t => OSTCBStat'[u] = OSTCBStat[u]
      /\ OSFlagType' = OSFlagType /\ OSTCBFlagsRdy' = OSTCBFlagsRdy
  BY WakerK DEF FlagPendReturn, OSFlagPendGot, OSFlagPendTimedOut, Goto, tcbVars, IInv, KInv, TypeOK
<1>2. PendCall(t)' = Abs!Idle
  BY <1>1 DEF PendCall, InPend, Abs!Idle, IInv, KInv, TypeOK
<1>3. \A u \in Tasks \ {t} : PendCall(u)' = PendCall(u)
  <2> SUFFICES ASSUME NEW u \in Tasks \ {t} PROVE PendCall(u)' = PendCall(u)
    OBVIOUS
  <2>1. pc'[u] = pc[u] /\ OSFlagNode'[u] = OSFlagNode[u]
    BY <1>1 DEF IInv, KInv, TypeOK, FInv, FlagTypeOK
  <2>. QED BY <1>1, <2>1, SameCall DEF InPend
<1>4. \A f \in Grps : IsGrp(f)' = IsGrp(f)
  BY <1>1 DEF IsGrp
<1>5. CASE OSFlagPendGot(t)
  <2>. PICK r : r = OSFlagNode[t].req
    OBVIOUS
  <2>. PICK g : g = OSFlagNode[t].grp
    OBVIOUS
  <2>1. /\ OSTCBStatPend[t] = "OK"
        /\ OSFlagFlags' = [OSFlagFlags EXCEPT ![g] = Consumed(r, OSFlagFlags[g],
                                                             OSTCBFlagsRdy[t])]
    BY <1>5 DEF OSFlagPendGot
  <2>2. PendCall(t) = [state |-> "granted", on |-> g, ask |-> r, got |-> OSTCBFlagsRdy[t]]
    BY <1>1, <2>1, CallGranted DEF HasFlags, InPend, Runnable
  <2>3. r \in Requests \cup {NoNode.req}
    BY NodeTyped DEF IInv, FInv
  <2>4. Abs!After(r, OSFlagFlags[g], OSTCBFlagsRdy[t]) = Consumed(r, OSFlagFlags[g], OSTCBFlagsRdy[t])
    BY <2>3, SameFlags
  <2>5. /\ PendCall(t).state = "granted" /\ PendCall(t).on = g
        /\ PendCall(t).ask = r /\ PendCall(t).got = OSTCBFlagsRdy[t]
    BY <2>2
  <2>6. OSFlagFlags' = [OSFlagFlags EXCEPT ![g] = Abs!After(r, OSFlagFlags[g], OSTCBFlagsRdy[t])]
    BY <2>1, <2>4
  <2>. QED BY <1>2, <1>3, <1>4, <2>5, <2>6 DEF Abs!Return
<1>6. CASE OSFlagPendTimedOut(t)
  <2>1. OSTCBStatPend[t] = "TO" /\ OSFlagFlags' = OSFlagFlags
    BY <1>6 DEF OSFlagPendTimedOut, IInv, FInv, TaskOK
  <2>2. PendCall(t).state = "expired"
    BY <1>1, <2>1, CallLinked DEF Linked, InPend, Runnable
  <2>. QED BY <1>2, <1>3, <1>4, <2>1, <2>2 DEF Abs!Return
<1>. QED BY <1>5, <1>6 DEF FlagPendReturn

(* Delays that run out.                                                    *)
LEMMA SimExpire ==
  ASSUME IInv, NEW ts \in SUBSET Tasks, NEW dly, Expire(ts, dly),
         \A t \in ts : OSTCBDly[t] # 0,
         UNCHANGED flagVars, GoesOn(OSTCBCur)
  PROVE  Abs!TimeOut({t \in ts : "FLAG" \in OSTCBStat[t]})
<1>1. /\ OSTCBStat' = [t \in Tasks |-> IF t \in ts /\ OSTCBStat[t] \cap PendAny # {}
                                          THEN OSTCBStat[t] \ PendAny ELSE OSTCBStat[t]]
      /\ OSTCBStatPend' = [t \in Tasks |->
                             IF t \in ts /\ OSTCBStat[t] \cap PendAny # {} THEN "TO"
                             ELSE IF t \in ts THEN "OK" ELSE OSTCBStatPend[t]]
  BY DEF Expire
<1>2. \A t \in Tasks : OSTCBStat[t] \cap PendAny # {} <=> "FLAG" \in OSTCBStat[t]
  BY DEF IInv, FInv, TaskOK, PendAny
<1>3. \A t \in Tasks : InPend(t)' <=> InPend(t)
  BY DEF InPend, GoesOn, IInv, KInv, TypeOK
<1>4. ASSUME NEW t \in Tasks
      PROVE  /\ t \in ts /\ "FLAG" \in OSTCBStat[t] =>
                  /\ PendCall(t).state = "waiting"
                  /\ PendCall(t)' = [PendCall(t) EXCEPT !.state = "expired"]
             /\ ~(t \in ts /\ "FLAG" \in OSTCBStat[t]) => PendCall(t)' = PendCall(t)
  <2>1. CASE t \in ts /\ "FLAG" \in OSTCBStat[t]
    <3>1. Linked(t) /\ "FLAG" \in OSTCBStat[t]
      BY <2>1 DEF IInv, FInv, TaskOK, Linked
    <3>2. PendCall(t) = [state |-> "waiting", on |-> OSFlagNode[t].grp, ask |-> OSFlagNode[t].req]
      BY <3>1, CallLinked
    <3>3. InPend(t)' /\ "FLAG" \notin OSTCBStat'[t] /\ OSTCBStatPend'[t] = "TO"
      BY <1>1, <1>2, <1>3, <2>1, <3>1 DEF Linked, PendAny
    <3>4. PendCall(t)' = [state |-> "expired", on |-> OSFlagNode'[t].grp, ask |-> OSFlagNode'[t].req]
      BY <3>3 DEF PendCall
    <3>. QED BY <2>1, <3>2, <3>4 DEF flagVars
  <2>2. CASE ~(t \in ts /\ "FLAG" \in OSTCBStat[t])
    <3>1. OSTCBStat'[t] = OSTCBStat[t]
      BY <1>1, <1>2, <2>2
    <3>2. OSTCBStatPend'[t] = OSTCBStatPend[t]
      <4>1. CASE t \in ts
        <5>1. ~InPend(t) \/ "FLAG" \in OSTCBStat[t]
          BY <4>1 DEF IInv, FInv, TaskOK
        <5>. QED BY <1>1, <1>2, <2>2, <4>1, <5>1 DEF IInv, FInv, TaskOK
      <4>. QED BY <1>1, <4>1
    <3>. QED BY <2>2, <1>3, <3>1, <3>2, SameCall DEF flagVars
  <2>. QED BY <2>1, <2>2
<1>5. \A f \in Grps : IsGrp(f)' = IsGrp(f)
  BY DEF IsGrp, flagVars
<1>. QED BY <1>4, <1>5 DEF Abs!TimeOut, flagVars
LEMMA SimFlagStep ==
  ASSUME IInv, FInv', NEW t \in Tasks, NEW g \in Grps, FlagStep(t, g)
  PROVE  Abs!AbsNext \/ UNCHANGED Abs!absVars
<1>1. CASE \E fs \in FlagSets : OSFlagCreate(t, g, fs)
  BY <1>1, SimCreate DEF Abs!AbsNext
<1>2. CASE CheckGrp(t, g) \/ OSFlagUnchanged(t, g)
  <2>1. UNCHANGED <<coreVars, flagVars>>
    BY <1>2 DEF CheckGrp, OSFlagUnchanged
  <2>2. \A u \in Tasks : PendCall(u)' = PendCall(u)
    BY <2>1, SameCall DEF InPend, coreVars, tcbVars, flagVars
  <2>. QED BY <2>1, <2>2, SimFrame DEF flagVars
<1>3. CASE passed[t] = g
  <2>1. IsGrp(g)
    BY <1>3, FlagAssumption DEF IInv, Checks
  <2>2. CASE \E r \in Requests : OSFlagAccept(t, g, r) \/ OSFlagPendTake(t, g, r)
    BY <2>1, <2>2, SimTake DEF Abs!AbsNext
  <2>3. CASE \E r \in Requests, timeout \in FlagTimeouts : OSFlagPendBlock(t, g, r, timeout)
    BY <2>1, <2>3, SimWait DEF Abs!AbsNext
  <2>4. CASE \E fs \in FlagSets, opt \in {"SET", "CLR"} : OSFlagPost(t, g, fs, opt)
    <3>1. PICK fs \in FlagSets, opt \in {"SET", "CLR"} : OSFlagPost(t, g, fs, opt)
      BY <2>4
    <3>2. Post(g, Posted(g, fs, opt)) /\ GoesOn(OSTCBCur)
      BY <3>1 DEF OSFlagPost, EnterGrp, Calls, SchedIfReadied, Goto, GoesOn
    <3>3. Posted(g, fs, opt) \in SUBSET Flags
      BY PostedTyped DEF IInv, FInv
    <3>4. Abs!Change(g, Posted(g, fs, opt))
      BY <2>1, <3>2, <3>3, SimPost
    <3>. QED BY <3>4 DEF Abs!AbsNext, Posted
  <2>5. CASE CarefulFlagDelete(t, g)
    BY <2>1, <2>5, SimDelete DEF CarefulFlagDelete, FlagDelete, Abs!AbsNext
  <2>. QED BY <1>1, <1>2, <2>2, <2>3, <2>4, <2>5 DEF FlagStep, FlagCall
<1>. QED BY <1>1, <1>2, <1>3
         DEF FlagStep, FlagCall, OSFlagAccept, OSFlagPendTake, OSFlagPendBlock, OSFlagPost,
             CarefulFlagDelete, FlagDelete, OSFlagDelNoPend, OSFlagDelAlways, EnterGrp

(* Delays, suspension and the scheduler lock: only a delay that runs out   *)
(* is seen by a caller of OSFlagPend().                                    *)
LEMMA SimOtherStep ==
  ASSUME IInv, NEW t \in Tasks, OtherStep(t)
  PROVE  Abs!AbsNext \/ UNCHANGED Abs!absVars
<1>. UNCHANGED flagVars
  BY DEF OtherStep
<1>1. CASE \E prio \in Prios : OSTimeDlyResume(t, prio)
  <2>. PICK prio \in Prios, u \in Tasks : OSTimeDlyResume(t, prio) /\ u = OSTCBPrioTbl[prio]
    BY <1>1 DEF OSTimeDlyResume
  <2>1. /\ Expire({u}, [OSTCBDly EXCEPT ![u] = 0]) /\ OSTCBDly[u] # 0
        /\ GoesOn(OSTCBCur)
    BY DEF OSTimeDlyResume, Calls, Goto, GoesOn
  <2>2. Abs!TimeOut({v \in {u} : "FLAG" \in OSTCBStat[v]})
    BY <2>1, SimExpire
  <2>. QED BY <2>2 DEF Abs!AbsNext
<1>2. CASE \/ \E ticks \in Delays : OSTimeDly(t, ticks)
           \/ TaskCall(t) \/ OSSchedLock(t) \/ OSSchedUnlock(t)
  <2>1. GoesOn(t) /\ OSTCBStatPend' = OSTCBStatPend
    BY <1>2 DEF OSTimeDly, TaskCall, OSTaskSuspend, OSTaskResume, OSSchedLock, OSSchedUnlock,
                Calls, Goto, GoesOn, tcbVars
  <2>2. \A u \in Tasks : "FLAG" \in OSTCBStat'[u] <=> "FLAG" \in OSTCBStat[u]
    <3>1. CASE TaskCall(t)
      BY <3>1 DEF TaskCall, OSTaskSuspend, OSTaskResume, IInv, KInv, TypeOK
    <3>2. CASE \E ticks \in Delays : OSTimeDly(t, ticks)
      BY <3>2 DEF OSTimeDly
    <3>3. CASE OSSchedLock(t) \/ OSSchedUnlock(t)
      BY <3>3 DEF OSSchedLock, OSSchedUnlock, tcbVars
    <3>. QED BY <1>2, <3>1, <3>2, <3>3
  <2>3. \A u \in Tasks : InPend(u)' <=> InPend(u)
    BY <2>1 DEF GoesOn, InPend, IInv, KInv, TypeOK
  <2>4. \A u \in Tasks : PendCall(u)' = PendCall(u)
    BY <2>1, <2>2, <2>3, SameCall DEF flagVars
  <2>. QED BY <2>4, SimFrame DEF flagVars
<1>. QED BY <1>1, <1>2 DEF OtherStep, TimeCall

LEMMA SimKernelStep ==
  ASSUME IInv, NEW t \in Tasks, KernelStep(t)
  PROVE  Abs!AbsNext \/ UNCHANGED Abs!absVars
<1>1. CASE OS_Sched(t) /\ UNCHANGED <<flagVars, passed>>
  <2>1. \A u \in Tasks : InPend(u)' <=> InPend(u)
    BY <1>1 DEF OS_Sched, At, Goto, InPend, IInv, KInv, TypeOK
  <2>2. \A u \in Tasks : PendCall(u)' = PendCall(u)
    BY <1>1, <2>1, SameCall DEF OS_Sched, tcbVars, flagVars
  <2>. QED BY <1>1, <2>2, SimFrame DEF flagVars
<1>2. CASE FlagPendReturn(t)
  BY <1>2, SimReturn DEF Abs!AbsNext
<1>. QED BY <1>1, <1>2 DEF KernelStep

LEMMA SimInterrupt ==
  ASSUME IInv, Interrupt
  PROVE  Abs!AbsNext \/ UNCHANGED Abs!absVars
<1>1. CASE TickISR
  <2> DEFINE walked == OSTCBList \ {IdleTask}
             left   == [t \in Tasks |-> IF t \in walked /\ OSTCBDly[t] # 0
                                          THEN OSTCBDly[t] - 1 ELSE OSTCBDly[t]]
             ts     == {t \in walked : OSTCBDly[t] # 0 /\ left[t] = 0}
  <2>1. Expire(ts, left) /\ GoesOn(OSTCBCur) /\ UNCHANGED flagVars
    BY <1>1 DEF TickISR, EnterISR, OSTimeTick, GoesOn, Interrupt
  <2>2. ts \in SUBSET Tasks /\ \A t \in ts : OSTCBDly[t] # 0
    BY DEF IInv, KInv, Fixed
  <2> HIDE DEF ts, left
  <2>3. Abs!TimeOut({t \in ts : "FLAG" \in OSTCBStat[t]})
    BY <2>1, <2>2, SimExpire
  <2>4. {t \in ts : "FLAG" \in OSTCBStat[t]} \in SUBSET Tasks
    BY <2>2
  <2>. QED BY <2>3, <2>4 DEF Abs!AbsNext
<1>2. CASE OSIntExit
  <2>1. \A u \in Tasks : PendCall(u)' = PendCall(u)
    BY <1>2, SameCall DEF OSIntExit, Interrupt, InPend, tcbVars, flagVars
  <2>. QED BY <2>1, SimFrame DEF Interrupt, flagVars
<1>. QED BY <1>1, <1>2 DEF Interrupt

LEMMA SimNext ==
  ASSUME IInv, IInv', [Next]_vars
  PROVE  [Abs!AbsNext]_(Abs!absVars)
<1>. FInv'
  BY DEF IInv
<1>1. CASE \E t \in Tasks, g \in Grps : FlagStep(t, g)
  BY <1>1, SimFlagStep
<1>2. CASE \E t \in Tasks : OtherStep(t) \/ KernelStep(t)
  BY <1>2, SimOtherStep, SimKernelStep
<1>3. CASE DeviceISR
  <2>1. PICK g \in Grps, fs \in FlagSets, opt \in {"SET", "CLR"} : FlagPostISR(g, fs, opt)
    BY <1>3 DEF DeviceISR
  <2>2. IsGrp(g) /\ Post(g, Posted(g, fs, opt)) /\ GoesOn(OSTCBCur)
    BY <2>1 DEF FlagPostISR, EnterISR, GoesOn
  <2>3. Posted(g, fs, opt) \in SUBSET Flags
    BY PostedTyped DEF IInv, FInv
  <2>4. Abs!Change(g, Posted(g, fs, opt))
    BY <2>2, <2>3, SimPost
  <2>. QED BY <2>4 DEF Abs!AbsNext, Posted
<1>4. CASE Interrupt
  BY <1>4, SimInterrupt
<1>5. CASE UNCHANGED vars
  <2>1. \A u \in Tasks : PendCall(u)' = PendCall(u)
    BY <1>5, SameCall DEF vars, InPend, coreVars, tcbVars, flagVars
  <2>. QED BY <1>5, <2>1, SimFrame DEF vars, flagVars
<1>. QED BY <1>1, <1>2, <1>3, <1>4, <1>5 DEF Next

(* The kernel implements the abstract flag groups: a post serves at once   *)
(* every call it satisfies, also one that has just timed out, a call takes *)
(* what satisfied it and nothing else, and nothing but a post, a deletion  *)
(* or a time-out ends a wait.                                              *)
THEOREM FlagsImplemented == Spec => ImplementsFlags
<1>1. Init => Abs!AbsInit
  BY SimInit
<1>2. IInv /\ IInv' /\ [Next]_vars => [Abs!AbsNext]_(Abs!absVars)
  BY SimNext
<1>. QED BY <1>1, <1>2, FlagInvariance, PTL DEF Spec, ImplementsFlags, Abs!AbsSpec
=============================================================================
