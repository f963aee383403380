-------------------------------- MODULE OSCore --------------------------------
(***************************************************************************)
(* The kernel state of uC/OS-II and the functions of os_core.c every       *)
(* service is built from.  One CPU runs the task OSTCBCur; interrupts are  *)
(* disabled inside a critical section, so a critical section is one step   *)
(* and an interrupt may fall between any two.  The ARM port does not       *)
(* re-enable interrupts in its exception handler, so an interrupt service  *)
(* routine runs in two steps only, the handler and OSIntExit(), with no    *)
(* task step in between.                                                   *)
(*                                                                         *)
(* The modules OSSem, OSTime, OSTask, OSMutex extend this one with the     *)
(* services; the modules *System compose them.                             *)
(***************************************************************************)
EXTENDS Integers, FiniteSets

(* The two-level priority bitmap.  The ready list and the wait list of     *)
(* every event are one each: a table with one row of eight bits per eight  *)
(* priorities (OSRdyTbl[], OSEventTbl[]) and a group byte with one bit per *)
(* row that has a bit set (OSRdyGrp, OSEventGrp).  A byte is modelled by   *)
(* the set of the positions of its bits.                                   *)
CONSTANT LowestPrio     \* OS_LOWEST_PRIO of os_cfg.h

ASSUME LowestPrioAssumption == LowestPrio \in 2 .. 63

Prios == 0 .. LowestPrio
Rows  == 0 .. (LowestPrio \div 8)       \* OS_RDY_TBL_SIZE, OS_EVENT_TBL_SIZE
Cols  == 0 .. 7

Row(p) == p \div 8                      \* OSTCBY, and the bit OSTCBBitY
Col(p) == p % 8                         \* OSTCBX, and the bit OSTCBBitX

PrioMap == [grp : SUBSET Rows, tbl : [Rows -> SUBSET Cols]]

EmptyMap == [grp |-> {}, tbl |-> [y \in Rows |-> {}]]

(* Position of the least significant bit of a byte, 0 for the zero byte.   *)
OSUnMapTbl(byte) ==
  IF byte = {} THEN 0 ELSE CHOOSE x \in byte : \A z \in byte : x <= z

(* grp |= the rows of g;  tbl[b[1]] |= bit b[2], for every b in bits       *)
MapOr(m, g, bits) ==
  [grp |-> m.grp \cup g,
   tbl |-> [y \in Rows |-> m.tbl[y] \cup {x \in Cols : <<y, x>> \in bits}]]

(* The bits of the priorities in ps are set, row and group.                *)
MapSet(m, ps) ==
  [grp |-> m.grp \cup {y \in Rows : \E p \in ps : y = Row(p)},
   tbl |-> [y \in Rows |->
              m.tbl[y] \cup {x \in Cols : \E p \in ps : y = Row(p) /\ x = Col(p)}]]

(* tbl[y] &= ~bitx;  if (tbl[y] == 0) grp &= ~bity, for every p in ps      *)
MapClr(m, ps) ==
  LET row(y) == m.tbl[y] \ {x \in Cols : \E p \in ps : y = Row(p) /\ x = Col(p)}
  IN  [grp |-> m.grp \ {y \in Rows : row(y) = {} /\ \E p \in ps : y = Row(p)},
       tbl |-> [y \in Rows |-> row(y)]]

MapHas(m, p) == Col(p) \in m.tbl[Row(p)]

(* The priority the scheduler and OS_EventTaskRdy take from the bitmap.    *)
MapHighest(m) ==
  LET y == OSUnMapTbl(m.grp) IN 8 * y + OSUnMapTbl(m.tbl[y])

(* The one bitmap, with its two levels in agreement, of a set of priorities. *)
MapOf(ps) == MapSet(EmptyMap, ps)
-----------------------------------------------------------------------------

CONSTANTS
  Tasks,            \* the task control blocks, OSTCBTbl[]
  IdleTask,         \* the TCB of OS_TaskIdle()
  BasePrio,         \* the priority each task is created with
  Events,           \* the event control blocks, OSEventTbl[]
  NoTCB,            \* (OS_TCB *)0
  Reserved,         \* OS_TCB_RESERVED, a priority kept for a mutex
  NoEvent,          \* (OS_EVENT *)0
  LockNestingMax    \* 255, the limit of OSLockNesting

ASSUME CoreAssumption ==
  /\ IdleTask \in Tasks
  /\ BasePrio \in [Tasks -> Prios]
  /\ BasePrio[IdleTask] = LowestPrio
  /\ \A t, u \in Tasks : t # u => BasePrio[t] # BasePrio[u]
  /\ NoTCB \notin Tasks /\ Reserved \notin Tasks /\ NoTCB # Reserved
  /\ NoEvent \notin Events
  /\ LockNestingMax \in Nat \ {0}

VARIABLES
  OSTCBPrio, OSTCBStat, OSTCBStatPend, OSTCBDly,
  OSTCBEventPtr,        \* the event a task pends on
  OSTCBEventMultiPtr,   \* the events a task pends on with OSEventPendMulti()
  OSTCBPrioTbl,         \* TCB pointer of every priority
  OSTCBList,            \* the TCBs of the created tasks
  OSRdyTbl,             \* the ready list, OSRdyGrp and OSRdyTbl[]
  OSEventType, OSEventCnt,
  OSEventTbl,           \* the wait list of every event, OSEventGrp and OSEventTbl[]
  OSTCBCur, OSPrioCur, OSIntNesting, OSLockNesting,
  pc                    \* where each task is in the service it has called

tcbVars   == <<OSTCBPrio, OSTCBStat, OSTCBStatPend, OSTCBDly,
               OSTCBEventPtr, OSTCBEventMultiPtr>>
tblVars   == <<OSTCBPrioTbl, OSTCBList>>
eventVars == <<OSEventType, OSEventCnt, OSEventTbl>>
curVars   == <<OSTCBCur, OSPrioCur>>
nestVars  == <<OSIntNesting, OSLockNesting>>
coreVars  == <<tcbVars, tblVars, OSRdyTbl, eventVars, curVars, nestVars, pc>>

(* OSTCBStat is the set of the OS_STAT_ bits that are set.                 *)
PendAny == {"SEM", "MUTEX", "FLAG"}             \* OS_STAT_PEND_ANY
Stats   == PendAny \cup {"SUSPEND", "MULTI"}
PendStats == {"OK", "TO", "ABORT"}              \* OS_STAT_PEND_...

(* "run"   in application code, free to call a service;                    *)
(* "sched" a service has left its critical section and calls OS_Sched(),   *)
(*         to return to the application after it;                          *)
(* "pend"  a pend has put the task on a wait list and calls OS_Sched();    *)
(* "wake"  that OS_Sched() has returned: the second critical section of    *)
(*         the pend is next.                                               *)
Pcs == {"run", "sched", "pend", "wake"}

TypeOK ==
  /\ OSTCBPrio \in [Tasks -> Prios]
  /\ OSTCBStat \in [Tasks -> SUBSET Stats]
  /\ OSTCBStatPend \in [Tasks -> PendStats]
  /\ OSTCBDly \in [Tasks -> Nat]
  /\ OSTCBEventPtr \in [Tasks -> Events \cup {NoEvent}]
  /\ OSTCBEventMultiPtr \in [Tasks -> SUBSET Events]
  /\ OSTCBPrioTbl \in [Prios -> Tasks \cup {NoTCB, Reserved}]
  /\ OSTCBList \in SUBSET Tasks
  /\ OSRdyTbl \in PrioMap
  /\ OSEventType \in [Events -> {"UNUSED", "SEM", "MUTEX"}]
  /\ OSEventCnt \in [Events -> Nat]
  /\ OSEventTbl \in [Events -> PrioMap]
  /\ OSTCBCur \in Tasks
  /\ OSPrioCur \in Prios
  /\ OSIntNesting \in {0, 1}
  /\ OSLockNesting \in 0 .. LockNestingMax
  /\ pc \in [Tasks -> Pcs]

(* OSInit(), the tasks created, and OSStart(): the highest runs.           *)
CoreInit ==
  /\ OSTCBPrio = BasePrio
  /\ OSTCBStat = [t \in Tasks |-> {}]
  /\ OSTCBStatPend = [t \in Tasks |-> "OK"]
  /\ OSTCBDly = [t \in Tasks |-> 0]
  /\ OSTCBEventPtr = [t \in Tasks |-> NoEvent]
  /\ OSTCBEventMultiPtr = [t \in Tasks |-> {}]
  /\ OSTCBList = Tasks
  /\ OSTCBPrioTbl = [p \in Prios |-> IF \E t \in Tasks : BasePrio[t] = p
                                       THEN CHOOSE t \in Tasks : BasePrio[t] = p
                                       ELSE NoTCB]
  /\ OSRdyTbl = MapOf({BasePrio[t] : t \in Tasks})
  /\ OSPrioCur = MapHighest(OSRdyTbl)
  /\ OSTCBCur = OSTCBPrioTbl[OSPrioCur]
  /\ OSIntNesting = 0
  /\ OSLockNesting = 0
  /\ pc = [t \in Tasks |-> "run"]

-----------------------------------------------------------------------------
(* Who may take a step.  A task calls services when it is in application   *)
(* code; the idle task calls none.  An interrupt is taken when none is     *)
(* being served (OS_CPU_ARM_ExceptHndlr raises OSIntNesting to 1).         *)
Calls(t) ==
  /\ t = OSTCBCur /\ t # IdleTask
  /\ OSIntNesting = 0
  /\ pc[t] = "run"

At(t, where) == t = OSTCBCur /\ OSIntNesting = 0 /\ pc[t] = where

Goto(t, where) == pc' = [pc EXCEPT ![t] = where]

EnterISR == OSIntNesting = 0 /\ OSIntNesting' = 1 /\ UNCHANGED <<OSLockNesting, curVars, pc>>

(* OS_SchedNew() and the context switch, which is left out when the        *)
(* highest ready priority is the one that runs.                            *)
Switch ==
  LET hpt == MapHighest(OSRdyTbl)
  IN  IF hpt # OSPrioCur
        THEN OSPrioCur' = hpt /\ OSTCBCur' = OSTCBPrioTbl[hpt]
        ELSE UNCHANGED curVars

OS_Sched(t) ==
  /\ \/ At(t, "sched") /\ Goto(t, "run")
     \/ At(t, "pend")  /\ Goto(t, "wake")
  /\ IF OSLockNesting = 0 THEN Switch ELSE UNCHANGED curVars
  /\ UNCHANGED <<tcbVars, tblVars, OSRdyTbl, eventVars, nestVars>>

(* Mutant: OSIntExit() only leaves the interrupt level.                    *)
OSIntExit_NoSched ==
  /\ OSIntNesting > 0
  /\ OSIntNesting' = OSIntNesting - 1
  /\ UNCHANGED <<tcbVars, tblVars, OSRdyTbl, eventVars, curVars, OSLockNesting, pc>>

OSIntExit ==
  /\ OSIntNesting > 0
  /\ OSIntNesting' = OSIntNesting - 1
  /\ IF OSIntNesting' = 0 /\ OSLockNesting = 0 THEN Switch ELSE UNCHANGED curVars
  /\ UNCHANGED <<tcbVars, tblVars, OSRdyTbl, eventVars, OSLockNesting, pc>>

(* Mutant: the nesting level is not compared with its limit.               *)
OSSchedLock_NoLimit(t) ==
  /\ Calls(t)
  /\ OSLockNesting' = OSLockNesting + 1
  /\ UNCHANGED <<tcbVars, tblVars, OSRdyTbl, eventVars, curVars, OSIntNesting, pc>>

OSSchedLock(t) ==
  /\ Calls(t)
  /\ OSLockNesting < LockNestingMax
  /\ OSLockNesting' = OSLockNesting + 1
  /\ UNCHANGED <<tcbVars, tblVars, OSRdyTbl, eventVars, curVars, OSIntNesting, pc>>

(* Mutant: unlocking does not look for a task that became ready.           *)
OSSchedUnlock_NoSched(t) ==
  /\ Calls(t)
  /\ OSLockNesting > 0
  /\ OSLockNesting' = OSLockNesting - 1
  /\ UNCHANGED <<tcbVars, tblVars, OSRdyTbl, eventVars, curVars, OSIntNesting, pc>>

OSSchedUnlock(t) ==
  /\ Calls(t)
  /\ OSLockNesting > 0
  /\ OSLockNesting' = OSLockNesting - 1
  /\ IF OSLockNesting' = 0 THEN Goto(t, "sched") ELSE UNCHANGED pc
  /\ UNCHANGED <<tcbVars, tblVars, OSRdyTbl, eventVars, curVars, OSIntNesting>>

-----------------------------------------------------------------------------
(* Readying tasks.  A pending or delayed task whose delay has run out gets *)
(* ready unless it is suspended; one that was pending keeps its place on   *)
(* the wait list until it runs.  OSTimeTick() does this to every task      *)
(* whose last tick it is, OSTimeDlyResume() to the task it is given.       *)
Expire(ts, dly) ==
  LET pending == {t \in ts : OSTCBStat[t] \cap PendAny # {}}
      ready   == {t \in ts : "SUSPEND" \notin OSTCBStat[t]}
  IN  /\ OSTCBDly' = dly
      /\ OSTCBStat' = [t \in Tasks |-> IF t \in pending THEN OSTCBStat[t] \ PendAny
                                                         ELSE OSTCBStat[t]]
      /\ OSTCBStatPend' = [t \in Tasks |-> IF t \in pending THEN "TO"
                                           ELSE IF t \in ts THEN "OK"
                                           ELSE OSTCBStatPend[t]]
      /\ OSRdyTbl' = MapSet(OSRdyTbl, {OSTCBPrio[t] : t \in ready})

OSTimeTick ==
  LET walked == OSTCBList \ {IdleTask}
      left   == [t \in Tasks |-> IF t \in walked /\ OSTCBDly[t] # 0
                                   THEN OSTCBDly[t] - 1 ELSE OSTCBDly[t]]
  IN  /\ Expire({t \in walked : OSTCBDly[t] # 0 /\ left[t] = 0}, left)
      /\ UNCHANGED <<OSTCBPrio, OSTCBEventPtr, OSTCBEventMultiPtr, tblVars, eventVars>>

TickISR == EnterISR /\ OSTimeTick

(* The row and bit of task t leave the ready list.                         *)
Unready(t) == OSRdyTbl' = MapClr(OSRdyTbl, {OSTCBPrio[t]})

(* OS_EventTaskRdy() for the tasks at the priorities ps of the wait list   *)
(* of e, with the priority table and the ready list as they are when it is *)
(* called.  The group bit and the column come from the TCB, the row from   *)
(* the wait list.                                                          *)
EventTaskRdy(prioTbl, rdyTbl, e, ps, msk, pend_stat) ==
  LET tcb == {prioTbl[p] : p \in ps}
      rdy == {p \in ps : "SUSPEND" \notin OSTCBStat[prioTbl[p]]}
      off == [f \in Events |-> {OSTCBPrio[t] : t \in {u \in tcb :
                                   f = e \/ f \in OSTCBEventMultiPtr[u]}}]
  IN  /\ OSTCBDly' = [t \in Tasks |-> IF t \in tcb THEN 0 ELSE OSTCBDly[t]]
      /\ OSTCBStat' = [t \in Tasks |-> IF t \in tcb THEN OSTCBStat[t] \ {msk}
                                                    ELSE OSTCBStat[t]]
      /\ OSTCBStatPend' = [t \in Tasks |-> IF t \in tcb THEN pend_stat
                                                        ELSE OSTCBStatPend[t]]
      /\ OSRdyTbl' = MapOr(rdyTbl, {Row(OSTCBPrio[prioTbl[p]]) : p \in rdy},
                           {<<Row(p), Col(OSTCBPrio[prioTbl[p]])>> : p \in rdy})
      /\ OSEventTbl' = [f \in Events |-> MapClr(OSEventTbl[f], off[f])]
      /\ OSTCBEventPtr' = [t \in Tasks |-> IF t \in tcb /\ OSTCBEventMultiPtr[t] # {}
                                             THEN e ELSE OSTCBEventPtr[t]]

OS_EventTaskRdy(e, ps, msk, pend_stat) ==
  EventTaskRdy(OSTCBPrioTbl, OSRdyTbl, e, ps, msk, pend_stat)

(* The priorities on the wait list of e, and the one OS_EventTaskRdy picks. *)
Waiting(e) == OSEventTbl[e].grp # {}
AllWaiters(e) == {p \in Prios : MapHas(OSEventTbl[e], p)}
(* Mutant: the waiter of lowest priority.                                  *)
HighestWaiter_Lowest(e) == {CHOOSE p \in AllWaiters(e) : \A q \in AllWaiters(e) : q <= p}

HighestWaiter(e) == {MapHighest(OSEventTbl[e])}

(* A task puts itself on the wait list of e: the first critical section of *)
(* a pend, with what OS_EventTaskWait() does to the ready list and the     *)
(* wait lists it finds.                                                    *)
EventTaskWait(rdyTbl, eventTbl, t, e, msk, timeout) ==
  /\ OSTCBStat' = [OSTCBStat EXCEPT ![t] = @ \cup {msk}]
  /\ OSTCBStatPend' = [OSTCBStatPend EXCEPT ![t] = "OK"]
  /\ OSTCBDly' = [OSTCBDly EXCEPT ![t] = timeout]
  /\ OSTCBEventPtr' = [OSTCBEventPtr EXCEPT ![t] = e]
  /\ OSEventTbl' = [eventTbl EXCEPT ![e] = MapSet(@, {OSTCBPrio[t]})]
  /\ OSRdyTbl' = MapClr(rdyTbl, {OSTCBPrio[t]})
  /\ Goto(t, "pend")

OS_EventTaskWait(t, e, msk, timeout) ==
  EventTaskWait(OSRdyTbl, OSEventTbl, t, e, msk, timeout)

(* Mutant: a task that timed out stays on the wait list.                   *)
PendReturn_StayOnList(t) ==
  /\ At(t, "wake")
  /\ OSTCBStat' = [OSTCBStat EXCEPT ![t] = {}]
  /\ OSTCBStatPend' = [OSTCBStatPend EXCEPT ![t] = "OK"]
  /\ OSTCBEventPtr' = [OSTCBEventPtr EXCEPT ![t] = NoEvent]
  /\ OSTCBEventMultiPtr' = [OSTCBEventMultiPtr EXCEPT ![t] = {}]
  /\ Goto(t, "run")
  /\ UNCHANGED <<OSTCBPrio, OSTCBDly, tblVars, OSRdyTbl, eventVars, curVars, nestVars>>

(* The second critical section of a pend: a task that timed out takes      *)
(* itself off the wait list (OS_EventTaskRemove), and the TCB is reset.    *)
PendReturn(t) ==
  /\ At(t, "wake")
  /\ OSEventTbl' = IF OSTCBStatPend[t] \in {"OK", "ABORT"} THEN OSEventTbl
                   ELSE [OSEventTbl EXCEPT ![OSTCBEventPtr[t]] = MapClr(@, {OSTCBPrio[t]})]
  /\ OSTCBStat' = [OSTCBStat EXCEPT ![t] = {}]
  /\ OSTCBStatPend' = [OSTCBStatPend EXCEPT ![t] = "OK"]
  /\ OSTCBEventPtr' = [OSTCBEventPtr EXCEPT ![t] = NoEvent]
  /\ OSTCBEventMultiPtr' = [OSTCBEventMultiPtr EXCEPT ![t] = {}]
  /\ Goto(t, "run")
  /\ UNCHANGED <<OSTCBPrio, OSTCBDly, tblVars, OSRdyTbl, OSEventType, OSEventCnt,
                 curVars, nestVars>>

-----------------------------------------------------------------------------
(* The sets the bitmaps must stand for.                                    *)
Runnable(t) == OSTCBStat[t] = {} /\ OSTCBDly[t] = 0

OnWaitList(t, e) ==
  /\ OSTCBEventPtr[t] = e \/ e \in OSTCBEventMultiPtr[t]
  /\ OSTCBStat[t] \cap PendAny # {} \/ OSTCBStatPend[t] = "TO"

(* The ready list holds exactly the tasks that wait for nothing: no        *)
(* interleaving of pends, posts, time-outs, suspensions and delays leaves  *)
(* a task that could run out of it, or one that may not in it.             *)
ReadyListExact ==
  OSRdyTbl = MapOf({OSTCBPrio[t] : t \in {u \in OSTCBList : Runnable(u)}})

(* The wait list of an event holds exactly the tasks that pend on it, and  *)
(* those that timed out and have not run since (OSTimeTick leaves them).   *)
WaitListExact ==
  \A e \in Events :
    OSEventTbl[e] = MapOf({OSTCBPrio[t] : t \in {u \in OSTCBList : OnWaitList(u, e)}})

(* Whenever no service is on its way to the scheduler, no interrupt is     *)
(* being served and the scheduler is not locked, the task that runs is the *)
(* one of the highest ready priority.                                      *)
HighestPriorityRuns ==
  (OSIntNesting = 0 /\ OSLockNesting = 0 /\ pc[OSTCBCur] \in {"run", "wake"})
    => /\ OSPrioCur = MapHighest(OSRdyTbl)
       /\ OSTCBCur = OSTCBPrioTbl[OSPrioCur]
       /\ Runnable(OSTCBCur)
=============================================================================
