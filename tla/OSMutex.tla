------------------------------- MODULE OSMutex -------------------------------
(***************************************************************************)
(* Mutual exclusion semaphores, os_mutex.c.  OSEventCnt of a mutex holds   *)
(* the ceiling priority (PCP) in its upper byte and, in its lower one, the *)
(* priority its owner had when it got the mutex.  OSMutexAccept() and      *)
(* OSMutexDel() are not compiled in (os_cfg.h), nor is OSMutexQuery(),     *)
(* which changes nothing.                                                  *)
(***************************************************************************)
EXTENDS OSCore

CONSTANTS
  Ceilings,         \* the priorities OSMutexCreate() is called with
  MutexTimeouts     \* the time-outs of OSMutexPend()

CeilDis   == 255    \* OS_PRIO_MUTEX_CEIL_DIS
Available == 255    \* OS_MUTEX_AVAILABLE, of the lower byte

(* The ceiling is higher than the priority of every task.                  *)
ASSUME MutexAssumption ==
  /\ Ceilings \subseteq Prios \cup {CeilDis}
  /\ \A c \in Ceilings \ {CeilDis}, t \in Tasks : c < BasePrio[t]
  /\ MutexTimeouts \subseteq Nat

VARIABLE OSEventPtr     \* the task that owns the mutex

IsMutex(e)   == OSEventType[e] = "MUTEX"
Pcp(e)       == OSEventCnt[e] \div 256
OwnerPrio(e) == OSEventCnt[e] % 256
Word(pcp, lower) == 256 * pcp + lower

(* "The task that owns the Mutex MUST NOT pend on any other event while it *)
(* owns the mutex" (os_mutex.c:429): the callers keep to it.               *)
Owns(t) == \E e \in Events : IsMutex(e) /\ OSEventPtr[e] = t

OSMutexCreate(t, e, prio) ==
  /\ Calls(t)
  /\ OSEventType[e] = "UNUSED"
  /\ IF prio = CeilDis THEN UNCHANGED OSTCBPrioTbl
     ELSE /\ OSTCBPrioTbl[prio] = NoTCB
          /\ OSTCBPrioTbl' = [OSTCBPrioTbl EXCEPT ![prio] = Reserved]
  /\ OSEventType' = [OSEventType EXCEPT ![e] = "MUTEX"]
  /\ OSEventCnt' = [OSEventCnt EXCEPT ![e] = Word(prio, Available)]
  /\ OSEventPtr' = [OSEventPtr EXCEPT ![e] = NoTCB]
  /\ OSEventTbl' = [OSEventTbl EXCEPT ![e] = EmptyMap]
  /\ UNCHANGED <<tcbVars, OSTCBList, OSRdyTbl, curVars, nestVars, pc>>

(* Mutant: a mutex that has an owner is taken.                             *)
OSMutexPendTake_Unchecked(t, e) ==
  /\ Calls(t) /\ IsMutex(e) /\ ~Owns(t)
  /\ OSLockNesting = 0
  /\ OSEventCnt' = [OSEventCnt EXCEPT ![e] = Word(Pcp(e), OSTCBPrio[t])]
  /\ OSEventPtr' = [OSEventPtr EXCEPT ![e] = t]
  /\ UNCHANGED <<tcbVars, tblVars, OSRdyTbl, OSEventType, OSEventTbl, curVars, nestVars, pc>>

OSMutexPendTake(t, e) ==
  /\ Calls(t) /\ IsMutex(e) /\ ~Owns(t)
  /\ OSLockNesting = 0
  /\ OwnerPrio(e) = Available
  /\ OSEventCnt' = [OSEventCnt EXCEPT ![e] = Word(Pcp(e), OSTCBPrio[t])]
  /\ OSEventPtr' = [OSEventPtr EXCEPT ![e] = t]
  /\ UNCHANGED <<tcbVars, tblVars, OSRdyTbl, OSEventType, OSEventTbl, curVars, nestVars, pc>>

(* Mutant: the bit of the old priority is left set.                        *)
Moved_KeepOld(m, from, to) == MapSet(m, {to})

(* A task goes from one priority to another in a bitmap.                   *)
Moved(m, from, to) == MapSet(MapClr(m, {from}), {to})

(* Mutant: the priorities are compared the wrong way round.                *)
MustPromote_Swapped(t, e) ==
  /\ Pcp(e) # CeilDis
  /\ OSTCBPrio[OSEventPtr[e]] > Pcp(e)
  /\ OwnerPrio(e) < OSTCBPrio[t]

(* The owner is not at the ceiling yet, and the task that comes outranks it. *)
MustPromote(t, e) ==
  /\ Pcp(e) # CeilDis
  /\ OSTCBPrio[OSEventPtr[e]] > Pcp(e)
  /\ OwnerPrio(e) > OSTCBPrio[t]

(* The owner is promoted where its bit is: in the ready list or, when it   *)
(* is not ready, in the wait list its TCB points at.                       *)
OSMutexPendBlock(t, e, timeout) ==
  LET owner   == OSEventPtr[e]
      raise   == MustPromote(t, e)
      rdy     == MapHas(OSRdyTbl, OSTCBPrio[owner])
      Up(m)   == Moved(m, OSTCBPrio[owner], Pcp(e))
  IN  /\ Calls(t) /\ IsMutex(e) /\ ~Owns(t)
      /\ OSLockNesting = 0
      /\ OwnerPrio(e) # Available
      /\ IF raise THEN /\ OSTCBPrio' = [OSTCBPrio EXCEPT ![owner] = Pcp(e)]
                       /\ OSTCBPrioTbl' = [OSTCBPrioTbl EXCEPT ![Pcp(e)] = owner]
                  ELSE UNCHANGED <<OSTCBPrio, OSTCBPrioTbl>>
      /\ EventTaskWait(IF raise /\ rdy THEN Up(OSRdyTbl) ELSE OSRdyTbl,
                       [f \in Events |-> IF raise /\ ~rdy /\ f = OSTCBEventPtr[owner]
                                           THEN Up(OSEventTbl[f]) ELSE OSEventTbl[f]],
                       t, e, "MUTEX", timeout)
      /\ UNCHANGED <<OSTCBEventMultiPtr, OSTCBList, OSEventType, OSEventCnt, OSEventPtr,
                     curVars, nestVars>>

(* Mutant: a promoted owner keeps the ceiling priority.                    *)
MustRestore_Never(t, e) == FALSE

MustRestore(t, e) == Pcp(e) # CeilDis /\ OSTCBPrio[t] = Pcp(e)

(* Mutant: OSPrioCur keeps the priority the running task had.              *)
OSMutex_RdyAtPrio_StaleCur(t, prio) ==
  /\ OSTCBPrio' = [OSTCBPrio EXCEPT ![t] = prio]
  /\ UNCHANGED OSPrioCur

OSMutex_RdyAtPrio(t, prio) ==
  /\ OSTCBPrio' = [OSTCBPrio EXCEPT ![t] = prio]
  /\ OSPrioCur' = prio

PrioTblAfterPost(t, e) ==
  [p \in Prios |-> IF p = Pcp(e) THEN Reserved
                   ELSE IF MustRestore(t, e) /\ p = OwnerPrio(e) THEN t
                   ELSE OSTCBPrioTbl[p]]

(* The owner gets the priority back it had (OSMutex_RdyAtPrio, in the      *)
(* ready list and the priority table too), and the mutex goes to the       *)
(* waiter of highest priority or becomes available.                        *)
OSMutexPost(t, e) ==
  LET prioTbl == PrioTblAfterPost(t, e)
      rdyTbl  == IF MustRestore(t, e) THEN Moved(OSRdyTbl, OSTCBPrio[t], OwnerPrio(e))
                                      ELSE OSRdyTbl
      next    == MapHighest(OSEventTbl[e])
  IN  /\ Calls(t) /\ IsMutex(e)
      /\ OSEventPtr[e] = t
      /\ IF MustRestore(t, e) THEN OSMutex_RdyAtPrio(t, OwnerPrio(e))
                              ELSE UNCHANGED <<OSTCBPrio, OSPrioCur>>
      /\ OSTCBPrioTbl' = prioTbl
      /\ IF Waiting(e)
           THEN /\ EventTaskRdy(prioTbl, rdyTbl, e, {next}, "MUTEX", "OK")
                /\ OSEventCnt' = [OSEventCnt EXCEPT ![e] = Word(Pcp(e), next)]
                /\ OSEventPtr' = [OSEventPtr EXCEPT ![e] = prioTbl[next]]
                /\ Goto(t, "sched")
           ELSE /\ OSRdyTbl' = rdyTbl
                /\ OSEventCnt' = [OSEventCnt EXCEPT ![e] = Word(Pcp(e), Available)]
                /\ OSEventPtr' = [OSEventPtr EXCEPT ![e] = NoTCB]
                /\ UNCHANGED <<OSTCBStat, OSTCBStatPend, OSTCBDly, OSTCBEventPtr, OSEventTbl, pc>>
      /\ UNCHANGED <<OSTCBEventMultiPtr, OSTCBList, OSEventType, OSTCBCur, nestVars>>

MutexCall(t) ==
  \E e \in Events :
    \/ \E prio \in Ceilings : OSMutexCreate(t, e, prio)
    \/ OSMutexPendTake(t, e)
    \/ \E timeout \in MutexTimeouts : OSMutexPendBlock(t, e, timeout)
    \/ OSMutexPost(t, e)
=============================================================================
