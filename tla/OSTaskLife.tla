----------------------------- MODULE OSTaskLife -----------------------------
(***************************************************************************)
(* Tasks that come and go while they wait: OSTaskCreate(), OSTaskDel() and *)
(* OS_TCBInit(), which open their critical sections several times, and     *)
(* OSEventPendMulti() of os_core.c, by which a task waits for any of       *)
(* several events, so that a deletion finds it on several lists.  Of the   *)
(* kinds of events it accepts only semaphores are compiled in.             *)
(***************************************************************************)
EXTENDS OSSem

CONSTANTS
  EventSets,        \* the arrays pevents_pend, as sets
  NewPrios,         \* the priorities tasks are created at and deleted from
  NotMaking

(* What OSTaskCreate() and OSTaskDel() keep between their critical         *)
(* sections.                                                               *)
Makings ==
  [step : {"init", "publish", "link", "giveup"}, prio : Prios, ptcb : Tasks \cup {NoTCB}]
Deletions == [prio : Prios, ptcb : Tasks]

(* An empty array is refused (OS_ERR_PEVENT_NULL).                         *)
ASSUME LifeAssumption ==
  /\ EventSets \subseteq (SUBSET Events) \ {{}}
  /\ NewPrios \subseteq Prios
  /\ NotMaking \notin Makings \cup Deletions

VARIABLES
  asked,            \* pevents_pend of the call a task is in, or {}
  OSTCBFreeList,    \* the TCBs on the free list
  making,           \* OSTaskCreate() in progress: [step, prio, ptcb]
  deleting          \* OSTaskDel() between its critical sections: prio and ptcb

lifeVars == <<OSTCBFreeList, making, deleting>>
callVars == <<checked, asked>>

-----------------------------------------------------------------------------
(* The loop over the event types, and the test of the scheduler lock.      *)
CheckMulti(t, es) ==
  /\ Free(t) /\ asked[t] = {}
  /\ \A e \in es : IsSem(e)
  /\ OSLockNesting = 0
  /\ asked' = [asked EXCEPT ![t] = es]
  /\ UNCHANGED <<coreVars, checked>>

EnterMulti(t) == Calls(t) /\ asked[t] # {}

(* Mutant: the counts are not looked at.                                   *)
Available_All(t) == asked[t]

Available(t) == {e \in asked[t] : OSEventCnt[e] > 0}

(* One token of every semaphore that has one.  A semaphore deleted since   *)
(* the check ends the loop where it stands in the array.                   *)
MultiTake(t) ==
  /\ EnterMulti(t)
  /\ \E es \in SUBSET Available(t) :
       /\ IF \A e \in asked[t] : IsSem(e) THEN es = Available(t) /\ es # {} ELSE TRUE
       /\ OSEventCnt' = [e \in Events |-> OSEventCnt[e] - (IF e \in es THEN 1 ELSE 0)]
  /\ asked' = [asked EXCEPT ![t] = {}]
  /\ UNCHANGED <<tcbVars, tblVars, OSRdyTbl, OSEventType, OSEventTbl, curVars, nestVars, pc,
                 checked>>

(* OS_EventTaskWaitMulti(): on all wait lists at once.                     *)
MultiBlock(t, timeout) ==
  /\ EnterMulti(t)
  /\ \A e \in asked[t] : IsSem(e) /\ OSEventCnt[e] = 0
  /\ OSTCBStat' = [OSTCBStat EXCEPT ![t] = @ \cup {"SEM", "MULTI"}]
  /\ OSTCBStatPend' = [OSTCBStatPend EXCEPT ![t] = "OK"]
  /\ OSTCBDly' = [OSTCBDly EXCEPT ![t] = timeout]
  /\ OSTCBEventPtr' = [OSTCBEventPtr EXCEPT ![t] = NoEvent]
  /\ OSTCBEventMultiPtr' = [OSTCBEventMultiPtr EXCEPT ![t] = asked[t]]
  /\ OSEventTbl' = [e \in Events |-> IF e \in asked[t]
                                       THEN MapSet(OSEventTbl[e], {OSTCBPrio[t]})
                                       ELSE OSEventTbl[e]]
  /\ Unready(t)
  /\ Goto(t, "pend")
  /\ UNCHANGED <<OSTCBPrio, tblVars, OSEventType, OSEventCnt, curVars, nestVars, checked, asked>>

(* Mutant: only the list of the last event is left.                        *)
OffLists_One(t, es) ==
  [e \in Events |-> IF e \in es /\ e = (CHOOSE f \in es : TRUE)
                      THEN MapClr(OSEventTbl[e], {OSTCBPrio[t]}) ELSE OSEventTbl[e]]

(* OS_EventTaskRemoveMulti()                                               *)
OffLists(t, es) ==
  [e \in Events |-> IF e \in es THEN MapClr(OSEventTbl[e], {OSTCBPrio[t]}) ELSE OSEventTbl[e]]

(* The second critical section.  A post or an abort has left its event in  *)
(* OSTCBEventPtr; without one the call has timed out.  When the event it   *)
(* was woken with is no semaphore any more the call returns early and      *)
(* leaves the TCB as it is.                                                *)
MultiReturn(t) ==
  LET woken == OSTCBStatPend[t] \in {"OK", "ABORT"} /\ OSTCBEventPtr[t] # NoEvent
      gone  == woken /\ OSTCBStatPend[t] = "OK" /\ ~IsSem(OSTCBEventPtr[t])
  IN  /\ At(t, "wake") /\ asked[t] # {}
      /\ OSEventTbl' = IF woken THEN OSEventTbl ELSE OffLists(t, asked[t])
      /\ IF gone
           THEN UNCHANGED tcbVars
           ELSE /\ OSTCBStat' = [OSTCBStat EXCEPT ![t] = {}]
                /\ OSTCBStatPend' = [OSTCBStatPend EXCEPT ![t] = "OK"]
                /\ OSTCBEventPtr' = [OSTCBEventPtr EXCEPT ![t] = NoEvent]
                /\ OSTCBEventMultiPtr' = [OSTCBEventMultiPtr EXCEPT ![t] = {}]
                /\ UNCHANGED <<OSTCBPrio, OSTCBDly>>
      /\ asked' = [asked EXCEPT ![t] = {}]
      /\ Goto(t, "run")
      /\ UNCHANGED <<tblVars, OSRdyTbl, OSEventType, OSEventCnt, curVars, nestVars, checked>>

MultiCall(t) == MultiTake(t) \/ \E timeout \in Timeouts : MultiBlock(t, timeout)

-----------------------------------------------------------------------------
(* A task in application code that is in no service.                       *)
Ready4Call(t) ==
  /\ Free(t) /\ asked[t] = {} /\ making[t] = NotMaking /\ deleting[t] = NotMaking

Making(t, step) == Calls(t) /\ making[t] # NotMaking /\ making[t].step = step

(* Mutant: the entry stays free until the TCB is published.                *)
OSTaskCreate_NotReserved(t, prio) ==
  /\ Ready4Call(t)
  /\ OSTCBPrioTbl[prio] = NoTCB
  /\ making' = [making EXCEPT ![t] = [step |-> "init", prio |-> prio, ptcb |-> NoTCB]]
  /\ UNCHANGED <<coreVars, callVars, OSTCBFreeList, deleting>>

(* The priority is reserved.                                               *)
OSTaskCreate(t, prio) ==
  /\ Ready4Call(t)
  /\ OSTCBPrioTbl[prio] = NoTCB
  /\ OSTCBPrioTbl' = [OSTCBPrioTbl EXCEPT ![prio] = Reserved]
  /\ making' = [making EXCEPT ![t] = [step |-> "init", prio |-> prio, ptcb |-> NoTCB]]
  /\ UNCHANGED <<tcbVars, OSTCBList, OSRdyTbl, eventVars, curVars, nestVars, pc, callVars,
                 OSTCBFreeList, deleting>>

(* OS_TCBInit() takes a TCB and fills it in; nobody else knows it yet.     *)
TCBInit(t) ==
  /\ Making(t, "init")
  /\ \E u \in OSTCBFreeList :
       /\ OSTCBFreeList' = OSTCBFreeList \ {u}
       /\ making' = [making EXCEPT ![t].step = "publish", ![t].ptcb = u]
       /\ OSTCBPrio' = [OSTCBPrio EXCEPT ![u] = making[t].prio]
       /\ OSTCBStat' = [OSTCBStat EXCEPT ![u] = {}]
       /\ OSTCBStatPend' = [OSTCBStatPend EXCEPT ![u] = "OK"]
       /\ OSTCBDly' = [OSTCBDly EXCEPT ![u] = 0]
       /\ OSTCBEventPtr' = [OSTCBEventPtr EXCEPT ![u] = NoEvent]
       /\ OSTCBEventMultiPtr' = [OSTCBEventMultiPtr EXCEPT ![u] = {}]
       /\ pc' = [pc EXCEPT ![u] = "run"]
  /\ UNCHANGED <<tblVars, OSRdyTbl, eventVars, curVars, nestVars, callVars, deleting>>

Publish(t) ==
  /\ Making(t, "publish")
  /\ OSTCBPrioTbl' = [OSTCBPrioTbl EXCEPT ![making[t].prio] = making[t].ptcb]
  /\ making' = [making EXCEPT ![t].step = "link"]
  /\ UNCHANGED <<tcbVars, OSTCBList, OSRdyTbl, eventVars, curVars, nestVars, pc, callVars,
                 OSTCBFreeList, deleting>>

Link(t) ==
  LET u == making[t].ptcb
  IN  /\ Making(t, "link")
      /\ OSTCBList' = OSTCBList \cup {u}
      /\ OSRdyTbl' = MapSet(OSRdyTbl, {OSTCBPrio[u]})
      /\ making' = [making EXCEPT ![t] = NotMaking]
      /\ Goto(t, "sched")
      /\ UNCHANGED <<tcbVars, OSTCBPrioTbl, eventVars, curVars, nestVars, callVars,
                     OSTCBFreeList, deleting>>

(* Without a free TCB the priority is given back, some time later.         *)
GiveUp(t) ==
  /\ Making(t, "init") /\ OSTCBFreeList = {}
  /\ making' = [making EXCEPT ![t].step = "giveup"]
  /\ UNCHANGED <<coreVars, callVars, OSTCBFreeList, deleting>>

Unreserve(t) ==
  /\ Making(t, "giveup")
  /\ OSTCBPrioTbl' = [OSTCBPrioTbl EXCEPT ![making[t].prio] = NoTCB]
  /\ making' = [making EXCEPT ![t] = NotMaking]
  /\ UNCHANGED <<tcbVars, OSTCBList, OSRdyTbl, eventVars, curVars, nestVars, pc, callVars,
                 OSTCBFreeList, deleting>>

Creation(t) == TCBInit(t) \/ Publish(t) \/ Link(t) \/ GiveUp(t) \/ Unreserve(t)

(* The first critical section also locks the scheduler; after it           *)
(* interrupts get in once.                                                 *)
OSTaskDel(t, prio) ==
  LET u   == OSTCBPrioTbl[prio]
      off == OSTCBEventMultiPtr[u] \cup ({OSTCBEventPtr[u]} \ {NoEvent})
  IN  /\ Ready4Call(t)
      /\ prio # LowestPrio /\ u \in Tasks
      /\ OSLockNesting < LockNestingMax
      /\ Unready(u)
      /\ OSEventTbl' = OffLists(u, off)
      /\ OSTCBDly' = [OSTCBDly EXCEPT ![u] = 0]
      /\ OSTCBStat' = [OSTCBStat EXCEPT ![u] = {}]
      /\ OSTCBStatPend' = [OSTCBStatPend EXCEPT ![u] = "OK"]
      /\ OSLockNesting' = OSLockNesting + 1
      /\ deleting' = [deleting EXCEPT ![t] = [prio |-> prio, ptcb |-> u]]
      /\ checked' = [checked EXCEPT ![u] = NoEvent]
      /\ asked' = [asked EXCEPT ![u] = {}]
      /\ UNCHANGED <<OSTCBPrio, OSTCBEventPtr, OSTCBEventMultiPtr, tblVars, OSEventType,
                     OSEventCnt, curVars, OSIntNesting, pc, OSTCBFreeList, making>>

(* Mutant: the scheduler is not called at the end.                         *)
OSTaskDelUnlink_NoSched(t) ==
  /\ Calls(t) /\ deleting[t] # NotMaking
  /\ OSLockNesting' = OSLockNesting - 1
  /\ OSTCBPrioTbl' = [OSTCBPrioTbl EXCEPT ![deleting[t].prio] = NoTCB]
  /\ OSTCBList' = OSTCBList \ {deleting[t].ptcb}
  /\ OSTCBFreeList' = OSTCBFreeList \cup {deleting[t].ptcb}
  /\ deleting' = [deleting EXCEPT ![t] = NotMaking]
  /\ UNCHANGED <<tcbVars, OSRdyTbl, eventVars, curVars, OSIntNesting, pc, callVars, making>>

OSTaskDelUnlink(t) ==
  LET u == deleting[t].ptcb
  IN  /\ Calls(t) /\ deleting[t] # NotMaking
      /\ OSLockNesting' = OSLockNesting - 1
      /\ OSTCBPrioTbl' = [OSTCBPrioTbl EXCEPT ![deleting[t].prio] = NoTCB]
      /\ OSTCBList' = OSTCBList \ {u}
      /\ OSTCBFreeList' = OSTCBFreeList \cup {u}
      /\ deleting' = [deleting EXCEPT ![t] = NotMaking]
      /\ Goto(t, "sched")
      /\ UNCHANGED <<tcbVars, OSRdyTbl, eventVars, curVars, OSIntNesting, callVars, making>>
=============================================================================
