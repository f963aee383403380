-------------------------------- MODULE OSTask --------------------------------
(***************************************************************************)
(* Suspension of tasks, os_task.c.  The services name a task by a          *)
(* priority and look it up in OSTCBPrioTbl.                                *)
(***************************************************************************)
EXTENDS OSCore

(* prio is the argument after OS_PRIO_SELF has been replaced: a task that  *)
(* suspends itself goes to the scheduler, one that suspends another task   *)
(* does not, and which of the two it is comes from the priority only.      *)
OSTaskSuspend(t, prio) ==
  LET u == OSTCBPrioTbl[prio]
  IN  /\ Calls(t)
      /\ prio < LowestPrio
      /\ u \in Tasks
      /\ Unready(u)
      /\ OSTCBStat' = [OSTCBStat EXCEPT ![u] = @ \cup {"SUSPEND"}]
      /\ IF prio = OSTCBPrio[t] THEN Goto(t, "sched") ELSE UNCHANGED pc
      /\ UNCHANGED <<OSTCBPrio, OSTCBStatPend, OSTCBDly, OSTCBEventPtr, OSTCBEventMultiPtr,
                     tblVars, eventVars, curVars, nestVars>>

(* Mutant: a task that is still delayed is made ready.                     *)
OSTaskResume_IgnoresDly(t, prio) ==
  LET u    == OSTCBPrioTbl[prio]
      stat == OSTCBStat[u] \ {"SUSPEND"}
  IN  /\ Calls(t)
      /\ prio < LowestPrio
      /\ u \in Tasks
      /\ "SUSPEND" \in OSTCBStat[u]
      /\ OSTCBStat' = [OSTCBStat EXCEPT ![u] = stat]
      /\ IF stat = {}
           THEN OSRdyTbl' = MapSet(OSRdyTbl, {OSTCBPrio[u]}) /\ Goto(t, "sched")
           ELSE UNCHANGED <<OSRdyTbl, pc>>
      /\ UNCHANGED <<OSTCBPrio, OSTCBStatPend, OSTCBDly, OSTCBEventPtr, OSTCBEventMultiPtr,
                     tblVars, eventVars, curVars, nestVars>>

OSTaskResume(t, prio) ==
  LET u    == OSTCBPrioTbl[prio]
      stat == OSTCBStat[u] \ {"SUSPEND"}
  IN  /\ Calls(t)
      /\ prio < LowestPrio
      /\ u \in Tasks
      /\ "SUSPEND" \in OSTCBStat[u]
      /\ OSTCBStat' = [OSTCBStat EXCEPT ![u] = stat]
      /\ IF stat = {} /\ OSTCBDly[u] = 0
           THEN OSRdyTbl' = MapSet(OSRdyTbl, {OSTCBPrio[u]}) /\ Goto(t, "sched")
           ELSE UNCHANGED <<OSRdyTbl, pc>>
      /\ UNCHANGED <<OSTCBPrio, OSTCBStatPend, OSTCBDly, OSTCBEventPtr, OSTCBEventMultiPtr,
                     tblVars, eventVars, curVars, nestVars>>

TaskCall(t) ==
  \E prio \in Prios : OSTaskSuspend(t, prio) \/ OSTaskResume(t, prio)
=============================================================================
