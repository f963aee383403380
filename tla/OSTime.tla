-------------------------------- MODULE OSTime --------------------------------
(***************************************************************************)
(* Delays, os_time.c.  OSTimeDlyHMSM() computes a number of ticks and      *)
(* calls OSTimeDly(); the clock OSTime of OSTimeGet() and OSTimeSet()      *)
(* reaches no other state and is left out.                                 *)
(***************************************************************************)
EXTENDS OSCore

CONSTANT Delays         \* the ticks OSTimeDly() is called with

ASSUME TimeAssumption == Delays \subseteq Nat \ {0}

OSTimeDly(t, ticks) ==
  /\ Calls(t)
  /\ OSLockNesting = 0
  /\ Unready(t)
  /\ OSTCBDly' = [OSTCBDly EXCEPT ![t] = ticks]
  /\ Goto(t, "sched")
  /\ UNCHANGED <<OSTCBPrio, OSTCBStat, OSTCBStatPend, OSTCBEventPtr, OSTCBEventMultiPtr,
                 tblVars, eventVars, curVars, nestVars>>

(* A delayed task, or one that pends with a time-out, is resumed early.    *)
OSTimeDlyResume(t, prio) ==
  LET u == OSTCBPrioTbl[prio]
  IN  /\ Calls(t)
      /\ prio < LowestPrio
      /\ u \in Tasks
      /\ OSTCBDly[u] # 0
      /\ Expire({u}, [OSTCBDly EXCEPT ![u] = 0])
      /\ IF "SUSPEND" \notin OSTCBStat[u] THEN Goto(t, "sched") ELSE UNCHANGED pc
      /\ UNCHANGED <<OSTCBPrio, OSTCBEventPtr, OSTCBEventMultiPtr, tblVars, eventVars,
                     curVars, nestVars>>

TimeCall(t) ==
  \/ \E ticks \in Delays : OSTimeDly(t, ticks)
  \/ \E prio \in Prios : OSTimeDlyResume(t, prio)
=============================================================================
