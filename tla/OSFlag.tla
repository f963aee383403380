------------------------------- MODULE OSFlag -------------------------------
(***************************************************************************)
(* Event flag groups, os_flag.c.  A flag word is the set of the flags that *)
(* are set.  The wait list of a group links nodes that lie on the stacks   *)
(* of the waiting tasks; a post visits all of them, so the order does not  *)
(* matter and the list is the set of the tasks.  As in os_sem.c the type   *)
(* of the group is looked at before the critical section of a service.     *)
(* OSFlagPend() consumes flags after the task has been woken, in a second  *)
(* critical section.                                                       *)
(***************************************************************************)
EXTENDS OSCore

SetTypes  == {"SET_ALL", "SET_ANY"}
AllTypes  == {"SET_ALL", "CLR_ALL"}
WaitTypes == {"SET_ALL", "SET_ANY", "CLR_ALL", "CLR_ANY"}

CONSTANTS
  Grps, NoGrp,      \* the event flag groups, (OS_FLAG_GRP *)0
  Flags,            \* the bits of OS_FLAGS
  Requests,         \* what OSFlagPend() and OSFlagAccept() are asked to wait for
  FlagSets,         \* the flags OSFlagPost() and OSFlagCreate() are called with
  FlagTimeouts      \* the time-outs of OSFlagPend()

ASSUME FlagAssumption ==
  /\ NoGrp \notin Grps
  /\ Requests \subseteq [flags : SUBSET Flags, type : WaitTypes, consume : BOOLEAN]
  /\ FlagSets \subseteq SUBSET Flags
  /\ FlagTimeouts \subseteq Nat

VARIABLES
  OSFlagType, OSFlagFlags,
  OSFlagWaitList,   \* the tasks whose nodes the wait list of a group links
  OSFlagNode,       \* the node on the stack of a task's OSFlagPend(): group and request
  OSTCBFlagsRdy,    \* the flags that made the task ready
  passed            \* the pgrp of a service that has passed its check

flagVars == <<OSFlagType, OSFlagFlags, OSFlagWaitList, OSFlagNode, OSTCBFlagsRdy>>

IsGrp(g) == OSFlagType[g] = "FLAG"

NoNode == [grp |-> NoGrp, req |-> [flags |-> {}, type |-> "SET_ALL", consume |-> FALSE]]

(* The flags a request finds as it wants them, and whether they suffice.   *)
FlagsRdy(r, flags) == IF r.type \in SetTypes THEN flags \cap r.flags ELSE r.flags \ flags

Met(r, flags) ==
  IF r.type \in AllTypes THEN FlagsRdy(r, flags) = r.flags ELSE FlagsRdy(r, flags) # {}

(* Mutant: all the flags that were asked for are consumed.                 *)
Consumed_Asked(r, flags, rdy) ==
  IF ~r.consume THEN flags
  ELSE IF r.type \in SetTypes THEN flags \ r.flags ELSE flags \cup r.flags

(* "Clear ONLY the flags we got", or set them for a wait on clear flags.   *)
Consumed(r, flags, rdy) ==
  IF ~r.consume THEN flags
  ELSE IF r.type \in SetTypes THEN flags \ rdy ELSE flags \cup rdy

-----------------------------------------------------------------------------
FreeForFlags(t) == Calls(t) /\ passed[t] = NoGrp

CheckGrp(t, g) ==
  /\ FreeForFlags(t) /\ IsGrp(g)
  /\ passed' = [passed EXCEPT ![t] = g]
  /\ UNCHANGED <<coreVars, flagVars>>

(* OS_ENTER_CRITICAL() of the service.                                     *)
EnterGrp(t, g) ==
  /\ Calls(t) /\ passed[t] = g
  /\ passed' = [passed EXCEPT ![t] = NoGrp]

(* OS_FlagUnlink() of the nodes of the tasks ts.                           *)
OS_FlagUnlink(ts) ==
  OSFlagWaitList' = [g \in Grps |-> OSFlagWaitList[g] \ ts]

(* OS_FlagTaskRdy() for each of the tasks ts; got says with which flags.   *)
OS_FlagTaskRdy(ts, got) ==
  /\ OSTCBDly' = [t \in Tasks |-> IF t \in ts THEN 0 ELSE OSTCBDly[t]]
  /\ OSTCBFlagsRdy' = [t \in Tasks |-> IF t \in ts THEN got[t] ELSE OSTCBFlagsRdy[t]]
  /\ OSTCBStat' = [t \in Tasks |-> IF t \in ts THEN OSTCBStat[t] \ {"FLAG"} ELSE OSTCBStat[t]]
  /\ OSTCBStatPend' = [t \in Tasks |-> IF t \in ts THEN "OK" ELSE OSTCBStatPend[t]]
  /\ OSRdyTbl' = MapSet(OSRdyTbl, {OSTCBPrio[t] : t \in {u \in ts : OSTCBStat'[u] = {}}})
  /\ OS_FlagUnlink(ts)

(* What OSFlagPost() does with the outcome of OS_FlagTaskRdy(): a task that *)
(* was made ready calls for the scheduler.                                 *)
SchedIfReadied(t, ts) ==
  IF \E u \in ts : OSTCBStat'[u] = {} THEN Goto(t, "sched") ELSE UNCHANGED pc

-----------------------------------------------------------------------------
OSFlagCreate(t, g, fs) ==
  /\ FreeForFlags(t)
  /\ OSFlagType[g] = "UNUSED"
  /\ OSFlagType' = [OSFlagType EXCEPT ![g] = "FLAG"]
  /\ OSFlagFlags' = [OSFlagFlags EXCEPT ![g] = fs]
  /\ OSFlagWaitList' = [OSFlagWaitList EXCEPT ![g] = {}]
  /\ UNCHANGED <<coreVars, OSFlagNode, OSTCBFlagsRdy, passed>>

(* The group goes back to the free list.                                   *)
FreeGrp(g) ==
  /\ OSFlagType' = [OSFlagType EXCEPT ![g] = "UNUSED"]
  /\ OSFlagFlags' = [OSFlagFlags EXCEPT ![g] = {}]

OSFlagDelNoPend(t, g) ==
  /\ EnterGrp(t, g)
  /\ OSFlagWaitList[g] = {}
  /\ FreeGrp(g)
  /\ UNCHANGED <<coreVars, OSFlagWaitList, OSFlagNode, OSTCBFlagsRdy>>

(* All waiting tasks are readied, with no flags.                           *)
OSFlagDelAlways(t, g) ==
  LET ts == OSFlagWaitList[g]
  IN  /\ EnterGrp(t, g)
      /\ OS_FlagTaskRdy(ts, [u \in Tasks |-> {}])
      /\ FreeGrp(g)
      /\ IF ts # {} THEN Goto(t, "sched") ELSE UNCHANGED pc
      /\ UNCHANGED <<OSTCBPrio, OSTCBEventPtr, OSTCBEventMultiPtr, tblVars, eventVars,
                     curVars, nestVars, OSFlagNode>>

OSFlagAccept(t, g, r) ==
  /\ EnterGrp(t, g)
  /\ Met(r, OSFlagFlags[g])
  /\ OSFlagFlags' = [OSFlagFlags EXCEPT ![g] = Consumed(r, @, FlagsRdy(r, @))]
  /\ UNCHANGED <<coreVars, OSFlagType, OSFlagWaitList, OSFlagNode, OSTCBFlagsRdy>>

OSFlagPendTake(t, g, r) ==
  /\ EnterGrp(t, g)
  /\ OSLockNesting = 0
  /\ Met(r, OSFlagFlags[g])
  /\ OSFlagFlags' = [OSFlagFlags EXCEPT ![g] = Consumed(r, @, FlagsRdy(r, @))]
  /\ OSTCBFlagsRdy' = [OSTCBFlagsRdy EXCEPT ![t] = FlagsRdy(r, OSFlagFlags[g])]
  /\ UNCHANGED <<coreVars, OSFlagType, OSFlagWaitList, OSFlagNode>>

(* The first critical section of a pend that has to wait: OS_FlagBlock().  *)
OSFlagPendBlock(t, g, r, timeout) ==
  /\ EnterGrp(t, g)
  /\ OSLockNesting = 0
  /\ ~Met(r, OSFlagFlags[g])
  /\ OSTCBStat' = [OSTCBStat EXCEPT ![t] = @ \cup {"FLAG"}]
  /\ OSTCBStatPend' = [OSTCBStatPend EXCEPT ![t] = "OK"]
  /\ OSTCBDly' = [OSTCBDly EXCEPT ![t] = timeout]
  /\ OSFlagNode' = [OSFlagNode EXCEPT ![t] = [grp |-> g, req |-> r]]
  /\ OSFlagWaitList' = [OSFlagWaitList EXCEPT ![g] = @ \cup {t}]
  /\ Unready(t)
  /\ Goto(t, "pend")
  /\ UNCHANGED <<OSTCBPrio, OSTCBEventPtr, OSTCBEventMultiPtr, tblVars, eventVars,
                 curVars, nestVars, OSFlagType, OSFlagFlags, OSTCBFlagsRdy>>

(* The second critical section: a task that was woken with flags consumes  *)
(* them from the group as it is now.  The node is gone after it.           *)
OSFlagPendGot(t) ==
  LET r == OSFlagNode[t].req
  IN  /\ At(t, "wake")
      /\ OSTCBStatPend[t] = "OK"
      /\ OSFlagFlags' = [OSFlagFlags EXCEPT ![OSFlagNode[t].grp] =
                           Consumed(r, @, OSTCBFlagsRdy[t])]
      /\ OSFlagNode' = [OSFlagNode EXCEPT ![t] = NoNode]
      /\ Goto(t, "run")
      /\ UNCHANGED <<tcbVars, tblVars, OSRdyTbl, eventVars, curVars, nestVars,
                     OSFlagType, OSFlagWaitList, OSTCBFlagsRdy>>

(* Mutant: a task that timed out leaves its node in the list.              *)
OSFlagPendTimedOut_Linked(t) ==
  /\ At(t, "wake")
  /\ OSTCBStatPend[t] # "OK"
  /\ OSTCBStatPend' = [OSTCBStatPend EXCEPT ![t] = "OK"]
  /\ OSTCBStat' = [OSTCBStat EXCEPT ![t] = {}]
  /\ OSFlagNode' = [OSFlagNode EXCEPT ![t] = NoNode]
  /\ Goto(t, "run")
  /\ UNCHANGED <<OSTCBPrio, OSTCBDly, OSTCBEventPtr, OSTCBEventMultiPtr, tblVars, OSRdyTbl,
                 eventVars, curVars, nestVars, OSFlagType, OSFlagFlags, OSFlagWaitList,
                 OSTCBFlagsRdy>>

OSFlagPendTimedOut(t) ==
  /\ At(t, "wake")
  /\ OSTCBStatPend[t] # "OK"
  /\ OSTCBStatPend' = [OSTCBStatPend EXCEPT ![t] = "OK"]
  /\ OSTCBStat' = [OSTCBStat EXCEPT ![t] = {}]
  /\ OS_FlagUnlink({t})
  /\ OSFlagNode' = [OSFlagNode EXCEPT ![t] = NoNode]
  /\ Goto(t, "run")
  /\ UNCHANGED <<OSTCBPrio, OSTCBDly, OSTCBEventPtr, OSTCBEventMultiPtr, tblVars, OSRdyTbl,
                 eventVars, curVars, nestVars, OSFlagType, OSFlagFlags, OSTCBFlagsRdy>>

(* Mutant: a post looks only at the tasks that wait for set flags.         *)
Matching_SetOnly(g, flags) ==
  {t \in OSFlagWaitList[g] : OSFlagNode[t].req.type \in SetTypes
                               /\ Met(OSFlagNode[t].req, flags)}

(* The waiting tasks whose requests the new flags meet.                    *)
Matching(g, flags) == {t \in OSFlagWaitList[g] : Met(OSFlagNode[t].req, flags)}

(* OSFlagPost() sets or clears flags and readies the tasks that match.     *)
Post(g, flags) ==
  /\ OSFlagFlags' = [OSFlagFlags EXCEPT ![g] = flags]
  /\ OS_FlagTaskRdy(Matching(g, flags),
                    [t \in Tasks |-> FlagsRdy(OSFlagNode[t].req, flags)])
  /\ UNCHANGED <<OSTCBPrio, OSTCBEventPtr, OSTCBEventMultiPtr, tblVars, eventVars,
                 OSFlagType, OSFlagNode>>

Posted(g, fs, opt) == IF opt = "SET" THEN OSFlagFlags[g] \cup fs ELSE OSFlagFlags[g] \ fs

(* Mutant: a post that readied a task returns without OS_Sched().          *)
OSFlagPost_NoSched(t, g, fs, opt) ==
  /\ EnterGrp(t, g)
  /\ Post(g, Posted(g, fs, opt))
  /\ UNCHANGED <<curVars, nestVars, pc>>

OSFlagPost(t, g, fs, opt) ==
  LET flags == Posted(g, fs, opt)
  IN  /\ EnterGrp(t, g)
      /\ Post(g, flags)
      /\ SchedIfReadied(t, Matching(g, flags))
      /\ UNCHANGED <<curVars, nestVars>>

FlagPostISR(g, fs, opt) ==
  /\ EnterISR /\ IsGrp(g)
  /\ Post(g, Posted(g, fs, opt))
  /\ UNCHANGED passed

(* A service that finds nothing to do: OSFlagQuery(), an accept or a pend  *)
(* that may not wait.                                                      *)
OSFlagUnchanged(t, g) == EnterGrp(t, g) /\ UNCHANGED <<coreVars, flagVars>>

FlagCall(t, g) ==
  \/ \E r \in Requests :
       \/ OSFlagAccept(t, g, r)
       \/ OSFlagPendTake(t, g, r)
       \/ \E timeout \in FlagTimeouts : OSFlagPendBlock(t, g, r, timeout)
  \/ \E fs \in FlagSets, opt \in {"SET", "CLR"} : OSFlagPost(t, g, fs, opt)
  \/ OSFlagUnchanged(t, g)

FlagDelete(t, g) == OSFlagDelNoPend(t, g) \/ OSFlagDelAlways(t, g)

FlagPendReturn(t) == OSFlagPendGot(t) \/ OSFlagPendTimedOut(t)
=============================================================================
