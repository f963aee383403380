----------------------------- MODULE FlagSystem -----------------------------
(***************************************************************************)
(* The kernel with event flag groups, delays and suspension, the tick, and *)
(* a device that posts flags from its interrupt.                           *)
(***************************************************************************)
EXTENDS OSFlag, OSTime, OSTask

vars == <<coreVars, flagVars, passed>>

Init ==
  /\ CoreInit
  /\ OSEventType = [e \in Events |-> "UNUSED"]
  /\ OSEventCnt = [e \in Events |-> 0]
  /\ OSEventTbl = [e \in Events |-> EmptyMap]
  /\ OSFlagType = [g \in Grps |-> "UNUSED"]
  /\ OSFlagFlags = [g \in Grps |-> {}]
  /\ OSFlagWaitList = [g \in Grps |-> {}]
  /\ OSFlagNode = [t \in Tasks |-> NoNode]
  /\ OSTCBFlagsRdy = [t \in Tasks |-> {}]
  /\ passed = [t \in Tasks |-> NoGrp]

(* Nobody else is between the check and the critical section of a service. *)
CarefulFlagDelete(t, g) ==
  /\ \A u \in Tasks \ {t} : passed[u] # g
  /\ FlagDelete(t, g)

FlagStep(t, g) ==
  \/ \E fs \in FlagSets : OSFlagCreate(t, g, fs)
  \/ CheckGrp(t, g)
  \/ FlagCall(t, g)
  \/ CarefulFlagDelete(t, g)

OtherStep(t) ==
  /\ FreeForFlags(t)
  /\ TimeCall(t) \/ TaskCall(t) \/ OSSchedLock(t) \/ OSSchedUnlock(t)
  /\ UNCHANGED <<flagVars, passed>>

KernelStep(t) ==
  \/ OS_Sched(t) /\ UNCHANGED <<flagVars, passed>>
  \/ FlagPendReturn(t) /\ UNCHANGED passed

DeviceISR == \E g \in Grps, fs \in FlagSets, opt \in {"SET", "CLR"} : FlagPostISR(g, fs, opt)

Interrupt == (TickISR \/ OSIntExit) /\ UNCHANGED <<flagVars, passed>>

Next ==
  \/ \E t \in Tasks, g \in Grps : FlagStep(t, g)
  \/ \E t \in Tasks : OtherStep(t) \/ KernelStep(t)
  \/ DeviceISR \/ Interrupt

Spec == Init /\ [][Next]_vars

-----------------------------------------------------------------------------
InPend(t) == pc[t] \in {"pend", "wake"}

(* The wait list of a group links the nodes of exactly the tasks that wait *)
(* on it or have timed out and not run since.  A node lies on the stack of *)
(* a call: one that stayed linked after it would be overwritten, and one   *)
(* unlinked early would miss its post.                                     *)
FlagListExact ==
  \A g \in Grps :
    OSFlagWaitList[g] = {t \in Tasks : /\ InPend(t) /\ OSFlagNode[t].grp = g
                                       /\ "FLAG" \in OSTCBStat[t] \/ OSTCBStatPend[t] = "TO"}

(* Several tasks readied by one post enter and leave the right lists, also *)
(* those that are suspended or whose time-out has run out.                 *)
ListsOfFlagsExact == ReadyListExact /\ FlagListExact

(* No task sleeps on a group whose flags meet its request: OS_FlagBlock()  *)
(* puts a task to sleep "until the desired event flag bit(s) are set".     *)
NoSatisfiedWaiter ==
  \A t \in Tasks :
    "FLAG" \in OSTCBStat[t] => ~Met(OSFlagNode[t].req, OSFlagFlags[OSFlagNode[t].grp])

-----------------------------------------------------------------------------
(* The call of OSFlagPend() of each task, read off its TCB and its node.   *)
PendCall(t) ==
  LET state == IF "FLAG" \in OSTCBStat[t] THEN "waiting" ELSE "expired"
  IN  IF ~InPend(t) THEN [state |-> "idle"]
      ELSE IF state = "waiting" \/ OSTCBStatPend[t] = "TO"
             THEN [state |-> state, on |-> OSFlagNode[t].grp, ask |-> OSFlagNode[t].req]
      ELSE [state |-> "granted", on |-> OSFlagNode[t].grp, ask |-> OSFlagNode[t].req,
            got |-> OSTCBFlagsRdy[t]]

Abs == INSTANCE FlagAbs WITH
  Waiters <- Tasks,
  Groups  <- Grps,
  Asks    <- Requests,
  Masks   <- FlagSets,
  live    <- [g \in Grps |-> IsGrp(g)],
  flags   <- OSFlagFlags,
  call    <- [t \in Tasks |-> PendCall(t)]

(* One post serves every call it satisfies, also one that has just timed   *)
(* out; a call returns the flags that satisfied it, whatever happened to   *)
(* the group between the post and its return, and consumes only those.     *)
ImplementsFlags == Abs!AbsSpec
=============================================================================
