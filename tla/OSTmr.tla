------------------------------- MODULE OSTmr -------------------------------
(***************************************************************************)
(* os_tmr.c: timers on a wheel of doubly linked lists, the task that walks *)
(* a list at every signal, and the services, which run under the scheduler *)
(* lock and so only before a walk, after it or in the call-back of one.    *)
(***************************************************************************)
EXTENDS Integers, Sequences, FiniteSets

CONSTANTS
  OSTmrTbl,     \* the timers, a sequence
  NULL,
  TimeModulus,  \* INT32U: OSTmrTime and OSTmrMatch wrap here
  WheelSize,    \* OS_TMR_CFG_WHEEL_SIZE
  Settings,     \* [opt, dly, period] a caller may ask for
  SignalMax     \* BOUND on the count of OSTmrSemSignal (65535 in the code)

Timers == {OSTmrTbl[i] : i \in DOMAIN OSTmrTbl}
Opts == {"ONE_SHOT", "PERIODIC"}

ASSUME TmrAssumption ==
  /\ OSTmrTbl \in Seq(Timers) /\ 2 <= Len(OSTmrTbl) /\ Len(OSTmrTbl) <= 65500
  /\ \A i, j \in DOMAIN OSTmrTbl : OSTmrTbl[i] = OSTmrTbl[j] => i = j
  /\ TimeModulus \in Nat \ {0}
  /\ Settings \subseteq [opt : Opts, dly : 0 .. TimeModulus - 1, period : 0 .. TimeModulus - 1]
  /\ WheelSize \in Nat \ {0} /\ SignalMax \in Nat \ {0}
  /\ NULL \notin Timers

VARIABLES
  OSTmrState, OSTmrOpt, OSTmrDly, OSTmrPeriod, OSTmrMatch,
  OSTmrNext, OSTmrPrev,
  OSTmrFirst,           \* of each spoke of OSTmrWheelTbl
  OSTmrEntries,
  OSTmrFreeList, OSTmrTime,
  OSTmrSignalCnt,       \* OSEventCnt of OSTmrSemSignal
  ptmr, ptmr_next,      \* locals of OSTmr_Task
  at,                   \* where OSTmr_Task is: "pend", "walk", "callback"
  fault                 \* a list pointer was followed that is null

tmrs == <<OSTmrState, OSTmrOpt, OSTmrDly, OSTmrPeriod>>
links == <<OSTmrNext, OSTmrPrev, OSTmrFirst, OSTmrEntries, OSTmrMatch>>
task == <<ptmr, ptmr_next, at>>
clock == <<OSTmrTime, OSTmrSignalCnt>>
tmrVars == <<tmrs, links, task, clock, OSTmrFreeList, fault>>

States == {"UNUSED", "STOPPED", "COMPLETED", "RUNNING"}
Spokes == 0 .. WheelSize - 1
Spoke(match) == match % WheelSize

(* The lists as they are before, or in the middle of, a service.           *)
Lists ==
  [next |-> OSTmrNext, prev |-> OSTmrPrev, first |-> OSTmrFirst,
   entries |-> OSTmrEntries, match |-> OSTmrMatch, fault |-> fault]

BecomeLists(l) ==
  /\ OSTmrNext' = l.next /\ OSTmrPrev' = l.prev
  /\ OSTmrFirst' = l.first /\ OSTmrEntries' = l.entries
  /\ OSTmrMatch' = l.match /\ fault' = l.fault

(* The new timer goes to the front of the spoke of its match value.        *)
OSTmr_Link(l, p, ticks, time) ==
  LET match == (ticks + time) % TimeModulus
      s     == Spoke(match)
      old   == l.first[s]
  IN  [l EXCEPT
        !.match[p]   = match,
        !.first[s]   = p,
        !.next[p]    = old,
        !.prev       = [q \in Timers |-> IF q = p THEN NULL
                                         ELSE IF q = old THEN p ELSE @[q]],
        !.entries[s] = IF old = NULL THEN 1 ELSE @ + 1]

(* A timer that is not the first of its spoke is taken out between its two *)
(* neighbours, and without a neighbour before it the code writes to the    *)
(* null pointer.                                                           *)
OSTmr_Unlink(l, p) ==
  LET s == Spoke(l.match[p])
      n == l.next[p]
      b == l.prev[p]
      isFirst == l.first[s] = p
  IN  [l EXCEPT
        !.first[s]   = IF isFirst THEN n ELSE @,
        !.next       = [q \in Timers |-> IF q = p THEN NULL
                                         ELSE IF ~isFirst /\ q = b THEN n ELSE @[q]],
        !.prev       = [q \in Timers |-> IF q = p THEN NULL
                                         ELSE IF q = n THEN (IF isFirst THEN NULL ELSE b)
                                         ELSE @[q]],
        !.entries[s] = (@ - 1) % 65536,
        !.fault      = @ \/ (~isFirst /\ b = NULL)]

FirstDelay(p) == IF OSTmrDly[p] = 0 THEN OSTmrPeriod[p] ELSE OSTmrDly[p]

OSTmr_Init ==
  /\ OSTmrFreeList = OSTmrTbl[1]
  /\ OSTmrNext = [p \in Timers |->
                    LET i == CHOOSE i \in DOMAIN OSTmrTbl : OSTmrTbl[i] = p
                    IN  IF i = Len(OSTmrTbl) THEN NULL ELSE OSTmrTbl[i + 1]]
  /\ OSTmrPrev = [p \in Timers |-> NULL]
  /\ OSTmrFirst = [s \in Spokes |-> NULL]
  /\ OSTmrEntries = [s \in Spokes |-> 0]
  /\ OSTmrState = [p \in Timers |-> "UNUSED"]
  /\ OSTmrOpt = [p \in Timers |-> "NONE"]
  /\ OSTmrDly = [p \in Timers |-> 0]
  /\ OSTmrPeriod = [p \in Timers |-> 0]
  /\ OSTmrMatch = [p \in Timers |-> 0]
  /\ OSTmrTime = 0 /\ OSTmrSignalCnt = 0
  /\ ptmr = NULL /\ ptmr_next = NULL /\ at = "pend"
  /\ fault = FALSE

-----------------------------------------------------------------------------
(* The services.                                                           *)

ValidTimes(set) == IF set.opt = "PERIODIC" THEN set.period # 0 ELSE set.dly # 0

OSTmrCreate(set) ==
  /\ ValidTimes(set)
  /\ OSTmrFreeList # NULL
  /\ LET p == OSTmrFreeList
     IN  /\ OSTmrFreeList' = OSTmrNext[p]
         /\ OSTmrNext' = [OSTmrNext EXCEPT ![p] = NULL]
         /\ OSTmrPrev' = [OSTmrPrev EXCEPT ![p] = NULL]
         /\ OSTmrState' = [OSTmrState EXCEPT ![p] = "STOPPED"]
         /\ OSTmrOpt' = [OSTmrOpt EXCEPT ![p] = set.opt]
         /\ OSTmrDly' = [OSTmrDly EXCEPT ![p] = set.dly]
         /\ OSTmrPeriod' = [OSTmrPeriod EXCEPT ![p] = set.period]
  /\ UNCHANGED <<OSTmrFirst, OSTmrEntries, OSTmrMatch, fault>>

OSTmr_Free(l, p) ==
  /\ BecomeLists([l EXCEPT !.next[p] = OSTmrFreeList, !.prev[p] = NULL, !.match[p] = 0])
  /\ OSTmrFreeList' = p
  /\ OSTmrState' = [OSTmrState EXCEPT ![p] = "UNUSED"]
  /\ OSTmrOpt' = [OSTmrOpt EXCEPT ![p] = "NONE"]
  /\ OSTmrPeriod' = [OSTmrPeriod EXCEPT ![p] = 0]
  /\ UNCHANGED OSTmrDly

(* Mutant: a running timer is not taken off its spoke.                     *)
OSTmrDel_StillLinked(p) == OSTmrState[p] # "UNUSED" /\ OSTmr_Free(Lists, p)

OSTmrDel(p) ==
  /\ OSTmrState[p] # "UNUSED"
  /\ OSTmr_Free(IF OSTmrState[p] = "RUNNING" THEN OSTmr_Unlink(Lists, p) ELSE Lists, p)

OSTmrStart(p) ==
  /\ OSTmrState[p] # "UNUSED"
  /\ LET l == IF OSTmrState[p] = "RUNNING" THEN OSTmr_Unlink(Lists, p) ELSE Lists
     IN  BecomeLists(OSTmr_Link(l, p, FirstDelay(p), OSTmrTime))
  /\ OSTmrState' = [OSTmrState EXCEPT ![p] = "RUNNING"]
  /\ UNCHANGED <<OSTmrOpt, OSTmrDly, OSTmrPeriod, OSTmrFreeList>>

(* OSTmrStop(): on a timer that is not running it changes nothing.         *)
OSTmrStop(p) ==
  /\ OSTmrState[p] = "RUNNING"
  /\ BecomeLists(OSTmr_Unlink(Lists, p))
  /\ OSTmrState' = [OSTmrState EXCEPT ![p] = "STOPPED"]
  /\ UNCHANGED <<OSTmrOpt, OSTmrDly, OSTmrPeriod, OSTmrFreeList>>

OSTmrRemainGet(p) ==
  CASE OSTmrState[p] = "RUNNING" -> (OSTmrMatch[p] - OSTmrTime) % TimeModulus
    [] OSTmrState[p] = "STOPPED" -> IF OSTmrOpt[p] = "PERIODIC" THEN FirstDelay(p)
                                                               ELSE OSTmrDly[p]
    [] OTHER -> 0

(* OSTmrStateGet() and OSTmrRemainGet() change nothing.                    *)

ServiceOn(p) == OSTmrDel(p) \/ OSTmrStart(p) \/ OSTmrStop(p)

-----------------------------------------------------------------------------
(* The tick interrupt and the timer task.                                  *)

(* OSTimeTickHook() signals at every n-th tick; a full semaphore refuses.  *)
OSTmrSignal ==
  /\ OSTmrSignalCnt < SignalMax
  /\ OSTmrSignalCnt' = OSTmrSignalCnt + 1
  /\ UNCHANGED <<tmrs, links, task, OSTmrTime, OSTmrFreeList, fault>>

WalkFrom(p) == IF p = NULL THEN at' = "pend" ELSE at' = "walk"

(* Mutant: the time is not advanced.                                       *)
TmrTaskSignalled_SameTime ==
  /\ at = "pend" /\ OSTmrSignalCnt > 0
  /\ OSTmrSignalCnt' = OSTmrSignalCnt - 1
  /\ ptmr' = OSTmrFirst[Spoke(OSTmrTime)]
  /\ WalkFrom(ptmr')
  /\ UNCHANGED <<tmrs, links, OSTmrTime, ptmr_next, OSTmrFreeList, fault>>

TmrTaskSignalled ==
  /\ at = "pend" /\ OSTmrSignalCnt > 0
  /\ OSTmrSignalCnt' = OSTmrSignalCnt - 1
  /\ OSTmrTime' = (OSTmrTime + 1) % TimeModulus
  /\ ptmr' = OSTmrFirst[Spoke(OSTmrTime')]
  /\ WalkFrom(ptmr')
  /\ UNCHANGED <<tmrs, links, ptmr_next, OSTmrFreeList, fault>>

Expired(p) == OSTmrTime = OSTmrMatch[p]

Skip(p) ==
  /\ ~Expired(p)
  /\ ptmr' = OSTmrNext[p]
  /\ ptmr_next' = OSTmrNext[p]
  /\ WalkFrom(ptmr')
  /\ UNCHANGED <<tmrs, links, fault>>

(* Mutant: a timer is linked with its delay, and a one-shot one anew.      *)
Fire_FirstDelay(p) ==
  /\ Expired(p)
  /\ ptmr_next' = OSTmrNext[p]
  /\ BecomeLists(OSTmr_Link(OSTmr_Unlink(Lists, p), p, FirstDelay(p), OSTmrTime))
  /\ OSTmrState' = [OSTmrState EXCEPT ![p] = "RUNNING"]
  /\ at' = "callback"
  /\ UNCHANGED <<OSTmrOpt, OSTmrDly, OSTmrPeriod, ptmr>>

(* A timer that expires is linked anew or completed before its call-back.  *)
Fire(p) ==
  /\ Expired(p)
  /\ ptmr_next' = OSTmrNext[p]
  /\ LET l == OSTmr_Unlink(Lists, p)
     IN  IF OSTmrOpt[p] = "PERIODIC"
           THEN /\ BecomeLists(OSTmr_Link(l, p, OSTmrPeriod[p], OSTmrTime))
                /\ OSTmrState' = [OSTmrState EXCEPT ![p] = "RUNNING"]
           ELSE /\ BecomeLists(l)
                /\ OSTmrState' = [OSTmrState EXCEPT ![p] = "COMPLETED"]
  /\ at' = "callback"
  /\ UNCHANGED <<OSTmrOpt, OSTmrDly, OSTmrPeriod, ptmr>>

TmrTaskStep ==
  /\ at = "walk"
  /\ Skip(ptmr) \/ Fire(ptmr)
  /\ UNCHANGED <<clock, OSTmrFreeList>>

(* The call-back has returned, or there was none.                          *)
TmrTaskAdvance ==
  /\ at = "callback"
  /\ ptmr' = ptmr_next
  /\ WalkFrom(ptmr')
  /\ UNCHANGED <<tmrs, links, clock, ptmr_next, OSTmrFreeList, fault>>
=============================================================================
