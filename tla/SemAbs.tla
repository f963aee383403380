------------------------------- MODULE SemAbs -------------------------------
(***************************************************************************)
(* What os_sem.c promises its callers, without ready list, wait bitmaps,   *)
(* scheduler or critical sections: the specification the kernel is shown   *)
(* to implement.  A call of OSSemPend() that has to wait ends in one of    *)
(* three ways, and which one is settled by the last post, abort, deletion  *)
(* or time-out that reached the task before it ran.                        *)
(***************************************************************************)
EXTENDS Integers

CONSTANTS Waiters, Sems, Rank, CntMax, Cnts

VARIABLES
  live,         \* does the semaphore exist
  count,
  on,           \* the semaphore a task waits on, or has waited on
  state         \* how far its call of OSSemPend() is

absVars == <<live, count, on, state>>

NoSem == "none"
States == {"idle", "waiting", "expired", "acquired", "aborted"}

AbsInit ==
  /\ live = [e \in Sems |-> FALSE]
  /\ count = [e \in Sems |-> 0]
  /\ on = [t \in Waiters |-> NoSem]
  /\ state = [t \in Waiters |-> "idle"]

(* A task that timed out can still be reached until it runs.               *)
Reachable(e) == {t \in Waiters : on[t] = e /\ state[t] \in {"waiting", "expired"}}
First(e) == {t \in Reachable(e) : \A u \in Reachable(e) : Rank[t] <= Rank[u]}

Settle(ts, result) ==
  state' = [t \in Waiters |-> IF t \in ts THEN result ELSE state[t]]

Create(e, n) ==
  /\ ~live[e]
  /\ live' = [live EXCEPT ![e] = TRUE]
  /\ count' = [count EXCEPT ![e] = n]
  /\ UNCHANGED <<on, state>>

Take(e) ==
  /\ live[e] /\ count[e] > 0
  /\ count' = [count EXCEPT ![e] = @ - 1]
  /\ UNCHANGED <<live, on, state>>

Wait(t, e) ==
  /\ live[e] /\ count[e] = 0
  /\ state[t] = "idle"
  /\ Settle({t}, "waiting")
  /\ on' = [on EXCEPT ![t] = e]
  /\ UNCHANGED <<live, count>>

(* One post is one token: for the first task that can be reached, or for   *)
(* the count when there is none.                                           *)
Signal(e) ==
  /\ live[e]
  /\ IF Reachable(e) # {}
       THEN Settle(First(e), "acquired") /\ UNCHANGED count
       ELSE count[e] < CntMax /\ count' = [count EXCEPT ![e] = @ + 1] /\ UNCHANGED state
  /\ UNCHANGED <<live, on>>

Set(e, n) ==
  /\ live[e] /\ Reachable(e) = {}
  /\ count' = [count EXCEPT ![e] = n]
  /\ UNCHANGED <<live, on, state>>

Abort(e) ==
  /\ live[e] /\ Reachable(e) # {}
  /\ Settle(First(e), "aborted") \/ Settle(Reachable(e), "aborted")
  /\ UNCHANGED <<live, count, on>>

Delete(e) ==
  /\ live[e]
  /\ live' = [live EXCEPT ![e] = FALSE]
  /\ count' = [count EXCEPT ![e] = 0]
  /\ Settle(Reachable(e), "acquired")
  /\ UNCHANGED on

TimeOut(ts) ==
  /\ \A t \in ts : state[t] = "waiting"
  /\ Settle(ts, "expired")
  /\ UNCHANGED <<live, count, on>>

Return(t) ==
  /\ state[t] \in {"expired", "acquired", "aborted"}
  /\ Settle({t}, "idle")
  /\ on' = [on EXCEPT ![t] = NoSem]
  /\ UNCHANGED <<live, count>>

AbsNext ==
  \/ \E e \in Sems :
        \/ \E n \in Cnts : Create(e, n) \/ Set(e, n)
        \/ Take(e) \/ Signal(e) \/ Abort(e) \/ Delete(e)
        \/ \E t \in Waiters : Wait(t, e)
  \/ \E t \in Waiters : Return(t)
  \/ \E ts \in SUBSET Waiters : TimeOut(ts)

AbsSpec == AbsInit /\ [][AbsNext]_absVars
=============================================================================
