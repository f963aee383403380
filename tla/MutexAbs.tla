------------------------------- MODULE MutexAbs -------------------------------
(***************************************************************************)
(* What os_mutex.c promises: a mutex has one owner at a time, only the     *)
(* owner releases it, and a release hands it to the first of the tasks     *)
(* that wait, if there is one.                                             *)
(***************************************************************************)
EXTENDS Integers

CONSTANTS Users, Mutexes, Rank, Nobody

VARIABLES
  made,         \* does the mutex exist
  owner,
  on,           \* the mutex a task waits on, or has waited on
  state         \* how far its call of OSMutexPend() is

absVars == <<made, owner, on, state>>

NoMutex == "none"

AbsInit ==
  /\ made = [e \in Mutexes |-> FALSE]
  /\ owner = [e \in Mutexes |-> Nobody]
  /\ on = [t \in Users |-> NoMutex]
  /\ state = [t \in Users |-> "idle"]

Reachable(e) == {t \in Users : on[t] = e /\ state[t] \in {"waiting", "expired"}}

Make(e) ==
  /\ ~made[e]
  /\ made' = [made EXCEPT ![e] = TRUE]
  /\ UNCHANGED <<owner, on, state>>

Acquire(t, e) ==
  /\ made[e] /\ owner[e] = Nobody /\ state[t] = "idle"
  /\ owner' = [owner EXCEPT ![e] = t]
  /\ UNCHANGED <<made, on, state>>

Wait(t, e) ==
  /\ made[e] /\ owner[e] \notin {Nobody, t} /\ state[t] = "idle"
  /\ state' = [state EXCEPT ![t] = "waiting"]
  /\ on' = [on EXCEPT ![t] = e]
  /\ UNCHANGED <<made, owner>>

(* An owner that has been handed the mutex releases it only after its call *)
(* of OSMutexPend() has returned.                                          *)
Release(t, e) ==
  /\ owner[e] = t /\ state[t] = "idle"
  /\ IF Reachable(e) = {}
       THEN owner' = [owner EXCEPT ![e] = Nobody] /\ UNCHANGED state
       ELSE \E u \in Reachable(e) :
              /\ \A v \in Reachable(e) : Rank[u] <= Rank[v]
              /\ owner' = [owner EXCEPT ![e] = u]
              /\ state' = [state EXCEPT ![u] = "acquired"]
  /\ UNCHANGED <<made, on>>

TimeOut(ts) ==
  /\ \A t \in ts : state[t] = "waiting"
  /\ state' = [t \in Users |-> IF t \in ts THEN "expired" ELSE state[t]]
  /\ UNCHANGED <<made, owner, on>>

(* OSMutexPend() returns OS_ERR_TIMEOUT to a task that is not the owner,   *)
(* and OS_ERR_NONE to one that is.                                         *)
Return(t) ==
  /\ \/ state[t] = "expired"  /\ owner[on[t]] # t
     \/ state[t] = "acquired" /\ owner[on[t]] = t
  /\ state' = [state EXCEPT ![t] = "idle"]
  /\ on' = [on EXCEPT ![t] = NoMutex]
  /\ UNCHANGED <<made, owner>>

AbsNext ==
  \/ \E e \in Mutexes : \/ Make(e)
                        \/ \E t \in Users : Acquire(t, e) \/ Wait(t, e) \/ Release(t, e)
  \/ \E t \in Users : Return(t)
  \/ \E ts \in SUBSET Users : TimeOut(ts)

AbsSpec == AbsInit /\ [][AbsNext]_absVars
=============================================================================
