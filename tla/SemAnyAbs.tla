----------------------------- MODULE SemAnyAbs -----------------------------
(***************************************************************************)
(* Semaphores on which a call may wait for any one of several, and whose   *)
(* callers may be killed: one post is one token, for one call or for the   *)
(* count, and a call takes at most one token it has waited for.            *)
(***************************************************************************)
EXTENDS Integers

CONSTANTS Callers, First, Sems, CntMax, Cnts

VARIABLES
  live, count,
  alive,    \* the callers that exist
  call      \* [state] and, of a call that waits, the semaphores it asks for;
            \* of one that has been settled, the semaphore that did it

absVars == <<live, count, alive, call>>

Idle == [state |-> "idle"]

AbsInit ==
  /\ live = [e \in Sems |-> FALSE]
  /\ count = [e \in Sems |-> 0]
  /\ alive = First
  /\ call = [t \in Callers |-> Idle]

Reachable(e) == {t \in Callers : call[t].state \in {"waiting", "expired"} /\ e \in call[t].ask}

Settle(ts, e, outcome) ==
  call' = [t \in Callers |-> IF t \in ts THEN [state |-> outcome, by |-> e] ELSE call[t]]

Create(e, n) ==
  /\ ~live[e]
  /\ live' = [live EXCEPT ![e] = TRUE]
  /\ count' = [count EXCEPT ![e] = n]
  /\ UNCHANGED <<alive, call>>

(* Those that wait come back as if they had been posted to.                *)
Delete(e) ==
  /\ live[e]
  /\ live' = [live EXCEPT ![e] = FALSE]
  /\ count' = [count EXCEPT ![e] = 0]
  /\ Settle(Reachable(e), e, "acquired")
  /\ UNCHANGED alive

(* A call that finds tokens takes one of each semaphore that has any.      *)
Take(es) ==
  /\ es # {} /\ \A e \in es : count[e] > 0
  /\ count' = [e \in Sems |-> IF e \in es THEN count[e] - 1 ELSE count[e]]
  /\ UNCHANGED <<live, alive, call>>

Wait(t, es) ==
  /\ t \in alive /\ call[t] = Idle
  /\ \A e \in es : live[e] /\ count[e] = 0
  /\ call' = [call EXCEPT ![t] = [state |-> "waiting", ask |-> es]]
  /\ UNCHANGED <<live, count, alive>>

Signal(e) ==
  /\ live[e]
  /\ IF Reachable(e) # {}
       THEN (\E t \in Reachable(e) : Settle({t}, e, "acquired")) /\ UNCHANGED count
       ELSE count[e] < CntMax /\ count' = [count EXCEPT ![e] = @ + 1] /\ UNCHANGED call
  /\ UNCHANGED <<live, alive>>

Abort(e) ==
  /\ live[e] /\ Reachable(e) # {}
  /\ \/ \E t \in Reachable(e) : Settle({t}, e, "aborted")
     \/ Settle(Reachable(e), e, "aborted")
  /\ UNCHANGED <<live, count, alive>>

(* A tick may end several calls.                                           *)
Expire ==
  /\ \E ts \in SUBSET {t \in Callers : call[t].state = "waiting"} :
       call' = [t \in Callers |-> IF t \in ts THEN [call[t] EXCEPT !.state = "expired"]
                                              ELSE call[t]]
  /\ UNCHANGED <<live, count, alive>>

Return(t) ==
  /\ call[t].state \in {"expired", "acquired", "aborted"}
  /\ call' = [call EXCEPT ![t] = Idle]
  /\ UNCHANGED <<live, count, alive>>

(* A caller is killed at any point of its call; a token it has goes too.   *)
Kill(t) ==
  /\ alive' = alive \ {t}
  /\ call' = [call EXCEPT ![t] = Idle]
  /\ UNCHANGED <<live, count>>

Born(t) ==
  /\ t \notin alive
  /\ alive' = alive \cup {t}
  /\ UNCHANGED <<live, count, call>>

AbsNext ==
  \/ \E e \in Sems : \/ \E n \in Cnts : Create(e, n)
                     \/ Delete(e) \/ Signal(e) \/ Abort(e)
  \/ \E es \in SUBSET Sems : Take(es) \/ \E t \in Callers : Wait(t, es)
  \/ Expire
  \/ \E t \in Callers : Return(t) \/ Kill(t) \/ Born(t)

AbsSpec == AbsInit /\ [][AbsNext]_absVars
=============================================================================
