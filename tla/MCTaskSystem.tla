---------------------------- MODULE MCTaskSystem ----------------------------
(* An instance of TaskSystem: a task and a spare TCB, for tasks that create *)
(* and delete one another and themselves.                                  *)
EXTENDS TaskSystem, TLC

CONSTANTS high, spare, idle, e1, e2

MCTasks == {high, spare, idle}
MCStarted == {high, idle}
MCBasePrio == [t \in Tasks |-> CASE t = high -> 3 [] t = spare -> 7 [] t = idle -> 10]
MCEvents == {e1, e2}
MCEventSets == {MCEvents}
Symmetry == Permutations(MCEvents)
=============================================================================
