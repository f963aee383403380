---------------------------- MODULE MCSemSystem ----------------------------
(* An instance of SemSystem: two application tasks and one of higher       *)
(* priority in another row of the bitmap, one event control block.         *)
EXTENDS SemSystem, TLC

CONSTANTS high, mid, low, idle

MCTasks == {high, mid, low, idle}
MCTasksSmall == {high, low, idle}
MCBasePrio == [t \in Tasks |-> CASE t = high -> 3 [] t = mid -> 8 [] t = low -> 9 [] t = idle -> 10]
=============================================================================
