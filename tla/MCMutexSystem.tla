--------------------------- MODULE MCMutexSystem ---------------------------
(* An instance of MutexSystem: three tasks that compete for two mutexes, at *)
(* ceilings above them all or with the ceiling disabled.                   *)
EXTENDS MutexSystem, TLC

CONSTANTS high, mid, low, idle

MCTasks == {high, mid, low, idle}
MCBasePrio == [t \in Tasks |-> CASE t = high -> 3 [] t = mid -> 8 [] t = low -> 9 [] t = idle -> 10]
MCCeilings == {1, 2, CeilDis}
=============================================================================
