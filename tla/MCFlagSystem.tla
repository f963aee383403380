---------------------------- MODULE MCFlagSystem ----------------------------
(* An instance of FlagSystem: two application tasks and a device share a   *)
(* group of two flags; a third flag is only waited on until it is clear.   *)
EXTENDS FlagSystem, TLC

CONSTANTS high, low, idle, a, b, c

MCTasks == {high, low, idle}
MCBasePrio == [t \in Tasks |-> CASE t = high -> 3 [] t = low -> 9 [] t = idle -> 10]

Ask(fs, type, consume) == [flags |-> fs, type |-> type, consume |-> consume]

MCRequests == {Ask({a, b}, "SET_ALL", FALSE), Ask({a, b}, "SET_ANY", TRUE),
               Ask({c}, "CLR_ALL", FALSE)}
MCFlagSets == {{a}, {b, c}}
=============================================================================
