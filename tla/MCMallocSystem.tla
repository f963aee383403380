--------------------------- MODULE MCMallocSystem ---------------------------
(* An instance of MallocSystem, with the tables of bins cut down.            *)
EXTENDS MallocSystem

MCBinRanges == << [below |-> 16, base |-> 2, width |-> 4] >>
=============================================================================
