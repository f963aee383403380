---------------------------- MODULE MCTmrSystem ----------------------------
(* An instance of TmrSystem: three timers on a wheel of two spokes, with a *)
(* clock that wraps at a value that is no multiple of the wheel.           *)
EXTENDS TmrSystem

CONSTANTS t1, t2, t3

MCTmrTbl == <<t1, t2, t3>>
MCSettings == {
  [opt |-> "ONE_SHOT", dly |-> 2, period |-> 0],
  [opt |-> "ONE_SHOT", dly |-> 0, period |-> 0],
  [opt |-> "PERIODIC", dly |-> 1, period |-> 2]}
=============================================================================
