---------------------------- MODULE MCI2CSystem ----------------------------
(* An instance of I2CSystem: writes, reads, reads of a register and of no   *)
(* register at all, as at24.c and i2c-dev.c make them.                      *)
EXTENDS I2CSystem

MCWrite(n) == [read |-> FALSE, len |-> n]
MCRead(n) == [read |-> TRUE, len |-> n]
MCTransfers ==
  {<<MCWrite(4)>>, <<MCRead(4)>>, <<MCWrite(2), MCRead(4)>>, <<MCWrite(1), MCRead(0)>>}
=============================================================================
