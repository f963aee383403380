CONSTANTS
  Tasks = {"receiver", "printer"}
  RingSize = 5
  MaxChunk = 2
  BandSizes = {0, 1, 3}
  MaxBands = 4
  MaxCancels = 1
  SkipByAddress = FALSE
SPECIFICATION Spec
INVARIANTS
  TransferTarget
  BandsInPlace
PROPERTIES
  ImplementsBands
  EveryBandRead
CHECK_DEADLOCK FALSE
