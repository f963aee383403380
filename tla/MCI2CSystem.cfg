CONSTANTS
  t1 = t1
  t2 = t2
  NoTask = NoTask
  Tasks = {t1, t2}
  TxDepth = 3
  RxDepth = 2
  Retries = 2
  HandlerIsPrompt = TRUE
  BusIsSlow = TRUE
  Transfers <- MCTransfers
  MaxCalls = 1
SPECIFICATION Spec
INVARIANTS
  NoOverrun
  ReadsExact
PROPERTIES
  ImplementsBus
  TransfersEnd
CHECK_DEADLOCK FALSE
