CONSTANTS
  t1 = t1
  t2 = t2
  t3 = t3
  OSTmrTbl <- MCTmrTbl
  NULL = NULL
  TimeModulus = 3
  WheelSize = 2
  Settings <- MCSettings
  SignalMax = 1
  CallbacksTouchNext = FALSE
SPECIFICATION Spec
INVARIANTS
  WheelExact
PROPERTIES
  ImplementsTimers
  OneShotsComplete
