CONSTANTS
  high = high
  mid = mid
  low = low
  idle = idle
  LowestPrio = 10
  Tasks <- MCTasks
  IdleTask = idle
  BasePrio <- MCBasePrio
  Events = {e1}
  NoTCB = NoTCB
  Reserved = Reserved
  NoEvent = NoEvent
  LockNestingMax = 2
  SemCntMax = 2
  InitialCnts = {0, 1}
  Timeouts = {0, 2}
  Delays = {1}
SPECIFICATION Spec
INVARIANTS
  TypeOK
  ReadyListExact
  WaitListExact
  HighestPriorityRuns
  NoTokenPastWaiter
  NoDanglingWait
PROPERTIES
  ImplementsSem
