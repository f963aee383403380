CONSTANTS
  high = high
  mid = mid
  low = low
  idle = idle
  LowestPrio = 10
  Tasks <- MCTasksSmall
  IdleTask = idle
  BasePrio <- MCBasePrio
  Events = {e1}
  NoTCB = NoTCB
  Reserved = Reserved
  NoEvent = NoEvent
  LockNestingMax = 1
  SemCntMax = 1
  InitialCnts = {0, 1}
  Timeouts = {0, 2}
  Delays = {1}
SPECIFICATION FairSpec
PROPERTIES
  TimedPendReturns
