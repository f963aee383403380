CONSTANTS
  high = high
  mid = mid
  low = low
  idle = idle
  LowestPrio = 10
  Tasks <- MCTasks
  IdleTask = idle
  BasePrio <- MCBasePrio
  Events = {m1}
  NoTCB = NoTCB
  Reserved = Reserved
  NoEvent = NoEvent
  LockNestingMax = 1
  Ceilings <- MCCeilings
  MutexTimeouts = {0, 1}
  Delays = {1}
  OwnersSleep = TRUE
  Suspensions = {}
SPECIFICATION Spec
INVARIANTS
  HighestPriorityRuns
