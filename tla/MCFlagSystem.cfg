CONSTANTS
  high = high
  low = low
  idle = idle
  a = a
  b = b
  c = c
  LowestPrio = 10
  Tasks <- MCTasks
  IdleTask = idle
  BasePrio <- MCBasePrio
  Events = {}
  NoTCB = NoTCB
  Reserved = Reserved
  NoEvent = NoEvent
  LockNestingMax = 1
  Grps = {g1}
  NoGrp = NoGrp
  Flags = {a, b, c}
  Requests <- MCRequests
  FlagSets <- MCFlagSets
  FlagTimeouts = {0, 1}
  Delays = {1}
SPECIFICATION Spec
INVARIANTS
  ListsOfFlagsExact
  HighestPriorityRuns
  NoSatisfiedWaiter
PROPERTIES
  ImplementsFlags
