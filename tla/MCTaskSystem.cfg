CONSTANTS
  high = high
  spare = spare
  idle = idle
  e1 = e1
  e2 = e2
  LowestPrio = 10
  Tasks <- MCTasks
  Started <- MCStarted
  IdleTask = idle
  BasePrio <- MCBasePrio
  Events <- MCEvents
  EventSets <- MCEventSets
  NoTCB = NoTCB
  Reserved = Reserved
  NoEvent = NoEvent
  NotMaking = NotMaking
  LockNestingMax = 1
  SemCntMax = 1
  InitialCnts = {0}
  Timeouts = {1}
  NewPrios = {2, 3, 8}
  SuspendMulti = FALSE
  SuspendUnlinked = FALSE
SYMMETRY Symmetry
SPECIFICATION Spec
INVARIANTS
  TaskTableExact
  TaskListsExact
  HighestTaskRuns
PROPERTIES
  ImplementsSemAny
