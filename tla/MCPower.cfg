SPECIFICATION Spec
CONSTANTS
  Cores <- OneCore
  CountMod = 8
  UserEvents <- AllUserEvents
  SuspendBy <- Anybody
  TimeOuts <- OneCore
  MaxTasks <- TwoTasks
  MaxUser = 2
  MaxClock = 1
  MaxSuspends = 1
  MaxCancels = 1
  MaxFailures = 0
CONSTRAINT Bounds
CHECK_DEADLOCK FALSE
INVARIANTS TypeOK ClockCounted JobPowered StoppedNotStarted ReadClocked RunHasTask StuckOnSleeper

