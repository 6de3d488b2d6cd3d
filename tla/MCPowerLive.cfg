SPECIFICATION FairSpec
CONSTANTS
  Cores <- TwoCores
  CountMod = 8
  UserEvents <- UserOff
  SuspendBy <- Nobody
  TimeOuts <- Nobody
  MaxTasks <- OneTask
  MaxUser = 1
  MaxClock = 1
  MaxSuspends = 0
  MaxCancels = 0
  MaxFailures = 1
CHECK_DEADLOCK FALSE
INVARIANTS DomainCounted
PROPERTIES TaskEnds UserOffTurnsOff
