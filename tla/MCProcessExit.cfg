CONSTANTS
  h1 = h1  h2 = h2
  Handles <- Pair
  Cores = {0, 1}
  Slots = {1, 2}
  CoresOf <- BothAndFirst
  Rounds <- Once
  MaxCancels <- NoCancel
  HwCancel = {FALSE, TRUE}
  TimeOuts = {h1, h2}
  LateSubmit = TRUE
  NoHandle = NoHandle
  Exiting = {h1, h2}
  SlowJobs = {h1}
SPECIFICATION ExitSpec
INVARIANTS JobHasMemory StrangersUntouched NobodyLeftWaiting
CHECK_DEADLOCK FALSE
