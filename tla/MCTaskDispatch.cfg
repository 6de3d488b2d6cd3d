CONSTANTS
  h1 = h1  h2 = h2
  Handles <- Pair
  Cores = {0, 1}
  Slots = {1, 2}
  CoresOf <- OneOrBothAndEither
  Rounds <- Resubmit
  MaxCancels <- CancelH1
  HwCancel = {FALSE, TRUE}
  TimeOuts = {}
  LateSubmit = FALSE
  NoHandle = NoHandle
SPECIFICATION Spec
CONSTRAINT Bounds
INVARIANTS TypeOK SafeWithoutHardwareCancel CancelledNeverStarted ReferencesExact NothingLeftBehind
CHECK_DEADLOCK FALSE
