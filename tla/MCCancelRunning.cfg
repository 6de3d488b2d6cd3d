CONSTANTS
  h1 = h1  h2 = h2
  Handles <- OnlyH1
  Cores = {0}
  Slots = {1}
  CoresOf <- OneCore
  Rounds <- OnceH1
  MaxCancels <- CancelOnly
  HwCancel = {TRUE}
  TimeOuts = {}
  LateSubmit = FALSE
  NoHandle = NoHandle
SPECIFICATION Spec
INVARIANTS SuccessMeansFinished
CHECK_DEADLOCK FALSE
