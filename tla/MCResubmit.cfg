CONSTANTS
  h1 = h1  h2 = h2
  Handles <- OnlyH1
  Cores = {0}
  Slots = {1, 2}
  CoresOf <- OneCore
  Rounds <- TwiceH1
  MaxCancels <- CancelOnly
  HwCancel = {FALSE}
  TimeOuts = {}
  LateSubmit = TRUE
  NoHandle = NoHandle
SPECIFICATION Spec
INVARIANTS SuccessMeansFinished
CHECK_DEADLOCK FALSE
