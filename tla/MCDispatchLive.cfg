CONSTANTS
  h1 = h1  h2 = h2
  Handles <- Pair
  Cores = {0, 1}
  Slots = {1, 2}
  CoresOf <- BothAndSecond
  Rounds <- Once
  MaxCancels <- NoCancel
  HwCancel = {FALSE}
  TimeOuts = {h2}
  LateSubmit = TRUE
  NoHandle = NoHandle
SPECIFICATION Spec
PROPERTIES UserReturnsEventually
CHECK_DEADLOCK FALSE
