SPECIFICATION Spec
CONSTANTS
  b1 = b1
  b2 = b2
  s1 = s1
  s2 = s2
  Batch = {b1, b2}
  Step <- TwoSteps
  Station = {s1}
  BatchOf <- EachBatchOf
  StationOf <- AtOneStation
  Channels <- OneChannel
  MaxCmd = 3
  Pausable <- NoSteps
  Retryable <- OneStep
  Unsupported <- NoSteps
  NoQuery <- NoStations
  AutoRetry = TRUE
  MaxTrouble = 1
INVARIANTS
  TypeOK
  SingleAction
  OneActionPerChannel
PROPERTIES
  KeepsPromise
CHECK_DEADLOCK FALSE
