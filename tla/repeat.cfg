SPECIFICATION Spec
CONSTANTS
  b1 = b1
  b2 = b2
  s1 = s1
  s2 = s2
  Batch = {b1}
  Step <- OneStep
  Station = {s1}
  BatchOf <- OneBatchOf
  StationOf <- AtOneStation
  Channels <- OneChannel
  MaxCmd = 3
  Pausable <- OneStep
  Retryable <- OneStep
  Unsupported <- NoSteps
  NoQuery <- NoStations
  AutoRetry = FALSE
  MaxTrouble = 0
INVARIANTS
  CompletedOnce
CHECK_DEADLOCK FALSE
