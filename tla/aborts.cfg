SPECIFICATION FairSpec
CONSTANTS
  b1 = b1
  b2 = b2
  s1 = s1
  s2 = s2
  Batch = {b1}
  Step <- TwoSteps
  Station = {s1, s2}
  BatchOf <- OneBatchOf
  StationOf <- AtOwnStation
  Channels <- OneChannel
  MaxCmd = 4
  Pausable <- NoSteps
  Retryable <- NoSteps
  Unsupported <- NoSteps
  NoQuery <- NoStations
  AutoRetry = FALSE
  MaxTrouble = 0
PROPERTIES
  AbortConcludes
CHECK_DEADLOCK FALSE
