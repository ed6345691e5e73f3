SPECIFICATION Spec
CONSTANTS
  b1 = b1
  b2 = b2
  s1 = s1
  s2 = s2
  Batch = {b1}
  Step <- TwoSteps
  Station = {s1, s2}
  BatchOf <- OneBatchOf
  StationOf <- AtOwnStation
  Channels <- OneChannel
  MaxCmd = 4
  Pausable <- TwoSteps
  Retryable <- OneStep
  Unsupported <- NoHold
  NoQuery <- SecondStation
  AutoRetry = FALSE
  MaxTrouble = 1
INVARIANTS
  BooksCoverDevice
  AbortedMeansStopped
  HeldMeansStill
  OneAttemptOpen
CHECK_DEADLOCK FALSE
