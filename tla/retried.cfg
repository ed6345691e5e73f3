SPECIFICATION Spec
CONSTANTS
  Flows <- PlateOnly
  Signals = {"s1"}
  MaxUpsets = 2
  MaxTries = 2
INVARIANTS
  RetryReplaces

CHECK_DEADLOCK FALSE
