SPECIFICATION LabSpec
CONSTANTS
  Parts = {"stock", "receipts", "windows", "tasks", "starts"}
  Overlap = FALSE
  None = None
  Batch = {"A", "B"}
  Recipe <- LabRecipe
  Channels <- LabChannels
  PerSample = {}
  AssetOf <- LabAssetOf
  Capacity <- LabCapacity
  Booked <- LabBooked
  Carriers = {"arm"}
  TransferMin = 1
  CleanMin = 1
  Expiry <- LabExpiry
  Samples = 2
  MaxTries = 4
  Roles <- LabRoles
  Rank <- LabRank
  Priority <- LabPriority
  Fragile = {"s2"}
  Early = 1
  Grace = 0
  MaxNow = 1
  MaxPlans = 2
  MaxTroubles = 1
INVARIANTS StockHolds OverlapsAreReported PlanHolds UpstreamHasEnded
PROPERTIES FrozenWindowsStand
CHECK_DEADLOCK FALSE
