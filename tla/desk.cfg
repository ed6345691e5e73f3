SPECIFICATION Spec
CONSTANTS
  Parts = {"results", "reports", "periods", "guides", "flows", "plans", "gate", "register", "upkeep", "permits", "catalogue", "access", "staff", "removal", "watch"}
  None = None
  Metric = {"curve", "peak"}
  Curve = {"curve"}
  DerivedOf <- Curves
  Peak <- Peaks
  Value = {1}
  Odd <- OddPeaks
  Rules = {}
  Analyst = {"ann"}
  StepOf <- DeviceSteps
  MaxTasks = 2
  MaxEvents = 2
  MaxValues = 2
  MaxTickets = 1
  ReportMetric = {"mass"}
  ReportValue = {1}
  Reviewer = {"ann", "quinn"}
  MaxReported = 1
  MaxVersions = 2
  MaxEdits = 1
  Author = {"ann"}
  Approver = {"ann", "quinn"}
  Trainee = {"tom"}
  Kind = {"hand"}
  Title = {"mix"}
  MaxClock = 2
  MaxPeriods = 3
  MaxPeriodEdits = 1
  MaxSops = 2
  MaxSopSteps = 2
  MaxSopEdits = 2
  MaxSopBatches = 1
  Cap = {"mix"}
  MaxRecipes = 2
  MaxRecipeEdits = 2
  MaxRecipeRuns = 1
  MaxUpsets = 1
  MaxSiblings = 3
  MaxSiblingEdits = 1
  MaxDepth = 3
  Planner = {"ann"}
  Signer = {"quinn", "rob"}
  Body = {1, 2}
  SoundBody = {1, 2}
  Levels <- Chains
  MaxPlanVersions = 2
  MaxPlanEdits = 1
  MaxPlanRuns = 1
  MaxPlanTickets = 1
  Person = {"root", "ann", "new"}
  Role = {"qa"}
  Default <- RoleDefaults
  Later = {"template.release"}
  Served = {"s", "t"}
  Slot = {1, 2}
  AccessScenarios <- Laboratories
  Worker = {"ann", "tom"}
  Need = {"mix"}
  MaxMoment = 2
  MaxQualifications = 2
  MaxJobs = 1
  MaxUpsetsOfStaff = 1
  Writer = {"ann", "quinn"}
  SelfApprovers = {}
  Wording = {1, 2}
  SoundContent = {1, 2}
  User = {"u"}
  Connection = {"here", "there"}
  MaxRows = 2
  MaxDefEdits = 1
  MaxDefTickets = 1
  AssetCapacity = 1
  Scope = {"mix"}
  MaxUpkeepTime = 2
  MaxPermitTime = 3
  MaxBookings = 2
  MaxOrders = 2
  MaxCalibrations = 2
  MaxOwnHand = 1
  Conf <- Registrations
  Driver <- DeviceDrivers
  Budgets <- GateBudgets
  Asset = {"a", "b"}
  Station = {"s", "t"}
  Procedure = {"plain"}
  Model = {"x", "y"}
  Setting = {1, 2}
  RecipeStep <- RegisterSteps
  MaxWindows = 1
  Equipped <- Furnished
  RegisterChances <- RegisterScenarios
INVARIANTS SettledOnlyWhole ReportsStand DocumentsHold SignaturesStand GateHolds RegisterHolds UpkeepHolds DefinitionsHold AccessHolds RemovalHolds WatchHolds
CHECK_DEADLOCK FALSE
