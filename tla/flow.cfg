SPECIFICATION FairSpec
CONSTANTS
  Flows <- AllFlows
  Signals = {"s1"}
  MaxUpsets = 2
  MaxTries = 2
INVARIANTS
  OneAttemptUnderWay
  NothingLeftBehind
  DoneMeansResolved
  PathIsChosen
  NoMissedSignal
PROPERTIES
  ConclusionsStand
  EventsSettle

CHECK_DEADLOCK FALSE
