SPECIFICATION Spec
CONSTANTS
  Parts = {"executor", "request", "outbox", "page", "plate"}
  None = None
  Replica = {"r1", "r2"}
  Command = {"c1"}
  MaxLeaderUpsets = 2
  Handler = {"h1", "h2", "h3"}
  Body = {"b1", "b2"}
  PoolSize = 4
  MaxBreaks = 1
  Delivery = {"d1", "d2"}
  MaxAttempts = 2
  Lease = 2
  MaxEdits = 1
  MaxSendUpsets = 2
  Browser = {"w1"}
  QueueLimit = 1
  MaxChanges = 2
  MaxPageUpsets = 3
  Person = {"u1", "u2"}
  Plate = {"p1", "p2"}
  Batch = {"b1", "b2"}
  Place = {"hotel", "nest"}
  NestOf <- Nests
  Station = {"station"}
  MaxScans = 4
  MaxTroubles = 2
INVARIANTS OneHandAtATime OnceAndTold NothingLost PlatesAccountedFor
PROPERTIES AllSettled EveryRequestEnds EveryDeliverySettles PagesCatchUp
CHECK_DEADLOCK FALSE
