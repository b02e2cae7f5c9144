CONSTANTS
  w1 = w1
  w2 = w2
  e1 = e1
  e2 = e2
  e3 = e3
  Events <- ThreeEvents
  NoEvent = NoEvent
  Undecodable <- OneUndecodable
  MaxRecords = 3
  MaxStore = 2
  BatchSize = 2
  MaxAttempts = 2
  AttemptCap = 2
  SeenKind = "memory"
  SeenLimit = 1
  Workers <- TwoWorkers
  NumSubs = 2
  MaxFaults = 1
SYMMETRY WorkerSymmetry
SPECIFICATION Spec
INVARIANTS
  TypeOK
  SeenOnlyAfterAck
  AttemptsBelowLimit
  DeadLetterOnce
PROPERTIES
  ImplementsAtLeastOnce
