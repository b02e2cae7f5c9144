CONSTANTS
  w1 = w1
  w2 = w2
  e1 = e1
  e2 = e2
  e3 = e3
  Events <- ThreeEvents
  NoEvent = NoEvent
  Undecodable <- OneUndecodable
  MaxRecords = 2
  MaxStore = 2
  BatchSize = 2
  MaxAttempts = 1
  AttemptCap = 2
  SeenKind = "none"
  SeenLimit = 1
  Workers <- OneWorker
  NumSubs = 1
  MaxFaults = 0
SPECIFICATION Spec
PROPERTIES
  DeadLetterOnlyAfterDelivery
