CONSTANTS
  w1 = w1
  w2 = w2
  e1 = e1
  e2 = e2
  e3 = e3
  Events <- ThreeEvents
  NoEvent = NoEvent
  Undecodable <- OneUndecodable
  MaxRecords = 3
  MaxStore = 2
  BatchSize = 2
  MaxAttempts = 2
  AttemptCap = 2
  SeenKind = "file"
  SeenLimit = 1
  Workers <- OneWorker
  NumSubs = 2
  MaxFaults = 2
SPECIFICATION FairSpec
INVARIANTS
  NoRedispatchInWindow
PROPERTY EveryRecordLeaves
