SPECIFICATION PartsSpec
CONSTANTS
  PubTargets = 2
  PubGenerations = {1, 2}
  SesIds = 2
  SesRequests = 2
  SesTTL = 1
  SesIdleTTL = 1
  SesSecond = 2
  MaxSesClock = 2
  RateKeys = {k1, k2}
  RateKey = k1
  RateMax = 2
  RateWindow = 2
  RateCleanup = 1
  RateLag = 1
  RateCalls = 2
  MaxRateTakes = 6
  MaxRateClock = 3
  ColRecorders = {r1, r2}
  ColClients = {c1}
  RingLimit = 2
  RingBytes = 4
  SpanBytes = 3
  ColSizes = {1, 3, 4}
  ColQueue = 1
  ColStreams = 1
  MaxColSpans = 4
  MemWorkers = {w1, w2}
  MemBatch = 2
  MaxMemRecords = 4
  MaxMemFaults = 2
  CmdSinks <- MCSinks
  CmdCalls = 2
  MaxCmdEvents = 2
  NavUrls = {u1, u2}
  NavStart = u1
  PrefetchLimit = 1
  NavLoads = 2
  MaxNavFetches = 2
  RegQueries = {q1, q2}
  RegHere = {q1, q2}
  RegIds = {q1}
  RegForms = {f1}
  RegHandledLimit = 1
  MaxRegEvents = 2
INVARIANTS
  PubGenerationKept
  PubAllOrNothing
  RevocationHolds
  SessionsTimely
  RateHolds
  RingNewest
  StreamHasAll
  CommandEffects
  AddressShown
  HandledMeansRefreshed
  PartsTypeOK
PROPERTIES
  MemDeliversAtLeastOnce
CHECK_DEADLOCK FALSE
