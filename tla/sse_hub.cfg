CONSTANTS
  b1 = b1
  b2 = b2
  staff = staff
  Browsers <- TwoBrowsers
  Labels <- OneLabel
  EventAudiences <- BroadcastOrStaff
  ClientAudiences <- BroadcastOrStaff
  BufferSize = 1
  ReplayLimit = 2
  MaxMessages = 3
  MaxBatch = 2
SPECIFICATION FairSpec
INVARIANTS
  TypeOK
  InOrder
  StreamLacksNothing
PROPERTIES
  CondemnedLeaves
  ServesEventStream
