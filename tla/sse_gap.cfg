CONSTANTS
  b1 = b1
  b2 = b2
  staff = staff
  Browsers <- OneBrowser
  Labels <- OneLabel
  EventAudiences <- BroadcastOrStaff
  ClientAudiences <- BroadcastOrStaff
  BufferSize = 1
  ReplayLimit = 3
  MaxMessages = 3
  MaxBatch = 2
SPECIFICATION Spec
INVARIANTS
  NoGapBehindLastEventID
