SPECIFICATION FairPartsSpec
CONSTANTS
  DevGenerations = {1, 2}
  DevTexts = {1, 2, 3}
  MaxDevEdits = 1
  MaxDevStarts = 2
  SchJobs = 2
  MaxSchTicks = 2
  LifeServices = 2
  Consumers = {w1, w2}
  RedBatch = 2
  MaxRedEntries = 3
  MaxRedFaults = 2
INVARIANTS
  FairPartsTypeOK
  DevSettled
  ScheduleBlames
  CleanReturn
  RedNothingStranded
PROPERTIES
  DevLoopSettles
  JobsReturn
  AppReturns
  StreamDrains
  RedDeliversAtLeastOnce
CHECK_DEADLOCK FALSE
