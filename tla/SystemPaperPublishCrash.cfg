SPECIFICATION FairSpec
CONSTANTS
  w1 = w1
  None = None
  Workers = {w1}
  NSlots = 2
  Cadence = 3
  Lease = 2
  Scenarios = {"settles"}
  CrashPoints <- AnyPoint
  SyncMayFail = FALSE
  MaxFaults = 1
PROPERTIES
  PublishedWorkIsAdopted
