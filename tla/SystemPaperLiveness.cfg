SPECIFICATION FairSpec
CONSTANTS
  w1 = w1
  w2 = w2
  None = None
  Workers = {w1, w2}
  NSlots = 2
  Cadence = 3
  Lease = 2
  Scenarios = {"settles"}
  CrashPoints <- FrozenFaultPoints
  SyncMayFail = FALSE
  MaxFaults = 1
PROPERTIES
  DurableWorkIsSealed
