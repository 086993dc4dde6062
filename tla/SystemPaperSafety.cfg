SPECIFICATION Spec
CONSTANTS
  w1 = w1
  w2 = w2
  None = None
  Workers = {w1, w2}
  NSlots = 3
  Cadence = 2
  Lease = 1
  Scenarios = {"settles", "unresolved"}
  CrashPoints <- AnyPoint
  SyncMayFail = TRUE
  MaxFaults = 1
SYMMETRY WorkerSymmetry
INVARIANTS
  AtMostOneRecoverable
  DurableWorkHasParents
  UnresolvedOrderStopsChain
PROPERTIES
  LiveLeaseHonoured
  OnlyOwnerAdvances
  DurableFactsStay
  SealedFileIsLostToOvertakenPublisher
  ImplementsResultChain
