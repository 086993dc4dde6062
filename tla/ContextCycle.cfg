SPECIFICATION Spec
CONSTANTS
  o1 = o1
  o2 = o2
  None = None
  Orchestrators = {o1, o2}
  Runners = {o1, o2}
  Sidecars = {o1, o2}
  HandTimes = {3}
  NSlots = 2
  Cadence = 3
  Lease = 2
  MaxSkew = 2
  Horizon = 4
  MaxFaults = 1
SYMMETRY WorkerSymmetry
CONSTRAINTS
  OneOrchestratedSlot
  OneSidecarAlone
INVARIANTS
  TypeOK
  LogsAgree
  CompleteSlotIsOnDisk
PROPERTIES
  EvidenceIsFinal
CHECK_DEADLOCK FALSE
