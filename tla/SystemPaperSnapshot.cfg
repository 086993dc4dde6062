SPECIFICATION Spec
CONSTANTS
  Equity = 400
  Bids <- WidePrices
  Spread = 1
  Targets <- ManyTargets
  Scenarios = {"PARTIAL_THEN_FULL"}
  MinNotional = 5
  Precision = 5
  MaxSlots = 3
INVARIANTS
  SnapshotsAreAccepted
CHECK_DEADLOCK FALSE
