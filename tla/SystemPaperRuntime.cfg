SPECIFICATION Spec
CONSTANTS
  Equity = 400
  Bids <- WidePrices
  Spread = 1
  Targets <- ManyTargets
  Scenarios <- ScenarioKinds
  MinNotional = 5
  Precision = 5
  MaxSlots = 4
INVARIANTS
  TypeOK
  ActiveOrderIsLocked
  NeverOverdrawn
PROPERTIES
  LockIsForGood
  FillsWithinApproval
CHECK_DEADLOCK FALSE
