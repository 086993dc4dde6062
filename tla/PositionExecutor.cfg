SPECIFICATION Spec
CONSTANTS
  None = None
  Targets <- TargetTree
  Attempts = {1, 2, 3}
  Reportable = {"SUBMITTING", "ACKNOWLEDGED", "UNKNOWN", "CANCELED", "FILLED"}
  Positions <- SmallPositions
  QuantityStep = 1
INVARIANTS
  UnknownIsNeverPlannedOver
PROPERTIES
  ReversalPassesThroughFlat
  CancelIsAskedFor
