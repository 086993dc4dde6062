SPECIFICATION Spec
CONSTANTS
    r1 = r1
    nobody = nobody
    Runs = {r1}
    Nobody = nobody
    Quantity = 1
    MaxGenerations = 1
    Intents = {"CLOSE_SHORT"}
INVARIANTS
    CleanupLeavesNoShort
CHECK_DEADLOCK FALSE
