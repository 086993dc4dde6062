SPECIFICATION Spec
CONSTANTS
    r1 = r1
    r2 = r2
    nobody = nobody
    Runs = {r1, r2}
    Nobody = nobody
    Quantity = 2
    MaxGenerations = 2
    Intents = {"SPOT", "OPEN_SHORT", "CLOSE_SHORT"}
SYMMETRY RunsSymmetry
INVARIANTS
    SentOnce
    WrittenBeforeSent
    LogFollowsVenue
    ReplacementLeavesNoGap
    ReconciledIsTrue
    OneFlattenAtATime
CONSTRAINT WholeTogether
CHECK_DEADLOCK FALSE
