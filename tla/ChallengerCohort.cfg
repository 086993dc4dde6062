SPECIFICATION Spec
CONSTANTS
    MinHold = 1
    Vertical = 2
    Start = 0
    End = 3
    LastSlot = 4
    MaxFaults = 1
INVARIANTS
    RunnerChainsAreAccepted
    EpisodeEvidenceStays
    EvaluationIsWhole
PROPERTIES
    DecommissionIsTrue
    ImplementsCohortLife
CONSTRAINT OneTool
CHECK_DEADLOCK FALSE
