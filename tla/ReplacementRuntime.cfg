SPECIFICATION Spec
CONSTANTS
    p1 = p1
    p2 = p2
    t1 = t1
    t2 = t2
    None = None
    NoFile = NoFile
    Processes = {p1, p2}
    Tags = {t1, t2}
    GoodTags = {t1}
    MaxSlots = 2
    MaxEvents <- Events
    MaxFaults = 1
INVARIANTS
    ReplayIsAccepted
    ReportedIsDurable
PROPERTIES
    ImplementsEventLog
    InputIsEnded
