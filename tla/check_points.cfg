SPECIFICATION Spec
CONSTANTS
    Left = left
    Right = right
    CheckPoint = {c1, c2, c3, c4}
    User = {u1, u2}
    None = None
    Faults = {"llm", "crash", "late", "stale", "overtaken", "carried", "unseen", "early", "crossed"}
    MaxFaults = 1
    MaxRequests = 3
    MaxEdits = 1
    MaxTasks = 1
INVARIANTS
    TypeOK
    InForceApproved
    OneDraft
    ConversionUnderWay
    NewestConverted
    OneGeneration
    InForceHasRule
SYMMETRY Symmetry
CHECK_DEADLOCK FALSE
