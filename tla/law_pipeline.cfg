SPECIFICATION FairSpec
CONSTANTS
    None = None
    Law = {l1, l2}
    Interdoc = {}
    Page = {l2}
    User = {u1, u2}
    Faults = {"fetch", "push", "timeout", "early", "callback", "changed", "split", "compare", "crash"}
    MaxFaults = 1
    MaxRequests = 2
    MaxTriggered = 2
INVARIANTS
    TypeOK
    SplitHasRules
    NotStranded
    RefreshHasWork
PROPERTY RefreshEnds
CHECK_DEADLOCK FALSE
