SPECIFICATION FairSpec
CONSTANTS
    None = None
    Law = {l1, l2, l3, l4}
    Interdoc = {l2, l3}
    Page = {}
    User = {u1, u2}
    Faults = {"fetch", "split"}
    MaxFaults = 1
    MaxRequests = 2
    MaxTriggered = 0
PROPERTY RefreshEnds
CHECK_DEADLOCK FALSE
