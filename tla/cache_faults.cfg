SPECIFICATION FairSpec
CONSTANTS
    Process = {p1, p2}
    None = None
    Faults = {"slow", "wait", "raise", "redis", "decode", "key", "clear", "crash"}
    MaxVersion = 2
INVARIANTS
    TypeOK
    StoredInOrder
PROPERTY CallsReturn
