SPECIFICATION Spec
CONSTANTS
    None = None
    File = {f1, f2}
    Process = {p1, p2}
    Convertible = {f1, f2}
    Faults = {"crash", "push", "refuse", "convert", "vanish", "slow", "rerun"}
    MaxFaults = 1
    MaxRequests = 1
INVARIANTS
    TypeOK
    OneParse
    ParsingIsParsed
    PredictedIsParsed
CHECK_DEADLOCK FALSE
SYMMETRY Symmetry
