SPECIFICATION FairSpec
CONSTANTS
    None = None
    File = {f1, f2}
    Process = {p1, p2}
    Convertible = {}
    Faults = {}
    MaxFaults = 0
    MaxRequests = 0
PROPERTY UploadedIsParsed
CHECK_DEADLOCK FALSE
