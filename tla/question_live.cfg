SPECIFICATION FairSpec
CONSTANTS
    q1 = q1
    q2 = q2
    w1 = w1
    w2 = w2
    None = None
    Question = {q1}
    Worker = {w1, w2}
    MoldType <- OneHybrid
    Model <- AllEnabled
    Initial <- AllTodo
    Faults = {"predict", "extract", "studio"}
    MaxRequests = 1
INVARIANTS
    DoingIsAnswered
PROPERTIES
    Settles
    FinishedFileIsAudited
CHECK_DEADLOCK FALSE
