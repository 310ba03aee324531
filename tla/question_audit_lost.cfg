SPECIFICATION FairSpec
CONSTANTS
    q1 = q1
    q2 = q2
    w1 = w1
    w2 = w2
    None = None
    Question = {q1, q2}
    Worker = {w1, w2}
    MoldType <- LLMAndComplex
    Model <- AllEnabled
    Initial <- AllTodo
    Faults = {}
    MaxRequests = 0
PROPERTIES
    FinishedFileIsAudited
CHECK_DEADLOCK FALSE
