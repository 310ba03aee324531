SPECIFICATION Spec
CONSTANTS
    q1 = q1
    q2 = q2
    w1 = w1
    w2 = w2
    None = None
    Question = {q1, q2}
    Worker = {w1, w2}
    MoldType <- TwoHybrid
    Model <- AllButOneEnabled
    Initial <- AllButOneTodo
    Faults = {"crash", "predict", "extract", "studio", "spontaneous", "pipe", "interdoc", "recruit"}
    MaxRequests = 1
INVARIANTS
    TypeOK
    StatusDerived
    FinishedHoldsItsAnswers
    NoRunLeftBehind
PROPERTIES
    ProducersTakeTurns
SYMMETRY WorkerSymmetry
CHECK_DEADLOCK FALSE
