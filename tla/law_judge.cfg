SPECIFICATION FairSpec
CONSTANTS
    t1 = t1
    a1 = a1
    left = left
    CheckPoint = {t1, a1}
    Rule = {left}
    RuleOf <- RuleOfPoint
    ByTemplate = {t1}
    Outcomes <- OutcomesOfPoint
    Templates = templates
    User = {u1}
    None = None
    Faults = {"judge", "task", "user"}
    MaxJudgings = 2
    MaxChanges = 1
INVARIANTS
    TypeOK
    OneJudging
    NoneForgotten
    ShownIsJudged
PROPERTIES
    AllJudged
    VerdictsStand
CHECK_DEADLOCK FALSE
