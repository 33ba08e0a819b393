CONSTANTS
    o1 = o1
    Nothing = Nothing
    Feasible = Feasible
    Ops = {o1}
    MaxStatements = 8

SPECIFICATION Spec

INVARIANT TypeOK
INVARIANT AnswersSolveThatRan

CHECK_DEADLOCK FALSE
