CONSTANTS
    o1 = o1
    Ops = {o1}
    Queries <- EveryQuery
    Terminals = {TRUE, FALSE}

SPECIFICATION FairSpec

INVARIANT TypeOK
INVARIANT RowsHaveVector
INVARIANT FacadeRowsProven
INVARIANT HonestVerdict
INVARIANT DiagnosedFailureIsAnswer
PROPERTY EveryStatementEnds
