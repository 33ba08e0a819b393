CONSTANTS
    o1 = o1
    o2 = o2
    Ops = {o1, o2}
    Queries <- SiblingQueries
    Terminals = {FALSE}

SPECIFICATION FairSpec

INVARIANT ProvenRows
PROPERTY InterruptClearedToDeliver
PROPERTY EveryStatementEnds
