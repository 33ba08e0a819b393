CONSTANTS
    o1 = o1
    Ops = {o1}
    Queries <- CeilingQueries
    Terminals = {TRUE}

SPECIFICATION Spec

INVARIANT ProvenRows
