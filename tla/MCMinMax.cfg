SPECIFICATION Spec
CONSTANTS
    Inputs <- AllInputs
    Rows <- MCRows
    Inf <- MCInf
    Grid <- MCGrid
    AuxGrid <- MCAuxGrid
INVARIANTS
    SameAnswers
    BestIsBest
    BoundedIsAnswered
    LooseningRepairs
