SPECIFICATION Spec
CONSTANTS
    Inputs <- AllInputs
    Rows <- MCRows
    Inf <- MCInf
    Grid <- MCGrid
    AuxGrid <- MCAuxGrid
INVARIANTS
    TypeOK
    SameAnswers
    BoundedIsAnswered
    NotEqualSurvivesLoosening
