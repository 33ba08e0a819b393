SPECIFICATION Spec
CONSTANTS
    Inputs <- SignedProducts
    Rows <- MCRows
    Inf <- MCInf
    Grid <- MCGrid
    AuxGrid <- MCAuxGrid
INVARIANTS
    SameAnswers
