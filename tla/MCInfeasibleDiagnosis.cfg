CONSTANTS
    Points <- ThreePoints
    Problems <- SmallProblems

SPECIFICATION FairSpec

INVARIANT TypeOK
INVARIANT RepairWorks
INVARIANT PromisedObjective
INVARIANT FewestDrops
INVARIANT LeastChange
INVARIANT RigidIsTrue
PROPERTY EveryDiagnosisEnds
