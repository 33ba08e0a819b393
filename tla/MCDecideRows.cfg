SPECIFICATION FairSpec
CONSTANTS
  Queries <- MCQueries
  Threads = {t1, t2}
  VectorSize = 2
  IntLimit = 2
  Unit = 6
INVARIANTS TypeOK ColumnsDistinct OwnerIsInverse RowsMeanQuery ObjectiveMeansQuery EachRowOnce
PROPERTIES ImplementsRowAnswers EveryRowDelivered
CHECK_DEADLOCK FALSE
