SPECIFICATION FairSpec
CONSTANTS
  Queries <- QualifierBeforeWhen
  Threads = {t1, t2}
  VectorSize = 2
  IntLimit = 2
  Unit = 6
INVARIANTS RowsMeanQuery
CHECK_DEADLOCK FALSE
