CONSTANTS
  p1 = p1
  Masks = {p1}
SPECIFICATION FairSpec
INVARIANTS TypeOK 
PROPERTIES ReleasedWritesNothing SaversSettle
