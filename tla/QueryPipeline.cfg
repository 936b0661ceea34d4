SPECIFICATION Spec
CONSTANTS
  Queries = {q1, q2}
  Workers = {w1, w2}
  QueueSizes = {0, 1}
  MaxTiles = 3
  MaxBuckets = 3
  MaxWork = 7
INVARIANTS
  TypeOK
  BucketsSafe
PROPERTY DeliveryCompletes
