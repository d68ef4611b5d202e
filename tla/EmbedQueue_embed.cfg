SPECIFICATION FairSpec
CONSTANTS
  w1 = w1
  b1 = b1
  bge = bge
  qwen = qwen
  Thoughts <- First
  Chunks <- Third
  Parent <- OfFirst
  Models <- TwoModels
  Active <- bge
  Workers <- OneWorker
  Backfills <- OneBackfill
  Hygiene = TRUE
  BatchSize = 2
  Limit = 2
  AttemptCap = 2
  MaxRows = 3
  MaxFaults = 1
INVARIANTS
  NothingLost
  LateVectorsBounded
PROPERTIES
  VectorsArrive
CHECK_DEADLOCK FALSE
