SPECIFICATION Spec
CONSTANTS
  Lines <- MCUntimed
  NoTime = 9
  Summaries = {"h1"}
  MaxRows = 3
  MaxRecords = 3
  PoisonAttempts = 2
  MaxDepth = 1
  MaxCrashes = 0
INVARIANTS
  NoRecordWithoutTrace
