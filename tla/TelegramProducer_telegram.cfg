SPECIFICATION Spec
CONSTANTS
  Lines <- MCLines
  NoTime = 9
  Summaries = {"h1"}
  MaxRows = 4
  MaxRecords = 3
  PoisonAttempts = 2
  MaxDepth = 1
  MaxCrashes = 1
INVARIANTS
  OffsetBehindOutcomes
  OnePayloadPerRef
PROPERTIES
  EveryRecordSettles
