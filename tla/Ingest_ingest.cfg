SPECIFICATION MCSpec
CONSTANTS
  Summaries = {"h1", "h2"}
  Signalless = {}
  MaxMessages = 3
  MaxFaults = 2
  Lines <- MCLines
  MaxLines = 3
  Batch = 2
  MaxDeliver = 2
  AgentMessages <- MCMessages
INVARIANTS
  NothingVanishes
PROPERTIES
  EveryLineEnds
