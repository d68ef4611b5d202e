SPECIFICATION MCSpec
CONSTANTS
  w1 = w1
  w2 = w2
  c1 = c1
  k1 = k1
  k2 = k2
  site = site
  forum = forum
  Thoughts <- Pair
  Externals <- Urls
  Relations <- Supports
  Supersession <- Nobody
  Keys <- TwoKeys
  Workers <- TwoWorkers
  Runs <- OneRun
  Emissions <- Wavering
  Requests <- Corrections
  Retractable <- First
  MaxTagAttempts = 2
  BatchSize = 2
  MaxFaults = 2
INVARIANTS
  JobsEndPublished
  TagsAgreeWithEdges
  FailedCallsBounded
  OneSetPublished
PROPERTIES
  RetagKeepsAgentRows
  JobsLeave
CHECK_DEADLOCK FALSE
