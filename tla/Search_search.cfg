SPECIFICATION MCSpec
CONSTANTS
  t1 = t1
  t2 = t2
  t3 = t3
  t4 = t4
  c1 = c1
  c2 = c2
  c3 = c3
  c4 = c4
  c5 = c5
  server = server
  worker = worker
  Thoughts <- MCThoughts
  Chunks <- MCChunks
  Parent <- MCParent
  Match <- MCMatch
  Marked <- MCMarked
  InScope <- MCInScope
  Links <- MCLinks
  MayRetract <- MCMayRetract
  Flags <- MCFlags
  TopK = 2
  Spread = 2
  SeedCount = 2
  PerSeedCap = 2
  TotalCap = 3
  Old <- MCOld
  Matching <- MCMatching
  CandidatePool = 1
  Limit = 2
  Targets <- MCTargets
  Processes <- MCProcesses
  Workers <- MCWorkers
  Asked <- MCAsked
  MaxFaults = 2
  MaxOld = 1
  Nobody = nobody
INVARIANTS
  BaselineKeepsItsPlace
  AnswersWereVisible
  FindsWhatWasThere
PROPERTIES
  StartsSucceed
CHECK_DEADLOCK FALSE
