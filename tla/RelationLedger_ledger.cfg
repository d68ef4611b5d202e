SPECIFICATION MCSpec
CONSTANTS
  s1 = s1
  s2 = s2
  s3 = s3
  k1 = k1
  k2 = k2
  k3 = k3
  k4 = k4
  k5 = k5
  k6 = k6
  url = url
  Thoughts <- Triple
  Externals <- Urls
  Relations <- RefinesSupports
  Supersession <- Refines
  Keys <- SixKeys
  Requests <- MixedAndRing
  Sessions <- Three
  Retractable <- First
  MaxAttempts = 2
INVARIANTS
  LiveChainHeadsActive
  OneExecutionPerKey
  NoShortChainCycle
PROPERTIES
  NewEdgesJoinLiveThoughts
  ImplementsService
  SessionsFinish
CHECK_DEADLOCK FALSE
