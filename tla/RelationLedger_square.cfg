SPECIFICATION Spec
CONSTANTS
  s1 = s1
  s2 = s2
  s3 = s3
  k1 = k1
  k2 = k2
  k3 = k3
  k4 = k4
  k5 = k5
  k6 = k6
  url = url
  Thoughts <- Quad
  Externals <- NoThoughts
  Relations <- Refines
  Supersession <- Refines
  Keys <- FourKeys
  Requests <- SquareRequests
  Sessions <- Two
  Retractable <- NoThoughts
  MaxAttempts = 1
INVARIANTS
  NoChainCycle
SYMMETRY SessionSymmetry
CHECK_DEADLOCK FALSE
