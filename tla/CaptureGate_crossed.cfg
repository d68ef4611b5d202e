SPECIFICATION FairSpec
CONSTANTS
  c1 = c1
  c2 = c2
  text = text
  twin = twin
  other = other
  src = src
  h1 = h1
  h2 = h2
  intent = intent
  fam = fam
  none = none
  None = none
  Contents <- Texts
  Sources <- Srcs
  Hashes <- TwoHashes
  Intents <- OneIntent
  Families <- OneFamily
  Near <- Twins
  Safe <- Twins
  Clients <- TwoClients
  Requests <- MixedRequests
  Hygiene = TRUE
  MaxCalls = 1
INVARIANTS
  RaceEndsInOneRetry
  SemanticGateHolds
  EveryThoughtGetsVector
PROPERTIES
  TransactionsEnd
CHECK_DEADLOCK FALSE
