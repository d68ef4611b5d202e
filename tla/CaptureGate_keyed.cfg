SPECIFICATION Spec
CONSTANTS
  c1 = c1
  c2 = c2
  text = text
  twin = twin
  other = other
  src = src
  h1 = h1
  h2 = h2
  intent = intent
  fam = fam
  none = none
  None = none
  Contents <- Texts
  Sources <- Srcs
  Hashes <- TwoHashes
  Intents <- OneIntent
  Families <- OneFamily
  Near <- Twins
  Safe <- Twins
  Clients <- TwoClients
  Requests <- KeyedRequests
  Hygiene = FALSE
  MaxCalls = 2
INVARIANTS
  ReceiptsAreDurable
  RetriesNeverConflict
PROPERTIES
  ImplementsLedger
SYMMETRY ClientSymmetry
CHECK_DEADLOCK FALSE
