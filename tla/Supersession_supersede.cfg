SPECIFICATION Spec
CONSTANTS
  c1 = c1
  c2 = c2
  src = src
  src2 = src2
  h1 = h1
  h2 = h2
  h3 = h3
  text = text
  twin = twin
  other = other
  id1 = id1
  id2 = id2
  Sources <- TwoSources
  Hashes <- ThreeHashes
  Contents <- Texts
  TextOf <- Rendering
  Payloads <- Delivered
  Ids <- TwoIds
  Requests <- Asked
  Clients <- TwoClients
  MaxCalls = 2
INVARIANTS
  OneReceiptPerRequest
  SupersededForGood
PROPERTIES
  AppliedAsApproved
  ImplementsLedger
SYMMETRY ClientSymmetry
