SPECIFICATION MCSpec
CONSTANTS
  t1 = t1
  t2 = t2
  t3 = t3
  a1 = a1
  a2 = a2
  g1 = g1
  g2 = g2
  h1 = h1
  h2 = h2
  good = good
  better = better
  bad = bad
  None = None
  Rejected = Rejected
  Thoughts <- MCThoughts
  Words <- MCWords
  Text <- MCText
  Stops <- MCStops
  Markers <- MCMarkers
  Archived <- MCArchived
  Params <- MCParams
  Answers = {good, better, bad}
  Unfit = {bad}
  Appliers = {a1, a2}
  Generators = {g1, g2}
  Sweepers = {h1}
  Budgets = {1, 2}
  MaxEntries = 1
INVARIANTS
  ChunksCoverTheirThought
  VectorsAreOfTheirText
  CompletedSweepsWereThorough
PROPERTIES
  CuttingEnds
  SweepsRemoveNothingFound
CHECK_DEADLOCK FALSE
