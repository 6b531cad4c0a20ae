SPECIFICATION Spec
CONSTANTS
  P = P
  C = C
  d1 = d1
  d2 = d2
  Legacy = Legacy
  Sessions = {P}
  Sources = {d1, d2}
  Threads <- NoThreads
  Tags <- NoTags
  MaxUuid = 2
  MaxId = 3
  MaxTime = 2
  MaxFaults = 0
  Mirror = TRUE
  Passes = {"sync", "full"}
INVARIANT SessionsAreTheUnion
PROPERTY SkippedSourcesCount
SYMMETRY AnySource
