SPECIFICATION Spec
CONSTANTS
  P = P
  C = C
  d1 = d1
  d2 = d2
  Legacy = Legacy
  Sessions = {P}
  Sources = {d1}
  Threads <- NoThreads
  Tags <- NoTags
  MaxUuid = 2
  MaxId = 2
  MaxTime = 3
  MaxFaults = 0
  Mirror = TRUE
  Passes = {"sync"}
INVARIANT NoStaleContribution
