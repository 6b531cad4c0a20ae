SPECIFICATION Spec
CONSTANTS
  P = P
  C = C
  d1 = d1
  d2 = d2
  Legacy = Legacy
  Sessions = {P}
  Sources = {d1, d2}
  Threads <- NoThreads
  Tags <- NoTags
  MaxUuid = 1
  MaxId = 1
  MaxTime = 0
  MaxFaults = 0
  Mirror = TRUE
  Passes = {"full", "rebuild"}
PROPERTY SkippedSourcesCount
