SPECIFICATION SpecBehind
CONSTANTS
  P = P
  C = C
  d1 = d1
  d2 = d2
  Legacy = Legacy
  Sessions = {P}
  Sources = {d1, d2}
  Threads <- NoThreads
  Tags <- NoTags
  MaxUuid = 1
  MaxId = 2
  MaxTime = 2
  MaxFaults = 0
  Mirror = FALSE
  Passes = {"sync", "full", "rebuild"}
INVARIANT NoMissedMessage
