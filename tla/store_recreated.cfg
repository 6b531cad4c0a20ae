SPECIFICATION SpecRecreate
CONSTANTS
  P = P
  C = C
  d1 = d1
  d2 = d2
  Legacy = Legacy
  Sessions = {P, C}
  Sources = {d1}
  Threads <- NoThreads
  Tags <- NoTags
  MaxUuid = 2
  MaxId = 3
  MaxTime = 6
  MaxFaults = 0
  Mirror = FALSE
  Passes = {"sync"}
INVARIANT NoMissedMessage
