SPECIFICATION Spec
CONSTANTS
  P = P
  C = C
  d1 = d1
  d2 = d2
  Legacy = Legacy
  Sessions = {P, C}
  Sources = {d1}
  Threads <- ThreadOfP
  Tags <- NoTags
  MaxUuid = 2
  MaxId = 3
  MaxTime = 3
  MaxFaults = 1
  Mirror = FALSE
  Passes = {"sync", "full"}
INVARIANT TypeOK
INVARIANT NoMissedMessage
INVARIANT SessionsAreTheUnion
PROPERTY HistoryIsKept
