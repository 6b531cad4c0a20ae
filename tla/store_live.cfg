SPECIFICATION LiveSpec
CONSTANTS
  P = P
  C = C
  d1 = d1
  d2 = d2
  Legacy = Legacy
  Sessions = {P}
  Sources = {d1}
  Threads <- NoThreads
  Tags <- TaggedTwice
  MaxUuid = 2
  MaxId = 2
  MaxTime = 3
  MaxFaults = 1
  Mirror = FALSE
  Passes = {"sync", "full"}
INVARIANT NoMissedTag
PROPERTY DeletedStaysGone
PROPERTY MessagesArrive
