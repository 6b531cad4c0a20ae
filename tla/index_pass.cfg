SPECIFICATION Spec
CONSTANTS
  old = old
  full = full
  other = other
  ind1 = ind1
  ind2 = ind2
  ses1 = ses1
  ses2 = ses2
  Files = {old, full, other}
  Owner <- OwnerOf
  Preferred <- FullPreferred
  Indexers = {ind1, ind2}
  Scopes <- SomeScopes
  Head = 3
  Wide = 4
  MaxLen = 2
  MaxGen = 2
  MaxTime = 3
  MaxFaults = 1
INVARIANTS TypeOK SkippableIsWhole
PROPERTIES WatermarkedOnce HistoryIsKept VaultKeepsUp PassSettles
CHECK_DEADLOCK FALSE
