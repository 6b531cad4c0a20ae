SPECIFICATION Spec
CONSTANTS
  s1 = s1
  s2 = s2
  Sessions <- MCSessions
  Requests <- MCRequests
  Legacy = {}
  MaxLines = 2
  MaxWrites = 1
  MaxDeletes = 1
  MaxKills = 0
INVARIANT BareYesKeepsFiles
CHECK_DEADLOCK FALSE
