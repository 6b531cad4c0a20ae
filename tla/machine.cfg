SPECIFICATION MCSpec
CONSTANTS
  Machines = {1, 2}
  Home = 2
  Authors = {2}
  Starts = {1, 2}
  MaxWrites = 2
  MaxTime = 2
  Workers = {w1, w2}
  Prewarmers = {p1, p2}
  Hidden = {}
  Size <- MCSize
  ChunkByteCap = 2
  MaxPasses = 2
  MaxMessages = 3
  Openers = {o1, o2}
  TrigramBatch = 1
  MaxMade = 2
  MaxOld = 1
  MaxNew = 1
  Agents <- MCAgents
  MaxEdits = 2
  MaxVersion = 2
  MaxBadUpgrades = 2
  Keys = {k1, k2}
  Children = {c1}
  Commands = {d1}
  MaxIds = 2
  MaxBreaks = 1
  Hits <- MCHits
  Turn = {3}
  Limit = 2
  Fetch = 2
  Growth = 2
  MaxWindow = 6
  s1 = s1
  s2 = s2
  Sessions <- MCSessions
  Requests <- MCRequests
  Legacy = {}
  MaxLines = 2
  MaxDeletes = 1
  Ingesters = {i1, i2}
  MaxAttempts = 2
  MaxLength = 2
  MaxGens = 2
  MaxStarts = 2
  MaxBusy = 1
  MaxRuns = 2
  MaxFaults = 1
  MaxKills = 1
  MaxCuts = 1
INVARIANTS
  TypeOK
  StoreShowsLatest
  TaggingsArrive
  OneWorker
  SegmentsDisjoint
  
  SubstringFindsAll
  EntriesResolve
  UserEntriesKept
  UpgradeKeepsBinary
  VectorsPointHome
  
  
  IngestedIsSearchable
  OnlyWhatWasAgreed
CHECK_DEADLOCK FALSE
