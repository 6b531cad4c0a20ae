------------------------------ MODULE Machine ------------------------------
(***************************************************************************)
(* The parts of a machine that share no state with one another, side by     *)
(* side: every step is a step of one of them.  Each part is a module of its *)
(* own; the three whose theorems are used here are instantiated from the    *)
(* modules that prove them.                                                 *)
(***************************************************************************)
EXTENDS Naturals, Sequences, FiniteSets

CONSTANTS Machines, Home, Authors, Starts, MaxWrites, MaxTime,
          Workers, Prewarmers, Hidden, Size, ChunkByteCap, MaxPasses, MaxMessages,
          Openers, TrigramBatch, MaxMade, MaxOld, MaxNew,
          Agents, MaxEdits, MaxVersion, MaxBadUpgrades,
          Keys, Children, Commands, MaxIds, MaxBreaks,
          Hits, Turn, Limit, Fetch, Growth, MaxWindow,
          Sessions, Requests, Legacy, MaxLines, MaxDeletes,
          Ingesters, MaxAttempts, MaxLength, MaxGens, MaxStarts, MaxBusy,
          MaxRuns, MaxFaults, MaxKills, MaxCuts

(* The releases are numbered; a batch of the backfill is not empty; setup   *)
(* has one agent at least, as Claude Code is always one of its targets; the *)
(* hits are a list, and a wider window is wider (search.go storeAnchors); a *)
(* transcript may have a line.                                              *)
ASSUME ReleaseAssumption == MaxVersion \in Nat
ASSUME AgentsAssumption == Len(Agents) \in Nat \ {0}
ASSUME SearchAssumption ==
    /\ Len(Hits) \in Nat /\ DOMAIN Hits = 1 .. Len(Hits)
    /\ Limit \in Nat /\ Fetch \in Nat \ {0} /\ MaxWindow \in Nat /\ Growth \in Nat \ {0, 1}
ASSUME BoundsAssumption ==
    /\ MaxLines \in Nat \ {0} /\ MaxLength \in Nat \ {0} /\ MaxGens \in Nat \ {0}
    /\ MaxBusy \in Nat
ASSUME BatchAssumption == MaxMade \in Nat /\ TrigramBatch \in Nat \ {0}

VARIABLES db, store, mark, purged, publishers, tagFiles, clone, due, conflict, now, writes,
          badTags, lostTags, blurred, direct, withheld,
          len, segs, shown, claim, worker, dump, state, prewarm, workerKills, robbed, torn, short,
          messages, lastId, made, trigram, table, triggers, done, backfillAt, opener,
          olds, news, openerCuts, crossedFill,
          scripts, config, tmp, setup, wanted, ejected, lostEdits, edits, setupKills,
          target, new, old, latest, upgrade, best, crossedSwap, badUpgrades, upgradeKills,
          rows, seq, vectors, lock, pass, breaks, reused,
          stage, folded, search, badSearches,
          files, row, retained, vault, tombs, indexPass, cmd, agentWrites, deletes, deleteKills,
          told, clean, unasked, bare,
          disk, refresh, searchable, foldMark, deleted, marker, ingest, busy, overtaken, missed

Tags == INSTANCE TagExchange_proofs WITH files <- tagFiles, faults <- badTags, lost <- lostTags
Tagging == INSTANCE Closeout_proofs WITH lock <- claim, kills <- workerKills
Substrings == INSTANCE SearchIndex WITH seq <- lastId, cuts <- openerCuts, crossed <- crossedFill
Setup == INSTANCE HookSetup WITH run <- setup, lost <- lostEdits, kills <- setupKills
Upgrades == INSTANCE Upgrade WITH run <- upgrade, crossed <- crossedSwap,
                                  MaxFaults <- MaxBadUpgrades,
                                  faults <- badUpgrades, kills <- upgradeKills
Vectors == INSTANCE VectorTopup
Searches == INSTANCE Retrieval WITH Match <- Hits, faults <- badSearches
Deletes == INSTANCE Deletion_proofs WITH pass <- indexPass, writes <- agentWrites,
                                         kills <- deleteKills
Ingests == INSTANCE Ingest WITH cache <- refresh, store <- searchable, mark <- foldMark,
                                run <- ingest

(* What the proofs of these three parts ask of their parameters.           *)
ASSUME PartsAssumption == Tags!Parameters /\ Tagging!Parameters /\ Deletes!Parameters

tags == <<db, store, mark, purged, publishers, tagFiles, clone, due, conflict, now, writes,
          badTags, lostTags, blurred, direct, withheld>>
tagging == <<len, segs, shown, claim, worker, dump, state, prewarm, workerKills, robbed, torn,
             short>>
substrings == <<messages, lastId, made, trigram, table, triggers, done, backfillAt, opener,
                olds, news, openerCuts, crossedFill>>
setups == <<scripts, config, tmp, setup, wanted, ejected, lostEdits, edits, setupKills>>
upgrades == <<target, new, old, latest, upgrade, best, crossedSwap, badUpgrades, upgradeKills>>
vectorPass == <<rows, seq, vectors, lock, pass, breaks, reused>>
searches == <<stage, folded, search, badSearches>>
commands == <<files, row, retained, vault, tombs, indexPass, cmd, agentWrites, deletes,
              deleteKills, told, clean, unasked, bare>>
sessions == <<disk, refresh, searchable, foldMark, deleted, marker, ingest, busy, overtaken,
              missed>>
vars == <<tags, tagging, substrings, setups, upgrades, vectorPass, searches, commands, sessions>>

Init ==
    /\ Tags!Init /\ Tagging!Init /\ Substrings!Init /\ Setup!Init /\ Upgrades!Init
    /\ Vectors!Init /\ Searches!Init /\ Deletes!Init /\ Ingests!Init

TagsStep ==
    /\ Tags!Next
    /\ UNCHANGED <<tagging, substrings, setups, upgrades, vectorPass, searches, commands, sessions>>
TaggingStep ==
    /\ Tagging!Next
    /\ UNCHANGED <<tags, substrings, setups, upgrades, vectorPass, searches, commands, sessions>>
SubstringsStep ==
    /\ Substrings!Next
    /\ UNCHANGED <<tags, tagging, setups, upgrades, vectorPass, searches, commands, sessions>>
SetupStep ==
    /\ Setup!Next
    /\ UNCHANGED <<tags, tagging, substrings, upgrades, vectorPass, searches, commands, sessions>>
UpgradesStep ==
    /\ Upgrades!Next
    /\ UNCHANGED <<tags, tagging, substrings, setups, vectorPass, searches, commands, sessions>>
VectorsStep ==
    /\ Vectors!Next
    /\ UNCHANGED <<tags, tagging, substrings, setups, upgrades, searches, commands, sessions>>
SearchesStep ==
    /\ Searches!Next
    /\ UNCHANGED <<tags, tagging, substrings, setups, upgrades, vectorPass, commands, sessions>>
DeletesStep ==
    /\ Deletes!Next
    /\ UNCHANGED <<tags, tagging, substrings, setups, upgrades, vectorPass, searches, sessions>>
IngestsStep ==
    /\ Ingests!Next
    /\ UNCHANGED <<tags, tagging, substrings, setups, upgrades, vectorPass, searches, commands>>

Next ==
    \/ TagsStep \/ TaggingStep \/ SubstringsStep \/ SetupStep \/ UpgradesStep
    \/ VectorsStep \/ SearchesStep \/ DeletesStep \/ IngestsStep

Spec == Init /\ [][Next]_vars

----------------------------------------------------------------------------
(* What the parts promise; the modules that define these say why.          *)

TypeOK == Tags!TypeOK /\ Tagging!TypeOK /\ Deletes!TypeOK /\ Ingests!TypeOK
StoreShowsLatest == Tags!StoreShowsLatest
TaggingsArrive == Tags!TaggingsArrive
OneWorker == Tagging!OneWorker
SegmentsDisjoint == Tagging!SegmentsDisjoint
DoneMeansTagged == Tagging!DoneMeansTagged
SubstringFindsAll == Substrings!SubstringFindsAll
EntriesResolve == Setup!EntriesResolve
UserEntriesKept == Setup!UserEntriesKept
UpgradeKeepsBinary == Upgrades!UpgradeKeepsBinary
VectorsPointHome == Vectors!VectorsPointHome
CompleteMeansComplete == Searches!CompleteMeansComplete
ReceiptHolds == Deletes!ReceiptHolds
OnlyWhatWasAgreed == Deletes!OnlyWhatWasAgreed
IngestedIsSearchable == Ingests!IngestedIsSearchable
=============================================================================
