# A TLA+ model of rawclaw

rawclaw indexes the transcripts of coding agents so that they can be searched.
Each project has an index database of its own; one *consolidated store* holds
all of them; an optional git *archive* carries transcripts and tags between
machines. The transcripts are purged by the agents that wrote them after about
a month, so that in time the databases are the only copy. What makes the
program correct is that nothing is lost, missed or brought back on the way,
although most of it runs in short processes that nobody coordinates: hooks,
detached children, timers and the user's own commands.

This directory holds TLA+ modules translated from the source, configurations
for TLC, and proofs for TLAPS.

## The system

| component | code | state | operations | what makes it correct | module |
|---|---|---|---|---|---|
| project indexer | `internal/index` (`index.go`, `tail.go`, `containers.go`) | `sessions`, `messages`, `file_index`, `meta` of a project | index pass: walk, re-read a file, append a tail, orphan pass | what the watermark vouches for is indexed; a record is stored once | `ProjectIndex` |
| retention | `internal/retention` | `only_copy_since` | stamp, clear, prune | a purged transcript is kept, a deleted one goes | `ProjectIndex` |
| vault | `internal/durable` | copies of transcripts | copy, flag, remove | never behind the index | `ProjectIndex`, `Deletion` |
| lifecycle, delete command | `internal/lifecycle`, `cli/cmd_lifecycle.go`, `index/retained.go` | transcript files, tombstone sidecars | plan, ask, delete, tombstone, evict, archive | only what was agreed goes, and it stays gone | `Deletion` |
| ingest | `cli/cmd_ingest.go`, `bg_ingest.go`, `containers.go` | a refresh cache per session, the spawn marker | refresh, verify, fold, verify | success means searchable | `Ingest` |
| consolidated store | `index/consolidated.go`, `tagstate.go` | the union, `session_sources`, watermarks `sync:<path>` | fold, full pass, rebuild and swap, carry-forward, heal, prune | every message arrives, no session is lost, deletes last | `SourceDB`, `FoldStore`, `ConsolidatedStore` |
| fence | `index/consolidated_fence.go` | a file lock | acquire, release | one pass at a time | `ConsolidatedStore` |
| archive | `internal/archive` | a git clone per machine, the remote, `clone.lock`, stamps | push, pull, clone recovery, tombstones, replica ingest | no commit is stranded, none takes another's files out, a torn tree is not absence | `SharedArchive`, `ArchiveSync` |
| tagging across machines | `cli/tagpublish.go`, `tagexport.go`, `archive/tag*.go`, `store/topics.go`, `verdict.go` | topic rows, verdicts, tag files | tag, publish, fold, export, resolve | the latest tagging shows, everywhere | `TagExchange` |
| closeout | `cli/cmd_closeout.go`, `bg_ingest.go`, `cmd_tag.go`, `cmd_prewarm.go` | a lock directory with a token, a prewarmed dump and its fingerprint | claim, reclaim, prep, tag, write, release | one worker, disjoint segments, done means tagged | `Closeout` |
| substring index | `index/index.go`, `store/fts.go` | an FTS5 table, triggers, two marks | create, backfill in batches, reset | the marks say what it holds | `SearchIndex` |
| vectors | `internal/semantic`, `store/vectors.go` | a vector per session and text, a lock | prune, refresh, embed | an id names the message it was made of | `VectorTopup` |
| agent search | `agentproto/search.go`, `retrieve` | none | windows, fallback, report | `complete` is true | `Retrieval` |
| setup | `cli/cmd_setup.go`, `setup.go` | hook scripts, the agents' settings | install, eject | the user's settings survive; entries resolve | `HookSetup` |
| upgrade | `cli/cmd_upgrade.go`, `apply.go` | the binary, `.new`, `.old` | check, download, verify, swap, roll back | a whole binary is in place | `Upgrade` |
| adapters, parsing, live sessions, paths, presentation | `source`, `parse`, `live`, `paths`, `view`, ... | external formats, sockets | decode, print | — | — |

How they interact. An index run writes its project database, closes it, then
calls `writeThroughConsolidated`, which takes the fence and folds that one
database into the store. `rawclaw consolidate` takes the fence and folds all of
them; with `--rebuild` it fills `consolidated.db.rebuild` beside the live store,
carries forward what only the live store holds, and renames it into place. A
delete writes a tombstone that index passes read once when they start,
consolidation when it prunes, and a push when it stages. An ingest is an index
run over one file, made strict. Tagging writes the project database and spawns
a child that publishes to the store under the fence. The background sync runs a
push and then a pull; a pull is followed by an ingest of the replicas and of
the tag files. Only passes (by the fence), pushes and pulls of a machine (by
`clone.lock`) and closeout workers (by their lock) exclude each other.

What is hard: watermarks and fingerprints that stand for content and are read at
another moment than the content; processes that overlap because nothing forbids
it; kills between two commits, two renames or two git commands; and locks that
are only advisory. `PROJECT.json` lists each hazard at its line.

## The modules

| module | lines it stands for | what it is |
|---|---|---|
| `SourceDB` | indexer, retention, tagging | a project database as a value, the transactions committed to it, its watermark |
| `FoldStore` | `consolidateOne` and the rest | the store as a value, the transactions a pass commits to it |
| `ConsolidatedStore` | passes and their environment | several project databases, the live store, a rebuild, the pass that holds the fence |
| `ProjectIndex` | `index.go`, `tail.go`, `containers.go`, `retention.go`, `durable.go` | index passes over one project, its transcripts, `file_index`, the vault |
| `SharedArchive` | — | the abstract archive: one log of commits |
| `ArchiveSync` | `internal/archive` | machines, clones and git; implements `SharedArchive` |
| `TagExchange`, `Closeout`, `SearchIndex`, `VectorTopup`, `Retrieval`, `HookSetup`, `Upgrade`, `Deletion`, `Ingest` | see above | one component each |
| `Machine` | — | the nine of the row above, side by side |
| `MC...` | — | values of constants for TLC; `MCMachine` runs the parts of `Machine` one at a time |
| `FiniteFacts` | — | lemmas on finite sets |
| `ConsolidatedStore_proofs`, `ProjectIndex_proofs`, `ArchiveSync_proofs`, `TagExchange_proofs`, `Closeout_proofs`, `Deletion_proofs`, `Machine_proofs` | — | the theorems on these modules (*The proofs*) |

How they compose. `ConsolidatedStore` is built from `SourceDB` and `FoldStore`
and composes indexers, retention, tagging, deletes and passes. `ProjectIndex`
says in detail what it takes as single commits on a source. `ArchiveSync`
implements `SharedArchive`. `TagExchange` uses the store's fold of tags and, as
one step, `ArchiveSync`'s push and pull; `Closeout` uses its publication;
`Ingest` and `Deletion` use the index pass and the fold cut down to one session
or one pass. `Machine` puts these nine side by side: each step is a step of one
of them, and they share no variable. The theorems of `Machine_proofs` are about
this product. For TLC it has many more states than its parts and says nothing
more of each, so `MCMachine` checks their *sum*: a variable `part`, chosen at the
start, says which of them moves. `Closeout` takes part twice, with two workers
and with two prewarms.

### Core: `ConsolidatedStore`

| variable | in the program |
|---|---|
| `src[d]` | a project database: `sess` is `sessions` with `only_copy_since` (`Absent`, `Live` = NULL, or the time of the stamp); `msgs` the `messages` with AUTOINCREMENT ids; `last` is `sqlite_sequence`; `layer`, whether the topic tables exist; `topic`, `verdict`; `behind`, a database of an older schema without the scope columns |
| `live`, `build` | `consolidated.db` and `consolidated.db.rebuild`: `contrib` is `session_sources`, `row` and `count` the session rows, `msgs`, `topic`, `verdict`, `mark` the watermarks in `meta` |
| `job` | the process that holds the fence: the kind of pass, where it is, the sources to go, and the watermark it has read |
| `tombs`, `seen[d]` | the sidecar, and what the current index pass of `d` loaded of it |
| `now`, `faults` | a count of outside writes, used as the clock, and of faults |

One action is one commit, or one read a later commit relies on.

| action | code |
|---|---|
| `StartIndex`, `SrcReindex`, `SrcAppend` | `ensureIndexedTree`, `updateIndexWithOrigin`, `reindexFileWithOrigin`, `appendTailIfPossible`/`appendContainerAt` |
| `SrcStamp`, `SrcClear`, `SrcPruneMessages`, `SrcPruneRow` | `ReconcileRetention`, `pruneSession` (one autocommit statement per table) |
| `SrcTag`, `SrcJudge` | `ReplaceSessionSegments`, `UpsertVerdict` |
| `Delete` | `lifecycle.Delete`, `TombstoneIDs` |
| `StartSync`, `StartFull`, `StartRebuild` | `SyncConsolidatedFrom`, `ConsolidateFrom` after the fence |
| `Heal`, `Migrate` | `EnsureSchema` and `healUpgradedConsolidatedStore`; `restoreTagState` and `migrateSessionSources` |
| `SkipBehind`, `SkipUnchanged`, `ReadMark`, `FoldTx` | `consolidateOne`: the two early returns, the watermark, the transaction |
| `EndFolds`, `Carry`, `RefuseCarry`, `Prune`, `Swap` | the rest of `ConsolidateFrom` |
| `PruneUnreadable`, `Fail`, `Kill` | an unreadable sidecar, an error return, the death of the process (the lock goes with it; a half built replacement stays until the next rebuild removes it) |

Two further behaviours are kept out of `Spec` because what is proved of it is
false with them, and each has a run that shows so: `SrcRecreate` (a database
removed and filled again under its name) in `SpecRecreate`, and a store whose
own `schema_version` is behind in `SpecBehind`. The theorems therefore speak of
databases that are never recreated and of a store of the current schema. A
source behind the schema has not been folded before (it has no watermark).

Abstracted: a message is its row id, its session and its place in the
transcript, which stands for its uuid (messages without uuid, which a fold
deduplicates by content, are not modelled); a session has at most one topic row
and one verdict; the statements that compute a watermark are read as one, but
the interval between the watermark and the transaction is kept; scope columns,
`file_index` in the store and the ingest stamp are left out; only databases
without scope columns are skipped, an unreadable source fails the pass
(`Fail`); `Threads`, what is pruned with a session, is a constant.

### `ProjectIndex`

State: `disk` (the transcripts), `fi` (`file_index`), `msgs`, `sess`, `vault`,
`tombs`, and per indexer the `pass` it is in. A transcript is a generation (a
replaced file has another head), its complete records, and whether an
unterminated one follows; sizes are counted in half records, so an offset inside
a line is odd. A fingerprint reads `Head` at the start and, above `Wide`, the end.
Actions: `Walk` and `WalkOrphan` (the file list), `Load` (tombstones), `Stat`,
`ReadTail`, `ReadFull`, `TailTx`, `FullTx` (vault copy, then commit), `Scan`,
`Flag`, `Prune`, `PruneRow`, `PruneMark`, `VaultVerdicts`, `Kill`; the world
writes, replaces, purges, puts back and deletes. Processes run the pass without
any lock, in three scopes: the user's own transcripts kept for good, mirrored, or
replicas of another machine (the latter two have one process each).

Abstracted: (generation, size) stands for the modification time; the line
offsets of two generations never coincide; `only_copy_since` is a verdict; row
ids are left out and copies of a record counted instead; noise and malformed
lines are not told from records; `--reindex` and the fallbacks on a locked
database are left out. `alone` is a history variable: the one pass beside which
nothing happened.

### `ArchiveSync` and `SharedArchive`

A clone is the branch it has checked out, how far it has fetched, the files of
its own directory, and what a killed git command left behind (`mid`: a rebase in
progress, a detached HEAD, a fast-forward cut off); the remote is its list of
commits. Actions are one git command or one file operation each: `Acquire`,
`AbortRebase`, `UseClone`, `RefuseWipe`, `Wipe`, `CloneRefs`, `CloneFiles`, `Sentinel`,
`CopyFile`, `Stage`, `CommitStaged`, `Land`, `Track`, `Reject`, `Rebase`,
`RebaseRefused`, `RebaseKilled`, `Stop` (a kill or an error, anywhere), `Reinit`,
`Ingest`. What git does was observed with git 2.39: in particular that the files
a killed fast-forward leaves, and staged changes, make later pulls refuse.

Refinement: `ImplementsShared` says that with `log` = the remote's commits,
`pending` = the clone's commits beyond it and `seen` = the length of the prefix
they share, every step of `ArchiveSync` is a step of `SharedArchive` or a stutter:
each commit enters the shared log once, in its author's order, changing nothing
but the author's directory, and a clone is cleared only without pending commits.

Abstracted: a transcript is its version; manifest, registration, tag files,
the throttle and its stamp, initialisation from a bundle and the ageing of a
lock are left out; files are copied in one order; whether a copy is needed is
decided when the list is made; only `Readers` pull; only `Changing` sessions
change, and those may begin after the start (`known` are the ones that have
begun); an older copy of a purged transcript that is put back is not modelled.
`torn` is a history variable: the clones that a kill or a fault left in
mid-rewrite since they were last whole.

### The parts of `Machine`

* `TagExchange`: one session, one project or replica database per machine. `WriteProject`,
  `WriteStore`, `TagFloor`, the child's `ReadSnapshot` and `Publish`, `PublisherDies`,
  `Fold`, `Push`, `Pull`, `Ingest`. Push and pull are one step; time passes only
  between authoring acts; the purge is folded into `WriteStore`; that a fold may
  be skipped by its mark matters in `Settled` only; databases of `--this-project`
  and sessions at home on two machines are left out.
* `Closeout`: claim, reclaim by rename, validation, prep from a dump or afresh,
  tagger, write, release; prewarms that write dump and fingerprint one after the
  other. Messages are positions; the project database is up to date wherever it
  is read; publication is one step; hand-run taggers are left out.
* `SearchIndex`: openers that create table and triggers, read the marks, reset,
  fill batches and stamp; builds of both kinds that rebuild the database.
* `VectorTopup`: children under a lock and a limit, the command without either,
  over messages that a fold renumbers and a rebuild starts over. The throttle of
  spawns is left out; one bound covers rebuilds and passes cut off.
* `Retrieval`: the windows of one query, the report of unfolded databases, the
  fallback per scope. The fused ranking is one list, a query one step; offset,
  filters, rows without uuid and the refresh of a scope are left out.
* `HookSetup`: per agent, in order, the script, the read, the open and fill of
  `.tmp`, the rename. Errors of single writes and removals, the prompt and the
  detection of agents are left out; a settings file whose `hooks` has another
  shape is treated like one that does not parse.
* `Upgrade`: two commands over one binary; writing `.new` is one step that a
  fault or kill cuts, extraction follows verification.
* `Deletion`: the plan over live transcripts and over retained rows (two reads),
  the guards, the prompt, the second match, removal file by file, tombstones,
  eviction; beside agents, purges, and one index pass at a time with one row per
  session. A transcript is its number of lines. `--project` and `--before` are
  abstracted into the sessions a request addresses; the guard against sessions
  of other machines and `--dry-run` change no state and are left out.
* `Ingest`: spawn marker, resolution, stat, read, commit, verification, fold,
  count, retries. One session, the fold a union; duplicates, half records and
  the vault are left to `ProjectIndex`; several candidate files count as one.

## The runs

| run | instance | checks |
|---|---|---|
| `store_sync` | a session and its thread, one project, 2 messages each, 3 row ids, 3 outside writes, 1 fault; write-through and full passes; 919 thousand states | `TypeOK`, `NoMissedMessage`, `SessionsAreTheUnion`, `HistoryIsKept` |
| `store_merge` | one session in two projects, 3 row ids, 2 writes, mirror retention; 1.0 million states | `SessionsAreTheUnion`, `SkippedSourcesCount` |
| `store_rebuild` | one session in two projects, write-through folds and rebuilds, 1 fault; 1.1 million states | `WatermarksVouch`, `CountsStayHonest`, `HistoryIsKept` |
| `store_live` | one project, taggings at two times, 1 fault, fairness | `NoMissedTag`, `DeletedStaysGone`, `MessagesArrive` |
| `index_pass` | two indexers, a session with a file a fuller one replaces and another session, in four kinds of scope; 2 records a file, 2 generations, 3 changes, 1 kill; 1.7 million states | `TypeOK`, `SkippableIsWhole`, `WatermarkedOnce`, `HistoryIsKept`, `VaultKeepsUp`, `PassSettles` |
| `archive_sync` | two machines, three sessions of which one changes, one clone of an older build, 1 change, 1 kill or error, 2 push attempts, fairness; 274 thousand states | `TypeOK`, `PushMeansShipped`, `DeletedStaysOut`, `NothingLeavesArchive`, `ReplicaKeepsUp`, `ImplementsShared`, `ArchiveCatchesUp` |
| `machine` | the parts above: 2 machines, 2 taggings; 2 workers or 2 prewarms over 3 messages; 2 openers, batches of one; 2 setups over 2 agents; 2 upgrades over 2 releases; a child and a command over 2 texts; five matches; a delete over 2 sessions; 2 ingests; each with one fault or kill; 1.1 million states | one invariant of each part or more, below |
| `delete_yes`, `store_recreated`, `store_schema_reset`, `store_rebuild_skip`, `store_stale_skip` | as small as the trace allows | one promise of a help text or comment each, refuted (*Findings*) |

The properties, in words:

* `NoMissedMessage`: a project that the next fold would skip as unchanged has no
  message the store lacks, unless the user deleted it. `WatermarksVouch` is the
  invariant behind it (*The proofs*).
* `SessionsAreTheUnion`: the store's sessions are what the contributions name,
  and none is flagged as the only copy while a contribution is live.
* `CountsStayHonest`: once `message_count` is right it stays right, through
  incremental folds that recount little, prunes and carry-forwards. (That it is
  always right is false: see `NoOrphanMessages` below.)
* `HistoryIsKept` (store): a session leaves the store only by a user delete or by
  a fold that finds its last contributor has dropped it: never by a failure, a
  kill, a skipped source or a rebuild.
* `SkippedSourcesCount`: under write-through and full passes, a session that an
  unreadable database still holds is not lost to the fold of another.
* `NoMissedTag`: the watermark hides no re-tagging of a session with messages, as
  long as a database's taggings come in the order of their times.
* `DeletedStaysGone`: if full passes recur, a deleted session is eventually gone
  for good, although index passes that began before the delete may bring it
  back for a while.
* `MessagesArrive`: a message in a project database reaches the store unless it
  is deleted or replaced first.
* `SkippableIsWhole`: a transcript the next pass would skip is indexed to its last
  complete record, whatever was written while it was read, by whichever process.
* `WatermarkedOnce`: a record below the watermark is not stored again.
* `HistoryIsKept` (index): while transcripts are kept, nothing but the user's
  delete takes a session whose transcript is gone, or a record of it that no
  later writing superseded, out of the index. Excepted (`Thinning`) is the commit of an overtaken pass, one
  since whose read another pass committed the session (`late`), and of a read
  that found nothing: a file with no complete record empties a retained session
  (`containers.go:427-500`). That the watermark is still the one the pass read is
  not the same as not being overtaken, as it may have been moved and moved back.
* `VaultKeepsUp`: a rebuild from the vault would bring back what the index holds.
* `PassSettles`: one pass beside which nothing happens sets right whatever races
  and kills left behind. Excepted are a session that a commit between two statements
  of a prune left without a watermark (`Stranded`), and, where history is not kept,
  what a cut-off prune left.
* `PushMeansShipped`, `DeletedStaysOut`, `NothingLeavesArchive`: what a stamped
  push read is in the archive ever after; a deleted session that a stamped push
  knew of stays out; no step makes the tip older.
* `ReplicaKeepsUp`: a foreign session leaves the index only because its owner
  deleted it, unless the clone was abandoned in mid-rewrite (`torn`).
* `ArchiveCatchesUp`: every machine's transcripts and deletes reach the archive,
  unless its clone is wedged: a killed fast-forward or detached HEAD that pulls
  refuse, or a broken clone with unpushed commits, which nothing replaces.
* `StoreShowsLatest`, `TaggingsArrive`: once the publishing children are done the
  store shows the latest tagging; once nothing is left to do every machine does.
  Excepted are two taggings in one second, taggings written straight to the
  store, for the first a lost publication until the next fold, and for the second
  a home machine that withheld its segments.
* `OneWorker`, `SegmentsDisjoint`, `DoneMeansTagged`: one worker per session, no
  message in two segments, and a worker that ends well leaves none untagged.
  Excepted are a fresh lock taken by a reclaimer that had judged an older one,
  and a fingerprint that vouches for another dump.
* `SubstringFindsAll`: the done mark and the resume point say what the index holds.
* `VectorsPointHome`: a vector's id names a message of its own session and text,
  except from a rebuild to the end of the next pass that went all the way.
* `CompleteMeansComplete`: an answer that calls itself complete left nothing out.
* `UserEntriesKept`, `EntriesResolve`: setup and eject keep the user's last edit,
  and no entry points at a script that setup has not yet written.
* `UpgradeKeepsBinary`: a whole binary, not older than the newest installed, is in
  place, or aside and known to be.
* `ReceiptHolds`: after an index pass that began after the receipt, nothing of a
  session it names is left. `OnlyWhatWasAgreed`: a transcript is removed only if
  the plan the user agreed to had it, alone if an id was named, or if it came up
  after that plan.
* `IngestedIsSearchable`: an ingest that reports success has made searchable what
  the transcript held when it began, unless a full write undid a later one, or a
  tail that gave way to another ingest's commit was left out.

### Bounds

The bounds of each run are in its cfg, and each is named in its module. Three row
ids allow a first fold, a write between the watermark and the transaction, and
an incremental fold after it; two sources are what a union, a co-contributor and
a skipped source need. Two indexers, generations and records are what a race
over a tail, a replaced head and an offset inside a line need. Two machines are
what a rejected push and a rebase need, two attempts what the last one needs.
One fault can fall on each step. In `MCMachine` some combinations are left to one
another: of faults and interleaving, the second prewarm, opener or ingester
comes only while no kill or lock has come, or while it is alone; tags are
followed to the first write after which nothing is claimed; a killed delete sees
one write of an agent. Each property has a mutant, a plausible bug in the code,
that TLC finds within the bounds of the property's run: a tail read one row too
late, a baseline dropped although a source was skipped, a watermark taken after
the read, a clone adopted because HEAD resolves, revisions not compared, a lock
never free, a script removed before the settings, ids that address several
sessions, a locked cache taken as fresh.

`index_pass` and `machine` do not check deadlock, because their worlds and
commands are bounded and may all be over.

### Fairness

`ConsolidatedStore!LiveSpec` assumes that a pass that holds the fence runs on
until it ends or is killed (weak fairness of its steps), and that index runs
recur, each ending in a write-through fold that polls for the fence (strong
fairness of `StartSync`: the fence is taken and free in turn). No fairness is
assumed of indexing, project retention and its prunes, deletes, tagging, faults,
full passes or rebuilds: a project database may keep a deleted session for ever,
and the store still drops it. That full passes recur is a premise of
`DeletedStaysGone`, as nothing in the code schedules them, and without it the
property fails: `SyncConsolidatedFrom` returns before the prune when the
watermark has not moved.

`ArchiveSync!FairSpec` assumes that a running push or pull takes its next step
(weak fairness of `Sync`) and that pushes recur and get the lock (strong fairness
of `Acquire("push")`: the background sync is spawned as rawclaw is used and by
the timer, `cmd_archive_autosync.go:58`, and takes the lock or waits). Pulls,
ingests, changes and faults are not fair. Faults and outside writes are bounded,
so liveness is checked for what holds after the last of them.

## The proofs

`tlapm` checks every theorem, each for every value of the constants that meets
the assumptions below. Every invariant and every action property of the runs that
pass is the property of a theorem in this table.

| module | theorem | property |
|---|---|---|
| `ConsolidatedStore_proofs` | `TypeCorrect` | `TypeOK` |
| | `WatermarksAreSound` | `WatermarksVouch` |
| | `NothingMissed` | `NoMissedMessage` |
| | `StoreIsTheUnion` | `SessionsAreTheUnion` |
| | `HistoryStays` | `HistoryIsKept` |
| | `CountsAreHonest` | `CountsStayHonest` |
| | `SkippedStays` | `SkippedSourcesCount` |
| | `NoTagMissed` | `NoMissedTag` |
| `ProjectIndex_proofs` | `ProjectTypes` | `TypeOK` |
| | `SkippedIsWhole` | `SkippableIsWhole` |
| | `StoredOnce` | `WatermarkedOnce` |
| | `RetentionKeeps` | `HistoryIsKept` |
| | `VaultHolds` | `VaultKeepsUp` |
| | `PassesSettle` | `PassSettles` |
| `ArchiveSync_proofs` | `ArchiveTypes` | `TypeOK` |
| | `StampedIsShipped` | `PushMeansShipped` |
| | `DeletedIsOut` | `DeletedStaysOut` |
| | `ArchiveOnlyGrows` | `NothingLeavesArchive` |
| | `IndexKeepsUp` | `ReplicaKeepsUp` |
| | `ArchiveIsShared` | `ImplementsShared` |
| `Machine_proofs` | `TypesHold` | `TypeOK` |
| | `TaggingsAreShown` | `StoreShowsLatest` |
| | `TaggingsAllArrive` | `TaggingsArrive` |
| | `OneTagsAtOnce` | `OneWorker` |
| | `NoMessageTwice` | `SegmentsDisjoint` |
| | `NothingUntagged` | `DoneMeansTagged` |
| | `ReceiptsHold` | `ReceiptHolds` |
| | `DeletesAreAgreed` | `OnlyWhatWasAgreed` |
| | `BinaryStays` | `UpgradeKeepsBinary` |
| | `SubstringsFound` | `SubstringFindsAll` |
| | `VectorsHome` | `VectorsPointHome` |
| | `EntriesNameScripts` | `EntriesResolve` |
| | `EditsSurvive` | `UserEntriesKept` |
| | `IngestedIsFound` | `IngestedIsSearchable` |
| | `CompleteIsComplete` | `CompleteMeansComplete` |

### The store

For every finite set of sessions and of sources, every thread relation that is
transitive, and every bound. `ConsolidatedStore_proofs` has one lemma for each
transaction.

* Types: the invariant that is inductive, `Typed`, adds that each database holds
  finitely many messages, without which maxima and counts of the watermark need
  not exist.
* `WatermarksVouch` is the argument why skipping and
  incremental folds are safe. A watermark's highest row id is a frontier: of
  every message of the source at or below it the store has the text *and* the
  source's contribution (so that no other fold removes the session), unless the
  user deleted it. Sources write only above `last`, and every watermark, also
  the one a pass has read and not yet used, is at or below `last`: a write
  between the reading and the transaction is above the frontier the
  transaction stamps (`GrownVouches`, `FoldedVouches`). A fold that starts above
  the old frontier closes the gap to the new one; a full fold needs no old
  frontier. A store of an older build does not have the contributions
  (`Unhealed`); every pass heals it before it folds (`HealedVouches`), which is
  why the live store is accounted for whenever a pass is past `heal`. The
  replacement of a rebuild starts with no watermark, so it is accounted for at
  each of its commits, and the swap preserves the invariant. `NoMissedMessage`
  follows: an equal watermark has the source's own highest row id, so the
  frontier covers the source.
* `SessionsAreTheUnion` is inductive with its counterpart for the store a pass
  is working on (`Union`, `Backed`). `HistoryIsKept` and
  `CountsStayHonest` are action properties: of each commit the proofs say what it
  leaves of a session's row, messages and count, from the invariant that a pass
  only carries and counts what is claimed.
* `SkippedSourcesCount` is proved where no store is rebuilt (`"rebuild"` is not one of
  the passes): it rests on the legacy baseline, which every fold leaves to a
  session it has not claimed away (`Grounded`). With rebuilds it is false, as the
  run `store_rebuild_skip` shows.
* `NoMissedTag` is proved as long as the taggings of a database come in the order
  of their times (`TaggedInOrder`, a premise of the theorem on the behaviour).
  Then the watermark's number of topics and latest time only rise (`Tagging`), so
  that a watermark equal to the present one was taken at the present taggings, and
  the fold it was taken for brought them; what the source contributes no other
  source's fold removes. Without the premise it is false: a tagging whose time is
  no later than another's of the same database may leave the watermark as it
  was, and the store keeps the older one. Of a session without messages the
  property says nothing, as its watermark may be of a fold that did not
  contribute it.

### The index

For any files, sessions and passes, and any number of processes.
The invariant says of every pass in flight how what it holds relates to the
transcript now: its stat is of an earlier writing, or of a prefix of this one
(`Statted`); a full read found every record of some writing since the stat, and
unless the pass is overtaken nothing later is indexed (`ReadAll`); a tail begins
where the watermark it compared ends (`ReadOn`). A watermark's offset falls in
the line its size falls in (`MarkFits`), so that what a
mark of the present writing covers is indexed (`Covered`), from which
`SkippableIsWhole` follows whoever committed the mark. `WatermarkedOnce`,
`HistoryIsKept` and `VaultKeepsUp` are properties of the commits, and need of the
invariant that what is indexed fits the file and that a pass prunes only what a
tombstone names (`OnlyDeleted`).

`PassSettles` has an invariant of its own, `Settling`. Of every state: a session
has at most one watermark (`OneMark`), and a session that no prune was cut off in
and no tombstone names is there as far as its watermark says (`Held`). Of the
pass beside which nothing happens: each file it found has a watermark of what is
there, or is still to be looked at with the watermark that the pass loaded
(`Reading`); and of what retention has yet to set right, it has the decision
(`Retaining`). When the pass has nothing left to look at or decide, `Settled`
follows. The theorem has two premises on the constants: of the files of a session
there are at most two, of which one replaces the other (`Single`, as of Antigravity's
`transcript.jsonl` and `transcript_full.jsonl`), and what is not kept for good is
indexed by one process (`OneAtATime`). The instance of `index_pass` meets both. The second is needed: where
two passes of a mirrored project overlap, one may prune a session by the path it
looked at after the other has indexed it from a fuller file. `pruneSession` deletes
rows by session and the watermark by path (`retention.go:165-176`), so the fuller
file's watermark stays without rows, and later passes skip that file. (TLC finds
this with three files, two processes and four changes.)

### The archive

For any finite set of machines and sessions. The invariant says of each machine how its
branch left the remote's: the two agree up to some commit, what follows in the
clone is the machine's own, and what follows in the remote is not (`Branched`).
So a rebase moves only the machine's own commits and nobody else's
directory, and a rejected push loses nothing. Over it, of the machine's own
directory: the tip of either branch is at least as new as every commit below it
in what is not deleted (`Grown`), which makes the goal of a push, once reached,
stay reached through recoveries (`Vouching`); hence `PushMeansShipped` and
`DeletedStaysOut` (`Vouched`). What a machine has indexed is in its clone unless
that was torn (`Indexed`). With that, `ImplementsShared`: every action is shown to
be a step of `SharedArchive` or a stutter under the mapping above; a landing
push is the one that appends, and `Fetched`, `Rebase` and recoveries change only
how far a machine has seen.

### Taggings

`TagExchange_proofs`, for any number of machines and taggings. Its invariant says
of every place that holds rows (databases, stores, snapshots of a child, tag files,
clones) that each row is of the home machine's present tagging or an earlier one
(`Prior`), and that a copy is the whole of the present tagging or rows
of earlier ones only (`Version`); a watermark as late as the latest tagging vouches
for the rows it stands for (`Vouches`). Wherever there is a replica's row, the
home machine's file has one too, and so wins (`Replica`). `StoreShowsLatest` needs
besides that a child which is to publish is still there or has published
(`Expected`), and `TaggingsArrive` follows from `Settled`, in which every file is what
was exported and every replica what was ingested.

### Closeout and deletes

For any number of workers, prewarms, messages and segments that the taggers may
answer with (`Parameters`). `Closeout_proofs` has the invariant `Typed`, `Claims`
(a worker between claim and release holds the claim and the only token, unless a
reclaimer took it for a stale one: `robbed`), `Disjoint` (the window of a worker
that is about to insert is what is untagged below some length) and `Dumps` (a
dump and its fingerprint are of the same state, or known to be `torn`).

`Deletion_proofs`, for any finite set of sessions and any requests:

* `OnlyWhatWasAgreed`. A request never widens: what it matches
  now it matched when the plan was made, or it came up since (`Foreseen`: a
  transcript only grows, and `--max-messages` is an upper bound). So the second
  match of the delete, which no guard looks at, finds nothing but that
  (`Guarded`), and a plan that an id addressed has one session.
* `ReceiptHolds`. What a receipt names was tombstoned before it is
  given (`Entombed`) and has no transcript unless one came up under the command
  (`Emptied`); a pass that begins later has the tombstone and does not see the
  session, so it reads nothing of it and prunes its row (`Followed`); and a copy
  in the vault never is without a row (`Backed`).

`Machine_proofs` carries all three over to the whole machine: `TaggingRuns`,
`DeletesRun` and their like say that every step of `Machine` is a step of the part or
leaves its variables alone. `TypesHold` collects the types of the nine parts; for a
delete these include that what the index shows has a copy in the vault until it
is tombstoned (`Shown`).

### The other parts of the machine

* *Upgrade* (`UpgradeInv`). Of each command, what it has verified and where it
  has put the old binary. Unless two swaps crossed, at most one command is
  between the two renames, and then `.old` is the binary that it took aside.
* *Substring index* (`SubstringsInv`). `Marked` says what the two marks promise.
  It does not survive on its own, as a batch that another opener fills may be
  overtaken by a reset; so `Relies` says of each opener what it may count on at
  each statement, as long as no other acted on marks that changed since it read
  them (`crossedFill`), and each step keeps what the *other* openers rely on.
* *Vectors* (`VectorsInv`). Of a running pass: what it has read is a
  set of messages that are there still (`Reads`), and a vector that does not fit
  is one that it has yet to prune or refresh (`Covers`). A pass that went all the
  way therefore leaves only vectors that fit, and as ids are not given twice
  between rebuilds they stay so.
* *Setup* (`SettingsInv`). What a command has still to do for an agent says
  what it has done: an install that is past the script of an agent has written
  it, and so has an entry it is about to write. As long as no edit may be lost, a
  command that fills or renames `.tmp` is the only one that has it open, so what
  it renames is what it wrote, from settings that are still the user's.
* *Ingest* (`IngestInv`). What an ingest that is to succeed must make searchable is in
  what it stat'ed (`Heeds`), and from its commit on in the cache, then in the
  store (`Brought`), as long as no ingest's commit left out what another had read
  (`overtaken`).
* *Search* (`SearchInv`). Until the index moves between two windows, a window
  has all matches up to its size, and one that brings no more rows than it may hold
  has all there are, by counting (`Gathered`); what is then owed and not shown is
  in the same conversation as what is (`Whole`).

### What is assumed

The named assumptions on constants, which TLC evaluates in every run of the
modules: those of `SourceDB`, `FoldStore` and `ConsolidatedStore`;
`IndexAssumption`; `ArchiveAssumption`; and of `Machine`, `ReleaseAssumption`
(releases are numbers), `AgentsAssumption` (setup has at least one target: Claude
Code always is), `SearchAssumption` (windows grow, and fetch something),
`BoundsAssumption` (a transcript may have a line), `BatchAssumption` (a batch is not
empty) and `PartsAssumption` (the `Parameters` of `TagExchange`, `Closeout` and
`Deletion`, which are premises of the theorems on those modules).

Three theorems have a premise beyond these, each named above: `SkippedStays` (no
rebuilds), `NoTagMissed` (`TaggedInOrder`) and `PassesSettle` (`Single` and
`OneAtATime`). `store_merge` and `index_pass` meet theirs; `store_live` also tags out
of order, where with one session the watermark still tells the taggings apart.

### Only model checked

The liveness properties `MessagesArrive`, `DeletedStaysGone` and
`ArchiveCatchesUp`: liveness under fairness is out of the prover's reach. The runs
that expect a violation are TLC's alone as well.

## Findings

* **`delete_yes`**: `--yes` without `--files` is promised not to remove original
  transcripts. The guard looks at the plan; the delete matches again, and
  removes a transcript that came up in between.
* **`store_recreated`**: a recreated database restarts its row ids, and can reach
  the watermark of its predecessor with other content; the comment of
  `syncMarkKey` says that it cannot.
* **`store_schema_reset`**: a schema rebuild of the store keeps its watermarks, so
  that unchanged projects are never folded again; the comment in `EnsureSchema`
  calls the rebuild lossless.
* **`store_rebuild_skip`**: the legacy baseline that protects what a skipped
  source holds does not exist in a rebuild.
* **`store_stale_skip`**: a source that changed between the reading of its
  watermark and its fold, and changed back, is skipped, and the store keeps
  claiming a session it no longer has.

Three further definitions of `ConsolidatedStore` state what comments and tests
promise, are not kept in full, and have no run: `NoOrphanMessages` (an
incremental fold that drops a session leaves its messages behind),
`RowsFollowContributions` (pruning the legacy contribution does not derive the
row again) and `PruneCoversThreads` (a thread that arrives after its parent was
pruned is not pruned).

The properties above name what they except. These exceptions, and a few things
that the modelling showed beside the properties, are worth knowing:

* *Index.* A full re-read takes in what was written after its stat; the next tail
  append stores those records again. `reindexContainer` compares no watermark: of
  two overlapping full reads the one that read less may commit last. A commit
  between the statements of `pruneSession` can strand messages, with or without a
  session row, that have no `file_index` and that no later pass looks at (met in
  the proof of `PassSettles`, after which TLC finds it with four changes).
  `pruneSession` deletes the watermark by path and the rest by session, so two
  overlapping passes of a mirrored project can leave a watermark without rows. A
  mirror or replica prune that is cut off leaves a `file_index` row,
  and a file that comes back unchanged is skipped. A kill between the index's
  flag or prune and the vault's is not made up for, nor is one between a vault
  copy of an older read and its commit.
* *Replicas.* When the last session of a project is deleted at its owner, nothing
  walks that project any more, and its rows stay.
* *Archive.* A fast-forward killed half way, or a push killed between staging and
  commit, makes pulls refuse; only a later push, and in the first case nothing,
  gets the clone going again. `Scopes` ingests a clone abandoned in mid-rewrite.
  `InitFromBundle` with an older bundle makes replicas lose sessions until the
  next pull. A push's own rebase brings tag files without the pull's stamp, so
  they wait for the next pull.
* *Tags.* The export takes what the store shows, other machines' taggings
  included, and a machine of higher id that re-exports an older tagging wins. A
  session with a verdict only in the store is exported without the topics of its
  project database (`tagexport.go:27-58`). Taggings that come out of the order of
  their times may be hidden by the watermark.
* *Ingest.* An ingest whose tail append finds the watermark moved reports success,
  although what it read may be in neither cache nor store (`tail.go:235`,
  `containers.go:231-236`).
* *Deletes.* A file that vanished between match and removal ends the command with
  the files before it removed and not tombstoned. A retained row whose file is
  back is tombstoned with the rest of its request. Rows already tombstoned are
  offered again, since only the legacy sidecar is asked.
* *Locks.* Two reclaimers of one stale closeout lock may take away a fresh one. Two
  readers may both pass the spawn marker; the ingests they start are harmless.
* *Search.* Windows are counted after tool-only matches have left, so a window full
  of those reads as exhausted and the answer as complete. Hits found by vectors
  alone are never shown by the agent search.
* *Setup and upgrade.* Eject removes scripts before it reads the settings. Two
  setups share one `.tmp`, two upgrades one `.new` and `.old`; a slower upgrade can
  put an older release over a newer one.

## Plan

Done: consolidation, the project index, the archive with its refinement, tagging,
closeout, the substring index, vectors, search, setup, upgrade, deletes and
ingests, and the proofs above. Left, in this order:

1. `--rebuild-from-transcripts`: the refusal to shrink, and the swap at the level
   of files.
2. A refinement from `ProjectIndex` to the commits that `ConsolidatedStore` takes
   of a source, which needs row ids in `ProjectIndex`.
3. Manifest and bundle, and the throttle of the background sync.

## Not modelled

Source adapters, transcript parsing and hook payloads decode external formats
sequentially; the modules take a transcript as the records it yields. Ranking,
rendering, paths and the command line's arguments and output read and change no
shared state. The live client and server move text through sockets and ssh.
SQLite is taken as serialisable transactions; its lock states and its file level
(write-ahead logs around the swap) are not modelled. git is modelled by what its
commands leave behind, as far as the archive uses them.

## Running

    tlc -workers 2 -config store_sync.cfg MCConsolidatedStore
    tlc -workers 2 -config index_pass.cfg MCProjectIndex
    tlc -workers 2 -config archive_sync.cfg MCArchiveSync
    tlc -workers 2 -config machine.cfg MCMachine
    tlc -workers 2 -config delete_yes.cfg MCDeletion
    for m in FiniteFacts ConsolidatedStore_proofs ProjectIndex_proofs ArchiveSync_proofs \
             TagExchange_proofs Closeout_proofs Deletion_proofs Machine_proofs; do
        tlapm $m.tla
    done

Each run takes between half a minute and four, the proofs a few minutes a module,
and those of `Machine` about a quarter of an hour.
