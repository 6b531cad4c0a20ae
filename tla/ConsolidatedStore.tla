------------------------- MODULE ConsolidatedStore -------------------------
(***************************************************************************)
(* The one store that holds every project's sessions, and the passes that  *)
(* keep it: the write-through fold of one project database after an index  *)
(* run, the full consolidation of all of them, and the rebuild beside the  *)
(* live store that is swapped in when complete.                            *)
(*                                                                         *)
(* Passes are serialised by the fence, a file lock; nothing serialises a   *)
(* pass with the processes that write the project databases it reads, with *)
(* the user's deletes, or with a kill.  Every action below is one commit,  *)
(* or one read that a later commit relies on.                              *)
(***************************************************************************)
EXTENDS FoldStore

CONSTANTS MaxId,      \* bound: row ids a project database hands out
          MaxTime,    \* bound: writes outside the passes
          MaxFaults,  \* bound: kills, errors and unreadable sidecars
          Tags,       \* the taggings that can arrive
          Mirror,     \* absence of a transcript prunes its session
          Passes      \* the kinds of pass that run

ASSUME BoundAssumption ==
  /\ MaxId \in Nat /\ MaxTime \in Nat /\ MaxFaults \in Nat
  /\ Tags \subseteq [org: Nat, at: Nat] /\ Mirror \in BOOLEAN
  /\ Passes \subseteq {"sync", "full", "rebuild"}

VARIABLES now,     \* writes so far: the clock only_copy_since is read from
          faults,  \* faults so far
          tombs,   \* the tombstone sidecar
          seen,    \* the tombstones the current index pass of each source loaded
          src,     \* the project databases
          live,    \* consolidated.db
          build,   \* consolidated.db.rebuild
          job      \* the pass that holds the fence

vars == <<now, faults, tombs, seen, src, live, build, job>>
outside == <<now, tombs, seen, src>>

Idle == [kind |-> "none", pc |-> "idle", todo |-> {}, d |-> Legacy, mk |-> NoMark,
         skipped |-> FALSE]

Jobs == [kind: {"none", "sync", "full", "rebuild"},
         pc: {"idle", "heal", "migrate", "fold", "tx", "carry", "prune", "swap"},
         todo: SUBSET Sources, d: Contributors, mk: Mark \cup {NoMark},
         skipped: BOOLEAN]

TypeOK ==
  /\ now \in 0..MaxTime /\ faults \in 0..MaxFaults
  /\ tombs \subseteq Sessions /\ seen \in [Sources -> SUBSET Sessions]
  /\ src \in [Sources -> SourceDBs]
  /\ live \in Stores /\ build \in Stores
  /\ job \in Jobs

-----------------------------------------------------------------------------
(* The states a first pass of this build may find: nothing at all, or a     *)
(* store an older build filled, without contributions, from databases that  *)
(* hold at most a session each and may be behind the current schema.        *)
OldStore(db) ==
  LET owned(s) == {d \in Sources : Has(db[d], s)} IN
  [EmptyStore EXCEPT
     !.row = [s \in Sessions |-> IF owned(s) # {} THEN Live ELSE Absent],
     !.msgs = {<<m.s, m.u>> : m \in UNION {db[d].msgs : d \in Sources}},
     !.count = [s \in Sessions |->
       Cardinality({m.u : m \in UNION {MessagesOf(db[d], s) : d \in Sources}})],
     !.mark = [d \in Sources |-> IF db[d].behind THEN NoMark ELSE MarkOf(db[d])]]

Begin ==
  /\ now = 0 /\ faults = 0 /\ tombs = {} /\ seen = [d \in Sources |-> {}]
  /\ build = EmptyStore /\ job = Idle

Fresh == src = [d \in Sources |-> EmptyDB] /\ live = EmptyStore

Indexed == {EmptyDB} \cup {[Reindexed(EmptyDB, s, 1) EXCEPT !.behind = b] :
                             s \in Sessions, b \in BOOLEAN}

Upgraded == src \in [Sources -> Indexed] /\ live = OldStore(src)

Init == Begin /\ (Fresh \/ Upgraded)
FromNothing == Begin /\ Fresh

-----------------------------------------------------------------------------
(* The processes that write the project databases. *)

Tick == now < MaxTime /\ now' = now + 1
Writes(d, db) ==
  /\ ~src[d].behind /\ src' = [src EXCEPT ![d] = db]
  /\ UNCHANGED <<faults, tombs, seen, live, build, job>>

(* An index pass loads the tombstones once, when it starts, and brings a    *)
(* database that is behind the current schema up to it.                     *)
StartIndex(d) ==
  /\ seen[d] # tombs \/ src[d].behind
  /\ seen' = [seen EXCEPT ![d] = tombs]
  /\ src' = [src EXCEPT ![d] = IF @.behind THEN SchemaRebuilt(@) ELSE @]
  /\ UNCHANGED <<now, faults, tombs, live, build, job>>

SrcReindex(d, s, k) ==
  /\ s \notin seen[d] /\ src[d].last + k <= MaxId
  /\ Tick /\ Writes(d, Reindexed(src[d], s, k))

SrcAppend(d, s) ==
  /\ s \notin seen[d] /\ Has(src[d], s)
  /\ src[d].last < MaxId /\ Cardinality(MessagesOf(src[d], s)) < MaxUuid
  /\ Tick /\ Writes(d, Appended(src[d], s))

SrcStamp(d, s) ==
  /\ s \notin seen[d] /\ src[d].sess[s] = Live
  /\ Tick /\ Writes(d, Stamped(src[d], s, now + 1))

SrcClear(d, s) == src[d].sess[s] > Live /\ Tick /\ Writes(d, Cleared(src[d], s))

PruneDue(d, s) == Has(src[d], s) /\ (s \in seen[d] \/ Mirror)

SrcPruneMessages(d, s) ==
  /\ PruneDue(d, s) /\ MessagesOf(src[d], s) # {}
  /\ Writes(d, MessagesPruned(src[d], s)) /\ UNCHANGED now

SrcPruneRow(d, s) ==
  /\ PruneDue(d, s) /\ MessagesOf(src[d], s) = {}
  /\ Writes(d, RowPruned(src[d], s)) /\ UNCHANGED now

SrcTag(d, s, tag) == Has(src[d], s) /\ Tick /\ Writes(d, Tagged(src[d], s, tag))
SrcJudge(d, s, tag) == Has(src[d], s) /\ Tick /\ Writes(d, Judged(src[d], s, tag))

(* The user deletes a session.                                              *)
Delete(s) ==
  /\ Tick /\ s \notin tombs
  /\ tombs' = tombs \cup {s}
  /\ UNCHANGED <<faults, seen, src, live, build, job>>

(* rawclaw --reindex removes the database and fills a new one.  A fold that *)
(* has attached the old file goes on reading the old file, so that for it   *)
(* the removal comes after its transaction.                                 *)
SrcRecreate(d) ==
  /\ job.pc # "tx" \/ job.d # d
  /\ src[d] # EmptyDB
  /\ Tick /\ Writes(d, EmptyDB)

-----------------------------------------------------------------------------
(* The passes. *)

Work == IF job.kind = "rebuild" THEN build ELSE live
Commit(st) ==
  IF job.kind = "rebuild" THEN build' = st /\ UNCHANGED live
                          ELSE live' = st /\ UNCHANGED build
Goto(pc) == job' = [job EXCEPT !.pc = pc]

Start(kind, todo) ==
  /\ kind \in Passes /\ job.kind = "none"
  /\ job' = [Idle EXCEPT !.kind = kind, !.pc = "heal", !.todo = todo]
  /\ UNCHANGED <<outside, faults, live>>

StartSync(d) == Start("sync", {d}) /\ UNCHANGED build
StartFull == Start("full", Sources) /\ UNCHANGED build

(* Mutant: the watermarks of the live store enter the empty replacement.    *)
StartRebuildWithMarks ==
  Start("rebuild", Sources) /\ build' = [EmptyStore EXCEPT !.mark = live.mark]
StartRebuild == Start("rebuild", Sources) /\ build' = EmptyStore

(* EnsureSchema, then the invalidation of watermarks no contribution backs. *)
Heal ==
  /\ job.pc = "heal"
  /\ Commit(Healed(IF Work.behind THEN SchemaReset(Work) ELSE Work))
  /\ Goto("migrate") /\ UNCHANGED <<outside, faults>>

Migrate ==
  /\ job.pc = "migrate"
  /\ Commit(Migrated(IF job.kind = "rebuild" THEN TagsRestored(build, live) ELSE live))
  /\ Goto("fold") /\ UNCHANGED <<outside, faults>>

(* Mutant: a full pass that finds a source unchanged ends without a prune.  *)
PassOverAndEnd(d, tooOld) ==
  /\ job' = IF job.kind # "rebuild" THEN Idle
            ELSE [job EXCEPT !.todo = @ \ {d}, !.skipped = @ \/ tooOld]
  /\ UNCHANGED <<outside, faults, live, build>>

(* Leave source d as it is: a write-through fold ends here, without a prune. *)
PassOver(d, tooOld) ==
  /\ job' = IF job.kind = "sync" THEN Idle
            ELSE [job EXCEPT !.todo = @ \ {d}, !.skipped = @ \/ tooOld]
  /\ UNCHANGED <<outside, faults, live, build>>

SkipBehind(d) ==
  /\ job.pc = "fold" /\ d \in job.todo
  /\ src[d].behind
  /\ PassOver(d, TRUE)

SkipUnchanged(d) ==
  /\ job.pc = "fold" /\ d \in job.todo
  /\ ~src[d].behind /\ Work.mark[d] = MarkOf(src[d])
  /\ PassOver(d, FALSE)

(* Read the source's watermark.  The transaction that relies on it comes    *)
(* later, and reads the source again.                                       *)
ReadMark(d) ==
  /\ job.pc = "fold" /\ d \in job.todo
  /\ ~src[d].behind /\ Work.mark[d] # MarkOf(src[d])
  /\ job' = [job EXCEPT !.pc = "tx", !.d = d, !.mk = MarkOf(src[d]), !.todo = @ \ {d}]
  /\ UNCHANGED <<outside, faults, live, build>>

FoldTx ==
  /\ job.pc = "tx"
  /\ Commit(Folded(Work, job.d, src[job.d], job.mk))
  /\ job' = [job EXCEPT !.pc = IF job.kind = "sync" THEN "prune" ELSE "fold",
                        !.d = Legacy, !.mk = NoMark]
  /\ UNCHANGED <<outside, faults>>

(* Mutant: the baseline of '' goes although a source was skipped.           *)
EndFoldsRegardless ==
  /\ job.pc = "fold" /\ job.todo = {} /\ job.kind # "sync"
  /\ Commit(LegacyPruned(Work))
  /\ Goto(IF job.kind = "rebuild" THEN "carry" ELSE "prune")
  /\ UNCHANGED <<outside, faults>>

EndFolds ==
  /\ job.pc = "fold" /\ job.todo = {} /\ job.kind # "sync"
  /\ Commit(IF job.skipped THEN Work ELSE LegacyPruned(Work))
  /\ Goto(IF job.kind = "rebuild" THEN "carry" ELSE "prune")
  /\ UNCHANGED <<outside, faults>>

(* What only the live store holds is copied; a live store that is behind    *)
(* the schema cannot be read, and the rebuild is refused.                   *)
Carry ==
  /\ job.pc = "carry" /\ ~live.behind
  /\ build' = CarriedForward(build, live) /\ UNCHANGED live
  /\ Goto("prune") /\ UNCHANGED <<outside, faults>>

RefuseCarry ==
  /\ job.pc = "carry" /\ live.behind
  /\ build' = EmptyStore /\ job' = Idle
  /\ UNCHANGED <<outside, faults, live>>

AfterPrune == IF job.kind = "rebuild" THEN [job EXCEPT !.pc = "swap"] ELSE Idle

Prune ==
  /\ job.pc = "prune"
  /\ Commit(TombstonesPruned(Work, tombs))
  /\ job' = AfterPrune /\ UNCHANGED <<outside, faults>>

Swap ==
  /\ job.pc = "swap"
  /\ live' = build /\ build' = EmptyStore
  /\ job' = Idle /\ UNCHANGED <<outside, faults>>

-----------------------------------------------------------------------------
(* Faults.  The fence is a file lock: it goes with its holder. *)

Faulty == faults < MaxFaults /\ faults' = faults + 1

(* An unreadable tombstone sidecar prunes nothing and fails nothing.        *)
PruneUnreadable ==
  /\ job.pc = "prune" /\ Faulty
  /\ job' = AfterPrune /\ UNCHANGED <<outside, live, build>>

(* A step returns an error: the pass ends, and a rebuild removes its file.  *)
Fail ==
  /\ job.kind # "none" /\ Faulty
  /\ build' = IF job.kind = "rebuild" THEN EmptyStore ELSE build
  /\ job' = Idle /\ UNCHANGED <<outside, live>>

(* The process is killed between two commits.                               *)
Kill ==
  /\ job.kind # "none" /\ Faulty
  /\ job' = Idle /\ UNCHANGED <<outside, live, build>>

-----------------------------------------------------------------------------
SourceStep ==
  \/ \E s \in Sessions : Delete(s)
  \/ \E d \in Sources :
       \/ StartIndex(d)
       \/ \E s \in Sessions :
            \/ \E k \in 0..MaxUuid : SrcReindex(d, s, k)
            \/ SrcAppend(d, s) \/ SrcStamp(d, s) \/ SrcClear(d, s)
            \/ SrcPruneMessages(d, s) \/ SrcPruneRow(d, s)
            \/ \E tag \in Tags : SrcTag(d, s, tag) \/ SrcJudge(d, s, tag)

PassStep ==
  \/ StartFull \/ StartRebuild \/ Heal \/ Migrate \/ FoldTx \/ EndFolds
  \/ Carry \/ Prune \/ Swap
  \/ \E d \in Sources : \/ StartSync(d) \/ SkipBehind(d) \/ SkipUnchanged(d)
                        \/ ReadMark(d)

FaultStep == PruneUnreadable \/ Fail \/ Kill

Next == SourceStep \/ PassStep \/ FaultStep
Spec == Init /\ [][Next]_vars

-----------------------------------------------------------------------------
(* Behaviours Spec leaves out: a database recreated in place, and a store   *)
(* whose schema_version is behind this build's.                             *)
SpecRecreate == FromNothing /\ [][Next \/ \E d \in Sources : SrcRecreate(d)]_vars

Behind == Begin /\ src \in [Sources -> Indexed]
                /\ live = [OldStore(src) EXCEPT !.behind = TRUE]
SpecBehind == Behind /\ [][Next \/ RefuseCarry]_vars

-----------------------------------------------------------------------------
(* Properties. *)

(* A delete covers a session and the threads beneath it.                    *)
Deleted(s) == s \in tombs \/ \E p \in tombs : s \in Threads[p]

(* A source whose watermark is the one the store holds is skipped, so every  *)
(* message it has must be in the store already, or deleted by the user:     *)
(* however its writes interleaved with the folds, and whether the last fold *)
(* read all of it or only its tail.                                         *)
NoMissedMessage ==
  \A d \in Sources : live.mark[d] = MarkOf(src[d]) /\ ~src[d].behind =>
    \A m \in src[d].msgs : <<m.s, m.u>> \in live.msgs \/ Deleted(m.s)

(* Why that is so: a watermark vouches for every message up to its highest   *)
(* row id, of which the store has the text and, so that no other source's   *)
(* fold deletes it, this source's contribution.  A store of an older build  *)
(* has no contributions, and its watermarks vouch for nothing that a fold   *)
(* may rely on until they are healed.  Row ids are never handed out again,  *)
(* so that what a source adds, even between the reading of its watermark    *)
(* and the transaction, lies above every watermark taken before.            *)
VouchedFor(st, d) == {m \in src[d].msgs : m.id <= st.mark[d].max}

Accounted(st) ==
  \A d \in Sources : \A m \in VouchedFor(st, d) :
    Deleted(m.s) \/ (<<m.s, m.u>> \in st.msgs /\ st.contrib[m.s][d] # Absent)

Unhealed(st) ==
  /\ \A s \in Sessions : ~Claimed(st.contrib, s)
  /\ \A d \in Sources : \A m \in VouchedFor(st, d) :
       <<m.s, m.u>> \in st.msgs /\ m.s \in Present(st)

Numbered(db) ==
  IsFiniteSet(db.msgs) /\ \A m \in db.msgs : Has(db, m.s) /\ m.id <= db.last

MarksFit(st) ==
  /\ ~st.behind
  /\ \A d \in Sources : IF src[d].behind THEN st.mark[d] = NoMark
                                         ELSE st.mark[d].max <= src[d].last

(* The inductive invariant behind NoMissedMessage. *)
WatermarksVouch ==
  /\ \A d \in Sources : Numbered(src[d])
  /\ MarksFit(live) /\ MarksFit(build)
  /\ Accounted(live) \/ Unhealed(live)
  /\ Accounted(build)
  /\ job.pc \notin {"idle", "heal"} /\ job.kind # "rebuild" => Accounted(live)
  /\ job.pc = "tx" => /\ job.d \in Sources /\ ~src[job.d].behind
                      /\ job.mk.max <= src[job.d].last

(* The store's sessions are the union of what its contributions name: none  *)
(* without one (once provenance is recorded at all), and none flagged as    *)
(* the only copy while a source's contribution is live (mergeSessionsSQL).  *)
SessionsAreTheUnion ==
  /\ \A s \in Sessions :
       /\ Claimed(live.contrib, s) => s \in Present(live)
       /\ s \in Present(live) /\ (\E r \in Sessions : Claimed(live.contrib, r))
            => Claimed(live.contrib, s)
       /\ (\E d \in Sources : live.contrib[s][d] = Live) => live.row[s] = Live

(* message_count is the number of messages held, and stays so across        *)
(* incremental folds that recount only the sessions they touch, prunes and  *)
(* carry-forwards.  Only the messages that an incremental fold leaves behind *)
(* of a session it drops can make the count of its next copy wrong.         *)
Honest(s) == s \in Present(live) => live.count[s] = Recounted(live.msgs, s)

CountsStayHonest ==
  [][\A s \in Sessions :
       /\ Honest(s)
       /\ s \in Present(live) \/ Stored(live.msgs, s) = {}
       => Honest(s)']_vars

(* A session leaves the store only by a user delete, or when a fold of the  *)
(* live store finds that its last contributor has dropped it: never because *)
(* a pass failed, was killed or skipped a source, and never because a       *)
(* rebuild replaced the store (carryForwardStoreOnly).                      *)
Lost == Present(live) \ Present(live)'
LastContributor(s, d) ==
  /\ job.pc = "tx" /\ job.d = d /\ job.kind # "rebuild" /\ ~Has(src[d], s)
  /\ \A c \in Contributors \ {d} : live.contrib[s][c] = Absent

HistoryIsKept ==
  [][\A s \in Lost : Deleted(s) \/ \E d \in Sources : LastContributor(s, d)]_vars

(* A session that a database too old to read still holds is not lost to the *)
(* fold of another: the baseline contribution of '' stands for the one that *)
(* was skipped (ConsolidateFrom, "only when every source candidate          *)
(* successfully folded").                                                   *)
SkippedSourcesCount ==
  [][\A s \in Lost : Deleted(s) \/ \A d \in Sources : src[d].behind => ~Has(src[d], s)]_vars

(* A tagging that a project database holds of a session with messages is    *)
(* not higher than the store's, whenever the database would be skipped as   *)
(* unchanged: the tagging time in the watermark tells a re-tagging from     *)
(* none (consolidateOne).                                                   *)
NoMissedTag ==
  \A d \in Sources : live.mark[d] = MarkOf(src[d]) /\ ~src[d].behind =>
    \A s \in Sessions : MessagesOf(src[d], s) # {} /\ src[d].topic[s] # NoTag =>
      ~Later(src[d].topic[s], live.topic[s]) \/ Deleted(s)

(* That is so of a database whose taggings come in the order of their times. *)
TaggedInOrder ==
  \A d \in Sources, s \in Sessions : src'[d].topic[s] # src[d].topic[s] =>
    \A r \in Sessions : src[d].topic[r].at < src'[d].topic[s].at

(* As long as full passes keep being run, a deleted session is gone from    *)
(* the store for good, although index passes that started before the delete *)
(* may bring it back for a while.  Write-through folds alone do not ensure  *)
(* it: they prune nothing when the source's watermark has not moved.        *)
DeletedStaysGone ==
  []<>(job.kind = "full") => \A s \in Sessions : s \in tombs ~> [](s \notin Present(live))

(* While the processes keep running, a message a project database holds     *)
(* reaches the store, unless it is deleted or replaced first.               *)
MessagesArrive ==
  \A d \in Sources, s \in Sessions, u \in Uuids :
    (\E m \in src[d].msgs : m.s = s /\ m.u = u)
      ~> \/ <<s, u>> \in live.msgs \/ Deleted(s)
         \/ \A m \in src[d].msgs : m.s # s \/ m.u # u

(* Every index run ends in a write-through fold that polls for the fence,   *)
(* and a pass that holds the fence runs on until it ends or is killed.      *)
(* Nothing is assumed of what the index passes find, stamp or prune.        *)
Fairness ==
  /\ WF_vars(Heal) /\ WF_vars(Migrate) /\ WF_vars(FoldTx) /\ WF_vars(EndFolds)
  /\ WF_vars(Carry) /\ WF_vars(Prune) /\ WF_vars(Swap)
  /\ \A d \in Sources : /\ WF_vars(SkipBehind(d) \/ SkipUnchanged(d) \/ ReadMark(d))
                        /\ SF_vars(StartSync(d))

LiveSpec == FromNothing /\ [][Next]_vars /\ Fairness

-----------------------------------------------------------------------------
(* What the comments and tests promise and the code does not keep. *)

(* consolidateOne skips "a source that has not changed since its last       *)
(* fold-in": the store then claims no session of it that it does not have.  *)
NoStaleContribution ==
  \A d \in Sources : live.mark[d] = MarkOf(src[d]) /\ ~src[d].behind =>
    \A s \in Sessions : live.contrib[s][d] # Absent => Has(src[d], s)

(* TestConsolidate_DeletesSessionRemovedFromSource: a session its only      *)
(* source removed has no messages left in the store.                        *)
NoOrphanMessages == \A x \in live.msgs : x[1] \in Present(live)

(* mergeSessionsSQL: a session is flagged as the only copy exactly when     *)
(* every contributing copy has vanished.                                    *)
RowsFollowContributions ==
  \A s \in Sessions : Claimed(live.contrib, s) => live.row[s] = Merged(live.contrib[s])

(* pruneTombstonedIDs: tombstones cover a session and the subagent threads  *)
(* beneath it, so that no completed prune leaves one in the store.          *)
PruneCoversThreads ==
  [][job.kind = "full" /\ job.pc = "prune" /\ job'.pc = "idle" /\ UNCHANGED faults =>
       \A s \in Sessions : Deleted(s) => s \notin Present(live)']_vars

=============================================================================
