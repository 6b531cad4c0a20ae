----------------------------- MODULE FoldStore -----------------------------
(***************************************************************************)
(* The consolidated store as a value, and the transactions a consolidation *)
(* pass commits to it.  The store holds every project's sessions; for each *)
(* session it also remembers what every contributing database said of it   *)
(* (session_sources), from which the session's own row is derived.         *)
(***************************************************************************)
EXTENDS SourceDB

CONSTANTS Sources,   \* per-project databases, by identity
          Legacy,    \* the pseudo-source '' of rows whose sources are unknown
          Threads    \* the subagent threads "<id>/<stem>" beneath a session

ASSUME StoreAssumption ==
  /\ IsFiniteSet(Sources) /\ Legacy \notin Sources
  /\ Threads \in [Sessions -> SUBSET Sessions]
  /\ \A s \in Sessions : \A c \in Threads[s] : Threads[c] \subseteq Threads[s]

Contributors == Sources \cup {Legacy}

Stores == [contrib: [Sessions -> [Contributors -> OnlyCopy]], \* session_sources
           row: [Sessions -> OnlyCopy],                      \* sessions
           count: [Sessions -> Nat],                         \* sessions.message_count
           msgs: SUBSET (Sessions \X Uuids),                 \* messages
           topic: [Sessions -> Tag],
           verdict: [Sessions -> Tag],
           mark: [Sources -> Mark \cup {NoMark}],            \* meta sync:<path>
           behind: BOOLEAN]                                  \* schema_version is not current

EmptyStore == [contrib |-> [s \in Sessions |-> [c \in Contributors |-> Absent]],
               row |-> [s \in Sessions |-> Absent],
               count |-> [s \in Sessions |-> 0],
               msgs |-> {},
               topic |-> [s \in Sessions |-> NoTag],
               verdict |-> [s \in Sessions |-> NoTag],
               mark |-> [d \in Sources |-> NoMark],
               behind |-> FALSE]

Present(st) == {s \in Sessions : st.row[s] # Absent}
Claimed(contrib, s) == \E c \in Contributors : contrib[s][c] # Absent
Stored(msgs, s) == {x \in msgs : x[1] = s}
Recounted(msgs, s) == Cardinality(Stored(msgs, s))

(* Mutants: the latest stamp wins over a live contribution; a session whose *)
(* every copy is flagged is dropped.                                        *)
MergedLatest(c) ==
  LET said == {c[d] : d \in Contributors} \ {Absent} IN
  IF said = {} THEN Absent ELSE Top(said)
MergedLiveOnly(c) == IF \E d \in Contributors : c[d] = Live THEN Live ELSE Absent

(* A session is live if any contribution is, else only-copy since the last *)
(* of them vanished.                                                       *)
Merged(c) ==
  LET said == {c[d] : d \in Contributors} \ {Absent} IN
  CASE said = {} -> Absent
    [] Live \in said -> Live
    [] OTHER -> Top(said)

-----------------------------------------------------------------------------
(* Opening the store for a pass. *)

(* A store whose schema_version is behind loses every versioned table.  The *)
(* meta table, and with it the watermarks, is not one of them.              *)
SchemaReset(st) ==
  [EmptyStore EXCEPT !.topic = st.topic, !.verdict = st.verdict, !.mark = st.mark]

(* A store that holds sessions but not one contribution was written by an   *)
(* older build: forget the watermarks, so that every source folds in full.  *)
Healed(st) ==
  IF Present(st) # {} /\ \A s \in Sessions : ~Claimed(st.contrib, s)
  THEN [st EXCEPT !.mark = [d \in Sources |-> NoMark]]
  ELSE st

(* A row without a contribution becomes one of the pseudo-source ''.        *)
Migrated(st) ==
  [st EXCEPT !.contrib = [s \in Sessions |->
     IF Claimed(@, s) THEN @[s] ELSE [@[s] EXCEPT ![Legacy] = st.row[s]]]]

TagsRestored(st, prev) == [st EXCEPT !.topic = prev.topic, !.verdict = prev.verdict]

-----------------------------------------------------------------------------
(* Folding one source in. *)

Later(a, b) == a.org > b.org \/ (a.org = b.org /\ a.at > b.at)
MergedTopic(new, old) == IF Later(new, old) THEN new ELSE old
Newer(a, b) == a.at > b.at \/ (a.at = b.at /\ a.org > b.org)
MergedVerdict(new, old) == IF Newer(new, old) THEN new ELSE old

(* The source only appended: as many sessions, the same stamps, and row ids *)
(* that continue where the last fold stopped.                               *)
IsIncrementalAppend(prev, mk) ==
  /\ prev # NoMark
  /\ prev.n = mk.n /\ prev.oc = mk.oc
  /\ prev.max > 0 /\ mk.max >= prev.max

(* Mutant: the incremental fold starts one row too late.                    *)
IncomingPastNext(prev, mk, db) ==
  IF IsIncrementalAppend(prev, mk)
  THEN {m \in db.msgs : mk.max > prev.max /\ m.id > prev.max + 1}
  ELSE db.msgs

(* The messages of the source one fold reads.                               *)
Incoming(prev, mk, db) ==
  IF IsIncrementalAppend(prev, mk)
  THEN {m \in db.msgs : mk.max > prev.max /\ m.id > prev.max}
  ELSE db.msgs

(* The sessions of the source whose message_count one fold restates.        *)
Recountable(prev, mk, db) ==
  IF IsIncrementalAppend(prev, mk)
  THEN {m.s : m \in Incoming(prev, mk, db)}
  ELSE {s \in Sessions : Has(db, s)}

(* One source's contributions are what its sessions table says.             *)
Contributed(contrib, d, db) ==
  [s \in Sessions |-> [contrib[s] EXCEPT ![d] = db.sess[s]]]

(* The fold transaction of source d, which read its watermark mk before the *)
(* transaction and sees its content db now.                                 *)
Folded(st, d, db, mk) ==
  LET incr == IsIncrementalAppend(st.mark[d], mk)
      recount == Recountable(st.mark[d], mk, db)
      incoming == Incoming(st.mark[d], mk, db)
      contrib == Contributed(st.contrib, d, db)
      offered == {s \in Sessions : Has(db, s)}
      gone == {s \in Sessions : st.contrib[s][d] # Absent /\ ~Has(db, s)}
      orphaned == {s \in gone : ~Claimed(contrib, s)}
      landed == st.msgs \cup {<<m.s, m.u>> : m \in incoming}
      msgs == IF incr THEN landed ELSE {x \in landed : x[1] \notin orphaned}
      sole == {s \in offered : \A c \in Contributors \ {d} : contrib[s][c] = Absent}
      kept == [s \in Sessions |->
                 IF db.layer /\ s \in sole /\ db.topic[s] = NoTag THEN NoTag ELSE st.topic[s]]
  IN [st EXCEPT
        !.contrib = contrib,
        !.row = [s \in Sessions |-> IF s \in offered \cup gone THEN Merged(contrib[s]) ELSE @[s]],
        !.msgs = msgs,
        !.count = [s \in Sessions |-> IF s \in orphaned THEN 0
                                      ELSE IF s \in recount THEN Recounted(msgs, s) ELSE @[s]],
        !.topic = [s \in Sessions |-> IF s \in orphaned THEN NoTag
                                      ELSE MergedTopic(db.topic[s], kept[s])],
        !.verdict = [s \in Sessions |-> IF s \in orphaned THEN NoTag
                                        ELSE MergedVerdict(db.verdict[s], @[s])],
        !.mark[d] = mk]

-----------------------------------------------------------------------------
(* Finishing a pass. *)

(* Drop the contribution of '' wherever a real source contributes.  The     *)
(* session's row is not derived again.                                      *)
LegacyPruned(st) ==
  [st EXCEPT !.contrib = [s \in Sessions |->
     IF \E d \in Sources : @[s][d] # Absent THEN [@[s] EXCEPT ![Legacy] = Absent] ELSE @[s]]]

(* Mutants: a rebuild that carries nothing forward; one that carries the    *)
(* rows, but not the messages they count.                                   *)
NothingCarried(st, prev) == st
OnlyRowsCarried(st, prev) ==
  LET carried == Present(prev) \ Present(st) IN
  [st EXCEPT
     !.row = [s \in Sessions |-> IF s \in carried THEN prev.row[s] ELSE @[s]],
     !.count = [s \in Sessions |-> IF s \in carried THEN prev.count[s] ELSE @[s]],
     !.contrib = [s \in Sessions |-> IF s \in carried
                                     THEN [@[s] EXCEPT ![Legacy] = prev.row[s]] ELSE @[s]]]

(* What only the previous store holds enters its replacement as a           *)
(* contribution of ''; every count is restated.                             *)
CarriedForward(st, prev) ==
  LET carried == Present(prev) \ Present(st)
      msgs == st.msgs \cup {x \in prev.msgs : x[1] \in carried}
  IN [st EXCEPT
        !.row = [s \in Sessions |-> IF s \in carried THEN prev.row[s] ELSE @[s]],
        !.contrib = [s \in Sessions |-> IF s \in carried
                                        THEN [@[s] EXCEPT ![Legacy] = prev.row[s]] ELSE @[s]],
        !.msgs = msgs,
        !.count = [s \in Sessions |-> IF s \in carried \/ s \in Present(st)
                                      THEN Recounted(msgs, s) ELSE @[s]]]

(* Delete each tombstoned session the store has a row of, with its threads. *)
Doomed(st, tombs) == UNION {{s} \cup Threads[s] : s \in tombs \cap Present(st)}

(* Mutant: the contributions of a deleted session stay.                     *)
PrunedRowsOnly(st, tombs) ==
  LET doomed == Doomed(st, tombs) IN
  [st EXCEPT !.row = [s \in Sessions |-> IF s \in doomed THEN Absent ELSE @[s]],
             !.msgs = {x \in @ : x[1] \notin doomed}]

TombstonesPruned(st, tombs) ==
  LET doomed == Doomed(st, tombs) IN
  [st EXCEPT
     !.contrib = [s \in Sessions |-> IF s \in doomed
                                     THEN [c \in Contributors |-> Absent] ELSE @[s]],
     !.row = [s \in Sessions |-> IF s \in doomed THEN Absent ELSE @[s]],
     !.count = [s \in Sessions |-> IF s \in doomed THEN 0 ELSE @[s]],
     !.msgs = {x \in @ : x[1] \notin doomed},
     !.topic = [s \in Sessions |-> IF s \in doomed THEN NoTag ELSE @[s]],
     !.verdict = [s \in Sessions |-> IF s \in doomed THEN NoTag ELSE @[s]]]
=============================================================================
