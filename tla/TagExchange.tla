---------------------------- MODULE TagExchange ----------------------------
(***************************************************************************)
(* The taggings of one session: an agent's tag-write lands in the project  *)
(* database of the machine that has the transcript, a detached child       *)
(* publishes it to the consolidated store, a push exports what the store   *)
(* holds to the archive, and the other machines resolve the tag files they *)
(* pull into their replica database and fold that into their own store.    *)
(*                                                                         *)
(* A segment is the message it starts at and the authoring act that wrote  *)
(* it; labels, summaries and ends follow from those.  Machine ids are      *)
(* numbers in their lexical order, 0 is the NULL origin of a row written   *)
(* here.  tagged_at is in whole seconds.  How the archive moves files is   *)
(* the subject of ArchiveSync: here a push and a pull are one step.        *)
(***************************************************************************)
EXTENDS Naturals, FiniteSets, FiniteSetsExt

CONSTANTS Machines,   \* machine ids
          Home,       \* the machine with the transcript
          Authors,    \* the machines whose agents tag the session
          Starts,     \* the messages a segment can start at
          MaxWrites,  \* bound: taggings, verdicts and floor sweeps
          MaxTime,    \* bound: seconds
          MaxFaults   \* bound: children that do not start, or die

VARIABLES db,         \* the tags in the project or replica database
          store,      \* the tags in the consolidated store
          mark,       \* the tag watermark of the last fold
          purged,     \* the transcript is gone from its machine
          publishers, \* the tag-publish children
          files,      \* the tag files in the archive, per machine directory
          clone,      \* the tag files in a machine's clone
          due,        \* a pull is newer than the last tag ingest
          conflict,   \* the session is in the tag-conflicts file
          now, writes, faults,
          lost,       \* history: a publication was lost and no fold has run since
          blurred,    \* history: a tagging was written in the second of an older one
          direct,     \* history: a tagging was written straight into the store
          withheld    \* history: an export left the segments of the database out

Readers == Machines \ {Home}   \* the machines with a replica database

excuses == <<lost, blurred, direct>>
index == <<db, store, mark>>
archive == <<files, clone, due, conflict, withheld>>
vars == <<index, purged, publishers, archive, now, writes, faults, excuses>>

----------------------------------------------------------------------------
(* The topic sidecar: rows keyed by the start message, and one verdict.    *)

Segment == [start: Starts, by: Machines, n: 1 .. MaxWrites,
            at: 1 .. MaxTime, org: Machines \cup {0}]
NoVerdict == [src |-> "none", at |-> 0, org |-> 0]
Verdict == [src: {"agent", "floor"}, at: 1 .. MaxTime, org: Machines \cup {0}]

Untagged == [rows |-> {}, verdict |-> NoVerdict, layer |-> FALSE]
Tagged(t) == t.rows # {} \/ t.verdict # NoVerdict

Latest(rows) == Max({r.at : r \in rows} \cup {0})
Content(rows) == {<<r.start, r.by, r.n>> : r \in rows}
From(rows, org) == {[r EXCEPT !.org = org] : r \in rows}

Newer(v, w) == v.at > w.at \/ (v.at = w.at /\ v.org > w.org)
MergedVerdict(v, w) == IF v # NoVerdict /\ (w = NoVerdict \/ Newer(v, w)) THEN v ELSE w

TagMark(t) == IF t.layer
              THEN <<Cardinality(t.rows), Latest(t.rows), t.verdict.src # "none", t.verdict.at>>
              ELSE <<0, 0, FALSE, 0>>

Init ==
    /\ db = [m \in Machines |-> Untagged]
    /\ store = [m \in Machines |-> [Untagged EXCEPT !.layer = TRUE]]
    /\ mark = [m \in Machines |-> TagMark(Untagged)]
    /\ purged = FALSE
    /\ publishers = {}
    /\ files = [m \in Machines |-> Untagged]
    /\ clone = [m \in Readers |-> files]
    /\ due = [m \in Readers |-> TRUE]
    /\ conflict = [m \in Readers |-> FALSE]
    /\ now = 1 /\ writes = 0 /\ faults = 0
    /\ lost = FALSE /\ blurred = FALSE /\ direct = FALSE /\ withheld = FALSE

----------------------------------------------------------------------------
(* tag-write and tag-floor.                                                *)

\* Time passes between two acts; the clock does not go back.
Authoring ==
    /\ writes < MaxWrites /\ writes' = writes + 1
    /\ now' \in now .. MaxTime

\* The segments of a tagging made now.
Written(m, starts) ==
    {[start |-> s, by |-> m, n |-> writes + 1, at |-> now', org |-> 0] : s \in starts}

\* The earliest untagged stretch of the session.
Window(rows) ==
    LET open == Starts \ {r.start : r \in rows}
    IN  {s \in open : \A t \in Starts \ open : t < Min(open) \/ s < t}

Insert(rows, m) == {rows \cup Written(m, W) : W \in (SUBSET Window(rows)) \ {{}}}
\* Mutant: a re-tagging keeps the rows it replaces.
RetagOver(rows, m) == {rows \cup Written(m, W) : W \in (SUBSET Starts) \ {{}}}

RetagAll(rows, m) == {Written(m, W) : W \in (SUBSET Starts) \ {{}}}

\* A project database is written, and a child spawned to publish it.
Spawn ==
    \/ /\ publishers' = publishers \cup
                {[id |-> writes + 1, read |-> FALSE, tags |-> Untagged]}
       /\ UNCHANGED <<faults, lost>>
    \/ /\ faults < MaxFaults
       /\ faults' = faults + 1
       /\ lost' = TRUE
       /\ UNCHANGED publishers

Resolves(m) == m = Home /\ ~purged

WriteProject(m) ==
    /\ m \in Authors /\ Resolves(m) /\ Authoring
    /\ \/ \E rows \in Insert(db[m].rows, m) :
             /\ db' = [db EXCEPT ![m] = [@ EXCEPT !.rows = rows, !.layer = TRUE]]
             /\ blurred' = (blurred \/ now' <= Latest(db[m].rows))
       \/ \E rows \in RetagAll(db[m].rows, m) :
             /\ db' = [db EXCEPT ![m] = [@ EXCEPT !.rows = rows, !.layer = TRUE]]
             /\ blurred' = (now' <= Latest(db[m].rows))
       \/ /\ db' = [db EXCEPT ![m] = [@ EXCEPT !.layer = TRUE,
                        !.verdict = [src |-> "agent", at |-> now', org |-> 0]]]
          /\ UNCHANGED blurred
    /\ Spawn
    /\ UNCHANGED <<store, mark, purged, archive, direct>>

\* A session whose transcript resolves nowhere is tagged in the store itself,
\* under the fence.  At home that is a transcript purged since.
WriteStore(m) ==
    /\ m \in Authors /\ Authoring
    /\ purged' = (purged \/ m = Home)
    /\ \/ \E rows \in Insert(store[m].rows, m) \cup RetagAll(store[m].rows, m) :
             /\ store' = [store EXCEPT ![m].rows = rows]
             /\ direct' = TRUE
       \/ /\ store' = [store EXCEPT ![m].verdict = [src |-> "agent", at |-> now', org |-> 0]]
          /\ UNCHANGED direct
    /\ UNCHANGED <<db, mark, publishers, archive, faults, lost, blurred>>

\* The sweep judges the session by its messages: routine, or not (any more).
TagFloor(m) ==
    /\ m \in Authors /\ Authoring
    /\ \E v \in {NoVerdict, [src |-> "floor", at |-> now', org |-> 0]} :
          store' = [store EXCEPT ![m].verdict = IF @.src = "agent" THEN @ ELSE v]
    /\ UNCHANGED <<db, mark, purged, publishers, archive, faults, excuses>>

----------------------------------------------------------------------------
(* The publishing child: a snapshot of the project database, then, under   *)
(* the fence, one transaction on the store.                                *)

ReadSnapshot(c) ==
    /\ ~c.read
    /\ publishers' = (publishers \ {c}) \cup {[c EXCEPT !.read = TRUE, !.tags = db[Home]]}
    /\ UNCHANGED <<index, purged, archive, now, writes, faults, excuses>>

\* Mutant: the revisions are not compared.
OutdatedAlways(rows, rev) == TRUE

\* The store's own tagging is older than the revision published.
Outdated(rows, rev) == rows = {} \/ Latest(rows) < rev

Origin(t) == IF t.rows # {} THEN Max({r.org : r \in t.rows}) ELSE t.verdict.org

\* The store's tags after a publication of t.
Published(st, t) ==
    LET org == Origin(t)
        rev == Max({Latest(t.rows), t.verdict.at})
        same == {r \in st.rows : r.org = org}
        rows == IF ~Outdated(same, rev) THEN st.rows
                ELSE t.rows \cup (IF org = 0 THEN st.rows \ same ELSE {})
        stale == st.verdict.org = 0 /\ st.verdict.at < rev
    IN  IF \E r \in st.rows : r.org > org THEN st
        ELSE [st EXCEPT !.rows = rows,
                        !.verdict = IF t.verdict # NoVerdict THEN MergedVerdict(t.verdict, @)
                                    ELSE IF stale THEN NoVerdict ELSE @]

Publish(c) ==
    /\ c.read
    /\ store' = [store EXCEPT ![Home] = Published(@, c.tags)]
    /\ publishers' = publishers \ {c}
    /\ UNCHANGED <<db, mark, purged, archive, now, writes, faults, excuses>>

PublisherDies(c) ==
    /\ faults < MaxFaults
    /\ faults' = faults + 1
    /\ publishers' = publishers \ {c}
    /\ lost' = TRUE
    /\ UNCHANGED <<index, purged, archive, now, writes, blurred, direct>>

----------------------------------------------------------------------------
(* The fold of the machine's database into its store; the machine has no   *)
(* other source for the session.                                           *)

\* What the fold leaves at a start message both sides have tagged.
Wins(r, q) == r.org > q.org \/ (r.org = q.org /\ r.at > q.at)

Folded(st, t) ==
    LET anchored == {q \in st.rows : \E r \in t.rows : r.start = q.start}
        kept == {q \in anchored : \A r \in t.rows : r.start = q.start => ~Wins(r, q)}
        new == {r \in t.rows : \A q \in kept : q.start # r.start}
    IN  IF ~t.layer THEN st
        ELSE [st EXCEPT !.rows = kept \cup new,
                        !.verdict = MergedVerdict(t.verdict, @)]

Fold(m) ==
    /\ store' = [store EXCEPT ![m] = Folded(@, db[m])]
    /\ mark' = [mark EXCEPT ![m] = TagMark(db[m])]
    /\ lost' = (lost /\ m # Home)
    /\ UNCHANGED <<db, purged, publishers, archive, now, writes, faults, blurred, direct>>

----------------------------------------------------------------------------
(* The archive: export, pull, and the ingest of the others' tag files.     *)

\* The store is asked first; the replica databases are not asked.
Exported(m) ==
    LET of == IF Tagged(store[m]) THEN store[m]
              ELSE IF m = Home THEN db[m] ELSE Untagged
    IN  [of EXCEPT !.rows = From(@, 0), !.verdict.org = 0, !.layer = FALSE]

\* A push that had to rebase also brings the others' files.  The home machine
\* withholds its segments when its store has a verdict only: that hides them.
Push(m) ==
    /\ Tagged(Exported(m))
    /\ files' = [files EXCEPT ![m] = Exported(m)]
    /\ \/ clone' = [o \in Readers |-> [clone[o] EXCEPT ![m] = IF o = m THEN Exported(m) ELSE @]]
       \/ m # Home /\ clone' = [clone EXCEPT ![m] = files']
    /\ withheld' = (withheld \/ (m = Home /\ Exported(m).rows = {} /\ db[m].rows # {}))
    /\ UNCHANGED <<index, purged, publishers, due, conflict, now, writes, faults, excuses>>

Pull(m) ==
    /\ clone' = [clone EXCEPT ![m] = [files EXCEPT ![m] = clone[m][m]]]
    /\ due' = [due EXCEPT ![m] = TRUE]
    /\ UNCHANGED <<index, purged, publishers, files, conflict, withheld, now, writes, faults, excuses>>

\* Mutant: the lowest origin wins among several taggings.
WinnerLowest(tfs) == Min({m \in Machines : tfs[m].rows # {}})

\* The machine whose tagging is shown: identical or not, the highest origin.
Winner(tfs) == Max({m \in Machines : tfs[m].rows # {}})

ResolvedRows(tfs) ==
    IF \A m \in Machines : tfs[m].rows = {} THEN {}
    ELSE From(tfs[Winner(tfs)].rows, Winner(tfs))

ResolvedVerdict(tfs) ==
    LET vs == {[tfs[m].verdict EXCEPT !.org = m] : m \in {o \in Machines : tfs[o].verdict # NoVerdict}}
    IN  IF vs = {} THEN NoVerdict ELSE CHOOSE v \in vs : \A w \in vs \ {v} : Newer(v, w)

Conflicting(tfs) ==
    Cardinality({Content(tfs[m].rows) : m \in Machines} \ {{}}) > 1

Resolved(t, tfs) ==
    [rows |-> IF Content(t.rows) # Content(ResolvedRows(tfs)) \/ Origin(t) # Origin([t EXCEPT !.rows = ResolvedRows(tfs)])
              THEN ResolvedRows(tfs) ELSE t.rows,
     verdict |-> MergedVerdict(ResolvedVerdict(tfs), t.verdict),
     layer |-> TRUE]

Ingested(m) ==
    IF \E o \in Machines : Tagged(clone[m][o])
    THEN Resolved(db[m], clone[m])
    ELSE [db[m] EXCEPT !.layer = TRUE]

Ingest(m) ==
    /\ due[m]
    /\ LET t == Ingested(m)
       IN  /\ db' = [db EXCEPT ![m] = t]
           /\ conflict' = [conflict EXCEPT ![m] = Conflicting(clone[m])]
           /\ \/ /\ store' = [store EXCEPT ![m] = Folded(@, t)]
                 /\ mark' = [mark EXCEPT ![m] = TagMark(t)]
              \/ UNCHANGED <<store, mark>>   \* the store is busy
    /\ due' = [due EXCEPT ![m] = FALSE]
    /\ UNCHANGED <<purged, publishers, files, clone, withheld, now, writes, faults, excuses>>

----------------------------------------------------------------------------

Next ==
    \/ \E m \in Machines : \/ WriteProject(m) \/ WriteStore(m) \/ TagFloor(m)
                           \/ Fold(m) \/ Push(m)
    \/ \E m \in Readers : Pull(m) \/ Ingest(m)
    \/ \E c \in publishers : ReadSnapshot(c) \/ Publish(c) \/ PublisherDies(c)

Spec == Init /\ [][Next]_vars

----------------------------------------------------------------------------
(* Properties.                                                             *)

\* Tables, snapshots and files are well typed and a segment's start is a key.
TypeOK ==
    /\ \A t \in {db[m] : m \in Machines} \cup {store[m] : m \in Machines}
                  \cup {files[m] : m \in Machines} \cup {c.tags : c \in publishers} :
          /\ t.rows \subseteq Segment /\ t.verdict \in Verdict \cup {NoVerdict}
          /\ \A r, q \in t.rows : r.start = q.start => r = q
    /\ now \in 1 .. MaxTime /\ writes \in 0 .. MaxWrites /\ faults \in 0 .. MaxFaults

\* Once the children of the tag-writes are done, however they were ordered and
\* whatever folded in between, the store shows the session's latest tagging
\* (tagpublish.go:76-119, 223).  Not claimed: a publication that was lost, until
\* the next fold; two taggings in one second; a tagging written to the store.
StoreShowsLatest ==
    publishers = {} /\ ~lost /\ ~blurred /\ ~direct =>
        store[Home].rows = db[Home].rows

\* Nothing is left to publish, fold, push, pull or ingest.
Settled ==
    /\ publishers = {}
    /\ \A m \in Machines : mark[m] = TagMark(db[m])
    /\ \A m \in Machines : Tagged(Exported(m)) => files[m] = Exported(m)
    /\ \A m \in Readers : clone[m] = files /\ db[m] = Ingested(m)

\* With the transcript on the machine of the highest id, its latest tagging is
\* what every machine shows once nothing is left to do, through lost
\* publications, busy stores and files that other machines re-export
\* (tagingest.go:14-29).  Not claimed: two taggings in one second; a tagging
\* written to the store; once the home machine withheld its segments, as the
\* watermark of a count and a latest time may then not tell a mix from them.
TaggingsArrive ==
    Settled /\ (\A m \in Machines : m <= Home) /\ ~blurred /\ ~direct /\ ~withheld =>
        \A m \in Machines : Content(store[m].rows) = Content(db[Home].rows)

=============================================================================
