------------------------------ MODULE Closeout ------------------------------
(***************************************************************************)
(* The tagging of a finished session in the background.  `closeout' claims *)
(* the session with a lock directory that holds the claimant's token, and  *)
(* hands the token to a detached worker, which alternates tag-prep, the    *)
(* tagger and tag-write until tag-prep says the session is fully tagged.   *)
(* A prewarm may have left the tag-prep dump in a cache.                   *)
(*                                                                         *)
(* A message is its position in the transcript; a segment is the positions *)
(* it starts and ends at.  The project database is refreshed to the whole  *)
(* transcript wherever it is read; the store has an older copy of its      *)
(* segments until a publication (TagExchange) brings the newer one.        *)
(***************************************************************************)
EXTENDS Naturals, FiniteSets, FiniteSetsExt

CONSTANTS Workers,      \* closeout invocations, each with a token of its own
          Prewarmers,   \* prewarm runs
          Hidden,       \* positions that are not displayable
          Size,         \* per position, the bytes of its condensed line
          ChunkByteCap, \* cmd_tag.go: chunkByteCap
          MaxPasses,    \* cmd_closeout.go: closeoutMaxPasses
          MaxMessages,  \* bound: the length of the transcript
          MaxKills      \* bound: processes killed

VARIABLES len,      \* the messages of the transcript
          segs,     \* the session's segments in the project database
          shown,    \* its segments in the consolidated store
          lock,     \* the lock directory: the tokens in it, and its age
          worker,   \* the closeout processes
          dump,     \* the prewarmed dump
          state,    \* its fingerprint
          prewarm,  \* the prewarm processes
          kills,
          robbed,   \* history: a lock that was not stale was taken away
          torn,     \* history: a fingerprint vouched for another dump than its own
          short     \* history: a worker was done with messages left untagged

locks == <<lock, robbed>>
cache == <<dump, state, prewarm, torn>>
tags == <<segs, shown>>
vars == <<len, tags, locks, worker, cache, kills, short>>

----------------------------------------------------------------------------
(* The window tag-prep shows and tag-write accepts: the earliest untagged  *)
(* stretch of displayable messages, as far as the byte cap allows.         *)

Displayable(n) == (1 .. n) \ Hidden
Covered(ss) == UNION {g.from .. g.to : g \in ss}
Bytes(S) == MapThenSumSet(LAMBDA i : Size[i], S)

Window(n, ss) ==
    LET open == Displayable(n) \ Covered(ss)
        first == Min(open)
        stretch == {i \in open : \A j \in Displayable(n) \cap Covered(ss) : j < first \/ i < j}
    IN  IF open = {} THEN {}
        ELSE {i \in stretch : i = first \/ Bytes({j \in stretch : j <= i}) <= ChunkByteCap}

\* A segment ends before the next one starts, the last one at the window's end.
Segments(starts, window) ==
    LET last(i) == LET later == {j \in starts : j > i}
                   IN  IF later = {} THEN window
                       ELSE {j \in window : j < Min(later)}
    IN  {[from |-> i, to |-> Max(last(i) \cup {i})] : i \in starts}

NoLock == [tokens |-> {}, stale |-> FALSE, held |-> FALSE]
NoDump == [window |-> {}, n |-> 0]
NoState == [n |-> 0, topics |-> 0]

\* Processes that have ended.
Over == [pc |-> "over", try |-> 1, pass |-> 1, window |-> {}, starts |-> {}]
Warmed == [pc |-> "over", window |-> {}, n |-> 0, topics |-> 0, stat |-> 0]

Init ==
    /\ len = 1
    /\ segs = {} /\ shown = {}
    \* free, or left behind by a worker that was killed long ago
    /\ lock \in {NoLock, [tokens |-> {}, stale |-> TRUE, held |-> TRUE]}
    /\ worker = [w \in Workers |-> [Over EXCEPT !.pc = "idle"]]
    /\ dump = NoDump /\ state = NoState
    /\ prewarm = [p \in Prewarmers |-> [Warmed EXCEPT !.pc = "idle"]]
    /\ kills = 0
    /\ robbed = FALSE /\ torn = FALSE /\ short = FALSE

At(w, pc) == worker[w].pc = pc
Go(w, pc) == worker' = [worker EXCEPT ![w].pc = pc]
End(w) == worker' = [worker EXCEPT ![w] = Over]

----------------------------------------------------------------------------
(* The token: mkdir claims, a marker in the directory names the claimant.  *)

\* Mutant: a directory that exists already is no error.
FreeAlways == TRUE

Free == ~lock.held

Mkdir(w) ==
    /\ At(w, "idle")
    /\ IF Free THEN Go(w, "claimed") /\ lock' = [lock EXCEPT !.held = TRUE]
       ELSE Go(w, "exists") /\ UNCHANGED lock
    /\ UNCHANGED <<len, tags, robbed, cache, kills, short>>

\* The directory is in the way: only one older than the TTL is reclaimed.
StatLock(w) ==
    /\ At(w, "exists")
    /\ IF lock.held /\ lock.stale THEN Go(w, "reclaim") ELSE End(w)
    /\ UNCHANGED <<len, tags, locks, cache, kills, short>>

\* The rename takes whatever is at the path by now.  There are two tries.
Reclaim(w) ==
    /\ At(w, "reclaim")
    /\ IF lock.held
       THEN /\ lock' = NoLock
            /\ robbed' = (robbed \/ ~lock.stale)
            /\ IF worker[w].try = 1
               THEN worker' = [worker EXCEPT ![w].pc = "idle", ![w].try = 2]
               ELSE End(w)
       ELSE End(w) /\ UNCHANGED locks
    /\ UNCHANGED <<len, tags, cache, kills, short>>

\* The marker goes by path, too: into a directory made by another, or nowhere.
Mark(w) ==
    /\ At(w, "claimed")
    /\ IF lock.held
       THEN /\ lock' = [lock EXCEPT !.tokens = @ \cup {w}, !.stale = FALSE]
            /\ worker' = [worker EXCEPT ![w].pc = "queued", ![w].try = 1]
       ELSE End(w) /\ UNCHANGED lock
    /\ UNCHANGED <<len, tags, robbed, cache, kills, short>>

\* The worker starts, or does not and the token is released.
SpawnCloseout(w) ==
    /\ At(w, "queued")
    /\ Go(w, "start") \/ Go(w, "release")
    /\ UNCHANGED <<len, tags, locks, cache, kills, short>>

\* Without a configured tagger the worker only prints what to do.
Validate(w) ==
    /\ At(w, "start")
    /\ IF w \in lock.tokens THEN Go(w, "prep") \/ Go(w, "release") ELSE End(w)
    /\ UNCHANGED <<len, tags, locks, cache, kills, short>>

Release(w) ==
    /\ At(w, "release")
    /\ IF w \in lock.tokens
       THEN lock' = [lock EXCEPT !.tokens = @ \ {w}, !.stale = FALSE] /\ Go(w, "rmdir")
       ELSE End(w) /\ UNCHANGED lock
    /\ UNCHANGED <<len, tags, robbed, cache, kills, short>>

Rmdir(w) ==
    /\ At(w, "rmdir")
    /\ lock' = IF lock.tokens = {} THEN NoLock ELSE lock
    /\ End(w)
    /\ UNCHANGED <<len, tags, robbed, cache, kills, short>>

Claiming == {"claimed", "queued", "start", "prep", "tagger", "write", "insert", "release", "rmdir"}

\* The TTL is twice the deadline of a worker: a lock outlives its claimant
\* before it is taken for stale.
Age ==
    /\ lock.held /\ ~lock.stale
    /\ \A w \in Workers : worker[w].pc \notin Claiming
    /\ lock' = [lock EXCEPT !.stale = TRUE]
    /\ UNCHANGED <<len, tags, robbed, worker, cache, kills, short>>

----------------------------------------------------------------------------
(* The tagging loop.                                                       *)

\* Where tag-prep looks for the segments when its refresh database has none.
Authoritative == IF segs # {} THEN segs ELSE shown

\* Mutant: the size of the transcript is not compared.
FreshByTopics(topics) ==
    dump # NoDump /\ state # NoState /\ state.topics = topics

Fresh(topics) ==
    dump # NoDump /\ state # NoState /\ state.topics = topics /\ state.n = len

Leave(w) == worker' = [worker EXCEPT ![w] = [Over EXCEPT !.pc = "release"]]

\* tag-prep, from the cache or from the refreshed database.
Prep(w) ==
    /\ At(w, "prep")
    /\ LET served == IF Fresh(Cardinality(shown)) THEN dump.window
                     ELSE Window(len, Authoritative)
       IN  IF served = {}
           THEN /\ Leave(w)
                /\ short' = (short \/ Window(len, segs) # {})
           ELSE /\ worker' = [worker EXCEPT ![w].pc = "tagger", ![w].window = served]
                /\ UNCHANGED short
    /\ UNCHANGED <<len, tags, locks, cache, kills>>

\* The tagger answers with starts it saw; or it, or tag-prep before it, fails or
\* times out.
Tagger(w) ==
    /\ At(w, "tagger")
    /\ \/ \E S \in (SUBSET worker[w].window) \ {{}} :
             worker' = [worker EXCEPT ![w].pc = "write", ![w].starts = S]
       \/ Leave(w)
    /\ UNCHANGED <<len, tags, locks, cache, kills, short>>

\* Mutant: tag-write does not check the window.
AcceptsAny(starts, window) == window # {}

Accepts(starts, window) == starts \subseteq window

\* tag-write reads the segments, checks the answer against the window ...
Write(w) ==
    /\ At(w, "write")
    /\ LET window == Window(len, segs)
       IN  IF Accepts(worker[w].starts, window)
           THEN worker' = [worker EXCEPT ![w].pc = "insert", ![w].window = window]
           ELSE Leave(w)
    /\ UNCHANGED <<len, tags, locks, cache, kills, short>>

\* ... and inserts in a transaction of its own, where a start is a key.
InsertSegments(w) ==
    /\ At(w, "insert")
    /\ LET new == Segments(worker[w].starts, worker[w].window)
       IN  IF \E g \in segs, h \in new : g.from = h.from
           THEN Leave(w) /\ UNCHANGED <<segs, dump, state>>
           ELSE /\ segs' = segs \cup new
                /\ dump' = NoDump /\ state' = NoState
                /\ IF worker[w].pass < MaxPasses
                   THEN worker' = [worker EXCEPT ![w] =
                            [Over EXCEPT !.pc = "prep", !.pass = worker[w].pass + 1]]
                   ELSE Leave(w)
    /\ UNCHANGED <<len, shown, locks, prewarm, torn, kills, short>>

\* The tag-publish child, or the next fold.
Publish ==
    /\ shown # segs
    /\ shown' = segs
    /\ UNCHANGED <<len, segs, locks, worker, cache, kills, short>>

----------------------------------------------------------------------------
(* The prewarm: the dump is computed, the transcript is statted, and the   *)
(* dump and its fingerprint are written one after the other.               *)

Compute(p) ==
    /\ prewarm[p].pc = "idle"
    /\ prewarm' = [prewarm EXCEPT ![p] =
          IF Fresh(Cardinality(Authoritative)) THEN Warmed
          ELSE [pc |-> "stat", window |-> Window(len, Authoritative), n |-> len,
                topics |-> Cardinality(Authoritative), stat |-> 0]]
    /\ UNCHANGED <<len, tags, locks, worker, dump, state, torn, kills, short>>

StatTranscript(p) ==
    /\ prewarm[p].pc = "stat"
    /\ prewarm' = [prewarm EXCEPT ![p].pc = "dump", ![p].stat = len]
    /\ UNCHANGED <<len, tags, locks, worker, dump, state, torn, kills, short>>

\* The other file on disk was written by another run, or this run's own
\* fingerprint is not that of its content.
Vouching(d, s) == d # NoDump /\ s # NoState /\ s.n # d.n

WriteDump(p) ==
    /\ prewarm[p].pc = "dump"
    /\ dump' = [window |-> prewarm[p].window, n |-> prewarm[p].n]
    /\ prewarm' = [prewarm EXCEPT ![p].pc = "state"]
    /\ torn' = (torn \/ Vouching(dump', state))
    /\ UNCHANGED <<len, tags, locks, worker, state, kills, short>>

WriteState(p) ==
    /\ prewarm[p].pc = "state"
    /\ state' = [n |-> prewarm[p].stat, topics |-> prewarm[p].topics]
    /\ prewarm' = [prewarm EXCEPT ![p] = Warmed]
    /\ torn' = (torn \/ Vouching(dump, state'))
    /\ UNCHANGED <<len, tags, locks, worker, dump, kills, short>>

----------------------------------------------------------------------------

Append ==
    /\ len < MaxMessages
    /\ len' = len + 1
    /\ UNCHANGED <<tags, locks, worker, cache, kills, short>>

KillWorker(w) ==
    /\ kills < MaxKills /\ kills' = kills + 1
    /\ worker[w].pc \in Claiming
    /\ End(w)
    /\ UNCHANGED <<len, tags, locks, cache, short>>

KillPrewarm(p) ==
    /\ kills < MaxKills /\ kills' = kills + 1
    /\ prewarm[p].pc \in {"dump", "state"}
    /\ prewarm' = [prewarm EXCEPT ![p] = Warmed]
    /\ UNCHANGED <<len, tags, locks, worker, dump, state, torn, short>>

Next ==
    \/ \E w \in Workers :
          \/ Mkdir(w) \/ StatLock(w) \/ Reclaim(w) \/ Mark(w) \/ SpawnCloseout(w)
          \/ Validate(w) \/ Release(w) \/ Rmdir(w)
          \/ Prep(w) \/ Tagger(w) \/ Write(w) \/ InsertSegments(w) \/ KillWorker(w)
    \/ \E p \in Prewarmers :
          Compute(p) \/ StatTranscript(p) \/ WriteDump(p) \/ WriteState(p) \/ KillPrewarm(p)
    \/ Age \/ Publish \/ Append

Spec == Init /\ [][Next]_vars

----------------------------------------------------------------------------
(* Properties.                                                             *)

TypeOK ==
    /\ len \in 1 .. MaxMessages /\ kills \in 0 .. MaxKills
    /\ \A g \in segs \cup shown : g.from <= g.to /\ g.to <= len
    /\ shown \subseteq segs
    /\ lock.tokens \subseteq Workers /\ (lock.tokens # {} => lock.held)

Tagging(w) == worker[w].pc \in {"prep", "tagger", "write", "insert"}

\* A session has one closeout worker at a time, however claims, reclaims and
\* releases interleave (bg_ingest.go:61).  Not claimed: after a reclaim that was
\* decided on a stale lock and took a fresh one made since.
OneWorker ==
    robbed \/ \A w, v \in Workers : Tagging(w) /\ Tagging(v) => w = v

\* No message is in two segments, whatever stale or mixed-up dumps the taggers
\* were shown (cmd_tag.go:666, 671).  Not claimed: with two workers at once.
SegmentsDisjoint ==
    robbed \/ \A g, h \in segs : g # h => (g.from .. g.to) \cap (h.from .. h.to) = {}

\* A worker that ends well leaves no message untagged (cmd_closeout.go:172).
\* Not claimed: when a fingerprint vouches for a dump of another transcript,
\* because a message came between the dump and its stat, or because two
\* prewarms wrote their files crosswise.
DoneMeansTagged == short => torn

=============================================================================
