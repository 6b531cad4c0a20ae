------------------------------- MODULE Ingest -------------------------------
(***************************************************************************)
(* `rawclaw ingest <session>': one live transcript is indexed into a cache *)
(* of its own, the cache is verified against the file, folded into the     *)
(* consolidated store, and the store verified against the cache; the whole *)
(* is tried again a few times.  Session-start hooks run it, and readers    *)
(* that find the session stale spawn it.                                   *)
(*                                                                         *)
(* A record is the generation of the transcript and its position in it; a  *)
(* transcript's stamp is its generation and length.  The fold is FoldStore *)
(* with one source and one session, the cache ProjectIndex's scope with    *)
(* one file; records stored twice, half records and the vault are left to  *)
(* ProjectIndex.                                                           *)
(***************************************************************************)
EXTENDS Naturals, FiniteSets

CONSTANTS Ingesters,   \* ingest processes
          MaxAttempts, \* cmd_ingest.go: maxAttempts
          MaxLength,   \* bound: the records of a transcript
          MaxGens,     \* bound: generations of the transcript
          MaxStarts,   \* bound: runs of an ingester
          MaxBusy      \* bound: databases or fences found busy

VARIABLES disk,     \* the transcript; n = 0 when there is none
          cache,    \* its refresh cache: the records and the watermark
          store,    \* its records in the consolidated store
          mark,     \* the cache as it was last folded
          deleted,  \* a delete tombstoned the session
          marker,   \* a spawn marker younger than the window
          run,      \* the ingest processes
          busy,     \* databases or fences found busy
          overtaken,\* history: a commit left out what another one read
          missed    \* history: an ingest succeeded without what it was to bring

world == <<disk, deleted>>
dbs == <<cache, store, mark>>
vars == <<world, dbs, marker, run, busy, overtaken, missed>>

NoMark == [gen |-> 0, n |-> 0]
Empty == [recs |-> {}, at |-> NoMark]
Idle == [pc |-> "idle", starts |-> 0, tries |-> 0, wants |-> {}, stat |-> NoMark,
         from |-> NoMark, full |-> TRUE, read |-> {}, n |-> 0]

Records(t) == {<<t.gen, i>> : i \in 1 .. t.n}

Init ==
    /\ disk \in [gen : {1}, n : 0 .. 1]
    /\ cache = Empty /\ mark = Empty /\ store = {}
    /\ deleted = FALSE /\ marker = FALSE
    /\ run = [i \in Ingesters |-> Idle]
    /\ busy = 0 /\ overtaken = FALSE /\ missed = FALSE

At(i, pc) == run[i].pc = pc
Go(i, r) == run' = [run EXCEPT ![i] = r]

----------------------------------------------------------------------------
(* The world. *)

Write ==
    /\ disk.n < MaxLength /\ disk' = [disk EXCEPT !.n = @ + 1]
    /\ UNCHANGED <<deleted, dbs, marker, run, busy, overtaken, missed>>

\* The agent writes its transcript anew.
Replace ==
    /\ disk.n > 0 /\ disk.gen < MaxGens
    /\ disk' = [gen |-> disk.gen + 1, n |-> 1]
    /\ UNCHANGED <<deleted, dbs, marker, run, busy, overtaken, missed>>

Purge ==
    /\ disk.n > 0 /\ disk.gen < MaxGens
    /\ disk' = [gen |-> disk.gen + 1, n |-> 0]
    /\ UNCHANGED <<deleted, dbs, marker, run, busy, overtaken, missed>>

Delete ==
    /\ ~deleted /\ disk.n > 0
    /\ deleted' = TRUE /\ disk' = [gen |-> disk.gen + 1, n |-> 0]
    /\ UNCHANGED <<dbs, marker, run, busy, overtaken, missed>>

----------------------------------------------------------------------------
(* Starting. *)

Begin(r) == [Idle EXCEPT !.pc = "resolve", !.starts = r.starts + 1]

Hook(i) ==
    /\ At(i, "idle") /\ run[i].starts < MaxStarts
    /\ Go(i, Begin(run[i]))
    /\ UNCHANGED <<world, dbs, marker, busy, overtaken, missed>>

\* A reader looks at the spawn marker, and then renews it.
FindStale(i) ==
    /\ At(i, "idle") /\ run[i].starts < MaxStarts
    /\ ~marker /\ cache.at # disk
    /\ Go(i, [run[i] EXCEPT !.pc = "spawn"])
    /\ UNCHANGED <<world, dbs, marker, busy, overtaken, missed>>

Spawn(i) ==
    /\ At(i, "spawn") /\ marker' = TRUE
    /\ Go(i, Begin(run[i]))
    /\ UNCHANGED <<world, dbs, busy, overtaken, missed>>

Age ==
    /\ marker /\ marker' = FALSE
    /\ UNCHANGED <<world, dbs, run, busy, overtaken, missed>>

\* A session without a transcript yet is skipped.
Resolve(i) ==
    /\ At(i, "resolve")
    /\ Go(i, IF disk.n = 0 THEN [Idle EXCEPT !.starts = run[i].starts]
             ELSE [run[i] EXCEPT !.pc = "index", !.wants = Records(disk)])
    /\ UNCHANGED <<world, dbs, marker, busy, overtaken, missed>>

\* An attempt that failed: the next one, or the end of it.
Failed(r) ==
    IF r.tries + 1 < MaxAttempts
    THEN [Idle EXCEPT !.pc = "index", !.starts = r.starts, !.tries = r.tries + 1, !.wants = r.wants]
    ELSE [Idle EXCEPT !.starts = r.starts]

FoundBusy == busy < MaxBusy /\ busy' = busy + 1

----------------------------------------------------------------------------
(* Indexing into the refresh cache. *)

Grew(t) == cache.at.n > 0 /\ t.gen = cache.at.gen /\ t.n > cache.at.n

\* The stat of the transcript against the watermark.
Stat(i) ==
    /\ At(i, "index")
    /\ Go(i, IF disk.n = 0 \/ deleted \/ cache.at = disk THEN [run[i] EXCEPT !.pc = "verify"]
             ELSE [run[i] EXCEPT !.pc = "read", !.stat = disk, !.from = cache.at,
                                 !.full = ~Grew(disk)])
    /\ UNCHANGED <<world, dbs, marker, busy, overtaken, missed>>

\* The tail up to the stat's size, or, in a file whose head changed, or that
\* has to be read in full, what is there now.
Read(i) ==
    /\ At(i, "read")
    /\ LET r == run[i]
           tail == ~r.full /\ disk.gen = r.from.gen IN
       Go(i, IF disk.n = 0 THEN Failed(r)
             ELSE [r EXCEPT !.pc = "commit", !.full = ~tail,
                            !.read = IF tail THEN Records(r.stat) \ Records(r.from)
                                     ELSE Records(disk)])
    /\ UNCHANGED <<world, dbs, marker, busy, overtaken, missed>>

\* What the transcript has, and the cache has not, for want of an order of the
\* commits: a full write undoes a later one, or a tail gives way to an earlier
\* one and its own records are left out.
Lost(r) ==
    LET here == Records(disk) IN
    \/ r.full /\ ~((cache.recs \cap here) \subseteq r.read)
    \/ ~r.full /\ cache.at # r.from /\ ~((r.read \cap here) \subseteq cache.recs)

\* An appended tail must start where the watermark still is; one that does not
\* is left out, and the attempt goes on (tail.go: errAppendStale).
Commit(i) ==
    /\ At(i, "commit")
    /\ LET r == run[i] IN
       /\ cache' = IF r.full THEN [recs |-> r.read, at |-> r.stat]
                   ELSE IF cache.at = r.from THEN [recs |-> cache.recs \cup r.read, at |-> r.stat]
                   ELSE cache
       /\ overtaken' = (overtaken \/ Lost(r))
       /\ Go(i, [r EXCEPT !.pc = "verify"])
    /\ UNCHANGED <<world, store, mark, marker, busy, missed>>

\* Mutant: a cache that was locked is taken as it is.
LockedIsFine(i) ==
    /\ At(i, "index") \/ At(i, "commit")
    /\ FoundBusy /\ Go(i, [run[i] EXCEPT !.pc = "verify"])
    /\ UNCHANGED <<world, dbs, marker, overtaken, missed>>

\* The cache is locked: it is stale, and the attempt has failed.
Locked(i) ==
    /\ At(i, "index") \/ At(i, "commit")
    /\ FoundBusy /\ Go(i, Failed(run[i]))
    /\ UNCHANGED <<world, dbs, marker, overtaken, missed>>

----------------------------------------------------------------------------
(* Verifying and publishing. *)

\* The watermark is the file's, or that of a head of it.
Covers(at, t) == at # NoMark /\ at.gen = t.gen /\ at.n <= t.n

VerifyFresh(i) ==
    /\ At(i, "verify")
    /\ Go(i, IF disk.n > 0 /\ Covers(cache.at, disk)
             THEN [run[i] EXCEPT !.pc = "fold", !.n = Cardinality(cache.recs)]
             ELSE Failed(run[i]))
    /\ UNCHANGED <<world, dbs, marker, busy, overtaken, missed>>

\* Under the fence.  A cache that has not changed since is not folded.
SyncConsolidatedFrom(i) ==
    /\ At(i, "fold")
    /\ Go(i, [run[i] EXCEPT !.pc = "count"])
    /\ mark' = cache
    /\ store' = IF mark = cache THEN store ELSE IF deleted THEN {} ELSE store \cup cache.recs
    /\ UNCHANGED <<world, cache, marker, busy, overtaken, missed>>

\* The fence was not to be had, or the store was busy.
Unfolded(i) ==
    /\ At(i, "fold") \/ At(i, "count")
    /\ FoundBusy /\ Go(i, Failed(run[i]))
    /\ UNCHANGED <<world, dbs, marker, overtaken, missed>>

VerifyCount(i) ==
    /\ At(i, "count")
    /\ LET r == run[i]
           done == store # {} /\ Cardinality(store) >= r.n
           missing == (r.wants \cap Records(disk)) \ store IN
       /\ Go(i, IF done THEN [Idle EXCEPT !.starts = r.starts] ELSE Failed(r))
       /\ missed' = (missed \/ (done /\ ~deleted /\ missing # {}))
    /\ UNCHANGED <<world, dbs, marker, busy, overtaken>>

Next ==
    \/ Write \/ Replace \/ Purge \/ Delete \/ Age
    \/ \E i \in Ingesters :
           \/ Hook(i) \/ FindStale(i) \/ Spawn(i) \/ Resolve(i)
           \/ Stat(i) \/ Read(i) \/ Commit(i) \/ Locked(i)
           \/ VerifyFresh(i) \/ SyncConsolidatedFrom(i) \/ Unfolded(i) \/ VerifyCount(i)

Spec == Init /\ [][Next]_vars

----------------------------------------------------------------------------
(* Properties. *)

(* What was folded is in the store unless the session was deleted.         *)
TypeOK ==
    /\ \A c \in {cache, mark} : c.recs \subseteq (1 .. MaxGens + 1) \X (1 .. MaxLength)
    /\ ~deleted => mark.recs \subseteq store
    /\ busy \in 0 .. MaxBusy

(* An ingest that reports success has made searchable what the transcript  *)
(* held when it began and still holds, beside agents, other ingests,       *)
(* deletes and locks (containers.go:135: "any uncertainty is an error").   *)
(* Not claimed: after a full write undid a later one, or a tail was left    *)
(* out, as another ingest had moved the watermark: what is verified then is *)
(* only that the watermark is a head of the file (containers.go:231-236).   *)
IngestedIsSearchable == missed => overtaken

=============================================================================
