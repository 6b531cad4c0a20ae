---------------------------- MODULE ProjectIndex ----------------------------
(***************************************************************************)
(* One project's index database and the processes that fill it from the    *)
(* transcripts on disk: the incremental pass over the changed files (tail  *)
(* append or full re-read), the retention pass over the absent ones, the   *)
(* orphan pass of a project that has vanished, and the transcript vault,   *)
(* rawclaw's own copy of every session.                                    *)
(*                                                                         *)
(* Several processes run the pass at once, none holds a lock across it,    *)
(* and the tools keep writing, replacing and purging the transcripts while *)
(* it runs.  An action is one commit, one file-system call, or one read a  *)
(* later commit relies on.                                                 *)
(*                                                                         *)
(* A transcript is [on, gen, len, part]: whether it is on disk, which      *)
(* writing of the file it is (a replaced file has another head), its       *)
(* complete records, and whether an unterminated record follows.  Its size *)
(* is counted in half records, so that an offset inside a line is odd.  A  *)
(* gen and a size fix the content, and they stand for the modification     *)
(* time, which every write moves.                                          *)
(***************************************************************************)
EXTENDS Integers, FiniteSets, Functions

CONSTANTS Files,     \* transcript files
          Owner,     \* the session of a file
          Preferred, \* the file served instead of it while both exist, or itself
          Indexers,  \* processes that run index passes
          Scopes,    \* [rendered, mode, files, gens, by]: kind of source, retention
                     \* mode, the files its tool writes and how often it replaces
                     \* one, the processes that index it
          Head,      \* size a fingerprint reads at the head of a file
          Wide,      \* size above which it also reads the end
          MaxLen, MaxGen,      \* bounds: records of a file, its writings
          MaxTime, MaxFaults   \* bounds: changes outside the passes, faults

Sessions == {Owner[f] : f \in Files}
Unwritten == [on |-> FALSE, gen |-> 0, len |-> 0, part |-> 0]
Transcript == [on: BOOLEAN, gen: 0..MaxGen, len: 0..MaxLen, part: 0..1]
Size(t) == 2 * t.len + t.part
Least(a, b) == IF a < b THEN a ELSE b

Record == [f: Files, g: 1..MaxGen, p: 1..MaxLen]
Records(f, t, a, b) == {[f |-> f, g |-> t.gen, p |-> p] : p \in (a + 1)..b}

NoMark == [at |-> <<0, 0>>, fp |-> <<>>, off |-> 0]

(* The sessions table: no row, a row, a row with only_copy_since; the vault  *)
(* has the same verdict in its sidecar.                                      *)
Verdict == {"absent", "live", "only copy"}
NoCopy == [recs |-> {}, is |-> "absent"]

ASSUME IndexAssumption ==
  /\ IsFiniteSet(Files) /\ Preferred \in [Files -> Files]
  /\ \A f \in Files : Owner[f] = Owner[Preferred[f]]
  /\ Head \in Nat \ {0} /\ Wide \in Nat /\ Head <= Wide
  /\ {MaxLen, MaxGen, MaxTime, MaxFaults} \subseteq Nat
  /\ Scopes \subseteq [rendered: BOOLEAN, mode: {"keep", "mirror", "replica"},
                       files: SUBSET Files, gens: 1..MaxGen, by: SUBSET Indexers]

VARIABLES scope,   \* the kind of project
          now,     \* changes outside the passes so far
          faults,
          disk,    \* the transcripts
          tombs,   \* the tombstone sidecar
          leaving, \* the session whose files a delete has removed, not yet tombstoned
          msgs,    \* messages: a record, and which copy of it the row is
          sess,    \* sessions, and whether only_copy_since is set
          fi,      \* file_index
          vault,   \* the transcript vault, by session
          pass,    \* the pass of each process
          alone,   \* history: passes since whose walk nothing else has happened
          late     \* history: passes since whose read another committed the session

vars == <<scope, now, faults, disk, tombs, leaving, msgs, sess, fi, vault, pass, alone, late>>
db == <<msgs, sess, fi>>
world == <<disk, tombs, leaving>>

Rest == [pc |-> "idle", orphan |-> FALSE, walk |-> {}, todo |-> {}, tombs |-> {},
         cur |-> <<>>, f |-> CHOOSE f \in Files : TRUE,
         stat |-> Unwritten, kind |-> "none", read |-> {}, off |-> 0,
         acts |-> {}, done |-> {}]

TypeOK ==
  /\ scope \in Scopes /\ now \in 0..MaxTime /\ faults \in 0..MaxFaults
  /\ disk \in [Files -> Transcript]
  /\ tombs \subseteq Sessions /\ leaving \subseteq Sessions
  /\ msgs \subseteq Record \X (Nat \ {0}) /\ sess \in [Sessions -> Verdict]
  /\ \A f \in Files : fi[f].off \in 0..(2 * MaxLen + 1)
  /\ vault \in [Sessions -> [recs: SUBSET Record, is: Verdict]]
  /\ \A i \in Indexers : pass[i].tombs \subseteq tombs /\ pass[i].read \subseteq Record
  /\ late \subseteq Indexers

Init ==
  /\ scope \in Scopes /\ now = 0 /\ faults = 0
  /\ disk = [f \in Files |-> Unwritten] /\ tombs = {} /\ leaving = {}
  /\ msgs = {}
  /\ sess = [s \in Sessions |-> "absent"] /\ fi = [f \in Files |-> NoMark]
  /\ vault = [s \in Sessions |-> NoCopy]
  /\ pass = [i \in Indexers |-> Rest] /\ alone = {} /\ late = {}

-----------------------------------------------------------------------------
(* Fingerprints.  A generation stands for the bytes of the head. *)

Stamp(t) == <<t.gen, Size(t)>>

(* Of the whole file, when it is taken to be n long: the head of what is   *)
(* there now, and its end when n is large.                                 *)
FileFingerprint(t, n) ==
  IF ~t.on THEN <<>>
  ELSE <<t.gen, Least(Head, Size(t)), IF n > Wide THEN Size(t) ELSE 0>>

(* Of the file as it was when it ended at off. *)
checkPrefixFingerprint(t, off) ==
  IF off = 0 \/ ~t.on THEN <<>>
  ELSE <<t.gen, Least(Head, off), IF off > Wide THEN off ELSE 0>>

Unchanged(f, t, mark) ==
  mark.at = Stamp(t) /\ mark.fp = FileFingerprint(t, Size(t))

(* The files a walk finds: those present that no preferred one replaces. *)
Served(f) == disk[f].on /\ (Preferred[f] = f \/ ~disk[Preferred[f]].on)

FilesOf(s) == {f \in Files : Owner[f] = s}
Of(rows, s) == {m[1] : m \in {n \in rows : Owner[n[1].f] = s}}
Stored(s) == Of(msgs, s)
Without(s) == {m \in msgs : Owner[m[1].f] # s}
With(rows, R) ==
  rows \cup {<<r, 1 + Cardinality({m \in rows : m[1] = r})>> : r \in R}

-----------------------------------------------------------------------------
(* What goes on outside the passes. *)

Outside ==
  /\ now < MaxTime /\ now' = now + 1 /\ alone' = {}
  /\ UNCHANGED <<scope, faults, vault, pass, late>> /\ UNCHANGED db

(* A tool writes a record of its transcript, in one write or in two. *)
Write(f) ==
  /\ Outside /\ disk[f].len < MaxLen
  /\ disk[f].on \/ (disk[f] = Unwritten /\ f \in scope.files)
  /\ LET t == IF disk[f].on THEN disk[f] ELSE [Unwritten EXCEPT !.on = TRUE, !.gen = 1] IN
     \E t2 \in {[t EXCEPT !.len = @ + 1, !.part = 0], [t EXCEPT !.part = 1]} \ {disk[f]} :
       disk' = [disk EXCEPT ![f] = t2]
  /\ UNCHANGED <<tombs, leaving>>

(* It replaces the transcript by one with another head. *)
Replace(f) ==
  /\ Outside /\ disk[f].gen \in 1..(scope.gens - 1)
  /\ \E n \in 1..MaxLen : disk' = [disk EXCEPT ![f] =
                            [on |-> TRUE, gen |-> @.gen + 1, len |-> n, part |-> 0]]
  /\ UNCHANGED <<tombs, leaving>>

(* It purges the transcript; or a purged one is put back as it was. *)
Purge(f) ==
  /\ Outside /\ disk[f].on
  /\ disk' = [disk EXCEPT ![f].on = FALSE] /\ UNCHANGED <<tombs, leaving>>

PutBack(f) ==
  /\ Outside /\ ~disk[f].on /\ disk[f] # Unwritten
  /\ disk' = [disk EXCEPT ![f].on = TRUE]
  /\ UNCHANGED <<tombs, leaving>>

(* The user deletes a session: its transcript is removed, then its id is    *)
(* recorded.  A session that is retained has no file, and is only recorded. *)
DeleteFile(s) ==
  /\ Outside /\ ~scope.rendered /\ leaving = {} /\ s \notin tombs
  /\ \E f \in FilesOf(s) : disk[f].on /\ disk' = [disk EXCEPT ![f].on = FALSE]
  /\ leaving' = {s} /\ UNCHANGED tombs

(* A delete cut off between the two. *)
DeleteKilled ==
  /\ leaving # {} /\ faults < MaxFaults /\ faults' = faults + 1 /\ leaving' = {}
  /\ alone' = {} /\ UNCHANGED <<scope, now, disk, tombs, vault, pass, late>> /\ UNCHANGED db

Tombstone(s) ==
  /\ s \in leaving \/ (s \notin tombs /\ sess[s] = "only copy")
  /\ tombs' = tombs \cup {s} /\ leaving' = leaving \ {s}
  /\ alone' = {} /\ UNCHANGED <<scope, now, faults, disk, vault, pass, late>> /\ UNCHANGED db

-----------------------------------------------------------------------------
(* The pass. *)

Pass(i, pc) ==
  /\ pass[i].pc = pc /\ alone' = IF pc = "idle" THEN {i} ELSE alone \cap {i}
  /\ UNCHANGED <<scope, now, disk, tombs, leaving>>
Set(i, p) == pass' = [pass EXCEPT ![i] = p]
Step(i, p) == Set(i, p) /\ UNCHANGED <<faults, vault, late>> /\ UNCHANGED db
NextFile(i) == [pass[i] EXCEPT !.pc = "files", !.kind = "none", !.read = {},
                               !.stat = Unwritten, !.off = 0, !.f = Rest.f]

Start(i, found, orphan) ==
  /\ Pass(i, "idle") /\ i \in scope.by
  /\ Step(i, [Rest EXCEPT !.pc = "load", !.walk = found, !.todo = found, !.orphan = orphan])

(* Walk the project. *)
Walk(i) ==
  LET found == {f \in Files : Served(f)} IN found # {} /\ Start(i, found, FALSE)

(* One that has no transcript left is not walked but reconciled as an      *)
(* orphan, against an empty scan and in keep mode; a replica that has none *)
(* left is not looked at again.                                            *)
WalkOrphan(i) ==
  /\ scope.mode # "replica" /\ \E s \in Sessions : sess[s] # "absent"
  /\ ~\E f \in Files : Served(f)
  /\ Start(i, {}, TRUE)

(* Load the tombstones and the watermarks.                                 *)
Load(i) ==
  /\ Pass(i, "load")
  /\ Step(i, [pass[i] EXCEPT !.pc = "files", !.tombs = tombs,
                        !.cur = [f \in pass[i].walk |-> fi[f]]])

(* No tombstone counts when the sidecar cannot be read.                    *)
LoadUnread(i) ==
  /\ pass[i].pc = "load" /\ tombs # {} /\ faults < MaxFaults /\ faults' = faults + 1
  /\ alone' = {} /\ Set(i, [pass[i] EXCEPT !.pc = "files", !.cur = [f \in pass[i].walk |-> fi[f]]])
  /\ UNCHANGED <<scope, now, vault, late>> /\ UNCHANGED db /\ UNCHANGED world

Stat(i) ==
  /\ Pass(i, "files")
  /\ \E f \in pass[i].todo :
       LET p == [pass[i] EXCEPT !.todo = @ \ {f}] IN
       IF ~disk[f].on \/ Owner[f] \in p.tombs \/ Unchanged(f, disk[f], p.cur[f])
       THEN Step(i, p)
       ELSE Step(i, [p EXCEPT !.pc = "read", !.f = f, !.stat = disk[f]])

(* Whether a changed file is read from its watermark on: it only grew, as  *)
(* far as the fingerprint tells, and the offset is a line boundary (inside *)
(* a line, or in a replaced file, whose lines end elsewhere, the first     *)
(* line read is malformed).  A Claude pass also asks that it be longer     *)
(* than at the last stat.                                                  *)
Grew(i) ==
  LET p == pass[i]  prev == p.cur[p.f]  sz == Size(p.stat) IN
  /\ prev.off > 0 /\ sz > prev.off
  /\ scope.rendered \/ (prev.at[2] > 0 /\ sz > prev.at[2])
  /\ checkPrefixFingerprint(disk[p.f], prev.off) = prev.fp
  /\ prev.off % 2 = 0 /\ prev.at[1] = disk[p.f].gen

(* Read the complete records between the watermark and the size that was   *)
(* stat'd; an unterminated one stays for the next pass.                    *)
ReadTail(i) ==
  /\ Pass(i, "read") /\ Grew(i)
  /\ LET p == pass[i]  k == Size(p.stat) \div 2  a == p.cur[p.f].off \div 2 IN
     Step(i, IF k = a THEN NextFile(i)
             ELSE [p EXCEPT !.pc = "tx", !.kind = "tail", !.off = 2 * k,
                            !.read = Records(p.f, disk[p.f], a, k)])

(* Read the whole file, as long as it is by now. *)
ReadFull(i) ==
  /\ Pass(i, "read") /\ ~Grew(i)
  /\ LET p == pass[i] IN
     Step(i, IF ~disk[p.f].on THEN NextFile(i)
             ELSE [p EXCEPT !.pc = "tx", !.kind = "full", !.off = Size(p.stat),
                            !.read = Records(p.f, disk[p.f], 0, disk[p.f].len)])

-----------------------------------------------------------------------------
(* The commits of the pass.  The vault copy is written before the commit:  *)
(* the file as it is by then for a Claude transcript, the rows rendered    *)
(* for another source; replicas have none.                                 *)

Copied(i, rows) ==
  LET f == pass[i].f IN
  IF scope.rendered THEN Of(rows, Owner[f])
  ELSE Records(f, disk[f], 0, disk[f].len)

(* Mutant: an append leaves the vault copy as it is. *)
VaultedWhenFull(i, rows) ==
  IF scope.mode = "replica" \/ pass[i].kind = "tail" THEN vault
  ELSE [vault EXCEPT ![Owner[pass[i].f]] = [recs |-> Copied(i, rows), is |-> "live"]]

Vaulted(i, rows) ==
  IF scope.mode = "replica" THEN vault
  ELSE [vault EXCEPT ![Owner[pass[i].f]] = [recs |-> Copied(i, rows), is |-> "live"]]

(* A Claude transcript that is gone by now cannot be copied. *)
Copyable(i) == scope.mode = "replica" \/ scope.rendered \/ disk[pass[i].f].on

(* Mutant: the other watermarks of the session stay. *)
MarkedAlso(f, mark) == [fi EXCEPT ![f] = mark]

(* Only the watermark of the file that was read remains of its session. *)
Marked(f, mark) == [g \in Files |-> IF g = f THEN mark
                                    ELSE IF Owner[g] = Owner[f] THEN NoMark ELSE fi[g]]

FullRows(i) == With(Without(Owner[pass[i].f]), pass[i].read)
TailRows(i) == With(msgs, pass[i].read)

(* Mutant: the watermark is of the file as it is at the commit. *)
MarkNow(i) ==
  LET t == disk[pass[i].f] IN
  [at |-> Stamp(t), off |-> Size(t), fp |-> FileFingerprint(t, Size(t))]

(* Mutant: the offset is one record past the end. *)
MarkPastEnd(i) ==
  LET p == pass[i]  sz == Size(p.stat) IN
  [at |-> Stamp(p.stat), off |-> sz + 2, fp |-> FileFingerprint(p.stat, sz)]

(* The watermark of a full read is that of the stat before it; a Claude     *)
(* pass takes the fingerprint at the commit, of that many bytes.            *)
MarkRead(i) ==
  LET p == pass[i]  sz == Size(p.stat) IN
  [at |-> Stamp(p.stat), off |-> sz,
   fp |-> FileFingerprint(IF scope.rendered THEN p.stat ELSE disk[p.f], sz)]

(* What the other passes read of the session before this commit. *)
Overtakes(i) ==
  {k \in Indexers \ {i} : pass[k].pc = "tx" /\ Owner[pass[k].f] = Owner[pass[i].f]}

(* Replace the session by what was read. *)
FullTx(i) ==
  /\ Pass(i, "tx") /\ pass[i].kind = "full" /\ UNCHANGED faults
  /\ LET f == pass[i].f IN
     IF Copyable(i)
     THEN /\ msgs' = FullRows(i) /\ sess' = [sess EXCEPT ![Owner[f]] = "live"]
          /\ fi' = Marked(f, MarkRead(i))
          /\ vault' = Vaulted(i, FullRows(i)) /\ Set(i, NextFile(i))
          /\ late' = (late \ {i}) \cup Overtakes(i)
     ELSE Set(i, Rest) /\ late' = late \ {i} /\ UNCHANGED vault /\ UNCHANGED db

(* Mutant: the watermark is not compared. *)
AlwaysCurrent(i) == pass[i].kind = "tail"

(* The watermark is still at the byte offset the tail was read from (two   *)
(* writings of a file end no line at the same offset).                     *)
Current(i) ==
  LET f == pass[i].f  offset(mark) == <<mark.at[1], mark.off>> IN
  offset(fi[f]) = offset(pass[i].cur[f])

(* Append what was read, if the watermark is where it was read from.       *)
TailTx(i) ==
  /\ Pass(i, "tx") /\ pass[i].kind = "tail" /\ UNCHANGED faults
  /\ Set(i, NextFile(i))
  /\ LET p == pass[i]  f == p.f IN
     IF Current(i) /\ Copyable(i)
     THEN /\ msgs' = TailRows(i)
          /\ sess' = [sess EXCEPT ![Owner[f]] = IF @ = "absent" THEN @ ELSE "live"]
          /\ fi' = Marked(f, [at |-> Stamp(p.stat), off |-> p.off,
                              fp |-> checkPrefixFingerprint(disk[f], p.off)])
          /\ vault' = Vaulted(i, TailRows(i))
          /\ late' = (late \ {i}) \cup Overtakes(i)
     ELSE late' = late \ {i} /\ UNCHANGED vault /\ UNCHANGED db

-----------------------------------------------------------------------------
(* Retention. *)

(* Mutant: a transcript that is gone takes its session with it. *)
DecidePrune(present, tombstoned, own, onlyCopy, mirror, replica) ==
  IF present THEN IF onlyCopy THEN "clear" ELSE "none"
  ELSE IF ~own /\ ~tombstoned /\ ~replica THEN "none" ELSE "prune"

DecideRetention(present, tombstoned, own, onlyCopy, mirror, replica) ==
  IF present THEN IF onlyCopy THEN "clear" ELSE "none"
  ELSE IF replica \/ tombstoned THEN "prune"
  ELSE IF ~own THEN "none"
  ELSE IF mirror THEN "prune"
  ELSE IF onlyCopy THEN "none" ELSE "stamp"

(* One decision for each watermark, from the walk, the tombstones and the  *)
(* sessions table as it is now.                                            *)
Scan(i) ==
  /\ Pass(i, "files") /\ pass[i].todo = {}
  /\ LET p == pass[i]
         act(f) == DecideRetention(f \in p.walk, Owner[f] \in p.tombs,
                     scope.mode # "replica" \/ sess[Owner[f]] = "absent",
                     sess[Owner[f]] = "only copy",
                     scope.mode = "mirror" /\ ~p.orphan, scope.mode = "replica")
         acts == {<<act(f), f>> : f \in {g \in Files : fi[g] # NoMark}}
     IN Step(i, [Rest EXCEPT !.pc = "retain", !.acts = {a \in acts : a[1] # "none"}])

Done(i, a) == [pass[i] EXCEPT !.acts = @ \ {a}, !.done = @ \cup {<<a[1], Owner[a[2]]>>}]

Flag(i) ==
  /\ Pass(i, "retain")
  /\ \E a \in pass[i].acts :
       /\ a[1] \in {"clear", "stamp"}
       /\ sess' = [sess EXCEPT ![Owner[a[2]]] =
            IF @ = "absent" THEN @ ELSE IF a[1] = "stamp" THEN "only copy" ELSE "live"]
       /\ Set(i, Done(i, a))
  /\ UNCHANGED <<faults, vault, late, msgs, fi>>

(* Removing a session is three commits. *)
Prune(i) ==
  /\ Pass(i, "retain") /\ UNCHANGED <<faults, vault, late>>
  /\ \E a \in pass[i].acts :
       /\ a[1] = "prune" /\ msgs' = Without(Owner[a[2]])
       /\ Set(i, [pass[i] EXCEPT !.pc = "prune row", !.f = a[2]])
  /\ UNCHANGED <<sess, fi>>

PruneRow(i) ==
  /\ Pass(i, "prune row") /\ UNCHANGED <<faults, vault, late>>
  /\ sess' = [sess EXCEPT ![Owner[pass[i].f]] = "absent"]
  /\ Set(i, [pass[i] EXCEPT !.pc = "prune mark"]) /\ UNCHANGED <<msgs, fi>>

PruneMark(i) ==
  /\ Pass(i, "prune mark") /\ UNCHANGED <<faults, vault, late>>
  /\ fi' = [fi EXCEPT ![pass[i].f] = NoMark]
  /\ Set(i, [Done(i, <<"prune", pass[i].f>>) EXCEPT !.pc = "retain", !.f = Rest.f])
  /\ UNCHANGED <<msgs, sess>>

(* The verdicts reach the vault after the last of them reached the index. *)
VaultVerdicts(i) ==
  /\ Pass(i, "retain") /\ pass[i].acts = {} /\ UNCHANGED <<faults, late>> /\ UNCHANGED db
  /\ LET did(v) == {s \in Sessions : <<v, s>> \in pass[i].done} IN
     vault' = IF scope.mode = "replica" THEN vault ELSE
       [s \in Sessions |->
          IF s \in did("prune") THEN NoCopy
          ELSE IF vault[s] = NoCopy \/ s \notin did("clear") \cup did("stamp") THEN vault[s]
          ELSE [vault[s] EXCEPT !.is = IF s \in did("clear") THEN "live" ELSE "only copy"]]
  /\ Set(i, Rest)

(* A kill, anywhere; after the vault copy was written and before the       *)
(* commit, the copy stays.                                                 *)
Kill(i) ==
  /\ pass[i].pc # "idle" /\ faults < MaxFaults /\ faults' = faults + 1
  /\ vault' \in IF pass[i].pc = "tx" /\ Copyable(i) /\ (pass[i].kind = "full" \/ Current(i))
                THEN {vault, Vaulted(i, IF pass[i].kind = "full" THEN FullRows(i) ELSE TailRows(i))}
                ELSE {vault}
  /\ alone' = {} /\ late' = late \ {i} /\ Set(i, Rest)
  /\ UNCHANGED <<scope, now, disk, tombs, leaving>> /\ UNCHANGED db

-----------------------------------------------------------------------------
Indexer(i) ==
  \/ Walk(i) \/ WalkOrphan(i) \/ Load(i) \/ LoadUnread(i) \/ Stat(i) \/ ReadTail(i) \/ ReadFull(i) \/ FullTx(i) \/ TailTx(i)
  \/ Scan(i) \/ Flag(i) \/ Prune(i) \/ PruneRow(i) \/ PruneMark(i) \/ VaultVerdicts(i)

World ==
  \/ DeleteKilled
  \/ \E f \in Files : Write(f) \/ Replace(f) \/ Purge(f) \/ PutBack(f)
  \/ \E s \in Sessions : DeleteFile(s) \/ Tombstone(s)

Next == World \/ \E i \in Indexers : Indexer(i) \/ Kill(i)

Spec == Init /\ [][Next]_vars

-----------------------------------------------------------------------------
Whole(f) == Records(f, disk[f], 0, disk[f].len) \subseteq Stored(Owner[f])
Superseded(r, R) == \E q \in R : q.f # r.f \/ q.g > r.g
Alive(s) == \E f \in FilesOf(s) : Served(f)

(* A transcript that the next pass would skip as unchanged is indexed to   *)
(* its last complete record, whatever was written to it while it was read  *)
(* and whichever processes indexed it at once (index.go:905-914).          *)
SkippableIsWhole ==
  \A f \in Files :
    Served(f) /\ Owner[f] \notin tombs /\ Unchanged(f, disk[f], fi[f]) /\ scope.mode = "keep"
      => Whole(f)

(* A record below the watermark is not stored again: a tail append that    *)
(* another process overtook gives way (containers.go:558-571).  A record   *)
(* past the watermark can be, when a full read ran past the stat it is     *)
(* marked with.                                                            *)
WatermarkedOnce ==
  [][\A m \in msgs' \ msgs : m[2] > 1 => 2 * m[1].p > fi[m[1].f].off]_msgs

(* The commits that replace a session by less than it was: another pass has *)
(* committed the session since this one read its transcript, or what it     *)
(* read has no complete record yet.                                         *)
Thinning(s) ==
  \E i \in Indexers : /\ pass[i].pc = "tx" /\ pass'[i] # pass[i] /\ Owner[pass[i].f] = s
                      /\ i \in late \/ pass[i].read = {}

(* Durable retention (retention.go:38-56): while transcripts are kept,     *)
(* nothing but the user's delete takes a session whose transcript is gone, *)
(* or a record of it, out of the index; only the commit of a full read that *)
(* is overtaken, or of one that came upon an empty transcript, can thin it. *)
HistoryIsKept ==
  [][\A s \in Sessions :
       scope.mode = "keep" /\ s \notin tombs /\ ~Alive(s) =>
         /\ sess[s] # "absent" => sess'[s] # "absent"
         /\ \/ Thinning(s)
            \/ \A r \in Stored(s) : r \in Stored(s)' \/ Superseded(r, Stored(s)')]_<<msgs, sess>>

(* What a rebuild from the vault brings back of a session. *)
Restored(s) == IF s \in tombs \/ vault[s].is = "absent" THEN {} ELSE vault[s].recs

Vouched(s) == \A r \in Stored(s) : r \in Restored(s) \/ Superseded(r, Restored(s))

(* The vault never falls behind the index (index.go:708-713): a rebuild     *)
(* from the vault alone would bring back what the index holds.  Only a kill *)
(* between the vault's copy of an older read and its commit can undo that.  *)
VaultKeepsUp ==
  [][\A s \in Sessions : scope.mode = "keep" /\ s \notin tombs /\ Vouched(s) /\ faults' = faults
       => Vouched(s)']_<<msgs, vault>>

Quiet == faults = 0 /\ \A i \in Indexers : pass[i].pc = "idle"

(* A row, or messages, without a watermark, which no retention pass looks   *)
(* at: an index commit fell between two statements of a prune.              *)
Stranded(s) ==
  /\ sess[s] # "absent" \/ Stored(s) # {}
  /\ \A f \in FilesOf(s) : fi[f] = NoMark

Settled ==
  /\ \A f \in Files :
       Served(f) /\ Owner[f] \notin tombs /\ (scope.mode = "keep" \/ Quiet)
         => Whole(f) /\ sess[Owner[f]] = "live"
  /\ \A s \in Sessions : ~Alive(s) /\ ~Stranded(s) =>
       /\ sess[s] # "live"
       /\ s \in tombs \/ (scope.mode # "keep" /\ \E f \in Files : Served(f)) =>
            sess[s] = "absent" /\ Stored(s) = {}

(* One pass during which nothing else happens sets everything right that   *)
(* went before, races and kills included (updateIndexWithOrigin,           *)
(* updateContainers, ReconcileOrphanDB): what is on disk is whole and live, *)
(* what is gone is flagged, and what was deleted is gone.                  *)
PassSettles ==
  [][\A i \in Indexers :
       alone = {i} /\ pass[i].pc # "idle" /\ pass'[i].pc = "idle" /\ faults' = faults
         => Settled']_pass
=============================================================================
