---------------------------- MODULE SearchIndex ----------------------------
(***************************************************************************)
(* The substring index of a message database: an FTS5 table that triggers  *)
(* keep in step with the messages, added to databases that already hold    *)
(* some by a backfill in batches.  Several processes may open the database *)
(* at once, each of them may be killed between any two statements, and a   *)
(* build older than the index may rebuild the database and index into it.  *)
(*                                                                         *)
(* A message is its row id and a number that stands for its content, never *)
(* used twice.  Ids are AUTOINCREMENT: they start over when the table is   *)
(* dropped.  A row of an old build is one that no trigger saw.             *)
(***************************************************************************)
EXTENDS Naturals, FiniteSets, FiniteSetsExt

CONSTANTS Openers,    \* processes that open the database for writing
          TrigramBatch, \* index.go: trigramBatch
          MaxMade,    \* bound: messages ever inserted
          MaxOld,     \* bound: rebuilds by the old build
          MaxNew,     \* bound: rebuilds by this build
          MaxCuts     \* bound: processes killed

VARIABLES messages,   \* the rows of the table: id and content
          seq,        \* the last id given out
          made,
          trigram,    \* the entries of the substring index
          table,      \* the substring index exists
          triggers,   \* and so do its triggers
          done,       \* meta: trigram_backfill_done
          backfillAt, \* meta: trigram_backfill_at, or NoPoint
          opener,
          olds, news, cuts,
          crossed     \* history: an opener acted on marks that had changed since it read them

corpus == <<messages, seq, made>>
index == <<trigram, table, triggers>>
marks == <<done, backfillAt>>
faults == <<olds, news, cuts>>
vars == <<corpus, index, marks, opener, faults, crossed>>

NoPoint == MaxMade + 1
Idle == [pc |-> "idle", at |-> 0, bound |-> 0, orphan |-> FALSE]

\* A database of the current version that predates the index, or a new one.
Init ==
    /\ \E n \in 0 .. MaxMade : messages = {[id |-> i, text |-> i] : i \in 1 .. n} /\ seq = n
    /\ made = seq
    /\ trigram = {} /\ table = FALSE /\ triggers = FALSE
    /\ done = FALSE /\ backfillAt = NoPoint
    /\ opener = [o \in Openers |-> Idle]
    /\ olds = 0 /\ news = 0 /\ cuts = 0
    /\ crossed = FALSE

At(o, pc) == opener[o].pc = pc
Go(o, pc) == opener' = [opener EXCEPT ![o].pc = pc]

----------------------------------------------------------------------------
(* The rows, and the triggers.                                             *)

\* A new row whose id the index already has fails, and nothing is inserted.
Insert ==
    /\ made < MaxMade /\ made' = made + 1
    /\ triggers => \A e \in trigram : e.id # seq + 1
    /\ LET row == [id |-> seq + 1, text |-> made + 1]
       IN  /\ messages' = messages \cup {row}
           /\ trigram' = IF triggers THEN trigram \cup {row} ELSE trigram
    /\ seq' = seq + 1
    /\ UNCHANGED <<table, triggers, marks, opener, faults, crossed>>

Delete(m) ==
    /\ messages' = messages \ {m}
    /\ trigram' = IF triggers THEN {e \in trigram : e.id # m.id} ELSE trigram
    /\ UNCHANGED <<seq, made, table, triggers, marks, opener, faults, crossed>>

\* A build that does not know the index drops the messages, and with them the
\* triggers; the index and its marks stay behind.
OldRebuild ==
    /\ olds < MaxOld /\ olds' = olds + 1
    /\ messages' = {} /\ seq' = 0
    /\ triggers' = FALSE
    /\ opener' = [o \in Openers |-> [opener[o] EXCEPT !.orphan = TRUE]]
    /\ UNCHANGED <<made, trigram, table, marks, news, cuts, crossed>>

----------------------------------------------------------------------------
(* Opening: EnsureSchema.                                                  *)

\* The schema version is missing, differs, or could not be read.
Rebuild(o) ==
    /\ At(o, "idle") /\ news < MaxNew
    /\ news' = news + 1
    /\ messages' = {} /\ seq' = 0
    /\ trigram' = {} /\ table' = TRUE /\ triggers' = TRUE
    /\ opener' = [opener EXCEPT ![o] = [Idle EXCEPT !.pc = "create"]]
    /\ UNCHANGED <<made, marks, olds, cuts, crossed>>

\* Mutant: a table without its triggers is not noticed.
OrphanedNever == FALSE

Orphaned == table /\ ~triggers

EnsureCurrent(o) ==
    /\ At(o, "idle")
    /\ opener' = [opener EXCEPT ![o] =
                     [Idle EXCEPT !.pc = IF Orphaned THEN "clear" ELSE "create"]]
    /\ UNCHANGED <<corpus, index, marks, faults, crossed>>

ClearOrphanedMarker(o) ==
    /\ At(o, "clear")
    /\ done' = FALSE /\ backfillAt' = NoPoint
    /\ opener' = [opener EXCEPT ![o].pc = "create", ![o].orphan = FALSE]
    /\ UNCHANGED <<corpus, index, faults, crossed>>

CreateTable(o) ==
    /\ At(o, "create")
    /\ table' = TRUE
    /\ Go(o, "triggers")
    /\ UNCHANGED <<corpus, trigram, triggers, marks, faults, crossed>>

CreateTriggers(o) ==
    /\ At(o, "triggers")
    /\ triggers' = TRUE
    /\ crossed' = (crossed \/ opener[o].orphan)
    /\ Go(o, "done?")
    /\ UNCHANGED <<corpus, trigram, table, marks, faults>>

ReadDone(o) ==
    /\ At(o, "done?")
    /\ opener' = [opener EXCEPT ![o] = IF done THEN Idle ELSE [@ EXCEPT !.pc = "resume"]]
    /\ UNCHANGED <<corpus, index, marks, faults, crossed>>

ReadResumePoint(o) ==
    /\ At(o, "resume")
    /\ opener' = [opener EXCEPT
          ![o] = IF backfillAt = NoPoint THEN [@ EXCEPT !.pc = "reset"]
                 ELSE [@ EXCEPT !.pc = "bound", !.at = backfillAt]]
    /\ UNCHANGED <<corpus, index, marks, faults, crossed>>

ResetTrigram(o) ==
    /\ At(o, "reset")
    /\ trigram' = {}
    /\ crossed' = (crossed \/ done \/ backfillAt # NoPoint \/ opener[o].orphan
                     \/ \E p \in Openers : opener[p].pc \in {"bound", "fill", "stamp"})
    /\ opener' = [opener EXCEPT ![o].pc = "bound", ![o].at = 0]
    /\ UNCHANGED <<corpus, table, triggers, marks, faults>>

Above(at) == {m.id : m \in {n \in messages : n.id > at}}

ReadBatchBound(o) ==
    /\ At(o, "bound")
    /\ LET batch == {i \in Above(opener[o].at) :
                        Cardinality({j \in Above(opener[o].at) : j <= i}) <= TrigramBatch}
       IN  opener' = [opener EXCEPT
              ![o] = IF batch = {} THEN [@ EXCEPT !.pc = "stamp"]
                     ELSE [@ EXCEPT !.pc = "fill", !.bound = Max(batch)]]
    /\ UNCHANGED <<corpus, index, marks, faults, crossed>>

\* Mutant: the resume point is written whatever the batch copied.
FilledNothing(from, to) == trigram

Filled(from, to) ==
    LET batch == {m \in messages : m.id > from /\ m.id <= to}
    IN  {e \in trigram : \A m \in batch : m.id # e.id} \cup batch

\* One transaction: the entries and the resume point.
FillBatch(o) ==
    /\ At(o, "fill")
    /\ trigram' = Filled(opener[o].at, opener[o].bound)
    /\ backfillAt' = opener[o].bound
    /\ opener' = [opener EXCEPT ![o].pc = "bound", ![o].at = opener[o].bound, ![o].bound = 0]
    /\ crossed' = (crossed \/ opener[o].orphan)
    /\ UNCHANGED <<corpus, table, triggers, done, faults>>

StampDone(o) ==
    /\ At(o, "stamp")
    /\ done' = TRUE
    /\ crossed' = (crossed \/ opener[o].orphan)
    /\ Go(o, "drop")
    /\ UNCHANGED <<corpus, index, backfillAt, faults>>

DropResumePoint(o) ==
    /\ At(o, "drop")
    /\ backfillAt' = NoPoint
    /\ opener' = [opener EXCEPT ![o] = Idle]
    /\ UNCHANGED <<corpus, index, done, faults, crossed>>

Kill(o) ==
    /\ ~At(o, "idle")
    /\ cuts < MaxCuts /\ cuts' = cuts + 1
    /\ opener' = [opener EXCEPT ![o] = Idle]
    /\ UNCHANGED <<corpus, index, marks, olds, news, crossed>>

Next ==
    \/ Insert \/ OldRebuild \/ \E m \in messages : Delete(m)
    \/ \E o \in Openers :
          \/ Rebuild(o) \/ EnsureCurrent(o) \/ ClearOrphanedMarker(o)
          \/ CreateTable(o) \/ CreateTriggers(o) \/ ReadDone(o) \/ ReadResumePoint(o)
          \/ ResetTrigram(o) \/ ReadBatchBound(o) \/ FillBatch(o)
          \/ StampDone(o) \/ DropResumePoint(o) \/ Kill(o)

Spec == Init /\ [][Next]_vars

----------------------------------------------------------------------------
(* Properties.                                                             *)

\* The done mark and the resume point describe what the index holds, whatever is
\* written, deleted, rebuilt and killed in between (index.go:158-168, 248): with
\* the mark it has exactly the messages, and below the resume point no message
\* is missing from it.  Not claimed: while the triggers are gone, which the next
\* opener notices; and after an opener acted on marks that had changed since it
\* read them, or two openers filled at once.
SubstringFindsAll ==
    triggers /\ ~crossed =>
        /\ done => trigram = messages
        /\ backfillAt # NoPoint => \A m \in messages : m.id <= backfillAt => m \in trigram

=============================================================================
