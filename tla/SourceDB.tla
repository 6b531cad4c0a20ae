------------------------------ MODULE SourceDB ------------------------------
(***************************************************************************)
(* One per-project index database (a source of the consolidated store) as  *)
(* a value, and the transactions the indexer, the retention pass and the   *)
(* tagging path commit to it.  The module is pure: it has no variables, so *)
(* that every module whose actors write a project database uses the same   *)
(* transactions.                                                           *)
(*                                                                         *)
(* A message is [id, s, u]: its AUTOINCREMENT row id, its session, and its *)
(* position in the transcript, which stands for the uuid it carries from   *)
(* there.  Roles, text and timestamps do not decide anything here.         *)
(***************************************************************************)
EXTENDS Integers, FiniteSets

CONSTANTS Sessions,   \* session ids, top level sessions and subagent threads
          MaxUuid     \* the longest transcript

ASSUME SourceAssumption == IsFiniteSet(Sessions) /\ MaxUuid \in Nat \ {0}

Uuids == 1..MaxUuid

(* sessions.only_copy_since: no row at all, NULL, or the time of the stamp. *)
Absent == -1
Live == 0
OnlyCopy == {Absent} \cup Nat

(* What decides between two taggings: who made it and when.  NoTag, the    *)
(* absence of a row, is lower than every row.                              *)
Tag == [org: Int, at: Int]
NoTag == [org |-> -1, at |-> -1]

Message == [id: Nat \ {0}, s: Sessions, u: Uuids]

SourceDBs == [sess: [Sessions -> OnlyCopy],  \* the sessions table
              msgs: SUBSET Message,          \* the messages table
              last: Nat,                     \* sqlite_sequence of messages
              layer: BOOLEAN,                \* the topic tables exist
              topic: [Sessions -> Tag],
              verdict: [Sessions -> Tag],
              behind: BOOLEAN]               \* of an older schema, without the scope columns

EmptyDB == [sess |-> [s \in Sessions |-> Absent], msgs |-> {}, last |-> 0,
            layer |-> FALSE,
            topic |-> [s \in Sessions |-> NoTag],
            verdict |-> [s \in Sessions |-> NoTag],
            behind |-> FALSE]

Has(db, s) == db.sess[s] # Absent
MessagesOf(db, s) == {m \in db.msgs : m.s = s}

(* Mutant: MAX(x) without COALESCE. *)
TopOrNull(S) == IF S = {} THEN -1 ELSE CHOOSE x \in S : \A y \in S : y <= x

(* COALESCE(MAX(x), 0) of a set of positive integers. *)
Top(S) == IF S = {} THEN 0 ELSE CHOOSE x \in S : \A y \in S : y <= x

-----------------------------------------------------------------------------
(* The indexer's transactions. *)

(* Replace one session by its transcript's first k messages: new row ids,  *)
(* and a row that is live again.                                           *)
Reindexed(db, s, k) ==
  [db EXCEPT !.msgs = (@ \ MessagesOf(db, s))
                        \cup {[id |-> db.last + i, s |-> s, u |-> i] : i \in 1..k},
             !.last = @ + k,
             !.sess[s] = Live]

(* Append the next message of a transcript that only grew; its row is live. *)
Appended(db, s) ==
  [db EXCEPT !.msgs = @ \cup {[id |-> db.last + 1, s |-> s,
                               u |-> Cardinality(MessagesOf(db, s)) + 1]},
             !.last = @ + 1,
             !.sess[s] = Live]

(* The retention pass: flag, un-flag, or remove a session.  Removal is one *)
(* statement per table, and leaves the tagging sidecars alone.             *)
Stamped(db, s, t) == [db EXCEPT !.sess[s] = t]
Cleared(db, s) == [db EXCEPT !.sess[s] = Live]
MessagesPruned(db, s) == [db EXCEPT !.msgs = @ \ MessagesOf(db, s)]
RowPruned(db, s) == [db EXCEPT !.sess[s] = Absent]

(* A database whose schema_version is behind is emptied and brought to the *)
(* current one; the topic layer has a gate of its own and survives.        *)
SchemaRebuilt(db) ==
  [EmptyDB EXCEPT !.layer = db.layer, !.topic = db.topic, !.verdict = db.verdict]

(* The tagging path: create the topic layer, then replace the row.         *)
Tagged(db, s, tag) == [db EXCEPT !.layer = TRUE, !.topic[s] = tag]
Judged(db, s, tag) == [db EXCEPT !.layer = TRUE, !.verdict[s] = tag]

-----------------------------------------------------------------------------
(* The watermark consolidation keeps of a source: counts and maxima, never *)
(* content.  COUNT and MAX of the stamps, of the topics, of the verdicts.  *)
Rows(tags) == {s \in Sessions : tags[s] # NoTag}

(* Mutant: the rows are counted, their tagging times are left out. *)
TagCount(tags) == <<Cardinality(Rows(tags)), 0>>

TagMark(tags) == <<Cardinality(Rows(tags)), Top({tags[s].at : s \in Rows(tags)})>>

MarkOf(db) ==
  LET stamped == {s \in Sessions : db.sess[s] > Live} IN
  [n |-> Cardinality({s \in Sessions : Has(db, s)}),
   k |-> Cardinality(db.msgs),
   max |-> Top({m.id : m \in db.msgs}),
   oc |-> <<Cardinality(stamped), Top({db.sess[s] : s \in stamped})>>,
   layer |-> db.layer,
   t |-> TagMark(db.topic), v |-> TagMark(db.verdict)]

Mark == [n: Nat, k: Nat, max: Nat, oc: Nat \X Int, layer: BOOLEAN,
         t: Nat \X Int, v: Nat \X Int]

(* The meta key is missing. *)
NoMark == [n |-> 0, k |-> 0, max |-> -1, oc |-> <<0, 0>>, layer |-> FALSE,
           t |-> <<0, 0>>, v |-> <<0, 0>>]
=============================================================================
