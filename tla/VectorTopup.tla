---------------------------- MODULE VectorTopup ----------------------------
(***************************************************************************)
(* The vectors of a message database: one per session and text, with the   *)
(* id of a message that holds the text.  Passes keep them up: background    *)
(* children, one at a time and a few vectors each, and the command that     *)
(* embeds everything, which takes no lock.  The messages change under them: *)
(* a fold gives a session's messages new ids, and a rebuild of the database *)
(* starts the ids over and leaves the vectors.  The embedder may refuse a   *)
(* text, and a pass may be cancelled or killed between two statements.      *)
(*                                                                          *)
(* A key is a session and the text of a message, whose hash names the       *)
(* vector: the vector itself is a function of the text and left out.        *)
(***************************************************************************)
EXTENDS Naturals, FiniteSets, FiniteSetsExt

CONSTANTS Keys,      \* a session and a text
          Children,  \* background passes
          Commands,  \* passes of --reindex-vectors
          MaxNew,    \* topup.go: DefaultTopupMaxNew
          MaxIds,    \* bound: ids between two rebuilds
          MaxBreaks  \* bound: rebuilds of the database and passes cut off

VARIABLES rows,      \* the messages: id and key
          seq,       \* the last id given out
          vectors,   \* key -> the id stored with its vector, or NoVector
          lock,      \* the child that holds the lock, or NoOne
          pass,
          breaks,
          reused     \* history: ids started over since a pass last went through

corpus == <<rows, seq>>
vars == <<corpus, vectors, lock, pass, breaks, reused>>

NoVector == 0
NoOne == "none"
Passes == Children \cup Commands
Nowhere == [k \in Keys |-> NoVector]
Idle == [pc |-> "idle", current |-> Nowhere, have |-> Nowhere, todo |-> {}, toEmbed |-> {},
         full |-> FALSE, stale |-> FALSE]

Init ==
    /\ \E n \in 0 .. MaxIds : \E key \in [1 .. n -> Keys] :
          rows = {[id |-> i, key |-> key[i]] : i \in 1 .. n} /\ seq = n
    /\ vectors = Nowhere
    /\ lock = NoOne
    /\ pass = [p \in Passes |-> Idle]
    /\ breaks = 0
    /\ reused = FALSE

At(p, pc) == pass[p].pc = pc
Step(p, x) == pass' = [pass EXCEPT ![p] = x]

----------------------------------------------------------------------------
(* The messages.                                                           *)

Insert(k) ==
    /\ seq < MaxIds /\ seq' = seq + 1
    /\ rows' = rows \cup {[id |-> seq + 1, key |-> k]}
    /\ UNCHANGED <<vectors, lock, pass, breaks, reused>>

Delete(r) ==
    /\ rows' = rows \ {r}
    /\ UNCHANGED <<seq, vectors, lock, pass, breaks, reused>>

\* The messages are dropped with their sequence; the vectors stay.
Rebuild ==
    /\ breaks < MaxBreaks /\ breaks' = breaks + 1
    /\ rows' = {} /\ seq' = 0
    /\ reused' = TRUE
    /\ pass' = [p \in Passes |-> [pass[p] EXCEPT !.stale = pass[p].pc \notin {"idle", "scan"}]]
    /\ UNCHANGED <<vectors, lock>>

----------------------------------------------------------------------------
(* VecIndex                                                                *)

\* A child that finds the lock taken goes away.
BeginChild(p) ==
    /\ p \in Children /\ At(p, "idle") /\ lock = NoOne
    /\ lock' = p
    /\ Step(p, [Idle EXCEPT !.pc = "scan"])
    /\ UNCHANGED <<corpus, vectors, breaks, reused>>

BeginCommand(p) ==
    /\ p \in Commands /\ At(p, "idle")
    /\ Step(p, [Idle EXCEPT !.pc = "scan"])
    /\ UNCHANGED <<corpus, vectors, lock, breaks, reused>>

\* Of two messages with one text the last read is kept.
Current == [k \in Keys |-> LET at == {r.id : r \in {x \in rows : x.key = k}}
                           IN  IF at = {} THEN NoVector ELSE Max(at)]

ScanMessages(p) ==
    /\ At(p, "scan")
    /\ Step(p, [pass[p] EXCEPT !.pc = "load", !.current = Current])
    /\ UNCHANGED <<corpus, vectors, lock, breaks, reused>>

\* The walk begins when nothing is left to prune, the embedding when nothing is
\* left to walk over.
Walk(x) == IF x.todo # {} THEN x
           ELSE LET todo == {k \in Keys : x.current[k] # NoVector}
                IN  [x EXCEPT !.pc = IF todo = {} THEN "embed" ELSE "walk", !.todo = todo]
Embedding(x) == IF x.todo # {} THEN x ELSE [x EXCEPT !.pc = "embed"]

LoadVectors(p) ==
    /\ At(p, "load")
    /\ LET x == pass[p]
           gone == {k \in Keys : vectors[k] # NoVector /\ x.current[k] = NoVector}
       IN  Step(p, Walk([x EXCEPT !.pc = "prune", !.todo = gone,
                                  !.have = [k \in Keys |-> IF k \in gone THEN NoVector ELSE vectors[k]],
                                  !.stale = \E q \in Passes : pass[q].stale]))
    /\ UNCHANGED <<corpus, vectors, lock, breaks, reused>>

Prune(p, k) ==
    /\ At(p, "prune") /\ k \in pass[p].todo
    /\ vectors' = [vectors EXCEPT ![k] = NoVector]
    /\ Step(p, Walk([pass[p] EXCEPT !.todo = @ \ {k}]))
    /\ UNCHANGED <<corpus, lock, breaks, reused>>

\* Mutant: a vector that is there needs nothing.
RefreshedNever(k, at) == vectors

\* An update: no vector, no effect.
VecRefreshMsgID(k, at) == IF vectors[k] = NoVector THEN vectors ELSE [vectors EXCEPT ![k] = at]

Refresh(p, k) ==
    LET x == pass[p]
    IN  /\ At(p, "walk") /\ k \in x.todo /\ x.have[k] # NoVector
        /\ vectors' = IF x.have[k] = x.current[k] THEN vectors ELSE VecRefreshMsgID(k, x.current[k])
        /\ Step(p, Embedding([x EXCEPT !.todo = @ \ {k}, !.have[k] = NoVector, !.current[k] = NoVector]))
        /\ UNCHANGED <<corpus, lock, breaks, reused>>

\* At the child's limit the walk ends, whatever it had still to refresh.
Collect(p, k) ==
    LET x == pass[p]
        full == p \in Children /\ Cardinality(x.toEmbed) + 1 >= MaxNew
    IN  /\ At(p, "walk") /\ k \in x.todo /\ x.have[k] = NoVector
        /\ Step(p, Embedding([x EXCEPT !.toEmbed = @ \cup {k}, !.full = full,
                                       !.todo = IF full THEN {} ELSE @ \ {k}]))
        /\ UNCHANGED <<corpus, vectors, lock, breaks, reused>>

\* Batches come back in any order, and a text the embedder refused is skipped.
Upsert(p, k) ==
    LET x == pass[p]
    IN  /\ At(p, "embed") /\ k \in x.toEmbed
        /\ vectors' \in {vectors, [vectors EXCEPT ![k] = x.current[k]]}
        /\ Step(p, [x EXCEPT !.toEmbed = @ \ {k}, !.current[k] = NoVector])
        /\ UNCHANGED <<corpus, lock, breaks, reused>>

Released(p) == IF lock = p THEN NoOne ELSE lock

End(p) ==
    /\ At(p, "embed") /\ pass[p].toEmbed = {}
    /\ Step(p, Idle)
    /\ lock' = Released(p)
    /\ reused' = (reused /\ (pass[p].full \/ pass[p].stale))
    /\ UNCHANGED <<corpus, vectors, breaks>>

\* Cancelled, killed, or an error of the database.
Cut(p) ==
    /\ ~At(p, "idle")
    /\ breaks < MaxBreaks /\ breaks' = breaks + 1
    /\ Step(p, Idle)
    /\ lock' = Released(p)
    /\ UNCHANGED <<corpus, vectors, reused>>

Next ==
    \/ \E k \in Keys : Insert(k)
    \/ \E r \in rows : Delete(r)
    \/ Rebuild
    \/ \E p \in Passes :
          \/ BeginChild(p) \/ BeginCommand(p) \/ ScanMessages(p) \/ LoadVectors(p)
          \/ End(p) \/ Cut(p)
          \/ \E k \in Keys : Prune(p, k) \/ Refresh(p, k) \/ Collect(p, k) \/ Upsert(p, k)

Spec == Init /\ [][Next]_vars

----------------------------------------------------------------------------
(* Properties.                                                             *)

\* A vector whose id names a message names one of its own session and text ("so
\* msg-id churn on reindex is harmless", vectors.go:5): a search only asks whether
\* the message exists (semantic.go:436), and would show another one.  Not claimed
\* from a rebuild, which starts the ids over, to the end of the next pass that was
\* not cut off, did not stop at its limit, and had no pass beside it that had read
\* the messages before the rebuild.
VectorsPointHome ==
    ~reused => \A k \in Keys : \A r \in rows : r.id = vectors[k] => r.key = k

=============================================================================
