----------------------------- MODULE Retrieval -----------------------------
(***************************************************************************)
(* One agent search: the one store asked in widening windows, or every     *)
(* project database in turn when the store cannot answer, the candidates   *)
(* folded into one result per conversation, and the claim the answer makes *)
(* about itself: that it is complete.  Messages are indexed and folded     *)
(* into the store while it runs.                                           *)
(*                                                                         *)
(* Match lists, best first, everything the query could match; a match is   *)
(* its place in the list.  Tier 1 holds every word, tier 2 some word, and  *)
(* tier 3 only the literal text inside a word; a hidden match has it only  *)
(* in tool traffic.  Turn is the searcher's own current turn.              *)
(***************************************************************************)
EXTENDS Naturals, FiniteSets, FiniteSetsExt

CONSTANTS Match,      \* sequence of [project, session, root, uuid, tier, hidden]
          Turn,       \* the matches that belong to the current turn
          Limit,      \* results asked for
          Fetch,      \* the first window (limit * 8, and at least 30)
          Growth,     \* how much wider the next one is
          MaxWindow,  \* search.go: maxStoreWindow
          MaxFaults   \* bound: databases found busy or unreadable

VARIABLES stage,      \* how far each match has come: none, indexed, stored
          folded,     \* the projects with a fold-in watermark
          search,
          faults

vars == <<stage, folded, search, faults>>

Matches == DOMAIN Match
Projects == {Match[m].project : m \in Matches}
Of(p) == {m \in Matches : Match[m].project = p}
Stored == {m \in Matches : stage[m] = "stored"}
Indexed == {m \in Matches : stage[m] # "none"}

Idle == [pc |-> "idle", window |-> 0, rows |-> {}, owed |-> {}, todo |-> {}, partial |-> FALSE,
         ceiling |-> FALSE, cut |-> FALSE, crossed |-> FALSE, shown |-> {}, complete |-> FALSE]

Init ==
    /\ stage = [m \in Matches |-> "none"]
    /\ folded = {}
    /\ search = Idle
    /\ faults = 0

----------------------------------------------------------------------------
(* What a query returns.                                                   *)

Visible(ms) == {m \in ms : ~Match[m].hidden}

\* The matches of the first tier that has any.
Answering(ms) ==
    LET tiers == {Match[m].tier : m \in ms}
    IN  {m \in ms : Match[m].tier = Min(tiers)}

\* The best n of them.
Window(ms, n) == {m \in Answering(ms) : Cardinality({k \in Answering(ms) : k < m}) < n}

\* A window is filled before the matches that cannot be shown leave it, so
\* one that is cut off may look short.
MatchAnchors(ms, n) == Visible(Window(ms, n))
CutOff(ms, n) == Window(ms, n) # Answering(ms) /\ MatchAnchors(ms, n) # Window(ms, n)

distinctSessions(rows) == Cardinality({Match[m].session : m \in rows})

\* One result per conversation: the first match of a message, then of a root.
Firsts(rows) == {m \in rows : \A k \in rows : k < m => Match[k].uuid # Match[m].uuid}
Conversation(m) == <<Match[m].project, Match[m].root>>
Picked(rows) ==
    LET first == Firsts(rows)
    IN  {m \in first : \A k \in first : k < m => Conversation(k) # Conversation(m)}
Best(ms, n) == {m \in ms : Cardinality({k \in ms : k < m}) < n}

----------------------------------------------------------------------------
(* The search.                                                             *)

\* Mutant: the window's rows are counted where the query is known to be cut.
CeilingNever(rows, n) == FALSE
ReachesCeiling(rows, n) == Cardinality(rows) >= n

\* The one store answers when it can be read and holds something.  What the
\* answer owes: the store's matches, and those of databases never folded.
OpenStore ==
    /\ search.pc = "idle" /\ Stored # {}
    /\ search' = [Idle EXCEPT !.pc = "window", !.window = Fetch,
                              !.rows = MatchAnchors(Stored, Fetch),
                              !.cut = CutOff(Stored, Fetch),
                              !.owed = Visible(Answering(Stored))
                                           \cup {m \in Indexed : Match[m].project \notin folded}]
    /\ UNCHANGED <<stage, folded, faults>>

Enough == distinctSessions(search.rows) >= Limit \/ search.window >= MaxWindow

\* Mutant: a wider window that returns one row more is taken to be the last.
ExhaustedEarly(wider) == Cardinality(wider) <= Cardinality(search.rows) + 1
Exhausted(wider) == Cardinality(wider) <= Cardinality(search.rows)

\* Too few sessions: a window Growth times as wide, until it brings no more rows.
Widen ==
    LET n == Min({search.window * Growth, MaxWindow})
        wider == MatchAnchors(Stored, n)
    IN  /\ search.pc = "window" /\ ~Enough
        /\ search' = IF Exhausted(wider)
                     THEN [search EXCEPT !.pc = "report", !.cut = CutOff(Stored, n)]
                     ELSE [search EXCEPT !.window = n, !.rows = wider, !.cut = CutOff(Stored, n)]
        /\ UNCHANGED <<stage, folded, faults>>

StopWidening ==
    /\ search.pc = "window" /\ Enough
    /\ search' = [search EXCEPT !.pc = "report", !.ceiling = TRUE]
    /\ UNCHANGED <<stage, folded, faults>>

\* Databases without a watermark are named in the answer.
UnconsolidatedDBs == {Match[m].project : m \in Indexed} \ folded
ReportMissing ==
    /\ search.pc = "report"
    /\ search' = [search EXCEPT !.pc = "fold", !.partial = UnconsolidatedDBs # {}]
    /\ UNCHANGED <<stage, folded, faults>>

\* The store is missing, empty or unreadable: every project is asked.
FallBack ==
    /\ search.pc = "idle"
    /\ \/ Stored = {} /\ UNCHANGED faults
       \/ Stored # {} /\ faults < MaxFaults /\ faults' = faults + 1
    /\ search' = [Idle EXCEPT !.pc = "scopes", !.todo = Projects]
    /\ UNCHANGED <<stage, folded>>

\* A scope's database is asked once.  One held by another process is asked
\* for what it held before, and the answer says so.
SearchScope(p, busy) ==
    LET held == Of(p) \cap Indexed
        rows == MatchAnchors(held, Fetch)
    IN  /\ search.pc = "scopes" /\ p \in search.todo
        /\ busy => faults < MaxFaults
        /\ search' = [search EXCEPT !.todo = @ \ {p}, !.rows = @ \cup rows,
                                    !.owed = @ \cup Visible(Answering(held)),
                                    !.ceiling = @ \/ ReachesCeiling(rows, Fetch),
                                    !.partial = @ \/ busy,
                                    !.cut = @ \/ CutOff(held, Fetch)]
        /\ faults' = IF busy THEN faults + 1 ELSE faults
        /\ UNCHANGED <<stage, folded>>

\* One that cannot be indexed or opened is reported and passed over.
SkipScope(p) ==
    /\ search.pc = "scopes" /\ p \in search.todo /\ faults < MaxFaults
    /\ search' = [search EXCEPT !.todo = @ \ {p}, !.partial = TRUE,
                                !.owed = @ \cup Visible(Answering(Of(p) \cap Indexed))]
    /\ faults' = faults + 1
    /\ UNCHANGED <<stage, folded>>

ScopesDone ==
    /\ search.pc = "scopes" /\ search.todo = {}
    /\ search' = [search EXCEPT !.pc = "fold"]
    /\ UNCHANGED <<stage, folded, faults>>

\* The current turn is dropped, the rest made one result per conversation,
\* and the answer says whether more may exist.
Answer ==
    LET all == Picked(search.rows \ Turn)
        hasMore == Cardinality(all) > Limit \/ search.ceiling
    IN  /\ search.pc = "fold"
        /\ search' = [search EXCEPT !.pc = "answered", !.shown = Best(all, Limit),
                                    !.complete = ~search.partial /\ ~hasMore]
        /\ UNCHANGED <<stage, folded, faults>>

NextSearch == search.pc = "answered" /\ search' = Idle /\ UNCHANGED <<stage, folded, faults>>

----------------------------------------------------------------------------
(* What happens beside it.                                                 *)

IndexMessage(m) ==
    /\ stage[m] = "none"
    /\ stage' = [stage EXCEPT ![m] = "indexed"]
    /\ UNCHANGED <<folded, search, faults>>

\* The store takes in one project database.
Fold(p) ==
    /\ Of(p) \cap (Indexed \ Stored) # {}
    /\ stage' = [m \in Matches |-> IF m \in Of(p) \cap Indexed THEN "stored" ELSE stage[m]]
    /\ folded' = folded \cup {p}
    /\ search' = [search EXCEPT !.crossed = @ \/ search.pc \in {"window", "report"}]
    /\ UNCHANGED faults

Next ==
    \/ OpenStore \/ Widen \/ StopWidening \/ ReportMissing
    \/ FallBack \/ ScopesDone \/ Answer \/ NextSearch
    \/ \E p \in Projects, busy \in BOOLEAN : SearchScope(p, busy)
    \/ \E p \in Projects : SkipScope(p) \/ Fold(p)
    \/ \E m \in Matches : IndexMessage(m)

Spec == Init /\ [][Next]_vars

----------------------------------------------------------------------------
\* An answer that calls itself complete has left nothing out: every visible
\* match that the databases it read owed it, and every match of a database
\* never folded, is the searcher's own turn, or its conversation is shown, or
\* a match of the same message is and its conversation with it.  Two answers
\* are excused: one whose last window was cut off with hidden matches in it
\* (the rows are counted after those have left), and one that a fold crossed
\* between its windows and its list of unfolded databases.
\* internal/agentproto/search.go Search, storeAnchors, collectCandidates
CompleteMeansComplete ==
    search.complete /\ ~search.crossed /\ ~search.cut =>
        \A m \in search.owed \ Turn :
            \E r \in search.shown, k \in search.rows :
                Match[k].uuid = Match[m].uuid /\ Conversation(k) = Conversation(r)
============================================================================
