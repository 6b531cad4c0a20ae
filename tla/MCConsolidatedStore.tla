------------------------ MODULE MCConsolidatedStore ------------------------
(* Small instances of ConsolidatedStore for TLC. *)
EXTENDS ConsolidatedStore, TLC

CONSTANTS P, C,        \* a session and a second one
          d1, d2       \* project databases

(* C is a subagent thread of P, or P and C have nothing to do with each other. *)
ThreadOfP == [s \in Sessions |-> IF s = P THEN {C} ELSE {}]
NoThreads == [s \in Sessions |-> {}]

NoTags == {}
TaggedTwice == {[org |-> 0, at |-> 1], [org |-> 0, at |-> 2]}
TaggedByOther == {[org |-> 0, at |-> 2], [org |-> 0, at |-> 3], [org |-> 1, at |-> 1]}

AnySource == Permutations(Sources)
=============================================================================
