----------------------------- MODULE MCDeletion -----------------------------
(* Two sessions, and the thin ones asked to go. *)
EXTENDS Deletion

CONSTANTS s1, s2

MCSessions == {s1, s2}
MCRequests == {[who |-> MCSessions, id |-> FALSE, most |-> 1]}
=============================================================================
