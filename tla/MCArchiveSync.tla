--------------------------- MODULE MCArchiveSync ---------------------------
(* Two machines: one with two sessions of the same project, of which one   *)
(* grows, and one with a session of its own.                               *)
EXTENDS ArchiveSync

CONSTANTS a, b, x, y, z

MCMachines == {a, b}
MCSessions == {x, y, z}
MCOwner == [s \in MCSessions |-> IF s = z THEN b ELSE a]
MCLongest == [s \in MCSessions |-> IF s = x THEN 2 ELSE 1]

=============================================================================
