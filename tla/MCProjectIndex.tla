--------------------------- MODULE MCProjectIndex ---------------------------
(* Instances of ProjectIndex for TLC. *)
EXTENDS ProjectIndex

CONSTANTS old, full, other, ind1, ind2, ses1, ses2

(* A session with a file that a fuller one replaces, and another session.  *)
OwnerOf == [f \in {old, full, other} |-> IF f = other THEN ses2 ELSE ses1]
FullPreferred == [f \in {old, full, other} |-> IF f = old THEN full ELSE f]

Scope(r, m, F, n, I) == [rendered |-> r, mode |-> m, files |-> F, gens |-> n, by |-> I]

SomeScopes == {Scope(FALSE, "keep", {full}, 2, {ind1, ind2}),
               Scope(TRUE, "keep", {old, full}, 1, {ind1, ind2}),
               Scope(FALSE, "mirror", {full, other}, 1, {ind1}),
               Scope(TRUE, "replica", {full, other}, 1, {ind1})}
=============================================================================
