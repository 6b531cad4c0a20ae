----------------------------- MODULE FiniteFacts -----------------------------
(* Finite sets: their images, and the greatest element of one of integers.  *)
EXTENDS Integers, FiniteSets, FiniteSetTheorems, WellFoundedInduction, TLAPS

(* The image of a finite set is finite.                                     *)
LEMMA FiniteImage ==
  ASSUME NEW S, IsFiniteSet(S), NEW f
  PROVE  IsFiniteSet({f[x] : x \in S})
<1> DEFINE g == [x \in S |-> f[x]]
           T == {f[x] : x \in S}
<1>1. g \in Surjection(S, T)
  BY DEF Surjection
<1> QED
  BY <1>1, FS_Surjection

(* Every finite, nonempty set of integers has a greatest element: of those  *)
(* that had none, one would be minimal for inclusion, and could not be.     *)
LEMMA FiniteMax ==
  ASSUME NEW S \in SUBSET Int, IsFiniteSet(S), S # {}
  PROVE  \E x \in S : \A y \in S : y <= x
<1> DEFINE HasMax(T) == \E x \in T : \A y \in T : y <= x
           Bad == {T \in FiniteSubsetsOf(Int) : T # {} /\ ~HasMax(T)}
<1>1. SUFFICES ASSUME Bad # {} PROVE FALSE
  BY DEF FiniteSubsetsOf
<1>2. PICK T \in Bad : \A U \in Bad : <<U, T>> \notin StrictSubsetOrdering(Int)
  <2> HIDE DEF Bad
  <2>1. Bad \subseteq FiniteSubsetsOf(Int)
    BY DEF Bad
  <2> QED
    BY <1>1, <2>1, FS_StrictSubsetOrderingWellFounded, WFMin
<1>3. T \in SUBSET Int /\ IsFiniteSet(T) /\ T # {} /\ ~HasMax(T)
  BY DEF FiniteSubsetsOf
<1>4. PICK z \in T : TRUE
  BY <1>3
<1> DEFINE U == T \ {z}
<1>5. U \in FiniteSubsetsOf(Int) /\ U \subseteq T /\ U # T
  BY <1>3, <1>4, FS_RemoveElement DEF FiniteSubsetsOf
<1>6. U = {} \/ HasMax(U)
  <2>1. <<U, T>> \in StrictSubsetOrdering(Int)
    BY <1>3, <1>5 DEF StrictSubsetOrdering
  <2> QED
    BY <1>2, <1>5, <2>1
<1>7. CASE U = {}
  BY <1>3, <1>4, <1>7
<1>8. CASE HasMax(U)
  <2>1. PICK x \in U : \A y \in U : y <= x
    BY <1>8
  <2> QED
    BY <1>3, <1>4, <2>1
<1> QED
  BY <1>6, <1>7, <1>8

(* So has every nonempty set of places of a sequence.                      *)
LEMMA LastPlace ==
  ASSUME NEW n \in Nat, NEW S \in SUBSET (1 .. n), S # {}
  PROVE  \E x \in S : \A y \in S : y <= x
<1> DEFINE places == 1 .. n
<1>1. IsFiniteSet(places) /\ S \in SUBSET places
  BY FS_Interval
<1>2. IsFiniteSet(S)
  <2> HIDE DEF places
  <2> QED
    BY <1>1, FS_Subset
<1>3. S \in SUBSET Int
  OBVIOUS
<1> QED
  BY <1>2, <1>3, FiniteMax

(* And a least one. *)
LEMMA FirstPlace ==
  ASSUME NEW n \in Nat, NEW S \in SUBSET (1 .. n), S # {}
  PROVE  \E x \in S : \A y \in S : x <= y
<1> DEFINE mirrored == {n + 1 - x : x \in S}
<1>1. mirrored \in SUBSET (1 .. n) /\ mirrored # {}
  <2>1. \A x \in S : n + 1 - x \in 1 .. n
    OBVIOUS
  <2>2. PICK x \in S : TRUE
    OBVIOUS
  <2> QED
    BY <2>1, <2>2
<1>2. \A x \in S : n + 1 - x \in mirrored
  OBVIOUS
<1>3. \A z \in mirrored : \E x \in S : z = n + 1 - x
  OBVIOUS
<1> HIDE DEF mirrored
<1>4. PICK z \in mirrored : \A y \in mirrored : y <= z
  BY <1>1, LastPlace
<1>5. PICK x \in S : z = n + 1 - x
  BY <1>3
<1>6. \A y \in S : n + 1 - y <= n + 1 - x
  BY <1>2, <1>4, <1>5
<1> QED
  BY <1>6
=============================================================================
