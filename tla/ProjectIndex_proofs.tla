------------------------ MODULE ProjectIndex_proofs ------------------------
(***************************************************************************)
(* What the index passes of a project keep, however many processes run     *)
(* them and whatever is written to the transcripts meanwhile: a transcript *)
(* that the next pass skips is indexed to its last complete record, no     *)
(* record that a watermark covers is stored twice, a kept session stays in *)
(* the index, and the vault never falls behind it.                         *)
(*                                                                         *)
(* The inductive invariant relates each pass to the transcript it has read *)
(* of: its stat, what it read and its watermark are of an earlier writing, *)
(* or of a part of the present one.                                        *)
(***************************************************************************)
EXTENDS ProjectIndex, FiniteFacts

Half(n) == n \div 2
MaxSize == 2 * MaxLen + 1
Fingerprints == {<<>>} \cup (Nat \X Nat \X Nat)
Marks == [at: (0..MaxGen) \X (0..MaxSize), fp: Fingerprints, off: 0..MaxSize]
Verdicts == {"none", "clear", "stamp", "prune"}

Passes ==
  [pc: {"idle", "load", "files", "read", "tx", "retain", "prune row", "prune mark"},
   orphan: BOOLEAN, walk: SUBSET Files, todo: SUBSET Files, tombs: SUBSET Sessions,
   cur: {<<>>} \cup UNION {[W -> Marks] : W \in SUBSET Files},
   f: Files \cup {Rest.f}, stat: Transcript, kind: {"none", "tail", "full"},
   read: SUBSET Record, off: 0..MaxSize, acts: SUBSET (Verdicts \X Files),
   done: SUBSET (Verdicts \X Sessions)]

PassTyped(p) ==
  /\ p \in Passes /\ IsFiniteSet(p.read)
  /\ p.pc \in {"files", "read", "tx"} => p.cur \in [p.walk -> Marks]
  /\ p.pc \in {"read", "tx", "prune row", "prune mark"} => p.f \in Files

Typed ==
  /\ TypeOK /\ IsFiniteSet(msgs) /\ fi \in [Files -> Marks]
  /\ pass \in [Indexers -> Passes] /\ \A i \in Indexers : PassTyped(pass[i])

-----------------------------------------------------------------------------
(* The invariant.  Below, t is a transcript, dk the transcripts, rows the   *)
(* messages, p a pass.                                                      *)

Upto(f, g, a, b) == {[f |-> f, g |-> g, p |-> n] : n \in (a + 1)..b}

(* A transcript of generation 0 is not yet written, and a replaced one has  *)
(* a record.                                                                *)
Written(t) == /\ t.gen = 0 => t = Unwritten
              /\ t.gen > 1 => t.len > 0

(* Where a transcript can get to: what is there stays, until it is replaced. *)
Onward(t, t2) ==
  /\ t.gen <= t2.gen
  /\ t.gen = t2.gen => t.len <= t2.len /\ Size(t) <= Size(t2)

(* What is indexed of a transcript is in it, or was in an earlier writing.  *)
Fits(r, t) == r.g < t.gen \/ (r.g = t.gen /\ r.p <= t.len)
MarkFits(mark, t) == mark.at[1] <= t.gen /\ Half(mark.off) = Half(mark.at[2])

(* What a watermark of the present writing of a file covers is indexed.     *)
CoveredIn(f, mark, t, rows) ==
  mark.at[1] = t.gen => Upto(f, t.gen, 0, Half(mark.off)) \subseteq Of(rows, Owner[f])

(* The file as a pass found it before it read it. *)
Statted(p, t) ==
  /\ p.f \in p.walk /\ p.stat.on /\ p.stat.gen \in 1..t.gen
  /\ p.stat.gen = t.gen => Size(p.stat) <= Size(t)
  /\ p.cur[p.f].at[1] <= p.stat.gen

Before(r, g, n) == r.g < g \/ (r.g = g /\ r.p <= n)

(* A full read found every record of some writing, no earlier than the      *)
(* stat; and unless it is overtaken, nothing later of the file is indexed.  *)
ReadAll(p, t, rows, overtaken) ==
  /\ p.off = Size(p.stat)
  /\ \E g \in p.stat.gen..t.gen, n \in 0..MaxLen :
       /\ p.read = Upto(p.f, g, 0, n)
       /\ g = t.gen => n <= t.len
       /\ g = p.stat.gen => p.stat.len <= n
       /\ overtaken \/ \A r \in Of(rows, Owner[p.f]) : r.f = p.f => Before(r, g, n)

(* A tail is of the writing that was stat'd, from the watermark on.         *)
ReadOn(p) ==
  /\ p.off = 2 * p.stat.len /\ p.cur[p.f].at[1] = p.stat.gen
  /\ Half(p.cur[p.f].off) < p.stat.len
  /\ p.read = Upto(p.f, p.stat.gen, Half(p.cur[p.f].off), p.stat.len)

PassFits(p, dk, rows, overtaken) ==
  /\ p.todo \subseteq p.walk
  /\ p.pc \in {"files", "read", "tx"} => \A f \in p.walk : MarkFits(p.cur[f], dk[f])
  /\ p.pc \in {"read", "tx"} => Statted(p, dk[p.f])
  /\ p.pc = "tx" => IF p.kind = "full" THEN ReadAll(p, dk[p.f], rows, overtaken)
                                       ELSE p.kind = "tail" /\ ReadOn(p)

(* A pass prunes what the tombstones name. *)
OnlyDeleted(p, gone) ==
  /\ \A a \in p.acts : a[1] = "prune" => Owner[a[2]] \in gone
  /\ \A d \in p.done : d[1] = "prune" => d[2] \in gone
  /\ p.pc \in {"prune row", "prune mark"} => Owner[p.f] \in gone

DiskSound == \A f \in Files : Written(disk[f])
RowsSound == \A m \in msgs : Fits(m[1], disk[m[1].f])
MarksSound == \A f \in Files : MarkFits(fi[f], disk[f])
Covered ==
  scope.mode = "keep" => \A f \in Files : Owner[f] \notin tombs => CoveredIn(f, fi[f], disk[f], msgs)
PassesSound == \A i \in Indexers : PassFits(pass[i], disk, msgs, i \in late)
PrunesSound == scope.mode = "keep" => \A i \in Indexers : OnlyDeleted(pass[i], tombs)

Inv == Typed /\ DiskSound /\ RowsSound /\ MarksSound /\ Covered /\ PassesSound /\ PrunesSound

-----------------------------------------------------------------------------
(* Sizes, records and rows. *)

LEMMA BoundsType ==
  /\ MaxLen \in Nat /\ MaxGen \in Nat /\ MaxTime \in Nat /\ MaxFaults \in Nat
  /\ Head \in Nat /\ Wide \in Nat /\ MaxSize \in Nat
BY IndexAssumption DEF MaxSize

LEMMA HalfType ==
  ASSUME NEW n \in Nat
  PROVE  Half(n) \in Nat /\ 2 * Half(n) <= n /\ n <= 2 * Half(n) + 1
BY DEF Half

LEMMA HalfOfLine ==
  ASSUME NEW n \in Nat
  PROVE  Half(2 * n) = n /\ Half(2 * n + 1) = n
BY DEF Half

LEMMA SizeType ==
  ASSUME NEW t \in Transcript
  PROVE  /\ Size(t) \in 0..MaxSize /\ Half(Size(t)) = t.len
         /\ t.gen \in 0..MaxGen /\ t.len \in 0..MaxLen /\ t.on \in BOOLEAN
<1>1. t.gen \in 0..MaxGen /\ t.len \in 0..MaxLen /\ t.on \in BOOLEAN /\ t.part \in 0..1
  BY DEF Transcript
<1>2. Size(t) = 2 * t.len \/ Size(t) = 2 * t.len + 1
  BY <1>1, BoundsType DEF Size
<1>3. t.len \in Nat
  BY <1>1, BoundsType
<1> QED
  BY SMTT(30), <1>1, <1>2, <1>3, BoundsType, HalfOfLine DEF MaxSize

(* A larger size has no fewer records.                                      *)
LEMMA SizeOrder ==
  ASSUME NEW t \in Transcript, NEW u \in Transcript, Size(t) <= Size(u)
  PROVE  t.len <= u.len
<1>1. t.len \in Nat /\ t.part \in 0..1 /\ u.len \in Nat /\ u.part \in 0..1
  BY BoundsType DEF Transcript
<1> QED
  BY <1>1 DEF Size

LEMMA UptoType ==
  ASSUME NEW f \in Files, NEW g \in 1..MaxGen, NEW a \in Nat, NEW b \in 0..MaxLen
  PROVE  Upto(f, g, a, b) \subseteq Record
BY BoundsType DEF Upto, Record

LEMMA UptoFinite ==
  ASSUME NEW f, NEW g, NEW a \in Nat, NEW b \in Nat
  PROVE  IsFiniteSet(Upto(f, g, a, b))
<1> DEFINE S == (a + 1)..b
           rec == [n \in S |-> [f |-> f, g |-> g, p |-> n]]
<1>1. IsFiniteSet(S)
  BY FS_Interval
<1>2. Upto(f, g, a, b) = {rec[n] : n \in S}
  BY DEF Upto
<1> HIDE DEF S, rec
<1> QED
  BY <1>1, <1>2, FiniteImage

(* The records of a row set, session by session.                            *)
LEMMA OfMember ==
  ASSUME NEW rows, NEW s, NEW r
  PROVE  r \in Of(rows, s) <=> \E m \in rows : m[1] = r /\ Owner[r.f] = s
BY DEF Of

LEMMA OfWith ==
  ASSUME NEW rows, NEW R, NEW s
  PROVE  Of(With(rows, R), s) = Of(rows, s) \cup {r \in R : Owner[r.f] = s}
<1> DEFINE copies(r) == Cardinality({m \in rows : m[1] = r})
           row == [r \in R |-> <<r, 1 + copies(r)>>]
           new == {row[r] : r \in R}
<1>1. With(rows, R) = rows \cup new
  BY DEF With
<1>2. \A r \in R : row[r][1] = r
  <2> HIDE DEF copies
  <2> QED
    OBVIOUS
<1> HIDE DEF row
<1>3. /\ \A x \in new : x[1] \in R
      /\ \A r \in R : \E x \in new : x[1] = r
  BY <1>2
<1> HIDE DEF new
<1>4. ASSUME NEW r
      PROVE  r \in Of(With(rows, R), s) <=> r \in Of(rows, s) \/ (r \in R /\ Owner[r.f] = s)
  BY <1>1, <1>3, OfMember
<1> QED
  BY <1>4

LEMMA WithType ==
  ASSUME NEW rows \in SUBSET (Record \X (Nat \ {0})), IsFiniteSet(rows),
         NEW R \in SUBSET Record, IsFiniteSet(R)
  PROVE  /\ With(rows, R) \in SUBSET (Record \X (Nat \ {0}))
         /\ IsFiniteSet(With(rows, R))
<1> DEFINE copies(r) == Cardinality({m \in rows : m[1] = r})
           row == [r \in R |-> <<r, 1 + copies(r)>>]
<1>1. \A r \in R : copies(r) \in Nat
  <2> SUFFICES ASSUME NEW r \in R PROVE copies(r) \in Nat
    OBVIOUS
  <2>1. IsFiniteSet({m \in rows : m[1] = r})
    BY FS_Subset
  <2> QED
    BY <2>1, FS_CardinalityType
<1>2. With(rows, R) = rows \cup {row[r] : r \in R}
  BY DEF With
<1>3. \A r \in R : row[r] \in Record \X (Nat \ {0})
  <2> HIDE DEF copies
  <2> QED
    BY <1>1
<1> HIDE DEF row
<1>4. IsFiniteSet({row[r] : r \in R})
  BY FiniteImage
<1> DEFINE new == {row[r] : r \in R}
<1>5. new \subseteq Record \X (Nat \ {0})
  BY <1>3
<1> HIDE DEF new
<1>6. IsFiniteSet(rows \cup new)
  <2>1. IsFiniteSet(new)
    BY <1>4 DEF new
  <2> QED
    BY <2>1, FS_Union
<1>7. With(rows, R) = rows \cup new
  BY <1>2 DEF new
<1> QED
  BY <1>5, <1>6, <1>7

(* A record that is stored again has a row already.                         *)
LEMMA WithAgain ==
  ASSUME NEW rows, NEW R, NEW m \in With(rows, R) \ rows
  PROVE  m[1] \in R /\ (m[2] > 1 => \E x \in rows : x[1] = m[1])
<1> DEFINE same(r) == {x \in rows : x[1] = r}
<1>1. PICK r \in R : m = <<r, 1 + Cardinality(same(r))>>
  BY DEF With
<1>2. m[1] = r /\ m[2] = 1 + Cardinality(same(r))
  <2> HIDE DEF same
  <2> QED
    BY <1>1
<1>3. same(r) = {} => m[2] = 1
  <2> HIDE DEF same
  <2> QED
    BY <1>2, FS_EmptySet
<1>4. same(r) # {} => \E x \in rows : x[1] = m[1]
  BY <1>2
<1>5. m[2] > 1 => same(r) # {}
  <2> HIDE DEF same
  <2> QED
    BY <1>3
<1> QED
  BY <1>2, <1>4, <1>5

-----------------------------------------------------------------------------
(* Transcripts that move on, and rows that go. *)

LEMMA MarkFitsOnward ==
  ASSUME NEW mark \in Marks, NEW t \in Transcript, NEW u \in Transcript,
         Onward(t, u), MarkFits(mark, t)
  PROVE  MarkFits(mark, u)
<1>1. mark.at[1] \in 0..MaxGen
  BY DEF Marks
<1> QED
  BY <1>1, SizeType, BoundsType DEF Onward, MarkFits

LEMMA PassFitsOnward ==
  ASSUME NEW p, PassTyped(p), NEW dk \in [Files -> Transcript], NEW dk2 \in [Files -> Transcript],
         \A f \in Files : Onward(dk[f], dk2[f]), NEW rows, NEW o, PassFits(p, dk, rows, o)
  PROVE  PassFits(p, dk2, rows, o)
<1>1. p \in Passes /\ p.walk \subseteq Files
  BY DEF PassTyped, Passes
<1>2. p.todo \subseteq p.walk
  BY DEF PassFits
<1>3. ASSUME p.pc \in {"files", "read", "tx"}, NEW f \in p.walk PROVE MarkFits(p.cur[f], dk2[f])
  <2>1. p.cur[f] \in Marks /\ f \in Files /\ MarkFits(p.cur[f], dk[f])
    BY <1>1, <1>3 DEF PassTyped, PassFits
  <2> QED
    BY <2>1, MarkFitsOnward
<1>4. ASSUME p.pc \in {"read", "tx"} PROVE Statted(p, dk2[p.f])
  <2>1. p.f \in Files /\ Statted(p, dk[p.f]) /\ p.stat \in Transcript
    BY <1>1, <1>4 DEF PassTyped, PassFits, Passes
  <2> DEFINE t == dk[p.f]
             u == dk2[p.f]
  <2>2. t \in Transcript /\ u \in Transcript /\ Onward(t, u) /\ Statted(p, t)
    BY <2>1
  <2> HIDE DEF t, u
  <2>3. t.gen \in Int /\ u.gen \in Int /\ p.stat.gen \in Int /\ Size(t) \in Int
        /\ Size(u) \in Int /\ Size(p.stat) \in Int
    BY <2>1, <2>2, SizeType, BoundsType
  <2>4. p.cur[p.f].at[1] <= p.stat.gen /\ p.stat.gen \in 1..u.gen
    BY <2>2, <2>3 DEF Statted, Onward
  <2>5. p.stat.gen = u.gen => Size(p.stat) <= Size(u)
    <3>1. ASSUME p.stat.gen = u.gen PROVE t.gen = u.gen
      BY <2>2, <2>3, <3>1 DEF Statted, Onward
    <3> QED
      BY <2>2, <2>3, <3>1 DEF Statted, Onward
  <2>6. Statted(p, u)
    BY <2>2, <2>4, <2>5 DEF Statted
  <2> QED
    BY <2>6 DEF u
<1>5. ASSUME p.pc = "tx", p.kind = "full" PROVE ReadAll(p, dk2[p.f], rows, o)
  <2>1. p.f \in Files /\ ReadAll(p, dk[p.f], rows, o) /\ p.stat \in Transcript
    BY <1>1, <1>5 DEF PassTyped, PassFits, Passes
  <2> DEFINE t == dk[p.f]
             u == dk2[p.f]
  <2>2. t \in Transcript /\ u \in Transcript /\ Onward(t, u) /\ ReadAll(p, t, rows, o)
    BY <2>1
  <2> HIDE DEF t, u
  <2>3. PICK g \in p.stat.gen..t.gen, n \in 0..MaxLen :
              /\ p.read = Upto(p.f, g, 0, n)
              /\ g = t.gen => n <= t.len
              /\ g = p.stat.gen => p.stat.len <= n
              /\ o \/ \A r \in Of(rows, Owner[p.f]) : r.f = p.f => Before(r, g, n)
    BY <2>2 DEF ReadAll
  <2>4. g \in p.stat.gen..u.gen /\ (g = u.gen => n <= u.len)
    <3>1. t.gen \in Int /\ u.gen \in Int /\ p.stat.gen \in Int /\ t.len \in Int /\ u.len \in Int
      BY <2>1, <2>2, SizeType, BoundsType
    <3>2. n \in Int /\ g \in p.stat.gen..t.gen /\ (g = t.gen => n <= t.len)
      BY <2>3, BoundsType
    <3> QED
      BY <2>2, <3>1, <3>2 DEF Onward
  <2>5. ReadAll(p, u, rows, o)
    BY <2>1, <2>3, <2>4 DEF ReadAll
  <2> QED
    BY <2>5 DEF u
<1> QED
  BY <1>2, <1>3, <1>4, <1>5 DEF PassFits

LEMMA PassFitsFewer ==
  ASSUME NEW p, NEW dk, NEW rows, NEW rows2, NEW o, NEW o2, PassFits(p, dk, rows, o),
         p.pc = "tx" => o2 \/ (~o /\ Of(rows2, Owner[p.f]) \subseteq Of(rows, Owner[p.f]))
  PROVE  PassFits(p, dk, rows2, o2)
<1>1. ASSUME p.pc = "tx", ReadAll(p, dk[p.f], rows, o) PROVE ReadAll(p, dk[p.f], rows2, o2)
  <2>1. PICK g \in p.stat.gen..dk[p.f].gen, n \in 0..MaxLen :
              /\ p.read = Upto(p.f, g, 0, n)
              /\ g = dk[p.f].gen => n <= dk[p.f].len
              /\ g = p.stat.gen => p.stat.len <= n
              /\ o \/ \A r \in Of(rows, Owner[p.f]) : r.f = p.f => Before(r, g, n)
    BY <1>1 DEF ReadAll
  <2>2. o2 \/ \A r \in Of(rows2, Owner[p.f]) : r.f = p.f => Before(r, g, n)
    BY <1>1, <2>1
  <2>3. p.off = Size(p.stat)
    BY <1>1 DEF ReadAll
  <2> QED
    BY <2>1, <2>2, <2>3 DEF ReadAll
<1> QED
  BY <1>1 DEF PassFits

(* What a pass read is of its file, and in it or in an earlier writing.     *)
LEMMA ReadFits ==
  ASSUME NEW p, PassTyped(p), NEW dk \in [Files -> Transcript], NEW rows, NEW o,
         PassFits(p, dk, rows, o), p.pc = "tx", NEW r \in p.read
  PROVE  r.f = p.f /\ Fits(r, dk[p.f]) /\ r \in Record
<1>1. /\ p.f \in Files /\ p.stat \in Transcript /\ r \in Record /\ dk[p.f] \in Transcript
      /\ p.f \in p.walk /\ p.cur \in [p.walk -> Marks]
  BY DEF PassTyped, Passes, PassFits, Statted
<1> DEFINE t == dk[p.f]
<1>2. t \in Transcript /\ Statted(p, t)
  BY <1>1 DEF PassFits
<1>3. CASE p.kind = "full"
  <2>1. PICK g \in p.stat.gen..t.gen, n \in 0..MaxLen :
              p.read = Upto(p.f, g, 0, n) /\ (g = t.gen => n <= t.len)
    BY <1>3 DEF PassFits, ReadAll
  <2>2. PICK k \in 1..n : r = [f |-> p.f, g |-> g, p |-> k]
    BY <2>1 DEF Upto
  <2> HIDE DEF t
  <2>3. r.f = p.f /\ Fits(r, t)
    BY <1>1, <1>2, <2>1, <2>2, SizeType, BoundsType DEF Fits
  <2> QED
    BY <1>1, <2>3 DEF t
<1>4. CASE p.kind # "full"
  <2> DEFINE a == Half(p.cur[p.f].off)
  <2>1. p.read = Upto(p.f, p.stat.gen, a, p.stat.len)
    BY <1>4 DEF PassFits, ReadOn
  <2>2. a \in Nat
    <3>1. p.cur[p.f].off \in Nat
      BY <1>1, BoundsType DEF Marks
    <3> QED
      BY <3>1, HalfType
  <2> HIDE DEF a, t
  <2>3. PICK k \in (a + 1)..p.stat.len : r = [f |-> p.f, g |-> p.stat.gen, p |-> k]
    BY <2>1 DEF Upto
  <2>4. p.stat.gen = t.gen => p.stat.len <= t.len
    BY <1>1, <1>2, SizeOrder DEF Statted
  <2>5. r.f = p.f /\ Fits(r, t)
    BY <1>1, <1>2, <2>2, <2>3, <2>4, SizeType, BoundsType DEF Fits, Statted
  <2> QED
    BY <1>1, <2>5 DEF t
<1> QED
  BY <1>3, <1>4

LEMMA RestFits ==
  /\ PassTyped(Rest) /\ Rest.tombs = {} /\ Rest.pc = "idle"
  /\ \A dk, rows, o : PassFits(Rest, dk, rows, o)
  /\ \A gone : OnlyDeleted(Rest, gone)
<1>1. Unwritten \in Transcript
  BY BoundsType DEF Unwritten, Transcript
<1>2. PassTyped(Rest)
  <2>1. Rest \in Passes
    BY <1>1, BoundsType DEF Rest, Passes, MaxSize
  <2> QED
    BY <2>1, FS_EmptySet DEF PassTyped, Rest
<1>3. Rest.todo = {} /\ Rest.acts = {} /\ Rest.done = {} /\ Rest.pc = "idle" /\ Rest.tombs = {}
  BY DEF Rest
<1> QED
  BY <1>2, <1>3 DEF PassFits, OnlyDeleted

-----------------------------------------------------------------------------
(* Steps outside the passes. *)

LEMMA InitInv == Init => Inv
<1> SUFFICES ASSUME Init PROVE Inv
  OBVIOUS
<1>1. Unwritten \in Transcript /\ Written(Unwritten) /\ Unwritten.gen = 0
  BY BoundsType DEF Unwritten, Transcript, Written
<1>2. NoMark \in Marks /\ NoMark.at[1] = 0 /\ Half(NoMark.off) = 0 /\ Half(NoMark.at[2]) = 0
      /\ NoMark.off = 0
  BY BoundsType DEF NoMark, Marks, Fingerprints, MaxSize, Half
<1>3. TypeOK
  <2>1. disk \in [Files -> Transcript] /\ sess \in [Sessions -> Verdict]
    BY <1>1 DEF Init, Verdict
  <2>2. vault \in [Sessions -> [recs: SUBSET Record, is: Verdict]]
    BY DEF Init, NoCopy, Verdict
  <2>3. \A f \in Files : fi[f].off \in 0..(2 * MaxLen + 1)
    BY <1>2, BoundsType DEF Init, MaxSize
  <2>4. \A i \in Indexers : pass[i].tombs \subseteq tombs /\ pass[i].read \subseteq Record
    BY DEF Init, Rest
  <2> QED
    BY <2>1, <2>2, <2>3, <2>4, BoundsType DEF Init, TypeOK
<1>4. pass \in [Indexers -> Passes]
  BY RestFits DEF Init, PassTyped
<1>5. Typed
  BY <1>2, <1>3, <1>4, RestFits, FS_EmptySet DEF Init, Typed
<1>6. DiskSound /\ RowsSound
  BY <1>1 DEF Init, DiskSound, RowsSound
<1>7. MarksSound
  BY <1>1, <1>2 DEF Init, MarksSound, MarkFits
<1>8. Upto(NoMark, 0, 0, 0) = {} /\ \A f, g : Upto(f, g, 0, 0) = {}
  BY DEF Upto
<1>9. Covered
  BY <1>2, <1>8 DEF Init, Covered, CoveredIn
<1>10. PassesSound /\ PrunesSound
  BY RestFits DEF Init, PassesSound, PrunesSound
<1> QED
  BY <1>5, <1>6, <1>7, <1>9, <1>10 DEF Inv

(* The transcripts move on; nothing else of the invariant changes, but that *)
(* a session can be tombstoned.                                             *)
LEMMA WorldFacts ==
  ASSUME Inv, World
  PROVE  /\ disk' \in [Files -> Transcript] /\ DiskSound'
         /\ \A f \in Files : Onward(disk[f], disk'[f])
         /\ tombs \subseteq tombs' /\ tombs' \subseteq Sessions /\ leaving' \subseteq Sessions
         /\ now' \in 0..MaxTime /\ faults' \in 0..MaxFaults
         /\ UNCHANGED <<scope, msgs, sess, fi, vault, pass, late>>
<1>1. /\ disk \in [Files -> Transcript] /\ \A f \in Files : Written(disk[f])
      /\ tombs \subseteq Sessions /\ leaving \subseteq Sessions
      /\ now \in 0..MaxTime /\ faults \in 0..MaxFaults /\ scope \in Scopes
  BY DEF Inv, Typed, TypeOK, DiskSound
<1>2. \A f \in Files : Onward(disk[f], disk[f])
  BY <1>1, SizeType, BoundsType DEF Onward
<1>3. ASSUME Outside
      PROVE  /\ now' \in 0..MaxTime /\ faults' = faults
             /\ UNCHANGED <<scope, msgs, sess, fi, vault, pass, late>>
  BY <1>1, <1>3, BoundsType DEF Outside, db
<1>4. ASSUME NEW f \in Files, NEW t \in Transcript, disk' = [disk EXCEPT ![f] = t],
             Written(t), Onward(disk[f], t)
      PROVE  /\ disk' \in [Files -> Transcript] /\ DiskSound'
             /\ \A g \in Files : Onward(disk[g], disk'[g])
  <2>1. disk' \in [Files -> Transcript]
    BY <1>1, <1>4
  <2>2. \A g \in Files : disk'[g] = IF g = f THEN t ELSE disk[g]
    BY <1>1, <1>4
  <2> QED
    BY <1>1, <1>2, <1>4, <2>1, <2>2 DEF DiskSound
<1>5. ASSUME NEW f \in Files, NEW b \in BOOLEAN, disk[f].gen # 0, disk' = [disk EXCEPT ![f].on = b]
      PROVE  /\ disk' \in [Files -> Transcript] /\ DiskSound'
             /\ \A g \in Files : Onward(disk[g], disk'[g])
  <2> DEFINE t == [disk[f] EXCEPT !.on = b]
  <2>1. disk[f] \in Transcript /\ t \in Transcript
    BY <1>1 DEF Transcript
  <2>2. t.gen = disk[f].gen /\ t.len = disk[f].len /\ t.part = disk[f].part
    BY <2>1 DEF Transcript
  <2>3. disk' = [disk EXCEPT ![f] = t]
    BY <1>5
  <2> HIDE DEF t
  <2>4. Written(t) /\ Onward(disk[f], t)
    BY <1>1, <1>2, <1>5, <2>2 DEF Written, Onward, Size
  <2> QED
    BY <1>4, <2>1, <2>3, <2>4
<1>6. ASSUME NEW f \in Files, disk[f].on PROVE disk[f].gen # 0
  BY <1>1, <1>6 DEF Written, Unwritten
<1>7. ASSUME NEW f \in Files, Write(f)
      PROVE  /\ disk' \in [Files -> Transcript] /\ DiskSound'
             /\ \A g \in Files : Onward(disk[g], disk'[g])
  <2> DEFINE t == IF disk[f].on THEN disk[f] ELSE [Unwritten EXCEPT !.on = TRUE, !.gen = 1]
  <2>1. /\ disk[f].len < MaxLen /\ (disk[f].on \/ disk[f] = Unwritten)
        /\ disk[f].on \/ f \in scope.files
    BY <1>7 DEF Write
  <2>2. PICK t2 \in {[t EXCEPT !.len = @ + 1, !.part = 0], [t EXCEPT !.part = 1]} \ {disk[f]} :
          disk' = [disk EXCEPT ![f] = t2]
    BY <1>7 DEF Write
  <2>3. MaxGen >= 1
    <3>1. scope.gens \in 1..MaxGen
      BY <1>1, IndexAssumption
    <3> QED
      BY <3>1, BoundsType
  <2>9. /\ disk[f].on => t = disk[f]
        /\ ~disk[f].on => t = [on |-> TRUE, gen |-> 1, len |-> 0, part |-> 0]
    BY DEF Unwritten
  <2> HIDE DEF t
  <2>4. t \in Transcript /\ t.gen >= 1 /\ t.gen >= disk[f].gen /\ t.len < MaxLen
        /\ (t.gen > 1 => t.len > 0) /\ (t.gen = disk[f].gen => t = disk[f])
    <3>1. CASE disk[f].on
      <4>1. disk[f].gen # 0 /\ disk[f] \in Transcript /\ t = disk[f]
        BY <1>1, <1>6, <2>9, <3>1
      <4>2. disk[f].gen \in Nat /\ (disk[f].gen > 1 => disk[f].len > 0)
        BY <1>1, <4>1, SizeType, BoundsType DEF Written
      <4> QED
        BY <2>1, <4>1, <4>2
    <3>2. CASE ~disk[f].on
      <4>1. disk[f] = Unwritten /\ t = [on |-> TRUE, gen |-> 1, len |-> 0, part |-> 0]
        BY <2>1, <2>9, <3>2
      <4>2. disk[f].gen = 0 /\ disk[f].len = 0
        BY <4>1 DEF Unwritten
      <4>3. t.gen = 1 /\ t.len = 0
        BY <4>1
      <4>4. t \in Transcript
        BY <2>3, <4>1, BoundsType DEF Transcript
      <4> QED
        BY <2>1, <4>2, <4>3, <4>4
    <3> QED
      BY <3>1, <3>2
  <2>5. /\ t2 \in Transcript /\ t2.gen = t.gen /\ t2.len >= t.len
        /\ t2 = t \/ Size(t2) >= Size(t)
    <3>1. t.len \in 0..MaxLen /\ t.part \in 0..1 /\ t.gen \in 0..MaxGen /\ t.on \in BOOLEAN
      BY <2>4 DEF Transcript
    <3>2. t = [on |-> t.on, gen |-> t.gen, len |-> t.len, part |-> t.part]
      BY <2>4 DEF Transcript
    <3>3. CASE t2 = [t EXCEPT !.len = @ + 1, !.part = 0]
      <4>1. t2 = [on |-> t.on, gen |-> t.gen, len |-> t.len + 1, part |-> 0]
        BY <3>2, <3>3
      <4> QED
        BY <2>4, <3>1, <4>1, BoundsType DEF Transcript, Size
    <3>4. CASE t2 = [t EXCEPT !.part = 1]
      <4>1. t2 = [on |-> t.on, gen |-> t.gen, len |-> t.len, part |-> 1]
        BY <3>2, <3>4
      <4> QED
        BY <2>4, <3>1, <4>1, BoundsType DEF Transcript, Size
    <3> QED
      BY <2>2, <3>3, <3>4
  <2>6. Written(t2)
    BY <2>4, <2>5, SizeType, BoundsType DEF Written
  <2>7. Onward(disk[f], t2)
    <3>1. disk[f] \in Transcript /\ t \in Transcript /\ t2 \in Transcript
      BY <1>1, <2>4, <2>5
    <3>2. /\ disk[f].gen \in Int /\ t.gen \in Int /\ disk[f].len \in Int /\ t2.len \in Int
          /\ Size(disk[f]) \in Int /\ Size(t2) \in Int
      BY <3>1, SizeType, BoundsType
    <3> QED
      BY <2>4, <2>5, <3>2 DEF Onward
  <2> QED
    BY <1>4, <2>2, <2>5, <2>6, <2>7
<1>8. ASSUME NEW f \in Files, Replace(f)
      PROVE  /\ disk' \in [Files -> Transcript] /\ DiskSound'
             /\ \A g \in Files : Onward(disk[g], disk'[g])
  <2>1. PICK n \in 1..MaxLen : disk' = [disk EXCEPT ![f] =
                            [on |-> TRUE, gen |-> @.gen + 1, len |-> n, part |-> 0]]
    BY <1>8 DEF Replace
  <2> DEFINE t == [on |-> TRUE, gen |-> disk[f].gen + 1, len |-> n, part |-> 0]
  <2>2. disk' = [disk EXCEPT ![f] = t]
    BY <1>1, <2>1
  <2>3. disk[f].gen \in Nat /\ disk[f].gen + 1 \in 1..MaxGen
    <3>1. scope.gens \in 1..MaxGen /\ disk[f].gen \in 1..(scope.gens - 1)
      BY <1>1, <1>8, IndexAssumption DEF Replace
    <3> QED
      BY <3>1, BoundsType
  <2>4. t \in Transcript /\ Written(t) /\ Onward(disk[f], t)
    BY <2>3, BoundsType DEF Transcript, Written, Onward
  <2> HIDE DEF t
  <2> QED
    BY <1>4, <2>2, <2>4
<1>9. ASSUME NEW f \in Files, Purge(f) \/ PutBack(f)
      PROVE  /\ disk' \in [Files -> Transcript] /\ DiskSound'
             /\ \A g \in Files : Onward(disk[g], disk'[g])
  <2>1. disk[f].gen # 0
    BY <1>1, <1>6, <1>9 DEF Purge, PutBack, Written
  <2> QED
    BY <1>5, <1>9, <2>1 DEF Purge, PutBack
<1>10. ASSUME NEW s \in Sessions, DeleteFile(s)
      PROVE  /\ disk' \in [Files -> Transcript] /\ DiskSound'
             /\ \A g \in Files : Onward(disk[g], disk'[g])
  <2>1. PICK f \in Files : disk[f].on /\ disk' = [disk EXCEPT ![f].on = FALSE]
    BY <1>10 DEF DeleteFile, FilesOf
  <2> QED
    BY <1>5, <1>6, <2>1
<1>11. CASE DeleteKilled \/ \E s \in Sessions : Tombstone(s)
  <2>1. /\ UNCHANGED <<disk, scope, now, msgs, sess, fi, vault, pass, late>>
        /\ faults' = faults \/ (faults < MaxFaults /\ faults' = faults + 1)
        /\ tombs \subseteq tombs' /\ tombs' \subseteq Sessions /\ leaving' \subseteq Sessions
    BY <1>1, <1>11 DEF DeleteKilled, Tombstone, db
  <2>2. DiskSound' /\ disk' \in [Files -> Transcript] /\ \A g \in Files : Onward(disk[g], disk'[g])
    BY <1>1, <1>2, <2>1 DEF DiskSound
  <2>3. faults' \in 0..MaxFaults /\ now' \in 0..MaxTime
    BY <1>1, <2>1, BoundsType
  <2> QED
    BY <2>1, <2>2, <2>3
<1>12. ASSUME NEW f \in Files, Write(f) \/ Replace(f) \/ Purge(f) \/ PutBack(f)
      PROVE  Outside /\ tombs' = tombs /\ leaving' = leaving
  BY <1>12 DEF Write, Replace, Purge, PutBack
<1>13. CASE \E f \in Files : Write(f) \/ Replace(f) \/ Purge(f) \/ PutBack(f)
  BY <1>1, <1>3, <1>7, <1>8, <1>9, <1>12, <1>13
<1>14. ASSUME NEW s \in Sessions, DeleteFile(s)
      PROVE  Outside /\ tombs' = tombs /\ leaving' = {s}
  BY <1>14 DEF DeleteFile
<1>15. CASE \E s \in Sessions : DeleteFile(s)
  BY <1>1, <1>3, <1>10, <1>14, <1>15
<1> QED
  BY <1>11, <1>13, <1>15 DEF World

LEMMA OutsideStep == Inv /\ World => Inv'
<1> SUFFICES ASSUME Inv, World PROVE Inv'
  OBVIOUS
<1>1. /\ disk' \in [Files -> Transcript] /\ DiskSound'
      /\ \A f \in Files : Onward(disk[f], disk'[f])
      /\ tombs \subseteq tombs' /\ tombs' \subseteq Sessions /\ leaving' \subseteq Sessions
      /\ now' \in 0..MaxTime /\ faults' \in 0..MaxFaults
      /\ scope' = scope /\ msgs' = msgs /\ sess' = sess /\ fi' = fi /\ vault' = vault
      /\ pass' = pass /\ late' = late
  BY WorldFacts
<1>2. /\ disk \in [Files -> Transcript] /\ fi \in [Files -> Marks]
      /\ msgs \subseteq Record \X (Nat \ {0})
      /\ \A i \in Indexers : PassTyped(pass[i])
  BY DEF Inv, Typed, TypeOK
<1>3. TypeOK'
  BY <1>1 DEF Inv, Typed, TypeOK
<1>4. Typed'
  BY <1>1, <1>3 DEF Inv, Typed
<1>5. RowsSound'
  <2> SUFFICES ASSUME NEW m \in msgs PROVE Fits(m[1], disk'[m[1].f])
    BY <1>1 DEF RowsSound
  <2>1. m[1].f \in Files /\ m[1].g \in Int /\ m[1].p \in Int /\ Fits(m[1], disk[m[1].f])
    <3>1. m[1] \in Record
      BY <1>2
    <3> QED
      BY <3>1 DEF Record, Inv, RowsSound
  <2> DEFINE t == disk[m[1].f]
             u == disk'[m[1].f]
             r == m[1]
  <2>2. t \in Transcript /\ u \in Transcript /\ Onward(t, u) /\ Fits(r, t)
    BY <1>1, <1>2, <2>1
  <2>3. r.g \in Int /\ r.p \in Int
    BY <2>1
  <2> HIDE DEF t, u, r
  <2>4. t.gen \in Int /\ t.len \in Int /\ u.gen \in Int /\ u.len \in Int
    BY <2>2, SizeType, BoundsType
  <2>5. Fits(r, u)
    BY <2>2, <2>3, <2>4 DEF Fits, Onward
  <2> QED
    BY <2>5 DEF r, u
<1>6. MarksSound'
  BY <1>1, <1>2, MarkFitsOnward DEF Inv, MarksSound
<1>7. Covered'
  <2> SUFFICES ASSUME scope.mode = "keep", NEW f \in Files, Owner[f] \notin tombs,
                      fi[f].at[1] = disk'[f].gen
               PROVE  Upto(f, disk'[f].gen, 0, Half(fi[f].off)) \subseteq Of(msgs, Owner[f])
    BY <1>1 DEF Covered, CoveredIn
  <2>1. disk'[f].gen = disk[f].gen
    <3>1. /\ disk[f].gen \in Int /\ disk'[f].gen \in Int /\ Onward(disk[f], disk'[f])
          /\ fi[f].at[1] <= disk[f].gen
      BY <1>1, <1>2, SizeType, BoundsType DEF Inv, MarksSound, MarkFits
    <3> QED
      BY <3>1 DEF Onward
  <2> QED
    BY <2>1 DEF Inv, Covered, CoveredIn
<1>8. PassesSound'
  <2> SUFFICES ASSUME NEW i \in Indexers PROVE PassFits(pass[i], disk', msgs, i \in late)
    BY <1>1 DEF PassesSound
  <2>1. PassFits(pass[i], disk, msgs, i \in late)
    BY DEF Inv, PassesSound
  <2> QED
    BY <1>1, <1>2, <2>1, PassFitsOnward
<1>9. PrunesSound'
  BY <1>1 DEF Inv, PrunesSound, OnlyDeleted
<1> QED
  BY <1>1, <1>4, <1>5, <1>6, <1>7, <1>8, <1>9 DEF Inv

-----------------------------------------------------------------------------
(* Steps of a pass. *)

(* Process i goes on with pass p, and the others with theirs.               *)
Moves(i, p) ==
  /\ PassTyped(p) /\ p.tombs \subseteq tombs /\ pass' = [pass EXCEPT ![i] = p]
  /\ UNCHANGED <<scope, now, disk, tombs, leaving>>
  /\ faults' \in 0..MaxFaults /\ late' \subseteq Indexers
  /\ PassFits(p, disk, msgs', i \in late')
  /\ scope.mode = "keep" => OnlyDeleted(p, tombs)
  /\ \A k \in Indexers \ {i} : pass[k].pc = "tx" =>
       \/ k \in late'
       \/ k \notin late /\ Of(msgs', Owner[pass[k].f]) \subseteq Of(msgs, Owner[pass[k].f])

LEMMA MovesKeeps ==
  ASSUME Inv, NEW i \in Indexers, NEW p, Moves(i, p),
         msgs' \in SUBSET (Record \X (Nat \ {0})), IsFiniteSet(msgs'),
         sess' \in [Sessions -> Verdict], fi' \in [Files -> Marks],
         vault' \in [Sessions -> [recs: SUBSET Record, is: Verdict]],
         RowsSound', MarksSound', Covered'
  PROVE  Inv'
<1>1. /\ PassTyped(p) /\ p.tombs \subseteq tombs /\ pass' = [pass EXCEPT ![i] = p]
      /\ scope' = scope /\ now' = now /\ disk' = disk /\ tombs' = tombs /\ leaving' = leaving
      /\ faults' \in 0..MaxFaults /\ late' \subseteq Indexers
  BY DEF Moves
<1>2. pass \in [Indexers -> Passes] /\ \A k \in Indexers : PassTyped(pass[k])
  BY DEF Inv, Typed
<1>3. \A k \in Indexers : pass'[k] = IF k = i THEN p ELSE pass[k]
  BY <1>1, <1>2
<1>4. pass' \in [Indexers -> Passes] /\ \A k \in Indexers : PassTyped(pass'[k])
  BY <1>1, <1>2, <1>3 DEF PassTyped
<1>5. TypeOK'
  <2>1. \A k \in Indexers : pass'[k].tombs \subseteq tombs' /\ pass'[k].read \subseteq Record
    <3>1. \A k \in Indexers : pass'[k].read \subseteq Record
      BY <1>4 DEF Passes
    <3> QED
      BY <1>1, <1>3, <3>1 DEF Inv, Typed, TypeOK
  <2>2. \A f \in Files : fi'[f].off \in 0..(2 * MaxLen + 1)
    BY DEF Marks, MaxSize
  <2> QED
    BY <1>1, <2>1, <2>2 DEF Inv, Typed, TypeOK
<1>6. Typed'
  BY <1>4, <1>5 DEF Typed
<1>7. DiskSound'
  BY <1>1 DEF Inv, DiskSound
<1>8. PassesSound'
  <2> SUFFICES ASSUME NEW k \in Indexers PROVE PassFits(pass'[k], disk, msgs', k \in late')
    BY <1>1 DEF PassesSound
  <2>1. CASE k = i
    BY <1>3, <2>1 DEF Moves
  <2>2. CASE k # i
    <3> DEFINE q == pass[k]
               o == (k \in late)
               o2 == (k \in late')
               rows == msgs
               rows2 == msgs'
    <3>1. PassFits(q, disk, rows, o)
      BY DEF Inv, PassesSound
    <3>2. q.pc = "tx" => o2 \/ (~o /\ Of(rows2, Owner[q.f]) \subseteq Of(rows, Owner[q.f]))
      BY <2>2 DEF Moves
    <3>3. pass'[k] = q
      BY <1>3, <2>2
    <3> HIDE DEF q, o, o2, rows, rows2
    <3>4. PassFits(q, disk, rows2, o2)
      BY <3>1, <3>2, PassFitsFewer
    <3> QED
      BY <3>3, <3>4 DEF q, o2, rows2
  <2> QED
    BY <2>1, <2>2
<1>9. PrunesSound'
  BY <1>1, <1>3 DEF Moves, Inv, PrunesSound
<1> QED
  BY <1>6, <1>7, <1>8, <1>9 DEF Inv

(* The index stays as it is. *)
LEMMA QuietKeeps ==
  ASSUME Inv, NEW i \in Indexers, NEW p, Moves(i, p), UNCHANGED <<msgs, fi>>,
         sess' \in [Sessions -> Verdict],
         vault' \in [Sessions -> [recs: SUBSET Record, is: Verdict]]
  PROVE  Inv'
<1>1. msgs' = msgs /\ fi' = fi /\ disk' = disk /\ tombs' = tombs /\ scope' = scope
  BY DEF Moves
<1>2. RowsSound' /\ MarksSound' /\ Covered'
  BY <1>1 DEF Inv, RowsSound, MarksSound, Covered
<1>3. /\ msgs' \in SUBSET (Record \X (Nat \ {0})) /\ IsFiniteSet(msgs') /\ fi' \in [Files -> Marks]
  BY <1>1 DEF Inv, Typed, TypeOK
<1> QED
  BY <1>2, <1>3, MovesKeeps

(* The steps that change nothing but the pass. *)
LEMMA StepMoves ==
  ASSUME Inv, NEW i \in Indexers, NEW p, Step(i, p), UNCHANGED <<scope, now, disk, tombs, leaving>>,
         PassTyped(p), p.tombs \subseteq tombs, PassFits(p, disk, msgs, i \in late),
         scope.mode = "keep" => OnlyDeleted(p, tombs)
  PROVE  Inv'
<1>1. /\ pass' = [pass EXCEPT ![i] = p] /\ faults' = faults /\ vault' = vault /\ late' = late
      /\ msgs' = msgs /\ sess' = sess /\ fi' = fi
  BY DEF Step, Set, db
<1>2. Moves(i, p)
  BY <1>1 DEF Moves, Inv, Typed, TypeOK
<1>3. sess' \in [Sessions -> Verdict] /\ vault' \in [Sessions -> [recs: SUBSET Record, is: Verdict]]
  BY <1>1 DEF Inv, Typed, TypeOK
<1> QED
  BY <1>1, <1>2, <1>3, QuietKeeps

(* The facts about a pass that its steps use. *)
LEMMA PassFacts ==
  ASSUME Inv, NEW i \in Indexers
  PROVE  /\ PassTyped(pass[i]) /\ pass[i] \in Passes /\ pass[i].tombs \subseteq tombs
         /\ PassFits(pass[i], disk, msgs, i \in late)
         /\ scope.mode = "keep" => OnlyDeleted(pass[i], tombs)
         /\ disk \in [Files -> Transcript] /\ fi \in [Files -> Marks]
         /\ sess \in [Sessions -> Verdict] /\ scope \in Scopes
         /\ vault \in [Sessions -> [recs: SUBSET Record, is: Verdict]]
         /\ msgs \in SUBSET (Record \X (Nat \ {0})) /\ IsFiniteSet(msgs)
BY DEF Inv, Typed, TypeOK, PassesSound, PrunesSound, PassTyped

LEMMA OwnerIsSession == \A f \in Files : Owner[f] \in Sessions
BY DEF Sessions

LEMMA StartStep ==
  ASSUME Inv, NEW i \in Indexers, Walk(i) \/ WalkOrphan(i)
  PROVE  Inv'
<1>1. PICK found \in SUBSET Files, orphan \in BOOLEAN : Start(i, found, orphan)
  BY DEF Walk, WalkOrphan
<1> DEFINE p == [Rest EXCEPT !.pc = "load", !.walk = found, !.todo = found, !.orphan = orphan]
<1>2. Step(i, p) /\ UNCHANGED <<scope, now, disk, tombs, leaving>>
  BY <1>1 DEF Start, Pass
<1>3. PassTyped(p)
  BY RestFits DEF PassTyped, Passes
<1>4. p.tombs = {} /\ p.acts = {} /\ p.done = {} /\ p.pc = "load" /\ p.todo = p.walk
  BY DEF Rest
<1> HIDE DEF p
<1>5. PassFits(p, disk, msgs, i \in late) /\ OnlyDeleted(p, tombs)
  BY <1>4 DEF PassFits, OnlyDeleted
<1> QED
  BY <1>2, <1>3, <1>4, <1>5, StepMoves

LEMMA LoadStep ==
  ASSUME Inv, NEW i \in Indexers, Load(i) \/ LoadUnread(i)
  PROVE  Inv'
<1> DEFINE p == pass[i]
           cur == [f \in p.walk |-> fi[f]]
           loaded(gone) == [p EXCEPT !.pc = "files", !.tombs = gone, !.cur = cur]
<1>1. /\ PassTyped(p) /\ p \in Passes /\ p.tombs \subseteq tombs /\ PassFits(p, disk, msgs, i \in late)
      /\ scope.mode = "keep" => OnlyDeleted(p, tombs)
      /\ fi \in [Files -> Marks] /\ tombs \subseteq Sessions
  BY PassFacts DEF Inv, Typed, TypeOK
<1>2. p.walk \subseteq Files /\ p.todo \subseteq p.walk /\ cur \in [p.walk -> Marks]
  BY <1>1 DEF Passes, PassFits
<1>3. cur \in UNION {[W -> Marks] : W \in SUBSET Files} /\ \A f \in p.walk : cur[f] = fi[f]
  <2>1. \A f \in p.walk : cur[f] = fi[f]
    OBVIOUS
  <2> HIDE DEF cur
  <2> QED
    BY <1>2, <2>1
<1>4. \A f \in Files : MarkFits(fi[f], disk[f])
  BY DEF Inv, MarksSound
<1> HIDE DEF cur
<1>5. ASSUME NEW gone \in SUBSET tombs
      PROVE  /\ PassTyped(loaded(gone)) /\ loaded(gone).tombs = gone
             /\ PassFits(loaded(gone), disk, msgs, i \in late)
             /\ scope.mode = "keep" => OnlyDeleted(loaded(gone), tombs)
  <2> DEFINE q == loaded(gone)
  <2>1. /\ q \in Passes /\ q.pc = "files" /\ q.tombs = gone /\ q.cur = cur /\ q.walk = p.walk
        /\ q.todo = p.todo /\ q.acts = p.acts /\ q.done = p.done /\ q.read = p.read
    BY <1>1, <1>3 DEF Passes
  <2> HIDE DEF q
  <2>2. PassTyped(q)
    BY <1>1, <1>2, <2>1 DEF PassTyped
  <2>3. PassFits(q, disk, msgs, i \in late)
    BY <1>2, <1>3, <1>4, <2>1 DEF PassFits
  <2>4. scope.mode = "keep" => OnlyDeleted(q, tombs)
    BY <1>1, <2>1 DEF OnlyDeleted
  <2> QED
    BY <2>1, <2>2, <2>3, <2>4 DEF q
<1>6. CASE Load(i)
  <2>1. Step(i, loaded(tombs)) /\ UNCHANGED <<scope, now, disk, tombs, leaving>>
    BY <1>6 DEF Load, Pass, cur
  <2> HIDE DEF loaded
  <2> QED
    BY <1>5, <2>1, StepMoves
<1>7. CASE LoadUnread(i)
  <2>1. /\ pass' = [pass EXCEPT ![i] = loaded(p.tombs)]
        /\ UNCHANGED <<scope, now, disk, tombs, leaving, msgs, fi, sess, vault, late>>
        /\ faults < MaxFaults /\ faults' = faults + 1
    <3>1. [p EXCEPT !.pc = "files", !.cur = cur] = loaded(p.tombs)
      BY <1>1 DEF Passes
    <3> QED
      BY <1>7, <3>1 DEF LoadUnread, Set, db, world, cur
  <2>2. p.tombs \in SUBSET tombs
    BY <1>1
  <2> DEFINE q == loaded(p.tombs)
  <2>3. PassTyped(q) /\ q.tombs \subseteq tombs /\ PassFits(q, disk, msgs, i \in late)
        /\ (scope.mode = "keep" => OnlyDeleted(q, tombs)) /\ pass' = [pass EXCEPT ![i] = q]
    BY <1>5, <2>1, <2>2
  <2> HIDE DEF q
  <2>4. faults' \in 0..MaxFaults
    BY <2>1, BoundsType DEF Inv, Typed, TypeOK
  <2>5. Moves(i, q)
    BY <2>1, <2>3, <2>4 DEF Moves, Inv, Typed, TypeOK
  <2>6. sess' \in [Sessions -> Verdict] /\ vault' \in [Sessions -> [recs: SUBSET Record, is: Verdict]]
    BY <2>1 DEF Inv, Typed, TypeOK
  <2> QED
    BY <2>1, <2>5, <2>6, QuietKeeps
<1> QED
  BY <1>6, <1>7

LEMMA StatStep ==
  ASSUME Inv, NEW i \in Indexers, Stat(i)
  PROVE  Inv'
<1>1. PICK f \in pass[i].todo :
       LET p == [pass[i] EXCEPT !.todo = @ \ {f}] IN
       IF ~disk[f].on \/ Owner[f] \in p.tombs \/ Unchanged(f, disk[f], p.cur[f])
       THEN Step(i, p)
       ELSE Step(i, [p EXCEPT !.pc = "read", !.f = f, !.stat = disk[f]])
  BY DEF Stat
<1> DEFINE q == pass[i]
           p == [q EXCEPT !.todo = q.todo \ {f}]
           p2 == [p EXCEPT !.pc = "read", !.f = f, !.stat = disk[f]]
<1>2. /\ PassTyped(q) /\ q \in Passes /\ q.tombs \subseteq tombs /\ PassFits(q, disk, msgs, i \in late)
      /\ scope.mode = "keep" => OnlyDeleted(q, tombs)
      /\ disk \in [Files -> Transcript]
  BY PassFacts
<1>3. Step(i, p) \/ (disk[f].on /\ Step(i, p2))
  BY <1>1
<1>4. q.pc = "files" /\ UNCHANGED <<scope, now, disk, tombs, leaving>>
  BY DEF Stat, Pass
<1>5. f \in q.walk /\ q.walk \subseteq Files /\ q.todo \subseteq q.walk /\ q.cur \in [q.walk -> Marks]
      /\ \A g \in q.walk : MarkFits(q.cur[g], disk[g])
  BY <1>2, <1>4 DEF PassFits, PassTyped, Passes
<1>6. /\ p \in Passes /\ p.pc = "files" /\ p.todo = q.todo \ {f}
      /\ p.walk = q.walk /\ p.cur = q.cur /\ p.tombs = q.tombs /\ p.acts = q.acts /\ p.done = q.done
      /\ p.read = q.read
  BY <1>2, <1>4 DEF Passes
<1> HIDE DEF p, q
<1>7. PassTyped(p) /\ PassFits(p, disk, msgs, i \in late) /\ p.tombs \subseteq tombs
      /\ (scope.mode = "keep" => OnlyDeleted(p, tombs))
  BY <1>2, <1>5, <1>6 DEF PassTyped, PassFits, OnlyDeleted
<1>8. CASE Step(i, p)
  BY <1>4, <1>7, <1>8, StepMoves
<1>9. CASE disk[f].on /\ Step(i, p2)
  <2>1. disk[f] \in Transcript /\ f \in Files /\ Written(disk[f]) /\ disk[f].gen # 0
    BY <1>2, <1>5, <1>9 DEF Inv, DiskSound, Written, Unwritten
  <2>2. /\ p2 \in Passes /\ p2.pc = "read" /\ p2.todo = p.todo
        /\ p2.walk = p.walk /\ p2.cur = p.cur /\ p2.tombs = p.tombs /\ p2.acts = p.acts
        /\ p2.done = p.done /\ p2.read = p.read /\ p2.f = f /\ p2.stat = disk[f]
    BY <1>6, <2>1 DEF Passes
  <2> HIDE DEF p2
  <2>3. PassTyped(p2)
    BY <1>2, <1>5, <1>6, <2>1, <2>2 DEF PassTyped
  <2>4. Statted(p2, disk[f])
    <3>1. Size(disk[f]) \in Int /\ disk[f].gen \in Nat
      BY <2>1, SizeType, BoundsType
    <3> QED
      BY <1>5, <1>6, <1>9, <2>1, <2>2, <3>1 DEF Statted, MarkFits
  <2>5. PassFits(p2, disk, msgs, i \in late)
    BY <1>5, <1>6, <2>2, <2>4 DEF PassFits
  <2>6. scope.mode = "keep" => OnlyDeleted(p2, tombs)
    BY <1>7, <2>2 DEF OnlyDeleted
  <2> QED
    BY <1>4, <1>7, <1>9, <2>2, <2>3, <2>5, <2>6, StepMoves
<1> QED
  BY <1>3, <1>8, <1>9

-----------------------------------------------------------------------------
(* Reading. *)

(* A pass that is done with a file. *)
LEMMA NextFileFits ==
  ASSUME Inv, NEW i \in Indexers, pass[i].pc \in {"read", "tx"}
  PROVE  /\ PassTyped(NextFile(i)) /\ NextFile(i).tombs \subseteq tombs
         /\ \A rows, o : PassFits(NextFile(i), disk, rows, o)
         /\ scope.mode = "keep" => OnlyDeleted(NextFile(i), tombs)
<1> DEFINE q == pass[i]
           p == NextFile(i)
<1>1. /\ PassTyped(q) /\ q \in Passes /\ q.tombs \subseteq tombs /\ PassFits(q, disk, msgs, i \in late)
      /\ scope.mode = "keep" => OnlyDeleted(q, tombs)
      /\ disk \in [Files -> Transcript]
  BY PassFacts
<1>2. Unwritten \in Transcript
  BY BoundsType DEF Unwritten, Transcript
<1>8. 0 \in 0..MaxSize /\ {} \in SUBSET Record
  BY BoundsType
<1>9. p = [q EXCEPT !.pc = "files", !.kind = "none", !.read = {}, !.stat = Unwritten, !.off = 0,
                    !.f = Rest.f]
  BY DEF NextFile
<1> HIDE DEF q, p
<1>3. /\ p \in Passes /\ p.pc = "files" /\ p.todo = q.todo /\ p.walk = q.walk /\ p.cur = q.cur
      /\ p.tombs = q.tombs /\ p.acts = q.acts /\ p.done = q.done /\ p.read = {}
  BY <1>1, <1>2, <1>8, <1>9 DEF Passes
<1>4. PassTyped(p)
  BY <1>1, <1>3, FS_EmptySet DEF PassTyped, q
<1>5. \A rows, o : PassFits(p, disk, rows, o)
  BY <1>1, <1>3 DEF PassFits, q
<1>6. scope.mode = "keep" => OnlyDeleted(p, tombs)
  BY <1>1, <1>3 DEF OnlyDeleted
<1> QED
  BY <1>1, <1>3, <1>4, <1>5, <1>6 DEF p

(* A pass that has read. *)
Having(i, kind, off, R) == [pass[i] EXCEPT !.pc = "tx", !.kind = kind, !.off = off, !.read = R]

LEMMA ReadingFits ==
  ASSUME Inv, NEW i \in Indexers, pass[i].pc = "read", NEW kind \in {"tail", "full"},
         NEW off \in 0..MaxSize, NEW R \in SUBSET Record, IsFiniteSet(R)
  PROVE  LET p == Having(i, kind, off, R) IN
         /\ PassTyped(p) /\ p.tombs \subseteq tombs
         /\ scope.mode = "keep" => OnlyDeleted(p, tombs)
         /\ p.f = pass[i].f /\ p.walk = pass[i].walk /\ p.cur = pass[i].cur /\ p.stat = pass[i].stat
         /\ p.pc = "tx" /\ p.kind = kind /\ p.off = off /\ p.read = R
         /\ Statted(p, disk[p.f])
         /\ kind = "full" /\ ReadAll(p, disk[p.f], msgs, i \in late) => PassFits(p, disk, msgs, i \in late)
         /\ kind = "tail" /\ ReadOn(p) => PassFits(p, disk, msgs, i \in late)
<1> DEFINE q == pass[i]
           p == Having(i, kind, off, R)
<1>1. /\ PassTyped(q) /\ q \in Passes /\ q.tombs \subseteq tombs /\ PassFits(q, disk, msgs, i \in late)
      /\ scope.mode = "keep" => OnlyDeleted(q, tombs)
  BY PassFacts
<1>2. /\ p \in Passes /\ p.pc = "tx" /\ p.todo = q.todo /\ p.walk = q.walk /\ p.cur = q.cur
      /\ p.tombs = q.tombs /\ p.acts = q.acts /\ p.done = q.done /\ p.f = q.f /\ p.stat = q.stat
      /\ p.kind = kind /\ p.off = off /\ p.read = R
  BY <1>1 DEF Passes, Having
<1>3. q.pc = "read"
  OBVIOUS
<1> HIDE DEF q, p
<1>4. PassTyped(p)
  BY <1>1, <1>2, <1>3 DEF PassTyped
<1>5. scope.mode = "keep" => OnlyDeleted(p, tombs)
  BY <1>1, <1>2 DEF OnlyDeleted
<1>6. Statted(p, disk[p.f])
  BY <1>1, <1>2, <1>3 DEF PassFits, Statted
<1>7. \/ kind = "full" /\ ReadAll(p, disk[p.f], msgs, i \in late)
      \/ kind = "tail" /\ ReadOn(p)
      => PassFits(p, disk, msgs, i \in late)
  BY <1>1, <1>2, <1>3, <1>6 DEF PassFits
<1> QED
  BY <1>1, <1>2, <1>4, <1>5, <1>6, <1>7 DEF q, p

LEMMA ReadTailStep ==
  ASSUME Inv, NEW i \in Indexers, ReadTail(i)
  PROVE  Inv'
<1> DEFINE q == pass[i]
           t == disk[q.f]
           mark == q.cur[q.f]
           k == q.stat.len
           a == Half(mark.off)
           R == Upto(q.f, t.gen, a, k)
           p == [q EXCEPT !.pc = "tx", !.kind = "tail", !.off = 2 * k, !.read = R]
<1>1. /\ q.pc = "read" /\ UNCHANGED <<scope, now, disk, tombs, leaving>> /\ Grew(i)
  BY DEF ReadTail, Pass
<1>2. /\ PassTyped(q) /\ q \in Passes /\ PassFits(q, disk, msgs, i \in late)
      /\ disk \in [Files -> Transcript]
  BY PassFacts
<1>3. /\ q.f \in Files /\ t \in Transcript /\ q.stat \in Transcript /\ Statted(q, t) /\ mark \in Marks
  BY <1>1, <1>2 DEF PassTyped, PassFits, Passes, Statted
<1>4. Size(q.stat) > mark.off /\ mark.at[1] = t.gen
  BY <1>1 DEF Grew
<1>5. Size(q.stat) \div 2 = k
  BY <1>3, SizeType DEF Half
<1>6. Step(i, IF k = a THEN NextFile(i) ELSE p)
  <2>1. mark.off \div 2 = a
    BY DEF Half
  <2>2. Records(q.f, t, a, k) = R
    BY DEF Records, Upto
  <2>3. Step(i, IF Size(q.stat) \div 2 = mark.off \div 2 THEN NextFile(i)
             ELSE [q EXCEPT !.pc = "tx", !.kind = "tail", !.off = 2 * (Size(q.stat) \div 2),
                            !.read = Records(q.f, t, mark.off \div 2, Size(q.stat) \div 2)])
    BY DEF ReadTail
  <2> HIDE DEF q, t, mark, k, a, R
  <2> QED
    BY <1>5, <2>1, <2>2, <2>3
<1>7. CASE k = a
  BY <1>1, <1>6, <1>7, NextFileFits, StepMoves
<1>8. CASE k # a
  <2>1. /\ mark.off \in 0..MaxSize /\ mark.at[1] \in 0..MaxGen
        /\ t.gen \in 0..MaxGen /\ q.stat.gen \in 1..t.gen /\ mark.at[1] <= q.stat.gen
        /\ k \in 0..MaxLen /\ Size(q.stat) \in 0..MaxSize /\ Half(Size(q.stat)) = k
    BY <1>3, SizeType DEF Marks, Statted
  <2> HIDE DEF t, mark, k, p, R
  <2>2. a \in Nat /\ 2 * a <= mark.off /\ Size(q.stat) <= 2 * k + 1
    <3>1. mark.off \in Nat /\ Size(q.stat) \in Nat
      BY <2>1, BoundsType
    <3>2. a \in Nat /\ 2 * a <= mark.off
      BY <3>1, HalfType
    <3>3. Size(q.stat) <= 2 * Half(Size(q.stat)) + 1
      BY <3>1, HalfType
    <3> QED
      BY <2>1, <3>2, <3>3
  <2>3. q.stat.gen = t.gen /\ t.gen \in 1..MaxGen
    BY <1>4, <2>1, BoundsType
  <2> HIDE DEF a
  <2>4. a < k
    BY <1>4, <1>8, <2>1, <2>2, BoundsType
  <2>5. 2 * k \in 0..MaxSize
    BY <2>1, BoundsType DEF MaxSize
  <2>6. R \in SUBSET Record /\ IsFiniteSet(R)
    BY <1>3, <2>1, <2>2, <2>3, BoundsType, UptoType, UptoFinite DEF R
  <2>7. p = Having(i, "tail", 2 * k, R)
    BY DEF p, Having
  <2>8. /\ PassTyped(p) /\ p.tombs \subseteq tombs
        /\ scope.mode = "keep" => OnlyDeleted(p, tombs)
        /\ p.f = q.f /\ p.cur = q.cur /\ p.stat = q.stat
        /\ p.off = 2 * k /\ p.read = R
        /\ ReadOn(p) => PassFits(p, disk, msgs, i \in late)
    BY <1>1, <2>5, <2>6, <2>7, ReadingFits
  <2>9. ReadOn(p)
    BY <1>4, <2>3, <2>4, <2>8 DEF ReadOn, R, mark, k, a
  <2>10. Step(i, p)
    BY <1>6, <1>8
  <2> QED
    BY <1>1, <2>8, <2>9, <2>10, StepMoves
<1> QED
  BY <1>7, <1>8

LEMMA ReadFullStep ==
  ASSUME Inv, NEW i \in Indexers, ReadFull(i)
  PROVE  Inv'
<1> DEFINE q == pass[i]
           t == disk[q.f]
           R == Upto(q.f, t.gen, 0, t.len)
           p == [q EXCEPT !.pc = "tx", !.kind = "full", !.off = Size(q.stat), !.read = R]
<1>1. /\ q.pc = "read" /\ UNCHANGED <<scope, now, disk, tombs, leaving>>
  BY DEF ReadFull, Pass
<1>2. /\ PassTyped(q) /\ q \in Passes /\ PassFits(q, disk, msgs, i \in late)
      /\ disk \in [Files -> Transcript]
      /\ msgs \in SUBSET (Record \X (Nat \ {0}))
  BY PassFacts
<1>3. /\ q.f \in Files /\ t \in Transcript /\ q.stat \in Transcript /\ Statted(q, t)
  BY <1>1, <1>2 DEF PassTyped, PassFits, Passes, Statted
<1>4. Step(i, IF ~t.on THEN NextFile(i) ELSE p)
  <2>1. Records(q.f, t, 0, t.len) = R
    BY DEF Records, Upto
  <2>2. Step(i, IF ~t.on THEN NextFile(i)
             ELSE [q EXCEPT !.pc = "tx", !.kind = "full", !.off = Size(q.stat),
                            !.read = Records(q.f, t, 0, t.len)])
    BY DEF ReadFull
  <2> HIDE DEF q, t, R
  <2> QED
    BY <2>1, <2>2
<1>5. CASE ~t.on
  BY <1>1, <1>4, <1>5, NextFileFits, StepMoves
<1>6. CASE t.on
  <2>1. /\ t.gen \in 0..MaxGen /\ q.stat.gen \in 1..t.gen
        /\ t.len \in 0..MaxLen /\ Size(q.stat) \in 0..MaxSize
        /\ q.stat.gen = t.gen => q.stat.len <= t.len
    BY <1>3, SizeType, SizeOrder DEF Statted
  <2>2. \A m \in msgs : m[1] \in Record /\ Fits(m[1], disk[m[1].f])
    BY <1>2 DEF Inv, RowsSound
  <2>3. \A r \in Of(msgs, Owner[q.f]) : r.f = q.f => Before(r, t.gen, t.len)
    BY <2>2 DEF Of, Fits, Before
  <2> HIDE DEF t, p, R
  <2>4. t.gen \in 1..MaxGen
    BY <2>1, BoundsType
  <2>5. R \in SUBSET Record /\ IsFiniteSet(R)
    BY <1>3, <2>1, <2>4, BoundsType, UptoType, UptoFinite DEF R
  <2>6. p = Having(i, "full", Size(q.stat), R)
    BY DEF p, Having
  <2>7. /\ PassTyped(p) /\ p.tombs \subseteq tombs
        /\ scope.mode = "keep" => OnlyDeleted(p, tombs)
        /\ p.f = q.f /\ p.cur = q.cur /\ p.stat = q.stat
        /\ p.off = Size(q.stat) /\ p.read = R
        /\ ReadAll(p, disk[p.f], msgs, i \in late) => PassFits(p, disk, msgs, i \in late)
    BY <1>1, <2>1, <2>5, <2>6, ReadingFits
  <2>8. ReadAll(p, t, msgs, i \in late)
    <3>1. t.gen \in p.stat.gen..t.gen /\ t.len \in 0..MaxLen
      BY <2>1, <2>4, <2>7, BoundsType
    <3>2. p.read = Upto(p.f, t.gen, 0, t.len)
      BY <2>7 DEF R
    <3>3. /\ t.gen = p.stat.gen => p.stat.len <= t.len
          /\ \A r \in Of(msgs, Owner[p.f]) : r.f = p.f => Before(r, t.gen, t.len)
      BY <2>1, <2>3, <2>7
    <3> QED
      BY <2>7, <3>1, <3>2, <3>3, BoundsType DEF ReadAll
  <2>9. Step(i, p)
    BY <1>4, <1>6
  <2> QED
    BY <1>1, <2>7, <2>8, <2>9, StepMoves DEF t
<1> QED
  BY <1>5, <1>6

-----------------------------------------------------------------------------
(* Commits. *)

LEMMA FingerprintType ==
  ASSUME NEW t \in Transcript, NEW n \in Nat
  PROVE  FileFingerprint(t, n) \in Fingerprints /\ checkPrefixFingerprint(t, n) \in Fingerprints
<1>1. t.gen \in Nat /\ Size(t) \in Nat /\ Head \in Nat
  BY SizeType, BoundsType
<1>2. Least(Head, Size(t)) \in Nat /\ Least(Head, n) \in Nat
  BY <1>1 DEF Least
<1>3. (IF n > Wide THEN Size(t) ELSE 0) \in Nat /\ (IF n > Wide THEN n ELSE 0) \in Nat
  BY <1>1
<1> QED
  BY <1>1, <1>2, <1>3 DEF FileFingerprint, checkPrefixFingerprint, Fingerprints

LEMMA OfRecords ==
  ASSUME NEW rows \in SUBSET (Record \X (Nat \ {0})), NEW s
  PROVE  Of(rows, s) \subseteq Record
BY DEF Of

LEMMA OnDiskRecords ==
  ASSUME Inv, NEW f \in Files
  PROVE  Records(f, disk[f], 0, disk[f].len) \subseteq Record
<1> DEFINE t == disk[f]
<1>1. t \in Transcript /\ Written(t)
  BY DEF Inv, Typed, TypeOK, DiskSound
<1>2. Records(f, t, 0, t.len) = Upto(f, t.gen, 0, t.len)
  BY DEF Records, Upto
<1> HIDE DEF t
<1>3. t.len \in 0..MaxLen /\ t.gen \in 0..MaxGen
  BY <1>1, SizeType
<1>4. CASE t.gen = 0
  <2>1. t.len = 0
    BY <1>1, <1>4 DEF Written, Unwritten
  <2> QED
    BY <1>2, <2>1 DEF Upto, t
<1>5. CASE t.gen # 0
  <2>1. t.gen \in 1..MaxGen
    BY <1>3, <1>5, BoundsType
  <2> QED
    BY <1>2, <1>3, <2>1, UptoType DEF t
<1> QED
  BY <1>4, <1>5

LEMMA VaultedType ==
  ASSUME Inv, NEW i \in Indexers, pass[i].f \in Files,
         NEW rows \in SUBSET (Record \X (Nat \ {0}))
  PROVE  /\ Vaulted(i, rows) \in [Sessions -> [recs: SUBSET Record, is: Verdict]]
         /\ vault \in [Sessions -> [recs: SUBSET Record, is: Verdict]]
<1>1. vault \in [Sessions -> [recs: SUBSET Record, is: Verdict]]
  BY PassFacts
<1>2. Copied(i, rows) \in SUBSET Record
  BY OfRecords, OnDiskRecords DEF Copied
<1>3. [recs |-> Copied(i, rows), is |-> "live"] \in [recs: SUBSET Record, is: Verdict]
  BY <1>2 DEF Verdict
<1> QED
  BY <1>1, <1>3 DEF Vaulted

LEMMA MarkedType ==
  ASSUME Inv, NEW f \in Files, NEW mark \in Marks
  PROVE  /\ Marked(f, mark) \in [Files -> Marks]
         /\ \A g \in Files : Marked(f, mark)[g] = IF g = f THEN mark
                                    ELSE IF Owner[g] = Owner[f] THEN NoMark ELSE fi[g]
<1>1. NoMark \in Marks
  BY BoundsType DEF NoMark, Marks, Fingerprints, MaxSize
<1>2. fi \in [Files -> Marks]
  BY DEF Inv, Typed
<1> QED
  BY <1>1, <1>2 DEF Marked

(* The watermark of no file covers nothing. *)
LEMMA NoMarkFits ==
  ASSUME NEW t \in Transcript, NEW f, NEW rows
  PROVE  MarkFits(NoMark, t) /\ CoveredIn(f, NoMark, t, rows)
<1>1. NoMark.at[1] = 0 /\ NoMark.at[2] = 0 /\ NoMark.off = 0 /\ Half(0) = 0
  BY DEF NoMark, Half
<1>2. \A g : Upto(f, g, 0, 0) = {}
  BY DEF Upto
<1> QED
  BY <1>1, <1>2, SizeType, BoundsType DEF MarkFits, CoveredIn

LEMMA WithoutOf ==
  ASSUME NEW s, NEW s2
  PROVE  /\ Of(Without(s), s2) = IF s2 = s THEN {} ELSE Of(msgs, s2)
         /\ Without(s) \subseteq msgs
BY DEF Of, Without

LEMMA OthersGiveWay ==
  ASSUME NEW i \in Indexers, late' = (late \ {i}) \cup Overtakes(i),
         \A s : s # Owner[pass[i].f] => Of(msgs', s) = Of(msgs, s)
  PROVE  \A k \in Indexers \ {i} : pass[k].pc = "tx" =>
           \/ k \in late'
           \/ k \notin late /\ Of(msgs', Owner[pass[k].f]) \subseteq Of(msgs, Owner[pass[k].f])
BY DEF Overtakes

(* What a commit of a full read does to the sessions' records.              *)
LEMMA FullRowsOf ==
  ASSUME Inv, NEW i \in Indexers, pass[i].pc = "tx"
  PROVE  /\ FullRows(i) \in SUBSET (Record \X (Nat \ {0})) /\ IsFiniteSet(FullRows(i))
         /\ Of(FullRows(i), Owner[pass[i].f]) = pass[i].read
         /\ \A s : s # Owner[pass[i].f] => Of(FullRows(i), s) = Of(msgs, s)
<1> DEFINE p == pass[i]
           s1 == Owner[p.f]
<1>1. /\ PassTyped(p) /\ p \in Passes /\ PassFits(p, disk, msgs, i \in late)
      /\ disk \in [Files -> Transcript]
      /\ msgs \in SUBSET (Record \X (Nat \ {0})) /\ IsFiniteSet(msgs)
  BY PassFacts
<1>2. \A r \in p.read : r.f = p.f /\ r \in Record
  BY <1>1, ReadFits
<1>3. p.read \in SUBSET Record /\ IsFiniteSet(p.read)
  BY <1>1 DEF PassTyped, Passes
<1>4. /\ Without(s1) \in SUBSET (Record \X (Nat \ {0})) /\ IsFiniteSet(Without(s1))
  BY <1>1, WithoutOf, FS_Subset
<1>5. FullRows(i) = With(Without(s1), p.read)
  BY DEF FullRows
<1>6. \A s : Of(With(Without(s1), p.read), s) = Of(Without(s1), s) \cup {r \in p.read : Owner[r.f] = s}
  BY OfWith
<1>7. \A s : Of(Without(s1), s) = IF s = s1 THEN {} ELSE Of(msgs, s)
  BY WithoutOf
<1>8. /\ {r \in p.read : Owner[r.f] = s1} = p.read
      /\ \A s : s # s1 => {r \in p.read : Owner[r.f] = s} = {}
  BY <1>2
<1> HIDE DEF p, s1
<1>9. With(Without(s1), p.read) \in SUBSET (Record \X (Nat \ {0})) /\ IsFiniteSet(With(Without(s1), p.read))
  BY <1>3, <1>4, WithType
<1> QED
  BY <1>5, <1>6, <1>7, <1>8, <1>9 DEF p, s1

LEMMA TailRowsOf ==
  ASSUME Inv, NEW i \in Indexers, pass[i].pc = "tx"
  PROVE  /\ TailRows(i) \in SUBSET (Record \X (Nat \ {0})) /\ IsFiniteSet(TailRows(i))
         /\ Of(TailRows(i), Owner[pass[i].f]) = Stored(Owner[pass[i].f]) \cup pass[i].read
         /\ \A s : s # Owner[pass[i].f] => Of(TailRows(i), s) = Of(msgs, s)
<1> DEFINE p == pass[i]
           s1 == Owner[p.f]
<1>1. /\ PassTyped(p) /\ p \in Passes /\ PassFits(p, disk, msgs, i \in late)
      /\ disk \in [Files -> Transcript]
      /\ msgs \in SUBSET (Record \X (Nat \ {0})) /\ IsFiniteSet(msgs)
  BY PassFacts
<1>2. \A r \in p.read : r.f = p.f /\ r \in Record
  BY <1>1, ReadFits
<1>3. p.read \in SUBSET Record /\ IsFiniteSet(p.read)
  BY <1>1 DEF PassTyped, Passes
<1>4. TailRows(i) = With(msgs, p.read)
  BY DEF TailRows
<1>5. \A s : Of(With(msgs, p.read), s) = Of(msgs, s) \cup {r \in p.read : Owner[r.f] = s}
  BY OfWith
<1>6. /\ {r \in p.read : Owner[r.f] = s1} = p.read
      /\ \A s : s # s1 => {r \in p.read : Owner[r.f] = s} = {}
  BY <1>2
<1> HIDE DEF p, s1
<1>7. With(msgs, p.read) \in SUBSET (Record \X (Nat \ {0})) /\ IsFiniteSet(With(msgs, p.read))
  BY <1>1, <1>3, WithType
<1> QED
  BY <1>4, <1>5, <1>6, <1>7 DEF p, s1, Stored

(* The rows a commit adds are in their transcripts. *)
LEMMA RowsStaySound ==
  ASSUME Inv, NEW i \in Indexers, pass[i].pc = "tx", UNCHANGED disk,
         \A m \in msgs' : m[1] \in pass[i].read \/ \E x \in msgs : x[1] = m[1]
  PROVE  RowsSound'
<1>1. /\ PassTyped(pass[i]) /\ PassFits(pass[i], disk, msgs, i \in late) /\ disk \in [Files -> Transcript]
  BY PassFacts
<1>2. \A r \in pass[i].read : Fits(r, disk[r.f])
  <2> SUFFICES ASSUME NEW r \in pass[i].read PROVE Fits(r, disk[r.f])
    OBVIOUS
  <2>1. r.f = pass[i].f /\ Fits(r, disk[pass[i].f])
    BY <1>1, ReadFits
  <2> QED
    BY <2>1
<1>3. \A m \in msgs : Fits(m[1], disk[m[1].f])
  BY DEF Inv, RowsSound
<1> QED
  BY <1>2, <1>3 DEF RowsSound

LEMMA WithFrom ==
  ASSUME NEW rows, NEW R, NEW m \in With(rows, R)
  PROVE  m \in rows \/ m[1] \in R
BY WithAgain

LEMMA FullTxStep ==
  ASSUME Inv, NEW i \in Indexers, FullTx(i)
  PROVE  Inv'
<1> DEFINE p == pass[i]
           f == p.f
           t == disk[f]
           s1 == Owner[f]
<1>1. p.pc = "tx" /\ p.kind = "full" /\ UNCHANGED <<scope, now, disk, tombs, leaving, faults>>
  BY DEF FullTx, Pass
<1>2. /\ PassTyped(p) /\ p \in Passes /\ PassFits(p, disk, msgs, i \in late)
      /\ disk \in [Files -> Transcript] /\ fi \in [Files -> Marks]
      /\ sess \in [Sessions -> Verdict]
      /\ msgs \in SUBSET (Record \X (Nat \ {0})) /\ IsFiniteSet(msgs)
      /\ faults \in 0..MaxFaults /\ late \subseteq Indexers
  BY PassFacts DEF Inv, Typed, TypeOK
<1>3. /\ f \in Files /\ t \in Transcript /\ p.stat \in Transcript /\ Statted(p, t)
      /\ ReadAll(p, t, msgs, i \in late)
  BY <1>1, <1>2 DEF PassTyped, PassFits, Passes
<1>4. CASE ~Copyable(i)
  <2>1. /\ pass' = [pass EXCEPT ![i] = Rest] /\ late' = late \ {i}
        /\ vault' = vault /\ msgs' = msgs /\ sess' = sess /\ fi' = fi
    BY <1>4 DEF FullTx, Set, db
  <2>2. Moves(i, Rest)
    BY <1>1, <1>2, <2>1, RestFits DEF Moves
  <2> QED
    BY <1>2, <2>1, <2>2, PassFacts, QuietKeeps
<1>5. CASE Copyable(i)
  <2>1. /\ msgs' = FullRows(i) /\ sess' = [sess EXCEPT ![s1] = "live"]
        /\ fi' = Marked(f, MarkRead(i)) /\ vault' = Vaulted(i, FullRows(i))
        /\ pass' = [pass EXCEPT ![i] = NextFile(i)] /\ late' = (late \ {i}) \cup Overtakes(i)
    BY <1>5 DEF FullTx, Set
  <2>2. /\ msgs' \in SUBSET (Record \X (Nat \ {0})) /\ IsFiniteSet(msgs')
        /\ Of(msgs', s1) = p.read /\ \A s : s # s1 => Of(msgs', s) = Of(msgs, s)
    BY <1>1, <2>1, FullRowsOf
  <2>3. sess' \in [Sessions -> Verdict]
    BY <1>2, <2>1 DEF Verdict
  <2>4. vault' \in [Sessions -> [recs: SUBSET Record, is: Verdict]]
    BY <1>1, <1>3, <2>1, FullRowsOf, VaultedType
  <2> DEFINE mark == MarkRead(i)
  <2>5. /\ mark \in Marks /\ mark.at[1] = p.stat.gen
        /\ Half(mark.off) = p.stat.len /\ Half(mark.at[2]) = p.stat.len
    <3> DEFINE fp == FileFingerprint(IF scope.rendered THEN p.stat ELSE t, Size(p.stat))
    <3>1. mark = [at |-> <<p.stat.gen, Size(p.stat)>>, off |-> Size(p.stat), fp |-> fp]
      BY DEF MarkRead, Stamp
    <3>2. /\ p.stat.gen \in 0..MaxGen /\ Size(p.stat) \in 0..MaxSize /\ Size(p.stat) \in Nat
          /\ Half(Size(p.stat)) = p.stat.len
      BY <1>3, SizeType, BoundsType
    <3>3. fp \in Fingerprints
      BY <1>3, <3>2, FingerprintType
    <3> HIDE DEF fp, mark, t, p
    <3> QED
      BY <3>1, <3>2, <3>3 DEF Marks
  <2> HIDE DEF mark
  <2>6. /\ fi' \in [Files -> Marks]
        /\ \A g \in Files : fi'[g] = IF g = f THEN mark ELSE IF Owner[g] = s1 THEN NoMark ELSE fi[g]
    BY <1>3, <2>1, <2>5, MarkedType DEF mark
  <2>7. p.stat.gen <= t.gen
    BY <1>3, SizeType, BoundsType DEF Statted
  <2>8. MarksSound'
    <3>1. MarkFits(mark, t)
      BY <2>5, <2>7 DEF MarkFits
    <3> QED
      BY <1>1, <1>2, <2>6, <3>1, NoMarkFits DEF Inv, MarksSound
  <2>9. Covered'
    <3> SUFFICES ASSUME scope.mode = "keep", NEW g \in Files, Owner[g] \notin tombs
                 PROVE  CoveredIn(g, fi'[g], disk[g], msgs')
      BY <1>1 DEF Covered
    <3>1. CASE g = f
      <4>1. ASSUME p.stat.gen = t.gen PROVE Upto(f, t.gen, 0, p.stat.len) \subseteq p.read
        <5>1. PICK g2 \in p.stat.gen..t.gen, n \in 0..MaxLen :
                p.read = Upto(f, g2, 0, n) /\ (g2 = p.stat.gen => p.stat.len <= n)
          BY <1>3 DEF ReadAll
        <5>2. g2 = t.gen /\ p.stat.len <= n /\ p.stat.len \in Nat /\ n \in Nat
          <6>1. t.gen \in Int
            BY <1>3, SizeType, BoundsType
          <6> QED
            BY <1>3, <4>1, <5>1, <6>1, SizeType, BoundsType
        <5> HIDE DEF p, t, f
        <5> QED
          BY <5>1, <5>2 DEF Upto
      <4> QED
        BY <2>2, <2>5, <2>6, <3>1, <4>1 DEF CoveredIn
    <3>2. CASE g # f /\ Owner[g] = s1
      BY <1>2, <2>6, <3>2, NoMarkFits
    <3>3. CASE Owner[g] # s1
      <4>1. CoveredIn(g, fi[g], disk[g], msgs)
        BY DEF Inv, Covered
      <4>2. g # f /\ fi'[g] = fi[g] /\ Of(msgs', Owner[g]) = Of(msgs, Owner[g])
        BY <2>2, <2>6, <3>3
      <4> QED
        BY <4>1, <4>2 DEF CoveredIn
    <3> QED
      BY <3>1, <3>2, <3>3
  <2>10. RowsSound'
    <3>1. \A m \in msgs' : m \in Without(s1) \/ m[1] \in p.read
      BY <2>1, WithFrom DEF FullRows
    <3> QED
      BY <1>1, <3>1, WithoutOf, RowsStaySound
  <2>11. Moves(i, NextFile(i))
    <3>1. /\ PassTyped(NextFile(i)) /\ NextFile(i).tombs \subseteq tombs
          /\ PassFits(NextFile(i), disk, msgs', i \in late')
          /\ scope.mode = "keep" => OnlyDeleted(NextFile(i), tombs)
      BY <1>1, NextFileFits
    <3>2. late' \subseteq Indexers
      BY <1>2, <2>1 DEF Overtakes
    <3>3. \A k \in Indexers \ {i} : pass[k].pc = "tx" =>
           \/ k \in late'
           \/ k \notin late /\ Of(msgs', Owner[pass[k].f]) \subseteq Of(msgs, Owner[pass[k].f])
      BY <2>1, <2>2, OthersGiveWay
    <3> QED
      BY <1>1, <1>2, <2>1, <3>1, <3>2, <3>3 DEF Moves
  <2> QED
    BY <2>2, <2>3, <2>4, <2>6, <2>8, <2>9, <2>10, <2>11, MovesKeeps
<1> QED
  BY <1>4, <1>5

LEMMA TailTxStep ==
  ASSUME Inv, NEW i \in Indexers, TailTx(i)
  PROVE  Inv'
<1> DEFINE p == pass[i]
           f == p.f
           t == disk[f]
           s1 == Owner[f]
           a == Half(p.cur[f].off)
<1>1. p.pc = "tx" /\ p.kind = "tail" /\ UNCHANGED <<scope, now, disk, tombs, leaving, faults>>
      /\ pass' = [pass EXCEPT ![i] = NextFile(i)]
  BY DEF TailTx, Pass, Set
<1>2. /\ PassTyped(p) /\ p \in Passes /\ PassFits(p, disk, msgs, i \in late)
      /\ disk \in [Files -> Transcript] /\ fi \in [Files -> Marks]
      /\ sess \in [Sessions -> Verdict]
      /\ msgs \in SUBSET (Record \X (Nat \ {0})) /\ IsFiniteSet(msgs)
      /\ faults \in 0..MaxFaults /\ late \subseteq Indexers
  BY PassFacts DEF Inv, Typed, TypeOK
<1>3. /\ f \in Files /\ t \in Transcript /\ p.stat \in Transcript /\ Statted(p, t)
      /\ ReadOn(p)
  BY <1>1, <1>2 DEF PassTyped, PassFits, Passes
<1>4. /\ PassTyped(NextFile(i)) /\ NextFile(i).tombs \subseteq tombs
      /\ \A rows, o : PassFits(NextFile(i), disk, rows, o)
      /\ scope.mode = "keep" => OnlyDeleted(NextFile(i), tombs)
  BY <1>1, NextFileFits
<1>5. CASE ~(Current(i) /\ Copyable(i))
  <2>1. /\ late' = late \ {i}
        /\ vault' = vault /\ msgs' = msgs /\ sess' = sess /\ fi' = fi
    BY <1>5 DEF TailTx, db
  <2>2. Moves(i, NextFile(i))
    BY <1>1, <1>2, <1>4, <2>1 DEF Moves
  <2> QED
    BY <1>2, <2>1, <2>2, PassFacts, QuietKeeps
<1>6. CASE Current(i) /\ Copyable(i)
  <2> DEFINE mark == [at |-> Stamp(p.stat), off |-> p.off, fp |-> checkPrefixFingerprint(t, p.off)]
  <2>1. /\ msgs' = TailRows(i)
        /\ sess' = [sess EXCEPT ![s1] = IF @ = "absent" THEN @ ELSE "live"]
        /\ fi' = Marked(f, mark) /\ vault' = Vaulted(i, TailRows(i))
        /\ late' = (late \ {i}) \cup Overtakes(i)
    BY <1>6 DEF TailTx
  <2>2. /\ msgs' \in SUBSET (Record \X (Nat \ {0})) /\ IsFiniteSet(msgs')
        /\ Of(msgs', s1) = Of(msgs, s1) \cup p.read /\ \A s : s # s1 => Of(msgs', s) = Of(msgs, s)
    BY <1>1, <2>1, TailRowsOf DEF Stored
  <2>3. sess' \in [Sessions -> Verdict]
    BY <1>2, <2>1 DEF Verdict
  <2>4. vault' \in [Sessions -> [recs: SUBSET Record, is: Verdict]]
    BY <1>1, <1>3, <2>1, TailRowsOf, VaultedType
  <2>5. /\ mark \in Marks /\ mark.at[1] = p.stat.gen
        /\ Half(mark.off) = p.stat.len /\ Half(mark.at[2]) = p.stat.len
    <3>1. mark.at = <<p.stat.gen, Size(p.stat)>> /\ mark.off = 2 * p.stat.len
      BY <1>3 DEF Stamp, ReadOn
    <3>2. /\ p.stat.gen \in 0..MaxGen /\ Size(p.stat) \in 0..MaxSize
          /\ p.stat.len \in 0..MaxLen /\ p.stat.len \in Nat
          /\ Half(Size(p.stat)) = p.stat.len
      BY <1>3, SizeType, BoundsType
    <3>3. p.off \in 0..MaxSize /\ p.off \in Nat
      <4>1. p.off \in 0..MaxSize
        <5> HIDE DEF p
        <5> QED
          BY <1>2 DEF Passes
      <4> QED
        BY <4>1, BoundsType
    <3>4. checkPrefixFingerprint(t, p.off) \in Fingerprints
      BY <1>3, <3>3, FingerprintType
    <3>5. mark \in Marks
      BY <3>1, <3>2, <3>3, <3>4 DEF Marks
    <3> HIDE DEF mark
    <3> QED
      BY <3>1, <3>2, <3>5, HalfOfLine
  <2> HIDE DEF mark
  <2>6. /\ fi' \in [Files -> Marks]
        /\ \A g \in Files : fi'[g] = IF g = f THEN mark ELSE IF Owner[g] = s1 THEN NoMark ELSE fi[g]
    BY <1>3, <2>1, <2>5, MarkedType
  <2>7. p.stat.gen <= t.gen
    BY <1>3, SizeType, BoundsType DEF Statted
  <2>8. MarksSound'
    <3>1. MarkFits(mark, t)
      BY <2>5, <2>7 DEF MarkFits
    <3> QED
      BY <1>1, <1>2, <2>6, <3>1, NoMarkFits DEF Inv, MarksSound
  <2>9. Covered'
    <3> SUFFICES ASSUME scope.mode = "keep", NEW g \in Files, Owner[g] \notin tombs
                 PROVE  CoveredIn(g, fi'[g], disk[g], msgs')
      BY <1>1 DEF Covered
    <3>1. CASE g = f
      <4>1. ASSUME p.stat.gen = t.gen
            PROVE  Upto(f, t.gen, 0, p.stat.len) \subseteq Of(msgs, s1) \cup p.read
        <5>1. fi[f].at[1] = t.gen /\ fi[f].off = p.cur[f].off
          BY <1>3, <1>6, <4>1 DEF Current, ReadOn
        <5>2. Upto(f, t.gen, 0, a) \subseteq Of(msgs, s1)
          BY <3>1, <5>1 DEF Inv, Covered, CoveredIn
        <5>3. p.read = Upto(f, t.gen, a, p.stat.len)
          BY <1>3, <4>1 DEF ReadOn
        <5>4. a \in Nat
          <6>1. p.cur[f] \in Marks
            BY <1>1, <1>2, <1>3 DEF PassTyped, Statted
          <6>2. p.cur[f].off \in Nat
            BY <6>1, BoundsType DEF Marks
          <6> QED
            BY <6>2, HalfType
        <5> HIDE DEF p, t, f, a, s1
        <5>5. Upto(f, t.gen, 0, p.stat.len) \subseteq Upto(f, t.gen, 0, a) \cup Upto(f, t.gen, a, p.stat.len)
          BY <5>4 DEF Upto
        <5> QED
          BY <5>2, <5>3, <5>5
      <4> QED
        BY <2>2, <2>5, <2>6, <3>1, <4>1 DEF CoveredIn
    <3>2. CASE g # f /\ Owner[g] = s1
      BY <1>2, <2>6, <3>2, NoMarkFits
    <3>3. CASE Owner[g] # s1
      <4>1. CoveredIn(g, fi[g], disk[g], msgs)
        BY DEF Inv, Covered
      <4>2. g # f /\ fi'[g] = fi[g] /\ Of(msgs', Owner[g]) = Of(msgs, Owner[g])
        BY <2>2, <2>6, <3>3
      <4> QED
        BY <4>1, <4>2 DEF CoveredIn
    <3> QED
      BY <3>1, <3>2, <3>3
  <2>10. RowsSound'
    <3>1. \A m \in msgs' : m \in msgs \/ m[1] \in p.read
      BY <2>1, WithFrom DEF TailRows
    <3> QED
      BY <1>1, <3>1, RowsStaySound
  <2>11. Moves(i, NextFile(i))
    <3>1. late' \subseteq Indexers
      BY <1>2, <2>1 DEF Overtakes
    <3>2. \A k \in Indexers \ {i} : pass[k].pc = "tx" =>
           \/ k \in late'
           \/ k \notin late /\ Of(msgs', Owner[pass[k].f]) \subseteq Of(msgs, Owner[pass[k].f])
      BY <2>1, <2>2, OthersGiveWay
    <3> QED
      BY <1>1, <1>2, <1>4, <2>1, <3>1, <3>2 DEF Moves
  <2> QED
    BY <2>2, <2>3, <2>4, <2>6, <2>8, <2>9, <2>10, <2>11, MovesKeeps
<1> QED
  BY <1>5, <1>6

-----------------------------------------------------------------------------
(* Retention. *)

LEMMA DecisionType ==
  ASSUME NEW present \in BOOLEAN, NEW tombstoned \in BOOLEAN, NEW own \in BOOLEAN,
         NEW onlyCopy \in BOOLEAN, NEW mirror \in BOOLEAN, NEW replica \in BOOLEAN
  PROVE  /\ DecideRetention(present, tombstoned, own, onlyCopy, mirror, replica) \in Verdicts
         /\ DecideRetention(present, tombstoned, own, onlyCopy, mirror, replica) = "prune"
              => replica \/ tombstoned \/ mirror
BY DEF DecideRetention, Verdicts

LEMMA ScanStep ==
  ASSUME Inv, NEW i \in Indexers, Scan(i)
  PROVE  Inv'
<1> DEFINE q == pass[i]
           act(f) == DecideRetention(f \in q.walk, Owner[f] \in q.tombs,
                       scope.mode # "replica" \/ sess[Owner[f]] = "absent",
                       sess[Owner[f]] = "only copy",
                       scope.mode = "mirror" /\ ~q.orphan, scope.mode = "replica")
           marked == {g \in Files : fi[g] # NoMark}
           all == {<<act(f), f>> : f \in marked}
           acts == {a \in all : a[1] # "none"}
           p == [Rest EXCEPT !.pc = "retain", !.acts = acts]
<1>1. Step(i, p) /\ UNCHANGED <<scope, now, disk, tombs, leaving>>
  BY DEF Scan, Pass
<1>2. q \in Passes /\ q.tombs \subseteq tombs
  BY PassFacts
<1>3. q.orphan \in BOOLEAN
  BY <1>2 DEF Passes
<1> HIDE DEF q
<1>4. ASSUME NEW f \in Files
      PROVE  /\ act(f) \in Verdicts
             /\ act(f) = "prune" => scope.mode \in {"replica", "mirror"} \/ Owner[f] \in q.tombs
  <2> DEFINE b1 == f \in q.walk
             b2 == Owner[f] \in q.tombs
             b3 == scope.mode # "replica" \/ sess[Owner[f]] = "absent"
             b4 == sess[Owner[f]] = "only copy"
             b5 == scope.mode = "mirror" /\ ~q.orphan
             b6 == scope.mode = "replica"
  <2>1. b1 \in BOOLEAN /\ b2 \in BOOLEAN /\ b3 \in BOOLEAN /\ b4 \in BOOLEAN
        /\ b5 \in BOOLEAN /\ b6 \in BOOLEAN
    OBVIOUS
  <2>2. act(f) = DecideRetention(b1, b2, b3, b4, b5, b6)
    OBVIOUS
  <2>3. b6 \/ b2 \/ b5 => scope.mode \in {"replica", "mirror"} \/ Owner[f] \in q.tombs
    OBVIOUS
  <2> HIDE DEF b1, b2, b3, b4, b5, b6, act
  <2>4. /\ DecideRetention(b1, b2, b3, b4, b5, b6) \in Verdicts
        /\ DecideRetention(b1, b2, b3, b4, b5, b6) = "prune" => b6 \/ b2 \/ b5
    BY ONLY <2>1, DecisionType
  <2> QED
    BY <2>2, <2>3, <2>4
<1> HIDE DEF act
<1>5. acts \in SUBSET (Verdicts \X Files)
  BY <1>4
<1>6. \A a \in acts : \E f \in Files : a[1] = act(f) /\ a[2] = f
  OBVIOUS
<1>7. ASSUME scope.mode = "keep", NEW a \in acts, a[1] = "prune" PROVE Owner[a[2]] \in tombs
  BY <1>2, <1>4, <1>6, <1>7
<1> HIDE DEF acts
<1>8. /\ p \in Passes /\ p.pc = "retain" /\ p.acts = acts /\ p.done = {} /\ p.tombs = {}
      /\ p.todo = {} /\ p.walk = {} /\ p.read = {}
  <2>1. Rest \in Passes /\ Rest.done = {} /\ Rest.tombs = {} /\ Rest.todo = {} /\ Rest.walk = {}
        /\ Rest.read = {}
    BY RestFits DEF PassTyped, Rest
  <2> QED
    BY <1>5, <2>1 DEF Passes
<1> HIDE DEF p
<1>9. PassTyped(p) /\ PassFits(p, disk, msgs, i \in late)
  BY <1>8, FS_EmptySet DEF PassTyped, PassFits
<1>10. scope.mode = "keep" => OnlyDeleted(p, tombs)
  BY <1>7, <1>8 DEF OnlyDeleted
<1> QED
  BY <1>1, <1>8, <1>9, <1>10, StepMoves

(* A pass that has carried out one of its decisions.                        *)
LEMMA DoneFits ==
  ASSUME Inv, NEW i \in Indexers, NEW a \in Verdicts \X Files, NEW f \in Files \cup {Rest.f},
         scope.mode = "keep" /\ a[1] = "prune" => Owner[a[2]] \in tombs
  PROVE  LET p == [Done(i, a) EXCEPT !.pc = "retain", !.f = f] IN
         /\ PassTyped(p) /\ p.tombs \subseteq tombs
         /\ \A rows, o : PassFits(p, disk, rows, o)
         /\ scope.mode = "keep" => OnlyDeleted(p, tombs)
<1> DEFINE q == pass[i]
           d == <<a[1], Owner[a[2]]>>
           p == [Done(i, a) EXCEPT !.pc = "retain", !.f = f]
<1>1. /\ PassTyped(q) /\ q \in Passes /\ q.tombs \subseteq tombs /\ PassFits(q, disk, msgs, i \in late)
      /\ scope.mode = "keep" => OnlyDeleted(q, tombs)
  BY PassFacts
<1>2. d \in Verdicts \X Sessions
  BY OwnerIsSession
<1>3. p = [q EXCEPT !.acts = q.acts \ {a}, !.done = q.done \cup {d}, !.pc = "retain", !.f = f]
  BY DEF Done
<1>4. d[1] = a[1] /\ d[2] = Owner[a[2]]
  OBVIOUS
<1> HIDE DEF p, q, d
<1>5. /\ p \in Passes /\ p.pc = "retain" /\ p.acts = q.acts \ {a} /\ p.done = q.done \cup {d}
      /\ p.tombs = q.tombs /\ p.todo = q.todo /\ p.walk = q.walk /\ p.read = q.read
  <2>1. q.acts \ {a} \in SUBSET (Verdicts \X Files) /\ q.done \cup {d} \in SUBSET (Verdicts \X Sessions)
    BY <1>1, <1>2 DEF Passes
  <2>2. f \in Files \cup {Rest.f} => p \in Passes
    BY ONLY <1>1, <1>3, <2>1 DEF Passes
  <2>3. f \in Files \cup {Rest.f}
    OBVIOUS
  <2>4. /\ p.pc = "retain" /\ p.acts = q.acts \ {a} /\ p.done = q.done \cup {d}
        /\ p.tombs = q.tombs /\ p.todo = q.todo /\ p.walk = q.walk /\ p.read = q.read
    BY ONLY <1>1, <1>3 DEF Passes
  <2> QED
    BY <2>2, <2>3, <2>4
<1>6. PassTyped(p) /\ \A rows, o : PassFits(p, disk, rows, o)
  BY <1>1, <1>5 DEF PassTyped, PassFits
<1>7. scope.mode = "keep" => OnlyDeleted(p, tombs)
  BY <1>1, <1>4, <1>5 DEF OnlyDeleted
<1> QED
  BY <1>1, <1>5, <1>6, <1>7 DEF p

LEMMA FlagStep ==
  ASSUME Inv, NEW i \in Indexers, Flag(i)
  PROVE  Inv'
<1>1. PICK a \in pass[i].acts :
       /\ a[1] \in {"clear", "stamp"}
       /\ sess' = [sess EXCEPT ![Owner[a[2]]] =
            IF @ = "absent" THEN @ ELSE IF a[1] = "stamp" THEN "only copy" ELSE "live"]
       /\ Set(i, Done(i, a))
  BY DEF Flag
<1>2. /\ pass[i].pc = "retain" /\ UNCHANGED <<scope, now, disk, tombs, leaving, faults, vault, late, msgs, fi>>
  BY DEF Flag, Pass
<1>3. /\ pass[i] \in Passes /\ sess \in [Sessions -> Verdict]
      /\ vault \in [Sessions -> [recs: SUBSET Record, is: Verdict]]
  BY PassFacts
<1>4. a \in Verdicts \X Files /\ pass[i].f \in Files \cup {Rest.f}
  BY <1>3 DEF Passes
<1> DEFINE p == [Done(i, a) EXCEPT !.pc = "retain", !.f = pass[i].f]
<1>5. Done(i, a) = p
  BY <1>2, <1>3 DEF Done, Passes
<1>6. /\ PassTyped(p) /\ p.tombs \subseteq tombs
      /\ \A rows, o : PassFits(p, disk, rows, o)
      /\ scope.mode = "keep" => OnlyDeleted(p, tombs)
  BY <1>1, <1>4, DoneFits
<1> HIDE DEF p
<1>7. faults \in 0..MaxFaults /\ late \subseteq Indexers
  BY DEF Inv, Typed, TypeOK
<1>8. Moves(i, p)
  BY <1>1, <1>2, <1>5, <1>6, <1>7 DEF Moves, Set
<1>9. sess' \in [Sessions -> Verdict]
  BY <1>1, <1>3 DEF Verdict
<1> QED
  BY <1>2, <1>3, <1>8, <1>9, QuietKeeps

LEMMA PruneStep ==
  ASSUME Inv, NEW i \in Indexers, Prune(i)
  PROVE  Inv'
<1> DEFINE q == pass[i]
<1>1. PICK a \in q.acts :
       /\ a[1] = "prune" /\ msgs' = Without(Owner[a[2]])
       /\ Set(i, [q EXCEPT !.pc = "prune row", !.f = a[2]])
  BY DEF Prune
<1> DEFINE p == [q EXCEPT !.pc = "prune row", !.f = a[2]]
           s1 == Owner[a[2]]
<1>2. /\ UNCHANGED <<scope, now, disk, tombs, leaving, faults, vault, late, sess, fi>>
      /\ pass' = [pass EXCEPT ![i] = p]
  BY <1>1 DEF Prune, Pass, Set
<1>3. /\ PassTyped(q) /\ q \in Passes /\ q.tombs \subseteq tombs /\ PassFits(q, disk, msgs, i \in late)
      /\ scope.mode = "keep" => OnlyDeleted(q, tombs)
      /\ sess \in [Sessions -> Verdict] /\ fi \in [Files -> Marks]
      /\ vault \in [Sessions -> [recs: SUBSET Record, is: Verdict]]
      /\ msgs \in SUBSET (Record \X (Nat \ {0})) /\ IsFiniteSet(msgs)
      /\ faults \in 0..MaxFaults /\ late \subseteq Indexers
  BY PassFacts DEF Inv, Typed, TypeOK
<1>4. a[2] \in Files /\ (scope.mode = "keep" => s1 \in tombs)
  BY <1>1, <1>3 DEF Passes, OnlyDeleted
<1> HIDE DEF q
<1>5. /\ p \in Passes /\ p.pc = "prune row" /\ p.f = a[2] /\ p.acts = q.acts /\ p.done = q.done
      /\ p.tombs = q.tombs /\ p.todo = q.todo /\ p.walk = q.walk /\ p.read = q.read
  BY <1>3, <1>4 DEF Passes
<1> HIDE DEF p
<1>6. PassTyped(p) /\ \A rows, o : PassFits(p, disk, rows, o)
  BY <1>3, <1>4, <1>5 DEF PassTyped, PassFits
<1>7. scope.mode = "keep" => OnlyDeleted(p, tombs)
  BY <1>3, <1>4, <1>5 DEF OnlyDeleted
<1>8. msgs' \subseteq msgs /\ \A s : s # s1 => Of(msgs', s) = Of(msgs, s)
  BY <1>1, WithoutOf
<1>9. \A s : Of(msgs', s) \subseteq Of(msgs, s)
  BY <1>8 DEF Of
<1>10. Moves(i, p)
  BY <1>2, <1>3, <1>5, <1>6, <1>7, <1>9 DEF Moves
<1>11. IsFiniteSet(msgs') /\ msgs' \in SUBSET (Record \X (Nat \ {0}))
  BY <1>3, <1>8, FS_Subset
<1>12. RowsSound' /\ MarksSound'
  BY <1>2, <1>8 DEF Inv, RowsSound, MarksSound
<1>13. Covered'
  <2> SUFFICES ASSUME scope.mode = "keep", NEW g \in Files, Owner[g] \notin tombs
               PROVE  CoveredIn(g, fi[g], disk[g], msgs')
    BY <1>2 DEF Covered
  <2>1. CoveredIn(g, fi[g], disk[g], msgs)
    BY DEF Inv, Covered
  <2>2. Of(msgs', Owner[g]) = Of(msgs, Owner[g])
    BY <1>4, <1>8
  <2> QED
    BY <2>1, <2>2 DEF CoveredIn
<1> QED
  BY <1>2, <1>3, <1>10, <1>11, <1>12, <1>13, MovesKeeps

LEMMA PruneRowStep ==
  ASSUME Inv, NEW i \in Indexers, PruneRow(i)
  PROVE  Inv'
<1> DEFINE q == pass[i]
           p == [q EXCEPT !.pc = "prune mark"]
<1>2. /\ UNCHANGED <<scope, now, disk, tombs, leaving, faults, vault, late, msgs, fi>>
      /\ pass' = [pass EXCEPT ![i] = p] /\ q.pc = "prune row"
      /\ sess' = [sess EXCEPT ![Owner[q.f]] = "absent"]
  BY DEF PruneRow, Pass, Set
<1>3. /\ PassTyped(q) /\ q \in Passes /\ q.tombs \subseteq tombs /\ PassFits(q, disk, msgs, i \in late)
      /\ scope.mode = "keep" => OnlyDeleted(q, tombs)
      /\ sess \in [Sessions -> Verdict]
      /\ vault \in [Sessions -> [recs: SUBSET Record, is: Verdict]]
      /\ faults \in 0..MaxFaults /\ late \subseteq Indexers
  BY PassFacts DEF Inv, Typed, TypeOK
<1> HIDE DEF q
<1>5. /\ p \in Passes /\ p.pc = "prune mark" /\ p.f = q.f /\ p.acts = q.acts /\ p.done = q.done
      /\ p.tombs = q.tombs /\ p.todo = q.todo /\ p.walk = q.walk /\ p.read = q.read
  BY <1>3 DEF Passes
<1> HIDE DEF p
<1>6. PassTyped(p) /\ \A rows, o : PassFits(p, disk, rows, o)
  BY <1>2, <1>3, <1>5 DEF PassTyped, PassFits
<1>7. scope.mode = "keep" => OnlyDeleted(p, tombs)
  BY <1>2, <1>3, <1>5 DEF OnlyDeleted
<1>10. Moves(i, p)
  BY <1>2, <1>3, <1>5, <1>6, <1>7 DEF Moves
<1>11. sess' \in [Sessions -> Verdict]
  BY <1>2, <1>3 DEF Verdict
<1> QED
  BY <1>2, <1>3, <1>10, <1>11, QuietKeeps

LEMMA PruneMarkStep ==
  ASSUME Inv, NEW i \in Indexers, PruneMark(i)
  PROVE  Inv'
<1> DEFINE q == pass[i]
           a == <<"prune", q.f>>
           p == [Done(i, a) EXCEPT !.pc = "retain", !.f = Rest.f]
<1>2. /\ UNCHANGED <<scope, now, disk, tombs, leaving, faults, vault, late, msgs, sess>>
      /\ pass' = [pass EXCEPT ![i] = p] /\ q.pc = "prune mark"
      /\ fi' = [fi EXCEPT ![q.f] = NoMark]
  BY DEF PruneMark, Pass, Set
<1>3. /\ PassTyped(q)
      /\ scope.mode = "keep" => OnlyDeleted(q, tombs)
      /\ sess \in [Sessions -> Verdict] /\ fi \in [Files -> Marks]
      /\ disk \in [Files -> Transcript]
      /\ vault \in [Sessions -> [recs: SUBSET Record, is: Verdict]]
      /\ msgs \in SUBSET (Record \X (Nat \ {0})) /\ IsFiniteSet(msgs)
      /\ faults \in 0..MaxFaults /\ late \subseteq Indexers
  BY PassFacts DEF Inv, Typed, TypeOK
<1>4. q.f \in Files /\ (scope.mode = "keep" => Owner[q.f] \in tombs)
  BY <1>2, <1>3 DEF PassTyped, OnlyDeleted
<1>5. a \in Verdicts \X Files /\ (scope.mode = "keep" => Owner[a[2]] \in tombs)
  BY <1>4 DEF Verdicts
<1> HIDE DEF a
<1>6. /\ PassTyped(p) /\ p.tombs \subseteq tombs
      /\ \A rows, o : PassFits(p, disk, rows, o)
      /\ scope.mode = "keep" => OnlyDeleted(p, tombs)
  BY <1>5, DoneFits
<1> HIDE DEF p, q
<1>7. Moves(i, p)
  BY <1>2, <1>3, <1>6 DEF Moves
<1>8. NoMark \in Marks
  BY BoundsType DEF NoMark, Marks, Fingerprints, MaxSize
<1>9. fi' \in [Files -> Marks] /\ \A g \in Files : fi'[g] = IF g = q.f THEN NoMark ELSE fi[g]
  BY <1>2, <1>3, <1>8
<1>10. RowsSound' /\ MarksSound'
  BY <1>2, <1>3, <1>9, NoMarkFits DEF Inv, RowsSound, MarksSound
<1>11. Covered'
  BY <1>2, <1>3, <1>9, NoMarkFits DEF Inv, Covered
<1> QED
  BY <1>2, <1>3, <1>7, <1>9, <1>10, <1>11, MovesKeeps

LEMMA VaultVerdictsStep ==
  ASSUME Inv, NEW i \in Indexers, VaultVerdicts(i)
  PROVE  Inv'
<1>1. /\ UNCHANGED <<scope, now, disk, tombs, leaving, faults, late, msgs, sess, fi>>
      /\ pass' = [pass EXCEPT ![i] = Rest]
  BY DEF VaultVerdicts, Pass, Set, db
<1>2. /\ sess \in [Sessions -> Verdict]
      /\ vault \in [Sessions -> [recs: SUBSET Record, is: Verdict]]
      /\ faults \in 0..MaxFaults /\ late \subseteq Indexers
  BY PassFacts DEF Inv, Typed, TypeOK
<1>3. vault' \in [Sessions -> [recs: SUBSET Record, is: Verdict]]
  <2>1. NoCopy \in [recs: SUBSET Record, is: Verdict]
    BY DEF NoCopy, Verdict
  <2>2. "live" \in Verdict /\ "only copy" \in Verdict
    BY DEF Verdict
  <2> QED
    BY <1>2, <2>1, <2>2 DEF VaultVerdicts
<1>4. Moves(i, Rest)
  BY <1>1, <1>2, RestFits DEF Moves
<1> QED
  BY <1>1, <1>2, <1>3, <1>4, QuietKeeps

LEMMA KillStep ==
  ASSUME Inv, NEW i \in Indexers, Kill(i)
  PROVE  Inv'
<1>1. /\ UNCHANGED <<scope, now, disk, tombs, leaving, msgs, sess, fi>>
      /\ pass' = [pass EXCEPT ![i] = Rest] /\ faults < MaxFaults /\ faults' = faults + 1
      /\ late' = late \ {i}
      /\ vault' \in IF pass[i].pc = "tx" /\ Copyable(i) /\ (pass[i].kind = "full" \/ Current(i))
                THEN {vault, Vaulted(i, IF pass[i].kind = "full" THEN FullRows(i) ELSE TailRows(i))}
                ELSE {vault}
  BY DEF Kill, Set, db
<1>2. /\ sess \in [Sessions -> Verdict] /\ PassTyped(pass[i])
      /\ vault \in [Sessions -> [recs: SUBSET Record, is: Verdict]]
      /\ faults \in 0..MaxFaults /\ late \subseteq Indexers
  BY PassFacts DEF Inv, Typed, TypeOK
<1>3. vault' \in [Sessions -> [recs: SUBSET Record, is: Verdict]]
  <2>1. CASE pass[i].pc = "tx"
    <3>1. pass[i].f \in Files
      BY <1>2, <2>1 DEF PassTyped
    <3> DEFINE rows == IF pass[i].kind = "full" THEN FullRows(i) ELSE TailRows(i)
    <3>2. rows \in SUBSET (Record \X (Nat \ {0}))
      BY <2>1, FullRowsOf, TailRowsOf
    <3>3. vault' = vault \/ vault' = Vaulted(i, rows)
      BY <1>1
    <3> HIDE DEF rows
    <3> QED
      BY <1>2, <3>1, <3>2, <3>3, VaultedType
  <2>2. CASE pass[i].pc # "tx"
    BY <1>1, <1>2, <2>2
  <2> QED
    BY <2>1, <2>2
<1>4. faults' \in 0..MaxFaults
  BY <1>1, <1>2, BoundsType
<1>5. Moves(i, Rest)
  BY <1>1, <1>2, <1>4, RestFits DEF Moves
<1> QED
  BY <1>1, <1>2, <1>3, <1>5, QuietKeeps

-----------------------------------------------------------------------------
(* The invariant holds. *)

LEMMA NextStep == Inv /\ [Next]_vars => Inv'
<1> SUFFICES ASSUME Inv, [Next]_vars PROVE Inv'
  OBVIOUS
<1>1. CASE UNCHANGED vars
  <2>1. /\ scope' = scope /\ now' = now /\ faults' = faults /\ disk' = disk /\ tombs' = tombs
        /\ leaving' = leaving /\ msgs' = msgs /\ sess' = sess /\ fi' = fi /\ vault' = vault
        /\ pass' = pass /\ late' = late
    BY <1>1 DEF vars
  <2>2. Typed'
    BY <2>1 DEF Inv, Typed, TypeOK
  <2>3. DiskSound' /\ RowsSound' /\ MarksSound' /\ Covered' /\ PassesSound' /\ PrunesSound'
    BY <2>1 DEF Inv, DiskSound, RowsSound, MarksSound, Covered, PassesSound, PrunesSound
  <2> QED
    BY <2>2, <2>3 DEF Inv
<1>2. CASE World
  BY <1>2, OutsideStep
<1>3. ASSUME NEW i \in Indexers, Indexer(i) \/ Kill(i) PROVE Inv'
  <2>1. CASE Walk(i) \/ WalkOrphan(i)
    BY <2>1, StartStep
  <2>2. CASE Load(i) \/ LoadUnread(i)
    BY <2>2, LoadStep
  <2>3. CASE Stat(i)
    BY <2>3, StatStep
  <2>4. CASE ReadTail(i)
    BY <2>4, ReadTailStep
  <2>5. CASE ReadFull(i)
    BY <2>5, ReadFullStep
  <2>6. CASE FullTx(i)
    BY <2>6, FullTxStep
  <2>7. CASE TailTx(i)
    BY <2>7, TailTxStep
  <2>8. CASE Scan(i)
    BY <2>8, ScanStep
  <2>9. CASE Flag(i)
    BY <2>9, FlagStep
  <2>10. CASE Prune(i)
    BY <2>10, PruneStep
  <2>11. CASE PruneRow(i)
    BY <2>11, PruneRowStep
  <2>12. CASE PruneMark(i)
    BY <2>12, PruneMarkStep
  <2>13. CASE VaultVerdicts(i)
    BY <2>13, VaultVerdictsStep
  <2>14. CASE Kill(i)
    BY <2>14, KillStep
  <2> QED
    BY <1>3, <2>1, <2>2, <2>3, <2>4, <2>5, <2>6, <2>7, <2>8, <2>9, <2>10, <2>11, <2>12, <2>13, <2>14
       DEF Indexer
<1> QED
  BY <1>1, <1>2, <1>3 DEF Next

(* However many processes index the project, and whatever happens to its    *)
(* transcripts meanwhile, the passes, the rows and the watermarks fit what  *)
(* is on disk (index.go:879-999, containers.go:427-640).                    *)
THEOREM ProjectInvariant == Spec => []Inv
BY InitInv, NextStep, PTL DEF Spec

(* Every variable keeps its type.                                           *)
THEOREM ProjectTypes == Spec => []TypeOK
<1>1. Inv => TypeOK
  BY DEF Inv, Typed
<1> QED
  BY <1>1, ProjectInvariant, PTL

-----------------------------------------------------------------------------
(* What the properties follow from. *)

(* The steps that change the messages, the sessions table or the vault.     *)
Commit(i) == \/ (FullTx(i) /\ Copyable(i)) \/ (TailTx(i) /\ Current(i) /\ Copyable(i))
             \/ Flag(i) \/ Prune(i) \/ PruneRow(i) \/ VaultVerdicts(i) \/ Kill(i)

LEMMA OnlyCommits ==
  ASSUME Inv, [Next]_vars
  PROVE  (\E i \in Indexers : Commit(i)) \/ UNCHANGED <<msgs, sess, vault>>
<1>1. CASE UNCHANGED vars
  BY <1>1 DEF vars
<1>2. CASE World
  BY <1>2, WorldFacts
<1>3. ASSUME NEW i \in Indexers, Indexer(i) PROVE Commit(i) \/ UNCHANGED <<msgs, sess, vault>>
  <2>1. CASE FullTx(i)
    BY <2>1 DEF Commit, FullTx, db
  <2>2. CASE TailTx(i)
    BY <2>2 DEF Commit, TailTx, db
  <2>3. CASE Flag(i) \/ Prune(i) \/ PruneRow(i) \/ VaultVerdicts(i)
    BY <2>3 DEF Commit
  <2>4. CASE PruneMark(i)
    BY <2>4 DEF PruneMark
  <2>5. CASE LoadUnread(i)
    BY <2>5 DEF LoadUnread, db
  <2>6. CASE Walk(i) \/ WalkOrphan(i) \/ Load(i) \/ Stat(i) \/ ReadTail(i) \/ ReadFull(i) \/ Scan(i)
    <3>1. \E p : Step(i, p)
      BY <2>6 DEF Walk, WalkOrphan, Start, Load, Stat, ReadTail, ReadFull, Scan
    <3> QED
      BY <3>1 DEF Step, db
  <2> QED
    BY <1>3, <2>1, <2>2, <2>3, <2>4, <2>5, <2>6 DEF Indexer
<1>4. ASSUME NEW i \in Indexers, Kill(i) PROVE Commit(i)
  BY <1>4 DEF Commit
<1> QED
  BY <1>1, <1>2, <1>3, <1>4 DEF Next

(* A transcript that the next pass skips is indexed to its last complete    *)
(* record (index.go:905-914): the watermark of a commit is that of the stat *)
(* before the read, so that what came later makes the file look changed.    *)
THEOREM SkippedIsWhole == Spec => []SkippableIsWhole
<1>1. Inv => SkippableIsWhole
  <2> SUFFICES ASSUME Inv, NEW f \in Files, Owner[f] \notin tombs, scope.mode = "keep",
                      Unchanged(f, disk[f], fi[f])
               PROVE  Whole(f)
    BY DEF SkippableIsWhole
  <2> DEFINE t == disk[f]
             mark == fi[f]
  <2>1. t \in Transcript /\ mark \in Marks /\ MarkFits(mark, t) /\ CoveredIn(f, mark, t, msgs)
    BY DEF Inv, Typed, TypeOK, MarksSound, Covered
  <2>2. mark.at = Stamp(t)
    BY DEF Unchanged
  <2>3. Whole(f) <=> Records(f, t, 0, t.len) \subseteq Of(msgs, Owner[f])
    BY DEF Whole, Stored
  <2> HIDE DEF t, mark
  <2>4. mark.at[1] = t.gen /\ mark.at[2] = Size(t)
    BY <2>2 DEF Stamp
  <2>5. Half(mark.off) = t.len
    BY <2>1, <2>4, SizeType DEF MarkFits
  <2>6. Upto(f, t.gen, 0, t.len) \subseteq Of(msgs, Owner[f])
    BY <2>1, <2>4, <2>5 DEF CoveredIn
  <2>7. Records(f, t, 0, t.len) = Upto(f, t.gen, 0, t.len)
    BY DEF Records, Upto
  <2> QED
    BY <2>3, <2>6, <2>7
<1> QED
  BY <1>1, ProjectInvariant, PTL

(* No commit stores a second time what a watermark covers                   *)
(* (containers.go:558-571): a full read takes the session's rows away, and  *)
(* a tail is from the watermark on, or it gives way.                        *)
LEMMA CommitStoresOnce ==
  ASSUME Inv, [Next]_vars, NEW m \in msgs' \ msgs, m[2] > 1
  PROVE  2 * m[1].p > fi[m[1].f].off
<1>1. PICK i \in Indexers : Commit(i)
  BY OnlyCommits
<1> DEFINE p == pass[i]
           f == p.f
           a == Half(p.cur[f].off)
<1>2. /\ PassTyped(p) /\ p \in Passes /\ PassFits(p, disk, msgs, i \in late)
      /\ disk \in [Files -> Transcript] /\ fi \in [Files -> Marks]
  BY PassFacts
<1>3. p.pc = "tx" => \A r \in p.read : r.f = f /\ r \in Record
  BY <1>2, ReadFits
<1>4. CASE FullTx(i) /\ Copyable(i)
  <2>1. p.pc = "tx" /\ msgs' = With(Without(Owner[f]), p.read)
    BY <1>4 DEF FullTx, Pass, FullRows
  <2>2. m \in With(Without(Owner[f]), p.read) \ Without(Owner[f])
    BY <2>1, WithoutOf
  <2> HIDE DEF p, f
  <2>3. m[1] \in p.read /\ \E x \in Without(Owner[f]) : x[1] = m[1]
    BY <2>2, WithAgain
  <2>4. FALSE
    BY <1>3, <2>1, <2>3 DEF Without
  <2> QED
    BY <2>4
<1>5. CASE TailTx(i) /\ Current(i) /\ Copyable(i)
  <2>1. p.pc = "tx" /\ p.kind = "tail" /\ msgs' = With(msgs, p.read) /\ fi[f].off = p.cur[f].off
    BY <1>5 DEF TailTx, Pass, TailRows, Current
  <2>2. ReadOn(p) /\ f \in Files /\ p.stat \in Transcript
    BY <1>2, <2>1 DEF PassFits, PassTyped, Passes
  <2>3. m[1] \in p.read
    BY <2>1, WithAgain
  <2>4. m[1] \in Upto(f, p.stat.gen, a, p.stat.len) /\ m[1].f = f
    BY <1>3, <2>1, <2>2, <2>3 DEF ReadOn
  <2>5. fi[f].off \in Nat
    <3>1. fi[f] \in Marks
      BY <1>2, <2>2
    <3> HIDE DEF f
    <3> QED
      BY <3>1, BoundsType DEF Marks
  <2>6. a \in Nat /\ fi[f].off <= 2 * a + 1
    BY <2>1, <2>5, HalfType
  <2>7. PICK k \in (a + 1)..p.stat.len : m[1].p = k
    <3> HIDE DEF p, f, a
    <3> QED
      BY <2>4 DEF Upto
  <2> HIDE DEF p, f, a
  <2>8. k \in Int /\ k >= a + 1
    BY <2>2, <2>6, <2>7, SizeType, BoundsType
  <2> QED
    BY <2>4, <2>5, <2>6, <2>7, <2>8
<1>6. CASE Flag(i) \/ PruneRow(i) \/ VaultVerdicts(i) \/ Kill(i)
  BY <1>6 DEF Flag, PruneRow, VaultVerdicts, Kill, db
<1>7. CASE Prune(i)
  <2>1. \E s : msgs' = Without(s)
    BY <1>7 DEF Prune
  <2> QED
    BY <2>1, WithoutOf
<1> QED
  BY <1>1, <1>4, <1>5, <1>6, <1>7 DEF Commit

THEOREM StoredOnce == Spec => WatermarkedOnce
<1>1. Inv /\ [Next]_vars => [\A m \in msgs' \ msgs : m[2] > 1 => 2 * m[1].p > fi[m[1].f].off]_msgs
  BY CommitStoresOnce
<1> QED
  BY <1>1, ProjectInvariant, PTL DEF Spec, WatermarkedOnce

(* A prune under keep is of a session that is tombstoned.                   *)
LEMMA KeptIsNotPruned ==
  ASSUME Inv, NEW i \in Indexers, scope.mode = "keep", NEW s, s \notin tombs
  PROVE  /\ Prune(i) => Of(msgs', s) = Of(msgs, s)
         /\ PruneRow(i) /\ s \in Sessions => sess'[s] = sess[s]
         /\ <<"prune", s>> \notin pass[i].done
<1>1. /\ OnlyDeleted(pass[i], tombs) /\ sess \in [Sessions -> Verdict]
  BY PassFacts
<1>2. ASSUME Prune(i) PROVE Of(msgs', s) = Of(msgs, s)
  <2>1. PICK a \in pass[i].acts : a[1] = "prune" /\ msgs' = Without(Owner[a[2]])
    BY <1>2 DEF Prune
  <2>2. Owner[a[2]] # s
    BY <1>1, <2>1 DEF OnlyDeleted
  <2> QED
    BY <2>1, <2>2, WithoutOf
<1>3. ASSUME PruneRow(i), s \in Sessions PROVE sess'[s] = sess[s]
  BY <1>1, <1>3 DEF PruneRow, Pass, OnlyDeleted
<1>4. <<"prune", s>> \notin pass[i].done
  BY <1>1 DEF OnlyDeleted
<1> QED
  BY <1>2, <1>3, <1>4

(* A commit leaves of a kept session what it had, or something later of it. *)
LEMMA CommitKeeps ==
  ASSUME Inv, [Next]_vars, NEW s \in Sessions, scope.mode = "keep", s \notin tombs
  PROVE  /\ sess[s] # "absent" => sess'[s] # "absent"
         /\ \/ Thinning(s)
            \/ \A r \in Stored(s) : r \in Stored(s)' \/ Superseded(r, Stored(s)')
<1>1. CASE UNCHANGED <<msgs, sess, vault>>
  BY <1>1 DEF Stored
<1>2. ASSUME NEW i \in Indexers, Commit(i)
      PROVE  /\ sess[s] # "absent" => sess'[s] # "absent"
             /\ \/ Thinning(s)
                \/ \A r \in Stored(s) : r \in Stored(s)' \/ Superseded(r, Stored(s)')
  <2> DEFINE p == pass[i]
             f == p.f
             s1 == Owner[f]
  <2>1. /\ PassTyped(p) /\ p \in Passes /\ PassFits(p, disk, msgs, i \in late)
        /\ disk \in [Files -> Transcript] /\ sess \in [Sessions -> Verdict]
        /\ msgs \in SUBSET (Record \X (Nat \ {0})) /\ pass \in [Indexers -> Passes]
    BY PassFacts DEF Inv, Typed
  <2>2. Stored(s) \subseteq Record
    BY <2>1, OfRecords DEF Stored
  <2>3. CASE FullTx(i) /\ Copyable(i)
    <3>1. /\ p.pc = "tx" /\ p.kind = "full" /\ msgs' = FullRows(i)
          /\ sess' = [sess EXCEPT ![s1] = "live"] /\ pass' = [pass EXCEPT ![i] = NextFile(i)]
      BY <2>3 DEF FullTx, Pass, Set
    <3>2. sess[s] # "absent" => sess'[s] # "absent"
      BY <2>1, <3>1
    <3>3. CASE s # s1
      BY <3>1, <3>2, <3>3, FullRowsOf DEF Stored
    <3>4. CASE s = s1
      <4>1. Of(msgs', s) = p.read
        BY <3>1, <3>4, FullRowsOf
      <4>2. pass'[i] # pass[i]
        <5>1. pass'[i].pc = "files"
          BY <2>1, <3>1 DEF NextFile, Passes
        <5> QED
          BY <3>1, <5>1
      <4>3. CASE i \in late \/ p.read = {}
        <5>1. Thinning(s)
          BY <3>1, <3>4, <4>2, <4>3 DEF Thinning
        <5> QED
          BY <3>2, <5>1
      <4>4. CASE i \notin late /\ p.read # {}
        <5>1. ReadAll(p, disk[f], msgs, i \in late)
          BY <2>1, <3>1 DEF PassFits
        <5>2. PICK g \in p.stat.gen..disk[f].gen, n \in 0..MaxLen :
                /\ p.read = Upto(f, g, 0, n)
                /\ \A r \in Of(msgs, s) : r.f = f => Before(r, g, n)
          BY <3>4, <4>4, <5>1 DEF ReadAll
        <5>3. PICK q \in p.read : TRUE
          BY <4>4
        <5>4. q.f = f /\ q.g = g
          BY <5>2, <5>3 DEF Upto
        <5>5. ASSUME NEW r \in Stored(s) PROVE r \in p.read \/ Superseded(r, p.read)
          <6>1. r \in Record /\ r \in Of(msgs, s)
            BY <2>2, <5>5 DEF Stored
          <6>2. CASE r.f # f
            BY <5>3, <5>4, <6>2 DEF Superseded
          <6>3. CASE r.f = f
            <7>1. Before(r, g, n)
              BY <5>2, <6>1, <6>3
            <7>2. CASE r.g < g
              BY <5>3, <5>4, <7>2, <6>1 DEF Superseded, Record
            <7>3. CASE r.g = g /\ r.p <= n
              <8>1. r = [f |-> f, g |-> g, p |-> r.p] /\ r.p \in 1..MaxLen
                BY <6>1, <6>3, <7>3 DEF Record
              <8>2. r.p \in 1..n
                BY <5>2, <7>3, <8>1, BoundsType
              <8> HIDE DEF p, f
              <8>3. r \in Upto(f, g, 0, n)
                BY <8>1, <8>2 DEF Upto
              <8> QED
                BY <5>2, <8>3
            <7> QED
              BY <7>1, <7>2, <7>3 DEF Before
          <6> QED
            BY <6>2, <6>3
        <5> QED
          BY <3>2, <4>1, <5>5 DEF Stored
      <4> QED
        BY <4>3, <4>4
    <3> QED
      BY <3>3, <3>4
  <2>4. CASE TailTx(i) /\ Current(i) /\ Copyable(i)
    <3>1. /\ p.pc = "tx" /\ msgs' = TailRows(i)
          /\ sess' = [sess EXCEPT ![s1] = IF @ = "absent" THEN @ ELSE "live"]
      BY <2>4 DEF TailTx, Pass
    <3>2. sess[s] # "absent" => sess'[s] # "absent"
      BY <2>1, <3>1
    <3>3. Of(msgs, s) \subseteq Of(msgs', s)
      BY <3>1, TailRowsOf DEF Stored
    <3> QED
      BY <3>2, <3>3 DEF Stored
  <2>5. CASE Flag(i)
    <3>1. PICK a \in p.acts : sess' = [sess EXCEPT ![Owner[a[2]]] =
            IF @ = "absent" THEN @ ELSE IF a[1] = "stamp" THEN "only copy" ELSE "live"]
      BY <2>5 DEF Flag
    <3>2. sess[s] # "absent" => sess'[s] # "absent"
      BY <2>1, <3>1
    <3>3. msgs' = msgs
      BY <2>5 DEF Flag
    <3> QED
      BY <3>2, <3>3 DEF Stored
  <2>6. CASE Prune(i)
    BY <2>6, KeptIsNotPruned DEF Stored, Prune
  <2>7. CASE PruneRow(i)
    BY <2>7, KeptIsNotPruned DEF Stored, PruneRow
  <2>8. CASE VaultVerdicts(i) \/ Kill(i)
    BY <2>8 DEF VaultVerdicts, Kill, db, Stored
  <2> QED
    BY <1>2, <2>3, <2>4, <2>5, <2>6, <2>7, <2>8 DEF Commit
<1> QED
  BY <1>1, <1>2, OnlyCommits

(* Durable retention (retention.go:38-56), however many processes index the *)
(* project: while transcripts are kept, only the user's delete takes a      *)
(* session out of the index, and only a full read that was overtaken, or of *)
(* an empty transcript, takes a record of it.                               *)
THEOREM RetentionKeeps == Spec => HistoryIsKept
<1>1. Inv /\ [Next]_vars =>
       [\A s \in Sessions :
          scope.mode = "keep" /\ s \notin tombs /\ ~Alive(s) =>
            /\ sess[s] # "absent" => sess'[s] # "absent"
            /\ \/ Thinning(s)
               \/ \A r \in Stored(s) : r \in Stored(s)' \/ Superseded(r, Stored(s)')]_<<msgs, sess>>
  BY CommitKeeps
<1> QED
  BY <1>1, ProjectInvariant, PTL DEF Spec, HistoryIsKept

(* A vault copy of what is on disk, or of the rows, brings back the rows of  *)
(* a session that a commit leaves.                                          *)
LEMMA CopyHolds ==
  ASSUME Inv, NEW i \in Indexers, pass[i].pc = "tx", NEW rows, RowsSound', disk' = disk,
         msgs' = rows, rows \in SUBSET (Record \X (Nat \ {0})),
         \A r \in Of(rows, Owner[pass[i].f]) : r.f = pass[i].f \/ disk[pass[i].f].len > 0,
         NEW r \in Of(rows, Owner[pass[i].f])
  PROVE  r \in Copied(i, rows) \/ Superseded(r, Copied(i, rows))
<1> DEFINE f == pass[i].f
           t == disk[f]
           D == Records(f, t, 0, t.len)
<1>1. CASE scope.rendered
  BY <1>1 DEF Copied
<1>2. CASE ~scope.rendered
  <2>1. Copied(i, rows) = D
    BY <1>2 DEF Copied
  <2>2. t \in Transcript /\ Written(t)
    <3>1. f \in Files
      BY PassFacts DEF PassTyped
    <3> QED
      BY <3>1 DEF Inv, Typed, TypeOK, DiskSound
  <2>3. r \in Record /\ Fits(r, disk[r.f])
    <3>1. PICK m \in rows : m[1] = r
      BY OfMember
    <3> QED
      BY <3>1 DEF RowsSound
  <2>4. r.f = f \/ t.len > 0
    OBVIOUS
  <2>5. r.f = f => Fits(r, t)
    BY <2>3
  <2>6. D = Upto(f, t.gen, 0, t.len)
    BY DEF Records, Upto
  <2> HIDE DEF f, t, D
  <2>7. t.gen \in Nat /\ t.len \in Nat /\ r.g \in Nat /\ r.g >= 1 /\ r.p \in Nat /\ r.p >= 1
    BY <2>2, <2>3, SizeType, BoundsType DEF Record
  <2>8. ASSUME t.len > 0 PROVE \E q \in D : q.f = f /\ q.g = t.gen
    <3> DEFINE q == [f |-> f, g |-> t.gen, p |-> 1]
    <3>1. q \in D
      BY <2>6, <2>7, <2>8 DEF Upto
    <3> QED
      BY <3>1
  <2>9. CASE r.f # f
    BY <2>1, <2>4, <2>8, <2>9 DEF Superseded
  <2>10. CASE r.f = f /\ r.g < t.gen
    <3>1. t.len > 0
      BY <2>2, <2>7, <2>10 DEF Written
    <3> QED
      BY <2>1, <2>8, <2>10, <3>1 DEF Superseded
  <2>11. CASE r.f = f /\ r.g = t.gen /\ r.p <= t.len
    <3>1. r = [f |-> f, g |-> t.gen, p |-> r.p] /\ r.p \in 1..t.len
      BY <2>3, <2>7, <2>11 DEF Record
    <3>2. r \in D
      BY <2>6, <3>1 DEF Upto
    <3> QED
      BY <2>1, <3>2
  <2> QED
    BY <2>5, <2>9, <2>10, <2>11 DEF Fits
<1> QED
  BY <1>1, <1>2

(* A commit whose vault copy is of its rows, or of what is on disk.         *)
LEMMA CopyVouches ==
  ASSUME Inv, NEW i \in Indexers, pass[i].pc = "tx", NEW rows, scope.mode = "keep",
         msgs' = rows, rows \in SUBSET (Record \X (Nat \ {0})), RowsSound',
         disk' = disk, tombs' = tombs, vault' = Vaulted(i, rows),
         \A r \in Of(rows, Owner[pass[i].f]) : r.f = pass[i].f \/ disk[pass[i].f].len > 0,
         \A s : s # Owner[pass[i].f] => Of(rows, s) = Of(msgs, s),
         NEW s \in Sessions, s \notin tombs, Vouched(s)
  PROVE  Vouched(s)'
<1> DEFINE s1 == Owner[pass[i].f]
<1>1. vault \in [Sessions -> [recs: SUBSET Record, is: Verdict]]
  BY PassFacts
<1>2. vault' = [vault EXCEPT ![s1] = [recs |-> Copied(i, rows), is |-> "live"]]
  BY DEF Vaulted
<1>3. CASE s = s1
  <2>1. Restored(s)' = Copied(i, rows)
    BY <1>1, <1>2, <1>3 DEF Restored
  <2>2. Stored(s)' = Of(rows, s)
    BY DEF Stored
  <2>3. \A r \in Of(rows, s1) : r \in Copied(i, rows) \/ Superseded(r, Copied(i, rows))
    <3> SUFFICES ASSUME NEW r \in Of(rows, s1)
                 PROVE  r \in Copied(i, rows) \/ Superseded(r, Copied(i, rows))
      OBVIOUS
    <3> QED
      BY CopyHolds
  <2> HIDE DEF s1
  <2>4. Vouched(s)' <=> \A r \in Stored(s)' : r \in Restored(s)' \/ Superseded(r, Restored(s)')
    BY DEF Vouched, Superseded
  <2> QED
    BY <1>3, <2>1, <2>2, <2>3, <2>4
<1>4. CASE s # s1
  <2>1. Restored(s)' = Restored(s)
    BY <1>1, <1>2, <1>4 DEF Restored
  <2>2. Stored(s)' = Stored(s)
    BY <1>4 DEF Stored
  <2> QED
    BY <2>1, <2>2 DEF Vouched, Superseded
<1> QED
  BY <1>3, <1>4

(* A session stays vouched for while its rows do not grow and its copy      *)
(* does not shrink.                                                         *)
LEMMA StaysVouched ==
  ASSUME NEW s, Vouched(s), Stored(s)' \subseteq Stored(s), Restored(s) \subseteq Restored(s)'
  PROVE  Vouched(s)'
BY DEF Vouched, Superseded

LEMMA CommitVouches ==
  ASSUME Inv, Inv', [Next]_vars, <<msgs, vault>>' # <<msgs, vault>>, scope.mode = "keep",
         NEW s \in Sessions, s \notin tombs, Vouched(s), faults' = faults
  PROVE  Vouched(s)'
<1>1. PICK i \in Indexers : Commit(i)
  BY OnlyCommits
<1> DEFINE p == pass[i]
           f == p.f
           t == disk[f]
<1>2. /\ PassTyped(p) /\ p \in Passes /\ PassFits(p, disk, msgs, i \in late)
      /\ disk \in [Files -> Transcript] /\ RowsSound'
      /\ vault \in [Sessions -> [recs: SUBSET Record, is: Verdict]]
      /\ faults \in Int
  BY PassFacts, BoundsType DEF Inv, Typed, TypeOK
<1>3. p.pc = "tx" => \A r \in p.read : r.f = f
  BY <1>2, ReadFits
<1>4. CASE FullTx(i) /\ Copyable(i)
  <2>1. /\ p.pc = "tx" /\ msgs' = FullRows(i) /\ vault' = Vaulted(i, FullRows(i))
        /\ disk' = disk /\ tombs' = tombs
    BY <1>4 DEF FullTx, Pass
  <2> DEFINE rows == FullRows(i)
  <2>2. /\ rows \in SUBSET (Record \X (Nat \ {0})) /\ Of(rows, Owner[f]) = p.read
        /\ \A s2 : s2 # Owner[f] => Of(rows, s2) = Of(msgs, s2)
    BY <2>1, FullRowsOf
  <2>3. \A r \in Of(rows, Owner[f]) : r.f = f \/ t.len > 0
    BY <1>3, <2>1, <2>2
  <2>4. msgs' = rows /\ vault' = Vaulted(i, rows)
    BY <2>1
  <2> HIDE DEF rows
  <2> QED
    BY <1>2, <2>1, <2>2, <2>3, <2>4, CopyVouches
<1>5. CASE TailTx(i) /\ Current(i) /\ Copyable(i)
  <2>1. /\ p.pc = "tx" /\ p.kind = "tail" /\ msgs' = TailRows(i) /\ vault' = Vaulted(i, TailRows(i))
        /\ disk' = disk /\ tombs' = tombs
    BY <1>5 DEF TailTx, Pass
  <2> DEFINE rows == TailRows(i)
  <2>2. /\ rows \in SUBSET (Record \X (Nat \ {0}))
        /\ \A s2 : s2 # Owner[f] => Of(rows, s2) = Of(msgs, s2)
    BY <2>1, TailRowsOf
  <2>3. t.len > 0
    <3>1. /\ ReadOn(p) /\ Statted(p, t) /\ f \in Files /\ p.stat \in Transcript /\ t \in Transcript
          /\ p.cur \in [p.walk -> Marks] /\ Written(t)
      BY <1>2, <2>1 DEF PassFits, PassTyped, Passes, Inv, DiskSound
    <3>2. p.cur[f].off \in Nat
      <4>1. p.cur[f] \in Marks
        BY <3>1 DEF Statted
      <4> QED
        BY <4>1, BoundsType DEF Marks
    <3>3. Half(p.cur[f].off) \in Nat /\ Half(p.cur[f].off) < p.stat.len
      BY <3>1, <3>2, HalfType DEF ReadOn
    <3> HIDE DEF t
    <3>4. /\ p.stat.len \in Nat /\ t.len \in Nat /\ t.gen \in Nat /\ p.stat.gen \in 1..t.gen
          /\ p.stat.gen = t.gen => p.stat.len <= t.len
      BY <3>1, SizeType, BoundsType, SizeOrder DEF Statted
    <3> QED
      BY <3>1, <3>3, <3>4 DEF Written
  <2>4. msgs' = rows /\ vault' = Vaulted(i, rows)
    BY <2>1
  <2> HIDE DEF rows
  <2> QED
    BY <1>2, <2>1, <2>2, <2>3, <2>4, CopyVouches
<1>6. CASE Flag(i) \/ PruneRow(i)
  BY <1>6 DEF Flag, PruneRow
<1>7. CASE Prune(i)
  <2>1. Of(msgs', s) = Of(msgs, s) /\ vault' = vault /\ tombs' = tombs
    BY <1>7, KeptIsNotPruned DEF Prune, Pass
  <2> QED
    BY <2>1, StaysVouched DEF Stored, Restored
<1>8. CASE VaultVerdicts(i)
  <2>1. msgs' = msgs /\ tombs' = tombs
    BY <1>8 DEF VaultVerdicts, Pass, db
  <2>2. /\ vault'[s].recs = vault[s].recs
        /\ vault'[s].is = vault[s].is \/ vault'[s].is # "absent"
    <3> DEFINE did(v) == {x \in Sessions : <<v, x>> \in pass[i].done}
    <3>1. s \notin did("prune")
      BY KeptIsNotPruned
    <3>2. vault'[s] = IF vault[s] = NoCopy \/ s \notin did("clear") \cup did("stamp") THEN vault[s]
            ELSE [vault[s] EXCEPT !.is = IF s \in did("clear") THEN "live" ELSE "only copy"]
      BY <1>8, <3>1 DEF VaultVerdicts
    <3> HIDE DEF did
    <3> QED
      BY <1>2, <3>2
  <2>3. Restored(s) \subseteq Restored(s)'
    BY <2>1, <2>2 DEF Restored
  <2> QED
    BY <2>1, <2>3, StaysVouched DEF Stored
<1>9. CASE Kill(i)
  BY <1>2, <1>9 DEF Kill
<1> QED
  BY <1>1, <1>4, <1>5, <1>6, <1>7, <1>8, <1>9 DEF Commit

(* The vault never falls behind the index (index.go:708-713): a copy is     *)
(* taken of what is on disk at the commit, which holds what was read or     *)
(* replaces it, or of the rows themselves.                                  *)
THEOREM VaultHolds == Spec => VaultKeepsUp
<1>1. Inv /\ Inv' /\ [Next]_vars =>
       [\A s \in Sessions :
          scope.mode = "keep" /\ s \notin tombs /\ Vouched(s) /\ faults' = faults
            => Vouched(s)']_<<msgs, vault>>
  BY CommitVouches
<1> QED
  BY <1>1, ProjectInvariant, PTL DEF Spec, VaultKeepsUp

-----------------------------------------------------------------------------
(* A pass beside which nothing happens.                                     *)

(* Of the files of a session one is served: there are two at most, of which *)
(* one replaces the other.                                                  *)
Single ==
  \A f, g \in Files : Owner[f] = Owner[g] => f = g \/ Preferred[f] = g \/ Preferred[g] = f

(* What is not kept for good is indexed by one process.                     *)
OneAtATime == \A c \in Scopes : c.mode # "keep" => \A i, j \in c.by : i = j

Pruning == {"prune row", "prune mark"}
Retention == {"retain"} \cup Pruning
Found == {f \in Files : Served(f)}

(* A session has one watermark, and f's is the only one of its session.     *)
OneMark ==
  \A f, g \in Files : fi[f] # NoMark /\ fi[g] # NoMark /\ Owner[f] = Owner[g] => f = g
OnlyMark(f) == \A g \in Files : Owner[g] = Owner[f] /\ fi[g] # NoMark => g = f

Ours == \A i \in Indexers : pass[i].pc # "idle" => i \in scope.by
Pruned(p) ==
  /\ p.pc \in Retention => \A a \in p.acts : OnlyMark(a[2])
  /\ p.pc \in Pruning => OnlyMark(p.f)
MarksGo == scope.mode # "keep" => \A i \in Indexers : Pruned(pass[i])

(* A session that nothing has cut off the prune of, or is pruning, is there *)
(* as far as its watermark says.                                            *)
Trusted(s) ==
  IF scope.mode = "keep" THEN s \notin tombs
  ELSE faults = 0 /\ \A i \in Indexers : pass[i].pc \in Pruning => Owner[pass[i].f] # s
Held ==
  \A f \in Files : Trusted(Owner[f]) /\ fi[f] # NoMark =>
    sess[Owner[f]] # "absent" /\ CoveredIn(f, fi[f], disk[f], msgs)

Base == OneMark /\ Ours /\ MarksGo /\ Held

(* How far the pass has come: the files that it has to look at still have   *)
(* the watermarks it loaded, and the others' are of what is there; then     *)
(* what its decisions do not yet say of a session is so.                    *)
Fresh(f, mark) == mark.at[1] = disk[f].gen /\ Half(mark.off) = disk[f].len
Reading(p, marks) ==
  /\ p.walk = Found /\ (p.orphan <=> Found = {}) /\ (p.orphan => scope.mode # "replica")
  /\ p.pc = "load" => p.todo = Found
  /\ p.pc # "load" =>
       /\ p.tombs = tombs
       /\ \A f \in Found : Owner[f] \notin tombs =>
            \/ Fresh(f, marks[f])
            \/ p.cur[f] = marks[f] /\ (f \in p.todo \/ (p.pc # "files" /\ f = p.f))
  /\ p.pc \in {"read", "tx"} => p.stat = disk[p.f]

Wanted(s) == s \in tombs \/ (scope.mode # "keep" /\ Found # {})
Retaining(p, marks, verdicts) ==
  /\ \A f \in Found : Owner[f] \notin tombs =>
       /\ Fresh(f, marks[f])
       /\ \A a \in p.acts : Owner[a[2]] = Owner[f] => a = <<"clear", f>>
       /\ p.pc \in Pruning => Owner[p.f] # Owner[f]
       /\ verdicts[Owner[f]] = "only copy" => <<"clear", f>> \in p.acts
  /\ \A a \in p.acts : a[1] = "clear" => a[2] \in Found
  /\ \A f \in Files : marks[f] # NoMark /\ ~Alive(Owner[f]) =>
       IF Wanted(Owner[f]) THEN <<"prune", f>> \in p.acts
       ELSE verdicts[Owner[f]] = "live" => <<"stamp", f>> \in p.acts

Orderly(p, marks, verdicts) ==
  /\ p.pc \in {"load", "files", "read", "tx"} => Reading(p, marks)
  /\ p.pc \in Retention => Retaining(p, marks, verdicts)
Undisturbed == \A i \in Indexers : i \in alone => Orderly(pass[i], fi, sess)

Settling == Base /\ Undisturbed

LEMMA SettlingInit == Init => Settling
<1> SUFFICES ASSUME Init PROVE Settling
  OBVIOUS
<1>1. /\ \A f \in Files : fi[f] = NoMark
      /\ \A i \in Indexers : pass[i] = Rest
      /\ alone = {}
  BY DEF Init
<1>2. Rest.pc = "idle"
  BY DEF Rest
<1> QED
  BY <1>1, <1>2 DEF Settling, Base, OneMark, Ours, MarksGo, Pruned, Retention, Pruning, Held, Undisturbed

(* What trusts a session after a step of a pass trusted it before.          *)
LEMMA TrustedBefore ==
  ASSUME Inv, NEW i \in Indexers, NEW p, pass' = [pass EXCEPT ![i] = p],
         UNCHANGED <<scope, tombs>>, faults' \in Nat, faults <= faults',
         NEW s, Trusted(s)',
         scope.mode # "keep" /\ pass[i].pc \in Pruning /\ Owner[pass[i].f] = s => faults' # 0
  PROVE  Trusted(s)
<1>1. scope' = scope /\ tombs' = tombs
  OBVIOUS
<1>2. CASE scope.mode = "keep"
  BY <1>1, <1>2 DEF Trusted
<1>3. CASE scope.mode # "keep"
  <2>1. faults' = 0 /\ \A k \in Indexers : pass'[k].pc \in Pruning => Owner[pass'[k].f] # s
    BY <1>1, <1>3 DEF Trusted
  <2>2. faults \in Nat
    BY BoundsType DEF Inv, Typed, TypeOK
  <2>3. faults = 0
    BY <2>1, <2>2
  <2>4. ASSUME NEW k \in Indexers, pass[k].pc \in Pruning PROVE Owner[pass[k].f] # s
    <3>1. CASE k = i
      BY <1>3, <2>1, <2>4, <3>1
    <3>2. CASE k # i
      <4>1. pass'[k] = pass[k]
        BY <3>2 DEF Inv, Typed
      <4> QED
        BY <2>1, <2>4, <4>1
    <3> QED
      BY <3>1, <3>2
  <2> QED
    BY <1>3, <2>3, <2>4 DEF Trusted
<1> QED
  BY <1>2, <1>3

(* The processes: who runs a pass may, and with one process at most there   *)
(* are no other decisions.                                                  *)
LEMMA OursOn ==
  ASSUME Inv, Base, OneAtATime, NEW i \in Indexers, NEW p, pass' = [pass EXCEPT ![i] = p],
         scope' = scope, i \in scope.by,
         scope.mode # "keep" => p.pc \notin Retention \/ Pruned(pass[i])'
  PROVE  Ours' /\ MarksGo'
<1>1. pass \in [Indexers -> Passes] /\ scope \in Scopes
  BY DEF Inv, Typed, TypeOK
<1>2. \A k \in Indexers : pass'[k] = IF k = i THEN p ELSE pass[k]
  BY <1>1
<1>3. Ours'
  BY <1>2 DEF Base, Ours
<1>4. MarksGo'
  <2> SUFFICES ASSUME scope.mode # "keep", NEW k \in Indexers PROVE Pruned(pass[k])'
    BY DEF MarksGo
  <2>1. CASE k # i
    <3>1. pass[k].pc = "idle"
      BY <1>1, <2>1 DEF OneAtATime, Base, Ours
    <3>2. pass'[k].pc = "idle"
      BY <1>2, <2>1, <3>1
    <3> QED
      BY <3>2 DEF Pruned, Retention, Pruning
  <2>2. CASE k = i
    <3>1. CASE p.pc \notin Retention
      <4>1. pass'[k].pc \notin Retention /\ pass'[k].pc \notin Pruning
        BY <1>2, <2>2, <3>1 DEF Retention
      <4> QED
        BY <4>1 DEF Pruned
    <3> QED
      BY <2>2, <3>1
  <2> QED
    BY <2>1, <2>2
<1> QED
  BY <1>3, <1>4

(* The others' passes are disturbed by a step of this one.                  *)
LEMMA UndisturbedOn ==
  ASSUME Inv, NEW i \in Indexers, NEW p, pass' = [pass EXCEPT ![i] = p],
         UNCHANGED <<scope, disk, tombs>>, alone' \subseteq {i},
         i \in alone' => Orderly(p, fi', sess')
  PROVE  Undisturbed'
<1>1. pass'[i] = p
  BY DEF Inv, Typed
<1>2. scope' = scope /\ disk' = disk /\ tombs' = tombs
  OBVIOUS
<1>3. Found' = Found /\ \A s : Alive(s)' = Alive(s)
  BY <1>2 DEF Found, Served, Alive
<1> SUFFICES ASSUME i \in alone' PROVE Orderly(pass[i], fi, sess)'
  BY DEF Undisturbed
<1>4. Orderly(p, fi', sess')
  OBVIOUS
<1> DEFINE marks == fi'
           verdicts == sess'
<1>5. Reading(p, marks) => Reading(pass[i], fi)'
  BY <1>1, <1>2, <1>3 DEF Reading, Fresh
<1>6. Retaining(p, marks, verdicts) => Retaining(pass[i], fi, sess)'
  BY <1>1, <1>2, <1>3 DEF Retaining, Fresh, Wanted
<1> QED
  BY <1>1, <1>4, <1>5, <1>6 DEF Orderly

(* The steps that leave the project and its index as they are.              *)
LEMMA QuietSettles ==
  ASSUME Inv, Settling, OneAtATime, NEW i \in Indexers, NEW p, pass' = [pass EXCEPT ![i] = p],
         UNCHANGED <<scope, disk, tombs, msgs, sess, fi>>, i \in scope.by,
         faults' \in Nat, faults <= faults', pass[i].pc \in Pruning => faults' # 0,
         p.pc \notin Pruning, p.pc = "retain" => \A a \in p.acts : OnlyMark(a[2]),
         alone' \subseteq {i}, i \in alone' => Orderly(p, fi, sess)
  PROVE  Settling'
<1>1. scope' = scope /\ disk' = disk /\ tombs' = tombs /\ msgs' = msgs /\ sess' = sess /\ fi' = fi
  OBVIOUS
<1>2. OneMark' /\ \A f : OnlyMark(f)' <=> OnlyMark(f)
  BY <1>1 DEF Settling, Base, OneMark, OnlyMark
<1>3. pass'[i] = p
  BY DEF Inv, Typed
<1>4. Pruned(pass[i])'
  BY <1>2, <1>3 DEF Pruned, Retention
<1>5. Ours' /\ MarksGo'
  BY <1>4, OursOn DEF Settling
<1>6. Held'
  <2> SUFFICES ASSUME NEW f \in Files, Trusted(Owner[f])', fi[f] # NoMark
               PROVE  sess[Owner[f]] # "absent" /\ CoveredIn(f, fi[f], disk[f], msgs)
    BY <1>1 DEF Held
  <2>1. UNCHANGED <<scope, tombs>>
    BY <1>1
  <2>2. Trusted(Owner[f])
    BY <2>1, TrustedBefore
  <2> QED
    BY <2>2 DEF Settling, Base, Held
<1>7. Undisturbed'
  <2>1. UNCHANGED <<scope, disk, tombs>>
    BY <1>1
  <2>2. i \in alone' => Orderly(p, fi', sess')
    BY <1>1
  <2> QED
    BY <2>1, <2>2, UndisturbedOn
<1> QED
  BY <1>2, <1>5, <1>6, <1>7 DEF Settling, Base

(* Who takes a step of a pass that has begun.                               *)
LEMMA PassGoesOn ==
  ASSUME Inv, Settling, NEW i \in Indexers, NEW pc, pc # "idle", Pass(i, pc)
  PROVE  /\ i \in scope.by /\ alone' \subseteq {i} /\ (i \in alone' => i \in alone)
         /\ i \in alone => Orderly(pass[i], fi, sess)
         /\ UNCHANGED <<scope, now, disk, tombs, leaving>> /\ faults \in Nat
BY BoundsType DEF Pass, Settling, Base, Ours, Undisturbed, Inv, Typed, TypeOK

LEMMA StartSettles ==
  ASSUME Inv, Settling, OneAtATime, NEW i \in Indexers, Walk(i) \/ WalkOrphan(i)
  PROVE  Settling'
<1>1. PICK orphan \in BOOLEAN :
        Start(i, Found, orphan) /\ (orphan <=> Found = {}) /\ (orphan => scope.mode # "replica")
  <2>1. CASE Walk(i)
    BY <2>1 DEF Walk, Found
  <2>2. CASE WalkOrphan(i)
    <3>1. Found = {}
      BY <2>2 DEF WalkOrphan, Found
    <3> QED
      BY <2>2, <3>1 DEF WalkOrphan
  <2> QED
    BY <2>1, <2>2
<1> DEFINE p == [Rest EXCEPT !.pc = "load", !.walk = Found, !.todo = Found, !.orphan = orphan]
<1>2. /\ pass' = [pass EXCEPT ![i] = p] /\ i \in scope.by /\ alone' = {i} /\ pass[i].pc = "idle"
      /\ UNCHANGED <<scope, disk, tombs, msgs, sess, fi, faults>>
  BY <1>1 DEF Start, Pass, Step, Set, db
<1>3. p.pc = "load" /\ p.walk = Found /\ p.todo = Found /\ p.orphan = orphan
  BY DEF Rest
<1> HIDE DEF p
<1>4. Orderly(p, fi, sess)
  BY <1>1, <1>3 DEF Orderly, Reading, Retention, Pruning
<1>5. faults \in Nat
  BY BoundsType DEF Inv, Typed, TypeOK
<1>6. p.pc \notin Pruning /\ pass[i].pc \notin Pruning /\ p.pc # "retain"
  BY <1>2, <1>3 DEF Pruning
<1>7. UNCHANGED <<scope, disk, tombs, msgs, sess, fi>> /\ faults' = faults /\ faults <= faults'
      /\ faults' \in Nat /\ alone' \subseteq {i}
  BY <1>2, <1>5
<1> QED
  BY <1>2, <1>4, <1>6, <1>7, QuietSettles

LEMMA LoadSettles ==
  ASSUME Inv, Settling, OneAtATime, NEW i \in Indexers, Load(i) \/ LoadUnread(i)
  PROVE  Settling'
<1> DEFINE q == pass[i]
           cur == [f \in q.walk |-> fi[f]]
<1>1. PassTyped(q) /\ q \in Passes /\ faults \in Nat
  BY PassFacts, BoundsType DEF Inv, Typed, TypeOK
<1>2. CASE Load(i)
  <2> DEFINE p == [q EXCEPT !.pc = "files", !.tombs = tombs, !.cur = cur]
  <2>1. /\ i \in scope.by /\ alone' \subseteq {i} /\ (i \in alone' => i \in alone)
        /\ i \in alone => Orderly(q, fi, sess)
        /\ UNCHANGED <<scope, disk, tombs>> /\ q.pc = "load"
    <3>1. Pass(i, "load")
      BY <1>2 DEF Load
    <3> QED
      BY <3>1, PassGoesOn DEF Pass
  <2>2. /\ pass' = [pass EXCEPT ![i] = p] /\ UNCHANGED <<msgs, sess, fi, faults>>
    BY <1>2 DEF Load, Step, Set, db
  <2>3. /\ p.pc = "files" /\ p.tombs = tombs /\ p.cur = cur /\ p.walk = q.walk /\ p.todo = q.todo
        /\ p.orphan = q.orphan
    BY <1>1 DEF Passes
  <2> HIDE DEF p
  <2>4. Orderly(q, fi, sess) => Orderly(p, fi, sess)
    <3> SUFFICES ASSUME Orderly(q, fi, sess) PROVE Orderly(p, fi, sess)
      OBVIOUS
    <3>1. Reading(q, fi) /\ q.todo = Found /\ q.walk = Found
      BY <2>1 DEF Orderly, Reading
    <3>2. \A f \in Found : cur[f] = fi[f]
      BY <3>1
    <3> HIDE DEF cur, q
    <3>3. Reading(p, fi)
      BY <2>3, <3>1, <3>2 DEF Reading
    <3> QED
      BY <2>3, <3>3 DEF Orderly, Retention, Pruning
  <2>5. p.pc \notin Pruning /\ q.pc \notin Pruning /\ p.pc # "retain"
    BY <2>1, <2>3 DEF Pruning
  <2>6. UNCHANGED <<scope, disk, tombs, msgs, sess, fi>> /\ faults <= faults' /\ faults' \in Nat
    BY <1>1, <2>1, <2>2
  <2>7. i \in alone' => Orderly(p, fi, sess)
    BY <2>1, <2>4
  <2> HIDE DEF q
  <2> QED
    BY <2>1, <2>2, <2>5, <2>6, <2>7, QuietSettles DEF q
<1>3. CASE LoadUnread(i)
  <2> DEFINE p == [q EXCEPT !.pc = "files", !.cur = cur]
  <2>1. /\ pass' = [pass EXCEPT ![i] = p] /\ UNCHANGED <<scope, disk, tombs, msgs, sess, fi>>
        /\ faults' = faults + 1 /\ alone' = {} /\ q.pc = "load"
    BY <1>3 DEF LoadUnread, Set, db, world
  <2>2. p.pc = "files"
    BY <1>1 DEF Passes
  <2> HIDE DEF p
  <2>3. i \in scope.by
    BY <2>1 DEF Settling, Base, Ours
  <2>4. p.pc \notin Pruning /\ q.pc \notin Pruning /\ p.pc # "retain"
    BY <2>1, <2>2 DEF Pruning
  <2>5. faults <= faults' /\ faults' \in Nat /\ alone' \subseteq {i} /\ i \notin alone'
    BY <1>1, <2>1
  <2> HIDE DEF q
  <2> QED
    BY <2>1, <2>3, <2>4, <2>5, QuietSettles DEF q
<1> QED
  BY <1>2, <1>3

(* A watermark with the stamp of the file is of what is there.              *)
LEMMA StampIsFresh ==
  ASSUME NEW f \in Files, disk \in [Files -> Transcript], NEW mark, MarkFits(mark, disk[f]),
         mark.at = Stamp(disk[f])
  PROVE  Fresh(f, mark)
<1>1. disk[f] \in Transcript
  OBVIOUS
<1>2. mark.at[1] = disk[f].gen /\ mark.at[2] = Size(disk[f])
  BY DEF Stamp
<1>3. Half(Size(disk[f])) = disk[f].len
  BY <1>1, SizeType
<1> QED
  BY <1>2, <1>3 DEF Fresh, MarkFits

LEMMA StatSettles ==
  ASSUME Inv, Settling, OneAtATime, NEW i \in Indexers, Stat(i)
  PROVE  Settling'
<1> DEFINE q == pass[i]
<1>1. PICK f \in q.todo :
       LET p == [q EXCEPT !.todo = @ \ {f}] IN
       IF ~disk[f].on \/ Owner[f] \in p.tombs \/ Unchanged(f, disk[f], p.cur[f])
       THEN Step(i, p)
       ELSE Step(i, [p EXCEPT !.pc = "read", !.f = f, !.stat = disk[f]])
  BY DEF Stat
<1> DEFINE p1 == [q EXCEPT !.todo = q.todo \ {f}]
           p2 == [p1 EXCEPT !.pc = "read", !.f = f, !.stat = disk[f]]
           skipped == ~disk[f].on \/ Owner[f] \in q.tombs \/ Unchanged(f, disk[f], q.cur[f])
<1>2. /\ i \in scope.by /\ alone' \subseteq {i} /\ (i \in alone' => i \in alone)
      /\ i \in alone => Orderly(q, fi, sess)
      /\ UNCHANGED <<scope, disk, tombs>> /\ q.pc = "files" /\ faults \in Nat
  <2>1. Pass(i, "files")
    BY DEF Stat
  <2> QED
    BY <2>1, PassGoesOn DEF Pass
<1>3. /\ PassTyped(q) /\ q \in Passes /\ PassFits(q, disk, msgs, i \in late)
      /\ disk \in [Files -> Transcript]
  BY PassFacts
<1>4. f \in q.walk /\ q.walk \subseteq Files /\ \A g \in q.walk : MarkFits(q.cur[g], disk[g])
  BY <1>2, <1>3 DEF PassFits, Passes
<1>5. /\ p1.pc = "files" /\ p1.todo = q.todo \ {f} /\ p1.tombs = q.tombs /\ p1.cur = q.cur
      /\ p1.walk = q.walk /\ p1.orphan = q.orphan
      /\ p2.pc = "read" /\ p2.todo = q.todo \ {f} /\ p2.tombs = q.tombs /\ p2.cur = q.cur
      /\ p2.walk = q.walk /\ p2.orphan = q.orphan /\ p2.f = f /\ p2.stat = disk[f]
  BY <1>2, <1>3 DEF Passes
<1>6. (skipped /\ Step(i, p1)) \/ (~skipped /\ Step(i, p2))
  BY <1>1, <1>5
<1>7. PICK p : /\ Step(i, p)
               /\ (p = p1 /\ skipped) \/ p = p2
  BY <1>6
<1> HIDE DEF p1, p2
<1>8. Orderly(q, fi, sess) => Orderly(p, fi, sess)
  <2> SUFFICES ASSUME Reading(q, fi) PROVE Reading(p, fi) /\ p.pc \in {"files", "read"}
    BY <1>2 DEF Orderly, Retention, Pruning
  <2>1. /\ q.walk = Found /\ (q.orphan <=> Found = {}) /\ (q.orphan => scope.mode # "replica")
        /\ q.tombs = tombs
        /\ \A g \in Found : Owner[g] \notin tombs =>
             Fresh(g, fi[g]) \/ (q.cur[g] = fi[g] /\ g \in q.todo)
    BY <1>2 DEF Reading
  <2>2. f \in Found /\ f \in Files /\ disk[f].on
    BY <1>4, <2>1 DEF Found, Served
  <2>3. CASE p = p1 /\ skipped
    <3>1. Owner[f] \notin tombs => Fresh(f, fi[f])
      <4> SUFFICES ASSUME Owner[f] \notin tombs, ~Fresh(f, fi[f]) PROVE FALSE
        OBVIOUS
      <4>1. q.cur[f] = fi[f] /\ Unchanged(f, disk[f], q.cur[f])
        BY <2>1, <2>2, <2>3
      <4>2. fi[f].at = Stamp(disk[f]) /\ MarkFits(fi[f], disk[f])
        BY <1>4, <4>1 DEF Unchanged
      <4> QED
        BY <1>3, <2>2, <4>2, StampIsFresh
    <3> HIDE DEF q, skipped
    <3> QED
      BY <1>5, <2>1, <2>3, <3>1 DEF Reading
  <2>4. CASE p = p2
    <3> HIDE DEF q, skipped
    <3> QED
      BY <1>5, <2>1, <2>4 DEF Reading
  <2> QED
    BY <1>7, <2>3, <2>4
<1>9. /\ pass' = [pass EXCEPT ![i] = p] /\ UNCHANGED <<scope, disk, tombs, msgs, sess, fi>>
      /\ faults <= faults' /\ faults' \in Nat
  BY <1>2, <1>7 DEF Step, Set, db
<1>10. p.pc \notin Pruning /\ q.pc \notin Pruning /\ p.pc # "retain"
  BY <1>2, <1>5, <1>7 DEF Pruning
<1>11. i \in alone' => Orderly(p, fi, sess)
  BY <1>2, <1>8
<1> HIDE DEF q
<1> QED
  BY <1>2, <1>9, <1>10, <1>11, QuietSettles DEF q

(* A pass is done with the file that it statted.                            *)
LEMMA NextFileReads ==
  ASSUME Inv, NEW i \in Indexers, pass[i].pc \in {"read", "tx"}, NEW marks,
         \A f \in Found : Owner[f] \notin tombs =>
           Fresh(f, marks[f]) \/ (pass[i].cur[f] = marks[f] /\ f \in pass[i].todo),
         Reading(pass[i], fi)
  PROVE  \A verdicts : Orderly(NextFile(i), marks, verdicts)
<1> DEFINE q == pass[i]
           p == NextFile(i)
<1>1. q \in Passes
  BY PassFacts
<1>2. /\ p.pc = "files" /\ p.todo = q.todo /\ p.walk = q.walk /\ p.cur = q.cur
      /\ p.tombs = q.tombs /\ p.orphan = q.orphan
  BY <1>1 DEF NextFile, Passes
<1>3. /\ q.walk = Found /\ (q.orphan <=> Found = {}) /\ (q.orphan => scope.mode # "replica")
      /\ q.tombs = tombs
  BY DEF Reading
<1> HIDE DEF p, q
<1>4. Reading(p, marks)
  BY <1>2, <1>3 DEF Reading, q
<1> QED
  BY <1>2, <1>4 DEF Orderly, Retention, Pruning, p

LEMMA ReadSettles ==
  ASSUME Inv, Settling, OneAtATime, NEW i \in Indexers, ReadTail(i) \/ ReadFull(i)
  PROVE  Settling'
<1> DEFINE q == pass[i]
           f == q.f
<1>1. Pass(i, "read")
  BY DEF ReadTail, ReadFull
<1>2. /\ i \in scope.by /\ alone' \subseteq {i} /\ (i \in alone' => i \in alone)
      /\ i \in alone => Orderly(q, fi, sess)
      /\ UNCHANGED <<scope, disk, tombs>> /\ q.pc = "read" /\ faults \in Nat
  BY <1>1, PassGoesOn DEF Pass
<1>3. /\ PassTyped(q) /\ q \in Passes /\ PassFits(q, disk, msgs, i \in late)
      /\ disk \in [Files -> Transcript]
  BY PassFacts
<1>4. f \in Files /\ f \in q.walk /\ q.stat \in Transcript /\ q.stat.on /\ q.cur[f] \in Marks
  BY <1>2, <1>3 DEF PassTyped, PassFits, Passes, Statted
<1> DEFINE done == \/ ReadTail(i) /\ Half(Size(q.stat)) = Half(q.cur[f].off)
                   \/ ReadFull(i) /\ ~disk[f].on
<1>5. PICK p : Step(i, p) /\ \/ p = NextFile(i) /\ done
                             \/ \E kind, off, R : p = Having(i, kind, off, R)
  <2>1. CASE ReadTail(i)
    BY <2>1 DEF ReadTail, Having, Half
  <2>2. CASE ReadFull(i)
    BY <2>2 DEF ReadFull, Having
  <2> QED
    BY <2>1, <2>2
<1>6. i \in alone => Orderly(p, fi, sess) /\ p.pc \in {"files", "tx"}
  <2> SUFFICES ASSUME Reading(q, fi) PROVE Orderly(p, fi, sess) /\ p.pc \in {"files", "tx"}
    BY <1>2 DEF Orderly
  <2>1. /\ q.walk = Found /\ q.stat = disk[f] /\ disk[f].on
        /\ \A g \in Found : Owner[g] \notin tombs =>
             Fresh(g, fi[g]) \/ (q.cur[g] = fi[g] /\ (g \in q.todo \/ g = f))
    <3>1. q.walk = Found /\ q.stat = disk[f]
      BY <1>2 DEF Reading
    <3>2. disk[f].on
      BY <1>4, <3>1
    <3> QED
      BY <1>2, <3>1, <3>2 DEF Reading
  <2>2. CASE p = NextFile(i) /\ done
    <3>1. ReadTail(i) /\ Half(Size(disk[f])) = Half(q.cur[f].off)
      BY <2>1, <2>2
    <3>2. q.cur[f].at[1] = disk[f].gen
      BY <3>1 DEF ReadTail, Grew
    <3>3. Fresh(f, q.cur[f])
      <4>1. Half(Size(disk[f])) = disk[f].len
        BY <1>3, <1>4, SizeType
      <4> QED
        BY <3>1, <3>2, <4>1 DEF Fresh
    <3>4. \A g \in Found : Owner[g] \notin tombs =>
            Fresh(g, fi[g]) \/ (q.cur[g] = fi[g] /\ g \in q.todo)
      BY <2>1, <3>3
    <3>5. NextFile(i).pc = "files"
      BY <1>3 DEF NextFile, Passes
    <3> QED
      BY <1>2, <2>2, <3>4, <3>5, NextFileReads
  <2>3. ASSUME NEW kind, NEW off, NEW R, p = Having(i, kind, off, R)
        PROVE  Orderly(p, fi, sess) /\ p.pc = "tx"
    <3>1. /\ p.pc = "tx" /\ p.todo = q.todo /\ p.walk = q.walk /\ p.cur = q.cur
          /\ p.tombs = q.tombs /\ p.orphan = q.orphan /\ p.f = q.f /\ p.stat = q.stat
      BY <1>3, <2>3 DEF Having, Passes
    <3> HIDE DEF q
    <3>2. Reading(p, fi)
      BY <1>2, <2>1, <3>1 DEF Reading
    <3> QED
      BY <3>1, <3>2 DEF Orderly, Retention, Pruning
  <2> QED
    BY <1>5, <2>2, <2>3
<1>7. p.pc \in {"files", "tx"}
  BY <1>3, <1>5 DEF NextFile, Having, Passes
<1>8. /\ pass' = [pass EXCEPT ![i] = p] /\ UNCHANGED <<scope, disk, tombs, msgs, sess, fi>>
      /\ faults <= faults' /\ faults' \in Nat
  BY <1>2, <1>5 DEF Step, Set, db
<1>9. p.pc \notin Pruning /\ q.pc \notin Pruning /\ p.pc # "retain"
  BY <1>2, <1>7 DEF Pruning
<1>10. i \in alone' => Orderly(p, fi, sess)
  BY <1>2, <1>6
<1> HIDE DEF q, done
<1> QED
  BY <1>2, <1>8, <1>9, <1>10, QuietSettles DEF q

(* What is found of a session has its watermark. *)
LEMMA FreshIsMarked ==
  ASSUME Inv, NEW f \in Found, NEW mark, Fresh(f, mark)
  PROVE  mark # NoMark
<1>1. f \in Files /\ disk[f].on /\ Written(disk[f])
  BY DEF Found, Served, Inv, DiskSound
<1>2. disk[f].gen # 0
  BY <1>1 DEF Written, Unwritten
<1>3. NoMark.at[1] = 0
  BY DEF NoMark
<1> QED
  BY <1>2, <1>3 DEF Fresh

LEMMA ScanSettles ==
  ASSUME Inv, Settling, OneAtATime, NEW i \in Indexers, Scan(i)
  PROVE  Settling'
<1> DEFINE q == pass[i]
           act(f) == DecideRetention(f \in q.walk, Owner[f] \in q.tombs,
                       scope.mode # "replica" \/ sess[Owner[f]] = "absent",
                       sess[Owner[f]] = "only copy",
                       scope.mode = "mirror" /\ ~q.orphan, scope.mode = "replica")
           marked == {g \in Files : fi[g] # NoMark}
           all == {<<act(f), f>> : f \in marked}
           acts == {a \in all : a[1] # "none"}
           p == [Rest EXCEPT !.pc = "retain", !.acts = acts]
<1>1. /\ i \in scope.by /\ alone' \subseteq {i} /\ (i \in alone' => i \in alone)
      /\ i \in alone => Orderly(q, fi, sess)
      /\ UNCHANGED <<scope, disk, tombs>> /\ q.pc = "files" /\ faults \in Nat /\ q.todo = {}
  <2>1. Pass(i, "files")
    BY DEF Scan
  <2> QED
    BY <2>1, PassGoesOn DEF Pass, Scan
<1>2. Step(i, p)
  BY DEF Scan
<1>3. \A f : /\ f \in q.walk => act(f) = IF sess[Owner[f]] = "only copy" THEN "clear" ELSE "none"
             /\ f \notin q.walk /\ (scope.mode = "replica" \/ Owner[f] \in q.tombs) => act(f) = "prune"
             /\ f \notin q.walk /\ scope.mode = "mirror" /\ ~q.orphan => act(f) = "prune"
             /\ f \notin q.walk /\ scope.mode # "replica" /\ Owner[f] \notin q.tombs
                  /\ (scope.mode # "mirror" \/ q.orphan) /\ sess[Owner[f]] = "live" => act(f) = "stamp"
             /\ act(f) = "clear" => f \in q.walk
  BY DEF DecideRetention
<1> HIDE DEF act
<1>4. /\ \A a \in acts : \E f \in marked : a = <<act(f), f>> /\ act(f) # "none"
      /\ \A f \in marked : act(f) # "none" => <<act(f), f>> \in acts
  OBVIOUS
<1>5. \A a \in acts : a[2] \in marked /\ a = <<act(a[2]), a[2]>> /\ a[1] = act(a[2]) /\ a[1] # "none"
  BY <1>4
<1> HIDE DEF acts, all
<1>6. p.pc = "retain" /\ p.acts = acts
  BY DEF Rest
<1> HIDE DEF p
<1>7. OneMark
  BY DEF Settling, Base
<1>8. \A a \in acts : OnlyMark(a[2])
  BY <1>5, <1>7 DEF OneMark, OnlyMark
<1>9. Reading(q, fi) => Orderly(p, fi, sess)
  <2> SUFFICES ASSUME Reading(q, fi) PROVE Retaining(p, fi, sess)
    BY <1>6 DEF Orderly, Retention
  <2>1. /\ q.walk = Found /\ (q.orphan <=> Found = {}) /\ (q.orphan => scope.mode # "replica")
        /\ q.tombs = tombs
        /\ \A g \in Found : Owner[g] \notin tombs => Fresh(g, fi[g])
    BY <1>1 DEF Reading
  <2>2. ASSUME NEW f \in Found, Owner[f] \notin tombs
        PROVE  /\ \A a \in acts : Owner[a[2]] = Owner[f] => a = <<"clear", f>>
               /\ sess[Owner[f]] = "only copy" => <<"clear", f>> \in acts
    <3>1. f \in marked /\ f \in Files
      BY <2>1, <2>2, FreshIsMarked DEF Found
    <3>2. ASSUME NEW a \in acts, Owner[a[2]] = Owner[f] PROVE a = <<"clear", f>>
      <4>1. a[2] = f
        BY <1>5, <1>7, <3>1, <3>2 DEF OneMark
      <4>2. act(f) = "clear"
        BY <1>3, <1>5, <2>1, <4>1
      <4> QED
        BY <1>5, <4>1, <4>2
    <3>3. ASSUME sess[Owner[f]] = "only copy" PROVE <<"clear", f>> \in acts
      <4>1. act(f) = "clear"
        BY <1>3, <2>1, <3>3
      <4> QED
        BY <1>4, <3>1, <4>1
    <3> QED
      BY <3>2, <3>3
  <2>3. \A a \in acts : a[1] = "clear" => a[2] \in Found
    BY <1>3, <1>5, <2>1
  <2>4. ASSUME NEW f \in Files, fi[f] # NoMark, ~Alive(Owner[f])
        PROVE  IF Wanted(Owner[f]) THEN <<"prune", f>> \in acts
               ELSE sess[Owner[f]] = "live" => <<"stamp", f>> \in acts
    <3>1. f \notin q.walk /\ f \in marked
      BY <2>1, <2>4 DEF Found, Alive, FilesOf
    <3>2. scope.mode \in {"keep", "mirror", "replica"}
      BY IndexAssumption DEF Inv, Typed, TypeOK
    <3>3. CASE Wanted(Owner[f])
      <4>1. act(f) = "prune"
        BY <1>3, <2>1, <3>1, <3>2, <3>3 DEF Wanted
      <4> QED
        BY <1>4, <3>1, <3>3, <4>1
    <3>4. CASE ~Wanted(Owner[f])
      <4> SUFFICES ASSUME sess[Owner[f]] = "live" PROVE <<"stamp", f>> \in acts
        BY <3>4
      <4>1. act(f) = "stamp"
        BY <1>3, <2>1, <3>1, <3>2, <3>4 DEF Wanted
      <4> QED
        BY <1>4, <3>1, <4>1
    <3> QED
      BY <3>3, <3>4
  <2>5. p.pc \notin Pruning
    BY <1>6 DEF Pruning
  <2> QED
    BY <1>6, <2>1, <2>2, <2>3, <2>4, <2>5 DEF Retaining
<1>10. /\ pass' = [pass EXCEPT ![i] = p] /\ UNCHANGED <<scope, disk, tombs, msgs, sess, fi>>
       /\ faults <= faults' /\ faults' \in Nat
  BY <1>1, <1>2 DEF Step, Set, db
<1>11. p.pc \notin Pruning /\ q.pc \notin Pruning
  BY <1>1, <1>6 DEF Pruning
<1>12. i \in alone' => Orderly(p, fi, sess)
  BY <1>1, <1>9 DEF Orderly
<1> HIDE DEF q
<1> QED
  BY <1>1, <1>6, <1>8, <1>10, <1>11, <1>12, QuietSettles DEF q

(* A pass that ends, or is cut off. *)
LEMMA EndSettles ==
  ASSUME Inv, Settling, OneAtATime, NEW i \in Indexers, pass[i].pc # "idle",
         pass' = [pass EXCEPT ![i] = Rest], UNCHANGED <<scope, disk, tombs, msgs, sess, fi>>,
         faults' \in Nat, faults <= faults', pass[i].pc \in Pruning => faults' # 0,
         alone' \subseteq {i}
  PROVE  Settling'
<1>1. Rest.pc = "idle"
  BY DEF Rest
<1>2. i \in scope.by
  BY DEF Settling, Base, Ours
<1>3. \A marks, verdicts : Orderly(Rest, marks, verdicts)
  BY <1>1 DEF Orderly, Retention, Pruning
<1>4. Rest.pc \notin Pruning /\ Rest.pc # "retain"
  BY <1>1 DEF Pruning
<1> QED
  BY <1>2, <1>3, <1>4, QuietSettles

LEMMA EndsSettle ==
  ASSUME Inv, Settling, OneAtATime, NEW i \in Indexers, VaultVerdicts(i) \/ Kill(i)
  PROVE  Settling'
<1>1. faults \in Nat
  BY BoundsType DEF Inv, Typed, TypeOK
<1>2. CASE VaultVerdicts(i)
  <2>1. /\ pass' = [pass EXCEPT ![i] = Rest] /\ UNCHANGED <<scope, disk, tombs, msgs, sess, fi>>
        /\ faults' = faults /\ alone' \subseteq {i} /\ pass[i].pc = "retain"
    BY <1>2 DEF VaultVerdicts, Pass, Set, db
  <2>2. faults' \in Nat /\ faults <= faults' /\ pass[i].pc \notin Pruning /\ pass[i].pc # "idle"
    BY <1>1, <2>1 DEF Pruning
  <2> QED
    BY <2>1, <2>2, EndSettles
<1>3. CASE Kill(i)
  <2>1. /\ pass' = [pass EXCEPT ![i] = Rest] /\ UNCHANGED <<scope, disk, tombs, msgs, sess, fi>>
        /\ faults' = faults + 1 /\ alone' = {} /\ pass[i].pc # "idle"
    BY <1>3 DEF Kill, Set, db
  <2>2. faults' \in Nat /\ faults <= faults' /\ faults' # 0 /\ alone' \subseteq {i}
    BY <1>1, <2>1
  <2> QED
    BY <2>1, <2>2, EndSettles
<1> QED
  BY <1>2, <1>3

Committing(i) == (FullTx(i) \/ (TailTx(i) /\ Current(i))) /\ Copyable(i)

(* What a commit leaves of the sessions and their watermarks. *)
LEMMA CommitMarks ==
  ASSUME Inv, NEW i \in Indexers, Committing(i)
  PROVE  LET p == pass[i]  f == p.f  s1 == Owner[f] IN
         /\ Pass(i, "tx") /\ f \in Files /\ p.stat.on /\ f \in p.walk
         /\ pass' = [pass EXCEPT ![i] = NextFile(i)] /\ faults' = faults
         /\ fi'[f].at[1] = p.stat.gen /\ Half(fi'[f].off) = p.stat.len
         /\ \A g \in Files : g # f => fi'[g] = IF Owner[g] = s1 THEN NoMark ELSE fi[g]
         /\ \A s : s # s1 => sess'[s] = sess[s] /\ Of(msgs', s) = Of(msgs, s)
         /\ IF TailTx(i)
            THEN /\ fi[f] # NoMark /\ (sess[s1] # "absent" => sess'[s1] = "live")
                 /\ CoveredIn(f, fi[f], disk[f], msgs) => CoveredIn(f, fi'[f], disk[f], msgs')
            ELSE sess'[s1] = "live" /\ CoveredIn(f, fi'[f], disk[f], msgs')
<1> DEFINE p == pass[i]
           f == p.f
           t == disk[f]
           s1 == Owner[f]
           a == Half(p.cur[f].off)
<1>1. Pass(i, "tx") /\ p.pc = "tx"
  BY DEF Committing, FullTx, TailTx, Pass
<1>2. /\ PassTyped(p) /\ p \in Passes /\ PassFits(p, disk, msgs, i \in late)
      /\ disk \in [Files -> Transcript] /\ fi \in [Files -> Marks] /\ sess \in [Sessions -> Verdict]
  BY PassFacts
<1>3. /\ f \in Files /\ t \in Transcript /\ p.stat \in Transcript /\ Statted(p, t)
      /\ p.stat.gen \in 1..t.gen /\ p.stat.len \in Nat /\ Half(Size(p.stat)) = p.stat.len
      /\ p.stat.on /\ f \in p.walk /\ t.gen \in Int /\ s1 \in Sessions
  <2>1. /\ f \in Files /\ t \in Transcript /\ p.stat \in Transcript /\ Statted(p, t)
    BY <1>1, <1>2 DEF PassTyped, PassFits, Passes
  <2> HIDE DEF p, t
  <2> QED
    BY <2>1, SizeType, BoundsType, OwnerIsSession DEF Statted
<1>4. CASE FullTx(i)
  <2>1. /\ msgs' = FullRows(i) /\ sess' = [sess EXCEPT ![s1] = "live"]
        /\ fi' = Marked(f, MarkRead(i)) /\ pass' = [pass EXCEPT ![i] = NextFile(i)]
        /\ faults' = faults /\ p.kind = "full"
    BY <1>4 DEF FullTx, Set, Committing
  <2>2. Of(msgs', s1) = p.read /\ \A s : s # s1 => Of(msgs', s) = Of(msgs, s)
    BY <1>1, <2>1, FullRowsOf
  <2>3. MarkRead(i).at[1] = p.stat.gen /\ MarkRead(i).off = Size(p.stat)
    BY DEF MarkRead, Stamp
  <2>4. \A g \in Files : fi'[g] = IF g = f THEN MarkRead(i) ELSE IF Owner[g] = s1 THEN NoMark ELSE fi[g]
    BY <2>1 DEF Marked
  <2>5. sess'[s1] = "live" /\ \A s : s # s1 => sess'[s] = sess[s]
    BY <1>2, <1>3, <2>1
  <2>6. CoveredIn(f, fi'[f], t, msgs')
    <3> SUFFICES ASSUME p.stat.gen = t.gen PROVE Upto(f, t.gen, 0, p.stat.len) \subseteq p.read
      BY <1>3, <2>2, <2>3, <2>4 DEF CoveredIn
    <3>1. PICK g2 \in p.stat.gen..t.gen, n \in 0..MaxLen :
            p.read = Upto(f, g2, 0, n) /\ (g2 = p.stat.gen => p.stat.len <= n)
      BY <1>1, <1>2, <2>1 DEF PassFits, ReadAll
    <3>2. g2 = t.gen /\ p.stat.len <= n /\ n \in Nat
      BY <1>3, <3>1, BoundsType
    <3> HIDE DEF p, t, f
    <3> QED
      BY <1>3, <3>1, <3>2 DEF Upto
  <2>7. ~TailTx(i)
    BY <2>1 DEF TailTx
  <2> HIDE DEF p, f, t, s1
  <2> QED
    BY <1>1, <1>3, <2>1, <2>2, <2>3, <2>4, <2>5, <2>6, <2>7 DEF p, f, t, s1
<1>5. CASE TailTx(i) /\ Current(i)
  <2> DEFINE mark == [at |-> Stamp(p.stat), off |-> p.off, fp |-> checkPrefixFingerprint(t, p.off)]
  <2>1. /\ msgs' = TailRows(i)
        /\ sess' = [sess EXCEPT ![s1] = IF @ = "absent" THEN @ ELSE "live"]
        /\ fi' = Marked(f, mark) /\ pass' = [pass EXCEPT ![i] = NextFile(i)]
        /\ faults' = faults /\ p.kind = "tail"
    BY <1>5 DEF TailTx, Set, Committing
  <2>2. Of(msgs', s1) = Of(msgs, s1) \cup p.read /\ \A s : s # s1 => Of(msgs', s) = Of(msgs, s)
    BY <1>1, <2>1, TailRowsOf DEF Stored
  <2>3. ReadOn(p)
    BY <1>1, <1>2, <2>1 DEF PassFits
  <2>4. mark.at[1] = p.stat.gen /\ Half(mark.off) = p.stat.len
    <3>1. mark.at[1] = p.stat.gen /\ mark.off = 2 * p.stat.len
      BY <2>3 DEF Stamp, ReadOn
    <3> HIDE DEF mark, p
    <3> QED
      BY <1>3, <3>1, HalfOfLine
  <2> HIDE DEF mark
  <2>5. \A g \in Files : fi'[g] = IF g = f THEN mark ELSE IF Owner[g] = s1 THEN NoMark ELSE fi[g]
    BY <2>1 DEF Marked
  <2>6. (sess[s1] # "absent" => sess'[s1] = "live") /\ \A s : s # s1 => sess'[s] = sess[s]
    BY <1>2, <1>3, <2>1
  <2>7. fi[f].at[1] = p.stat.gen /\ fi[f].off = p.cur[f].off
    BY <1>5, <2>3 DEF Current, ReadOn
  <2>8. fi[f] # NoMark
    <3>1. NoMark.at[1] = 0
      BY DEF NoMark
    <3> HIDE DEF p, f, t
    <3> QED
      BY <1>3, <2>7, <3>1
  <2>9. ASSUME CoveredIn(f, fi[f], t, msgs) PROVE CoveredIn(f, fi'[f], t, msgs')
    <3> SUFFICES ASSUME p.stat.gen = t.gen
                 PROVE  Upto(f, t.gen, 0, p.stat.len) \subseteq Of(msgs, s1) \cup p.read
      BY <1>3, <2>2, <2>4, <2>5 DEF CoveredIn
    <3>1. Upto(f, t.gen, 0, a) \subseteq Of(msgs, s1)
      BY <2>7, <2>9 DEF CoveredIn
    <3>2. p.read = Upto(f, t.gen, a, p.stat.len)
      BY <2>3 DEF ReadOn
    <3>3. a \in Nat
      <4>1. p.cur[f] \in Marks
        BY <1>1, <1>2, <1>3 DEF PassTyped
      <4>2. p.cur[f].off \in Nat
        BY <4>1, BoundsType DEF Marks
      <4> QED
        BY <4>2, HalfType
    <3> HIDE DEF p, t, f, a, s1
    <3>4. Upto(f, t.gen, 0, p.stat.len) \subseteq Upto(f, t.gen, 0, a) \cup Upto(f, t.gen, a, p.stat.len)
      BY <3>3 DEF Upto
    <3> QED
      BY <3>1, <3>2, <3>4
  <2> HIDE DEF p, f, t, s1
  <2> QED
    BY <1>1, <1>3, <1>5, <2>1, <2>2, <2>4, <2>5, <2>6, <2>8, <2>9 DEF p, f, t, s1
<1> QED
  BY <1>4, <1>5 DEF Committing

(* No two of the files that are found are of the same session. *)
LEMMA FoundOnce ==
  ASSUME Single, NEW f \in Found, NEW g \in Found, Owner[f] = Owner[g]
  PROVE  f = g
<1>1. /\ f \in Files /\ disk[f].on /\ (Preferred[f] = f \/ ~disk[Preferred[f]].on)
      /\ g \in Files /\ disk[g].on /\ (Preferred[g] = g \/ ~disk[Preferred[g]].on)
  BY DEF Found, Served
<1> QED
  BY <1>1 DEF Single

(* A commit leaves its session one watermark, of the file that was read,    *)
(* which covers what it says as far as the one before it did.               *)
LEMMA CommitSettles ==
  ASSUME Inv, Settling, Single, OneAtATime, NEW i \in Indexers, Committing(i)
  PROVE  Settling'
<1> DEFINE p == pass[i]
           f == p.f
           s1 == Owner[f]
<1>1. /\ Pass(i, "tx") /\ f \in Files /\ p.stat.on /\ f \in p.walk
      /\ pass' = [pass EXCEPT ![i] = NextFile(i)] /\ faults' = faults
      /\ fi'[f].at[1] = p.stat.gen /\ Half(fi'[f].off) = p.stat.len
      /\ \A g \in Files : g # f => fi'[g] = IF Owner[g] = s1 THEN NoMark ELSE fi[g]
      /\ \A s : s # s1 => sess'[s] = sess[s] /\ Of(msgs', s) = Of(msgs, s)
      /\ IF TailTx(i)
         THEN /\ fi[f] # NoMark /\ (sess[s1] # "absent" => sess'[s1] = "live")
              /\ CoveredIn(f, fi[f], disk[f], msgs) => CoveredIn(f, fi'[f], disk[f], msgs')
         ELSE sess'[s1] = "live" /\ CoveredIn(f, fi'[f], disk[f], msgs')
  BY CommitMarks
<1>2. /\ i \in scope.by /\ alone' \subseteq {i} /\ (i \in alone' => i \in alone)
      /\ i \in alone => Orderly(p, fi, sess)
      /\ scope' = scope /\ disk' = disk /\ tombs' = tombs /\ faults \in Nat
  BY <1>1, PassGoesOn
<1>3. p.pc = "tx" /\ NextFile(i).pc = "files" /\ p \in Passes
  <2>1. p \in Passes
    BY PassFacts
  <2>2. NextFile(i).pc = "files"
    BY ONLY <2>1 DEF NextFile, Passes
  <2> QED
    BY <1>1, <2>1, <2>2 DEF Pass
<1>4. OneMark'
  <2> SUFFICES ASSUME NEW g \in Files, NEW h \in Files, fi'[g] # NoMark, fi'[h] # NoMark,
                      Owner[g] = Owner[h]
               PROVE  g = h
    BY DEF OneMark
  <2>1. CASE Owner[g] = s1
    BY <1>1, <2>1
  <2>2. CASE Owner[g] # s1
    BY <1>1, <2>2 DEF Settling, Base, OneMark
  <2> QED
    BY <2>1, <2>2
<1>5. Ours' /\ MarksGo'
  <2>1. NextFile(i).pc \notin Retention
    BY <1>3 DEF Retention, Pruning
  <2> QED
    BY <1>1, <1>2, <2>1, OursOn DEF Settling
<1>6. Held'
  <2> SUFFICES ASSUME NEW g \in Files, Trusted(Owner[g])', fi'[g] # NoMark
               PROVE  sess'[Owner[g]] # "absent" /\ CoveredIn(g, fi'[g], disk[g], msgs')
    BY <1>2 DEF Held
  <2>1. Trusted(Owner[g])
    <3>1. p.pc \notin Pruning
      BY <1>3 DEF Pruning
    <3>2. faults' \in Nat /\ faults <= faults' /\ UNCHANGED <<scope, tombs>>
      BY <1>1, <1>2
    <3> QED
      BY <1>1, <3>1, <3>2, TrustedBefore
  <2>2. fi[g] # NoMark => sess[Owner[g]] # "absent" /\ CoveredIn(g, fi[g], disk[g], msgs)
    BY <2>1 DEF Settling, Base, Held
  <2>3. CASE g = f
    BY <1>1, <2>2, <2>3
  <2>4. CASE g # f
    <3>1. Owner[g] # s1 /\ fi'[g] = fi[g]
      BY <1>1, <2>4
    <3>2. sess'[Owner[g]] = sess[Owner[g]] /\ Of(msgs', Owner[g]) = Of(msgs, Owner[g])
      BY <1>1, <3>1
    <3> QED
      BY <2>2, <3>1, <3>2 DEF CoveredIn
  <2> QED
    BY <2>3, <2>4
<1>7. i \in alone => \A verdicts : Orderly(NextFile(i), fi', verdicts)
  <2> SUFFICES ASSUME Reading(p, fi) PROVE \A verdicts : Orderly(NextFile(i), fi', verdicts)
    BY <1>2, <1>3 DEF Orderly
  <2>1. f \in Found /\ p.stat = disk[f]
    BY <1>1, <1>3 DEF Reading
  <2>2. ASSUME NEW g \in Found, Owner[g] \notin tombs
        PROVE  Fresh(g, fi'[g]) \/ (p.cur[g] = fi'[g] /\ g \in p.todo)
    <3>1. CASE g = f
      BY <1>1, <2>1, <3>1 DEF Fresh
    <3>2. CASE g # f
      <4>1. Owner[g] # s1 /\ g \in Files
        BY <2>1, <3>2, FoundOnce DEF Found
      <4>2. fi'[g] = fi[g]
        BY <1>1, <3>2, <4>1
      <4> QED
        BY <1>3, <2>2, <3>2, <4>2 DEF Reading
    <3> QED
      BY <3>1, <3>2
  <2> DEFINE marks == fi'
  <2>3. \A g \in Found : Owner[g] \notin tombs =>
           Fresh(g, marks[g]) \/ (pass[i].cur[g] = marks[g] /\ g \in pass[i].todo)
    BY <2>2
  <2>4. pass[i].pc \in {"read", "tx"} /\ Reading(pass[i], fi)
    BY <1>3
  <2> HIDE DEF marks, p
  <2>5. \A verdicts : Orderly(NextFile(i), marks, verdicts)
    BY <2>3, <2>4, NextFileReads
  <2> QED
    BY <2>5 DEF marks
<1>8. Undisturbed'
  <2>1. UNCHANGED <<scope, disk, tombs>> /\ (i \in alone' => Orderly(NextFile(i), fi', sess'))
    BY <1>2, <1>7
  <2> QED
    BY <1>1, <1>2, <2>1, UndisturbedOn
<1> QED
  BY <1>4, <1>5, <1>6, <1>8 DEF Settling, Base

LEMMA TxSettles ==
  ASSUME Inv, Settling, Single, OneAtATime, NEW i \in Indexers, FullTx(i) \/ TailTx(i)
  PROVE  Settling'
<1> DEFINE p == pass[i]
           f == p.f
<1>1. Pass(i, "tx") /\ p.pc = "tx" /\ faults' = faults
  BY DEF FullTx, TailTx, Pass
<1>2. /\ i \in scope.by /\ alone' \subseteq {i} /\ (i \in alone' => i \in alone)
      /\ i \in alone => Orderly(p, fi, sess)
      /\ UNCHANGED <<scope, disk, tombs>> /\ faults \in Nat
  BY <1>1, PassGoesOn
<1>3. faults' \in Nat /\ faults <= faults' /\ p.pc \notin Pruning
  BY <1>1, <1>2 DEF Pruning
<1>4. CASE Committing(i)
  BY <1>4, CommitSettles
<1>5. CASE FullTx(i) /\ ~Copyable(i)
  <2>1. pass' = [pass EXCEPT ![i] = Rest] /\ UNCHANGED <<msgs, sess, fi>>
    BY <1>5 DEF FullTx, Set, db
  <2> QED
    BY <1>1, <1>2, <1>3, <2>1, EndSettles
<1>6. CASE TailTx(i) /\ ~(Current(i) /\ Copyable(i))
  <2>1. pass' = [pass EXCEPT ![i] = NextFile(i)] /\ UNCHANGED <<msgs, sess, fi>>
    BY <1>6 DEF TailTx, Set, db
  <2>2. p \in Passes /\ PassFits(p, disk, msgs, i \in late)
    BY PassFacts
  <2>3. NextFile(i).pc = "files"
    BY <2>2 DEF NextFile, Passes
  <2>4. i \in alone => \A verdicts : Orderly(NextFile(i), fi, verdicts)
    <3> SUFFICES ASSUME Reading(p, fi) PROVE \A verdicts : Orderly(NextFile(i), fi, verdicts)
      BY <1>1, <1>2 DEF Orderly
    <3>1. p.stat = disk[f] /\ p.stat.on
      BY <1>1, <2>2 DEF Reading, PassFits, Statted
    <3>2. ~Current(i)
      BY <1>6, <3>1 DEF Copyable
    <3>3. p.cur[f] # fi[f]
      BY <3>2 DEF Current
    <3>4. \A g \in Found : Owner[g] \notin tombs =>
            Fresh(g, fi[g]) \/ (p.cur[g] = fi[g] /\ g \in p.todo)
      BY <1>1, <3>3 DEF Reading
    <3>5. p.pc \in {"read", "tx"}
      BY <1>1
    <3> QED
      BY <3>4, <3>5, NextFileReads
  <2>5. NextFile(i).pc \notin Pruning /\ NextFile(i).pc # "retain"
    BY <2>3 DEF Pruning
  <2>6. i \in alone' => Orderly(NextFile(i), fi, sess)
    BY <1>2, <2>4
  <2>7. UNCHANGED <<scope, disk, tombs, msgs, sess, fi>>
    BY <1>2, <2>1
  <2> HIDE DEF p
  <2> QED
    BY <1>2, <1>3, <2>1, <2>5, <2>6, <2>7, QuietSettles DEF p
<1> QED
  BY <1>4, <1>5, <1>6 DEF Committing, TailTx

(* A step of the retention pass.                                            *)
LEMMA RetentionSettles ==
  ASSUME Inv, Settling, OneAtATime, NEW i \in Indexers, NEW pc \in Retention, Pass(i, pc), faults' = faults,
         NEW p, pass' = [pass EXCEPT ![i] = p], p.pc \in Retention,
         \A f \in Files : fi'[f] # NoMark => fi'[f] = fi[f],
         scope.mode # "keep" => /\ p.acts \subseteq pass[i].acts
                                /\ p.pc \in Pruning => p.f \in Files /\ OnlyMark(p.f),
         \A f \in Files : fi'[f] # NoMark /\ Trusted(Owner[f])' =>
           /\ sess[Owner[f]] # "absent" => sess'[Owner[f]] # "absent"
           /\ Of(msgs', Owner[f]) = Of(msgs, Owner[f])
           /\ scope.mode # "keep" /\ pc \in Pruning => Owner[pass[i].f] # Owner[f],
         Retaining(pass[i], fi, sess) => Retaining(p, fi', sess')
  PROVE  Settling'
<1>1. /\ i \in scope.by /\ alone' \subseteq {i} /\ (i \in alone' => i \in alone)
      /\ i \in alone => Orderly(pass[i], fi, sess)
      /\ scope' = scope /\ disk' = disk /\ tombs' = tombs /\ faults \in Nat
      /\ pc # "idle" /\ pass[i].pc = pc
  <2>1. pc # "idle"
    BY DEF Retention, Pruning
  <2> QED
    BY <2>1, PassGoesOn DEF Pass
<1>2. OneMark' /\ \A f \in Files : OnlyMark(f) => OnlyMark(f)'
  BY DEF Settling, Base, OneMark, OnlyMark
<1>3. pass'[i] = p /\ pass[i] \in Passes
  BY DEF Inv, Typed
<1>4. Ours' /\ MarksGo'
  <2> SUFFICES ASSUME scope.mode # "keep" PROVE Pruned(pass[i])'
    BY <1>1, OursOn DEF Settling
  <2>1. Pruned(pass[i]) /\ pass[i].pc \in Retention
    BY <1>1 DEF Settling, Base, MarksGo
  <2>2. \A a \in p.acts : a[2] \in Files /\ OnlyMark(a[2])
    <3>1. pass[i].acts \in SUBSET (Verdicts \X Files)
      BY ONLY <1>3 DEF Passes
    <3> QED
      BY <2>1, <3>1 DEF Pruned
  <2> QED
    BY <1>2, <1>3, <2>2 DEF Pruned
<1>5. Held'
  <2> SUFFICES ASSUME NEW f \in Files, Trusted(Owner[f])', fi'[f] # NoMark
               PROVE  sess'[Owner[f]] # "absent" /\ CoveredIn(f, fi'[f], disk[f], msgs')
    BY <1>1 DEF Held
  <2>1. Trusted(Owner[f])
    <3>1. faults' \in Nat /\ faults <= faults' /\ UNCHANGED <<scope, tombs>>
      BY <1>1
    <3>2. ~(scope.mode # "keep" /\ pass[i].pc \in Pruning /\ Owner[pass[i].f] = Owner[f])
      BY <1>1
    <3> QED
      BY <3>1, <3>2, TrustedBefore
  <2>2. sess[Owner[f]] # "absent" /\ CoveredIn(f, fi[f], disk[f], msgs)
    BY <2>1 DEF Settling, Base, Held
  <2> QED
    BY <2>2 DEF CoveredIn
<1>6. i \in alone' => Orderly(p, fi', sess')
  BY <1>1 DEF Orderly, Retention, Pruning
<1>7. Undisturbed'
  <2>1. UNCHANGED <<scope, disk, tombs>>
    BY <1>1
  <2> QED
    BY <1>1, <1>6, <2>1, UndisturbedOn
<1> QED
  BY <1>2, <1>4, <1>5, <1>7 DEF Settling, Base

LEMMA FlagSettles ==
  ASSUME Inv, Settling, OneAtATime, NEW i \in Indexers, Flag(i)
  PROVE  Settling'
<1> DEFINE q == pass[i]
<1>1. PICK a \in q.acts :
       /\ a[1] \in {"clear", "stamp"}
       /\ sess' = [sess EXCEPT ![Owner[a[2]]] =
            IF @ = "absent" THEN @ ELSE IF a[1] = "stamp" THEN "only copy" ELSE "live"]
       /\ pass' = [pass EXCEPT ![i] = Done(i, a)]
  BY DEF Flag, Set
<1> DEFINE p == Done(i, a)
           s1 == Owner[a[2]]
           verdicts == sess'
<1>2. q \in Passes /\ sess \in [Sessions -> Verdict]
  BY PassFacts
<1>3. a[2] \in Files
  <2>1. a \in Verdicts \X Files
    BY <1>2 DEF Passes
  <2> QED
    BY <2>1
<1>4. /\ Pass(i, "retain") /\ q.pc = "retain" /\ UNCHANGED <<faults, msgs, fi>>
  BY DEF Flag, Pass
<1>5. p.pc = "retain" /\ p.acts = q.acts \ {a}
  BY <1>2, <1>4 DEF Done, Passes
<1>6. /\ \A s \in Sessions \ {s1} : verdicts[s] = sess[s]
      /\ verdicts[s1] # "live" \/ a[1] = "clear"
      /\ verdicts[s1] # "only copy" \/ a[1] = "stamp"
      /\ \A s \in Sessions : sess[s] # "absent" => verdicts[s] # "absent"
  BY <1>1, <1>2, <1>3, OwnerIsSession
<1> HIDE DEF p, verdicts
<1>7. ASSUME Retaining(q, fi, sess) PROVE Retaining(p, fi, verdicts)
  <2>1. /\ \A f \in Found : Owner[f] \notin tombs =>
             /\ Fresh(f, fi[f])
             /\ \A b \in q.acts : Owner[b[2]] = Owner[f] => b = <<"clear", f>>
             /\ sess[Owner[f]] = "only copy" => <<"clear", f>> \in q.acts
        /\ \A b \in q.acts : b[1] = "clear" => b[2] \in Found
        /\ \A f \in Files : fi[f] # NoMark /\ ~Alive(Owner[f]) =>
             IF Wanted(Owner[f]) THEN <<"prune", f>> \in q.acts
             ELSE sess[Owner[f]] = "live" => <<"stamp", f>> \in q.acts
    BY <1>7 DEF Retaining
  <2>2. ASSUME NEW f \in Found, Owner[f] \notin tombs, verdicts[Owner[f]] = "only copy"
        PROVE  <<"clear", f>> \in p.acts
    <3>1. Owner[f] # s1
      <4> SUFFICES ASSUME Owner[f] = s1 PROVE FALSE
        OBVIOUS
      <4>1. a = <<"clear", f>>
        BY <2>1, <2>2
      <4> QED
        BY <1>6, <2>2, <4>1
    <3>2. Owner[f] \in Sessions
      BY OwnerIsSession DEF Found
    <3>3. <<"clear", f>> \in q.acts
      BY <1>6, <2>1, <2>2, <3>1, <3>2
    <3> QED
      BY <1>5, <3>1, <3>3
  <2>3. ASSUME NEW f \in Files, fi[f] # NoMark, ~Alive(Owner[f])
        PROVE  IF Wanted(Owner[f]) THEN <<"prune", f>> \in p.acts
               ELSE verdicts[Owner[f]] = "live" => <<"stamp", f>> \in p.acts
    <3>1. ASSUME Wanted(Owner[f]) PROVE <<"prune", f>> \in p.acts
      <4>1. <<"prune", f>> \in q.acts
        BY <2>1, <2>3, <3>1
      <4>2. a[1] # "prune"
        BY <1>1
      <4>3. <<"prune", f>>[1] = "prune"
        OBVIOUS
      <4> QED
        BY <1>5, <4>1, <4>2, <4>3
    <3>2. ASSUME ~Wanted(Owner[f]), verdicts[Owner[f]] = "live" PROVE <<"stamp", f>> \in p.acts
      <4>1. Owner[f] # s1
        <5> SUFFICES ASSUME Owner[f] = s1 PROVE FALSE
          OBVIOUS
        <5>1. a[1] = "clear"
          BY <1>6, <3>2
        <5>2. a[2] \in Found
          BY <2>1, <5>1
        <5>3. Alive(s1)
          BY <5>2 DEF Found, Alive, FilesOf
        <5> QED
          BY <2>3, <5>3
      <4>2. Owner[f] \in Sessions
        BY OwnerIsSession
      <4>3. <<"stamp", f>> \in q.acts
        BY <1>6, <2>1, <2>3, <3>2, <4>1, <4>2
      <4> QED
        BY <1>5, <4>1, <4>3
    <3> QED
      BY <3>1, <3>2
  <2>4. p.pc \notin Pruning
    BY <1>5 DEF Pruning
  <2> HIDE DEF q
  <2> QED
    BY <1>5, <2>1, <2>2, <2>3, <2>4 DEF Retaining
<1> DEFINE pc == "retain"
<1>8. pc \in Retention /\ pc \notin Pruning /\ p.pc \notin Pruning /\ p.pc \in Retention /\ Pass(i, pc)
  BY <1>4, <1>5 DEF Retention, Pruning
<1>9. \A f \in Files : fi'[f] # NoMark =>
        /\ fi'[f] = fi[f]
        /\ sess[Owner[f]] # "absent" => sess'[Owner[f]] # "absent"
        /\ Of(msgs', Owner[f]) = Of(msgs, Owner[f])
  BY <1>4, <1>6, OwnerIsSession DEF verdicts
<1>10. Retaining(pass[i], fi, sess) => Retaining(p, fi', sess')
  BY <1>4, <1>7 DEF verdicts
<1>11. pass' = [pass EXCEPT ![i] = p] /\ p.acts \subseteq pass[i].acts /\ faults' = faults
  BY <1>1, <1>4, <1>5 DEF p
<1> HIDE DEF q, pc
<1> QED
  BY <1>8, <1>9, <1>10, <1>11, RetentionSettles

LEMMA PruneSettles ==
  ASSUME Inv, Settling, OneAtATime, NEW i \in Indexers, Prune(i)
  PROVE  Settling'
<1> DEFINE q == pass[i]
<1>1. PICK a \in q.acts :
       /\ a[1] = "prune" /\ msgs' = Without(Owner[a[2]])
       /\ pass' = [pass EXCEPT ![i] = [q EXCEPT !.pc = "prune row", !.f = a[2]]]
  BY DEF Prune, Set
<1> DEFINE p == [q EXCEPT !.pc = "prune row", !.f = a[2]]
           s1 == Owner[a[2]]
           pc == "retain"
<1>2. q \in Passes /\ (scope.mode = "keep" => OnlyDeleted(q, tombs))
  BY PassFacts
<1>3. a[2] \in Files
  <2>1. a \in Verdicts \X Files
    BY <1>2 DEF Passes
  <2> QED
    BY <2>1
<1>4. /\ Pass(i, pc) /\ q.pc = "retain" /\ UNCHANGED <<scope, tombs, faults, sess, fi>>
      /\ pass' = [pass EXCEPT ![i] = p]
  BY <1>1 DEF Prune, Pass
<1>5. p.pc = "prune row" /\ p.acts = q.acts /\ p.f = a[2]
  BY <1>2 DEF Passes
<1> HIDE DEF p
<1>6. pc \in Retention /\ pc \notin Pruning /\ p.pc \in Pruning /\ p.pc \in Retention
  BY <1>5 DEF Retention, Pruning
<1>7. Retaining(q, fi, sess) => Retaining(p, fi, sess)
  <2> SUFFICES ASSUME Retaining(q, fi, sess) PROVE Retaining(p, fi, sess)
    OBVIOUS
  <2>1. \A f \in Found : Owner[f] \notin tombs => s1 # Owner[f]
    <3> SUFFICES ASSUME NEW f \in Found, Owner[f] \notin tombs, s1 = Owner[f] PROVE FALSE
      OBVIOUS
    <3>1. a = <<"clear", f>>
      BY DEF Retaining
    <3> QED
      BY <1>1, <3>1
  <2> HIDE DEF q
  <2> QED
    BY <1>5, <2>1 DEF Retaining
<1>8. scope.mode # "keep" => OnlyMark(p.f)
  BY <1>4, <1>5 DEF Settling, Base, MarksGo, Pruned, Retention
<1>9. ASSUME NEW f \in Files, Trusted(Owner[f])' PROVE Of(msgs', Owner[f]) = Of(msgs, Owner[f])
  <2>1. Owner[f] # s1
    <3>1. CASE scope.mode = "keep"
      BY <1>1, <1>2, <1>4, <1>9, <3>1 DEF Trusted, OnlyDeleted
    <3>2. CASE scope.mode # "keep"
      <4>1. pass'[i] = p
        BY <1>4 DEF Inv, Typed
      <4> QED
        BY <1>4, <1>5, <1>6, <1>9, <3>2, <4>1 DEF Trusted
    <3> QED
      BY <3>1, <3>2
  <2> QED
    BY <1>1, <2>1, WithoutOf
<1>10. \A f \in Files : fi'[f] = fi[f] /\ sess'[Owner[f]] = sess[Owner[f]]
  BY <1>4
<1>11. p.f \in Files /\ p.acts \subseteq pass[i].acts /\ faults' = faults
       /\ (Retaining(pass[i], fi, sess) => Retaining(p, fi', sess'))
  BY <1>3, <1>4, <1>5, <1>7
<1> HIDE DEF q, pc
<1> QED
  BY <1>4, <1>6, <1>8, <1>9, <1>10, <1>11, RetentionSettles

LEMMA PruneRowSettles ==
  ASSUME Inv, Settling, OneAtATime, NEW i \in Indexers, PruneRow(i)
  PROVE  Settling'
<1> DEFINE q == pass[i]
           p == [q EXCEPT !.pc = "prune mark"]
           s1 == Owner[q.f]
           pc == "prune row"
           verdicts == sess'
<1>1. /\ Pass(i, pc) /\ q.pc = "prune row" /\ UNCHANGED <<scope, tombs, faults, msgs, fi>>
      /\ pass' = [pass EXCEPT ![i] = p] /\ sess' = [sess EXCEPT ![s1] = "absent"]
  BY DEF PruneRow, Pass, Set
<1>2. /\ q \in Passes /\ PassTyped(q) /\ (scope.mode = "keep" => OnlyDeleted(q, tombs))
      /\ sess \in [Sessions -> Verdict]
  BY PassFacts
<1>3. q.f \in Files
  BY <1>1, <1>2 DEF PassTyped
<1>4. p.pc = "prune mark" /\ p.acts = q.acts /\ p.f = q.f
  BY <1>2 DEF Passes
<1> HIDE DEF p
<1>5. pc \in Retention /\ pc \in Pruning /\ q.pc \in Pruning /\ p.pc \in Pruning /\ p.pc \in Retention
  BY <1>1, <1>4 DEF Retention, Pruning
<1>6. \A s \in Sessions : (s # s1 => verdicts[s] = sess[s]) /\ (s = s1 => verdicts[s] = "absent")
  BY <1>1, <1>2
<1> HIDE DEF verdicts
<1>7. Retaining(q, fi, sess) => Retaining(p, fi, verdicts)
  <2> SUFFICES ASSUME Retaining(q, fi, sess) PROVE Retaining(p, fi, verdicts)
    OBVIOUS
  <2>1. \A s \in Sessions : verdicts[s] \in {"live", "only copy"} => verdicts[s] = sess[s]
    BY <1>6
  <2>2. \A f \in Files : Owner[f] \in Sessions
    BY OwnerIsSession
  <2>3. Found \subseteq Files
    BY DEF Found
  <2> HIDE DEF q
  <2> QED
    BY <1>4, <1>5, <2>1, <2>2, <2>3 DEF Retaining
<1>8. scope.mode # "keep" => OnlyMark(p.f)
  BY <1>4, <1>5 DEF Settling, Base, MarksGo, Pruned
<1>9. ASSUME NEW f \in Files, Trusted(Owner[f])' PROVE Owner[f] # s1
  <2>1. CASE scope.mode = "keep"
    BY <1>1, <1>2, <1>9, <2>1 DEF Trusted, OnlyDeleted
  <2>2. CASE scope.mode # "keep"
    <3>1. pass'[i] = p
      BY <1>1 DEF Inv, Typed
    <3> QED
      BY <1>1, <1>4, <1>5, <1>9, <2>2, <3>1 DEF Trusted
  <2> QED
    BY <2>1, <2>2
<1>10. \A f \in Files : fi'[f] = fi[f] /\ Of(msgs', Owner[f]) = Of(msgs, Owner[f])
  BY <1>1
<1>11. \A f \in Files : Trusted(Owner[f])' => sess'[Owner[f]] = sess[Owner[f]]
  BY <1>6, <1>9, OwnerIsSession DEF verdicts
<1>12. p.f \in Files /\ p.acts \subseteq pass[i].acts /\ faults' = faults
       /\ (Retaining(pass[i], fi, sess) => Retaining(p, fi', sess'))
  BY <1>1, <1>3, <1>4, <1>7 DEF verdicts
<1> HIDE DEF pc
<1>13. \A f \in Files : Trusted(Owner[f])' => Owner[pass[i].f] # Owner[f]
  BY <1>9
<1> HIDE DEF q
<1> QED
  BY <1>1, <1>5, <1>8, <1>10, <1>11, <1>12, <1>13, RetentionSettles

LEMMA PruneMarkSettles ==
  ASSUME Inv, Settling, OneAtATime, NEW i \in Indexers, PruneMark(i)
  PROVE  Settling'
<1> DEFINE q == pass[i]
           a == <<"prune", q.f>>
           p == [Done(i, a) EXCEPT !.pc = "retain", !.f = Rest.f]
           pc == "prune mark"
           marks == fi'
<1>1. /\ Pass(i, pc) /\ q.pc = "prune mark" /\ UNCHANGED <<scope, tombs, faults, msgs, sess>>
      /\ pass' = [pass EXCEPT ![i] = p] /\ fi' = [fi EXCEPT ![q.f] = NoMark]
  BY DEF PruneMark, Pass, Set
<1>2. /\ q \in Passes /\ PassTyped(q) /\ (scope.mode = "keep" => OnlyDeleted(q, tombs))
      /\ fi \in [Files -> Marks]
  BY PassFacts
<1>3. q.f \in Files
  BY <1>1, <1>2 DEF PassTyped
<1>4. p.pc = "retain" /\ p.acts = q.acts \ {a}
  BY <1>2 DEF Done, Passes
<1> HIDE DEF p
<1>5. pc \in Retention /\ pc \in Pruning /\ q.pc \in Pruning /\ p.pc \notin Pruning /\ p.pc \in Retention
      /\ q.pc \in Retention
  BY <1>1, <1>4 DEF Retention, Pruning
<1>6. \A f \in Files : marks[f] = IF f = q.f THEN NoMark ELSE fi[f]
  BY <1>1, <1>2
<1> HIDE DEF marks
<1>7. a[1] = "prune" /\ a[2] = q.f /\ \A f : <<"clear", f>> # a /\ <<"stamp", f>> # a
  OBVIOUS
<1>8. \A f : f # q.f => <<"prune", f>> # a
  OBVIOUS
<1> HIDE DEF a
<1>9. Retaining(q, fi, sess) => Retaining(p, marks, sess)
  <2> SUFFICES ASSUME Retaining(q, fi, sess) PROVE Retaining(p, marks, sess)
    OBVIOUS
  <2>1. \A f \in Found : f \in Files /\ (Owner[f] \notin tombs => marks[f] = fi[f])
    BY <1>5, <1>6 DEF Found, Retaining
  <2>2. \A f \in Files : marks[f] # NoMark => fi[f] = marks[f] /\ f # q.f
    BY <1>6
  <2> HIDE DEF q
  <2> QED
    BY <1>4, <1>5, <1>7, <1>8, <2>1, <2>2 DEF Retaining
<1>10. ASSUME NEW f \in Files, Trusted(Owner[f])', marks[f] # NoMark PROVE Owner[q.f] # Owner[f]
  <2>1. CASE scope.mode = "keep"
    BY <1>1, <1>2, <1>10, <2>1 DEF Trusted, OnlyDeleted
  <2>2. CASE scope.mode # "keep"
    <3>1. OnlyMark(q.f)
      BY <1>5, <2>2 DEF Settling, Base, MarksGo, Pruned
    <3> QED
      BY <1>6, <1>10, <3>1 DEF OnlyMark
  <2> QED
    BY <2>1, <2>2
<1>11. /\ \A f \in Files : fi'[f] # NoMark => fi'[f] = fi[f]
       /\ \A s : Of(msgs', s) = Of(msgs, s) /\ sess'[s] = sess[s]
       /\ faults' = faults /\ p.acts \subseteq pass[i].acts
  BY <1>1, <1>4, <1>6 DEF marks
<1>12. Retaining(pass[i], fi, sess) => Retaining(p, fi', sess')
  BY <1>1, <1>9 DEF marks
<1>13. \A f \in Files : fi'[f] # NoMark /\ Trusted(Owner[f])' => Owner[pass[i].f] # Owner[f]
  BY <1>10 DEF marks
<1> HIDE DEF q, pc
<1> QED
  BY <1>1, <1>5, <1>11, <1>12, <1>13, RetentionSettles

LEMMA WorldSettles ==
  ASSUME Inv, Settling, World
  PROVE  Settling'
<1>1. /\ disk' \in [Files -> Transcript] /\ \A f \in Files : Onward(disk[f], disk'[f])
      /\ tombs \subseteq tombs' /\ scope' = scope /\ msgs' = msgs /\ sess' = sess /\ fi' = fi
      /\ pass' = pass
  BY WorldFacts
<1>2. alone' = {} /\ (faults' = faults \/ faults' = faults + 1)
  BY DEF World, DeleteKilled, Write, Replace, Purge, PutBack, DeleteFile, Tombstone, Outside
<1>3. OneMark' /\ Ours' /\ MarksGo'
  BY <1>1 DEF Settling, Base, OneMark, Ours, MarksGo, Pruned, OnlyMark
<1>4. Held'
  <2> SUFFICES ASSUME NEW f \in Files, Trusted(Owner[f])', fi[f] # NoMark
               PROVE  sess[Owner[f]] # "absent" /\ CoveredIn(f, fi[f], disk'[f], msgs)
    BY <1>1 DEF Held
  <2>1. Trusted(Owner[f])
    <3>1. faults \in Nat
      BY BoundsType DEF Inv, Typed, TypeOK
    <3> QED
      BY <1>1, <1>2, <3>1 DEF Trusted
  <2>2. sess[Owner[f]] # "absent" /\ CoveredIn(f, fi[f], disk[f], msgs)
    BY <2>1 DEF Settling, Base, Held
  <2>3. fi[f].at[1] = disk'[f].gen => disk'[f].gen = disk[f].gen
    <3>1. disk[f] \in Transcript /\ disk'[f] \in Transcript /\ fi[f] \in Marks /\ Onward(disk[f], disk'[f])
          /\ fi[f].at[1] <= disk[f].gen
      BY <1>1 DEF Inv, Typed, TypeOK, MarksSound, MarkFits
    <3>2. disk[f].gen \in Int /\ disk'[f].gen \in Int
      BY <3>1, SizeType, BoundsType
    <3> QED
      BY <3>1, <3>2 DEF Onward
  <2> QED
    BY <2>2, <2>3 DEF CoveredIn
<1>5. Undisturbed'
  BY <1>2 DEF Undisturbed
<1> QED
  BY <1>3, <1>4, <1>5 DEF Settling, Base

LEMMA NextSettles ==
  ASSUME Inv, Settling, Single, OneAtATime, [Next]_vars
  PROVE  Settling'
<1>1. CASE UNCHANGED vars
  <2>1. /\ scope' = scope /\ faults' = faults /\ disk' = disk /\ tombs' = tombs /\ msgs' = msgs
        /\ sess' = sess /\ fi' = fi /\ pass' = pass /\ alone' = alone
    BY <1>1 DEF vars
  <2>2. Base'
    BY <2>1 DEF Settling, Base, OneMark, Ours, MarksGo, Pruned, OnlyMark, Held, Trusted
  <2>3. Found' = Found /\ \A s : Alive(s)' = Alive(s)
    BY <2>1 DEF Found, Served, Alive
  <2>4. ASSUME NEW i \in Indexers PROVE Orderly(pass[i], fi, sess) => Orderly(pass[i], fi, sess)'
    <3>1. pass'[i] = pass[i]
      BY <2>1
    <3>2. Reading(pass[i], fi) => Reading(pass[i], fi)'
      BY <2>1, <2>3, <3>1 DEF Reading, Fresh
    <3>3. Retaining(pass[i], fi, sess) => Retaining(pass[i], fi, sess)'
      BY <2>1, <2>3, <3>1 DEF Retaining, Fresh, Wanted
    <3> QED
      BY <3>1, <3>2, <3>3 DEF Orderly
  <2>5. Undisturbed'
    BY <2>1, <2>4 DEF Settling, Undisturbed
  <2> QED
    BY <2>2, <2>5 DEF Settling
<1>2. CASE World
  BY <1>2, WorldSettles
<1>3. ASSUME NEW i \in Indexers, Indexer(i) \/ Kill(i) PROVE Settling'
  <2>1. CASE Walk(i) \/ WalkOrphan(i)
    BY <2>1, StartSettles
  <2>2. CASE Load(i) \/ LoadUnread(i)
    BY <2>2, LoadSettles
  <2>3. CASE Stat(i)
    BY <2>3, StatSettles
  <2>4. CASE ReadTail(i) \/ ReadFull(i)
    BY <2>4, ReadSettles
  <2>5. CASE FullTx(i) \/ TailTx(i)
    BY <2>5, TxSettles
  <2>6. CASE Scan(i)
    BY <2>6, ScanSettles
  <2>7. CASE Flag(i)
    BY <2>7, FlagSettles
  <2>8. CASE Prune(i)
    BY <2>8, PruneSettles
  <2>9. CASE PruneRow(i)
    BY <2>9, PruneRowSettles
  <2>10. CASE PruneMark(i)
    BY <2>10, PruneMarkSettles
  <2>11. CASE VaultVerdicts(i) \/ Kill(i)
    BY <2>11, EndsSettle
  <2> QED
    BY <1>3, <2>1, <2>2, <2>3, <2>4, <2>5, <2>6, <2>7, <2>8, <2>9, <2>10, <2>11 DEF Indexer
<1> QED
  BY <1>1, <1>2, <1>3 DEF Next

(* How a pass can end. *)
LEMMA PassEnds ==
  ASSUME Inv, [Next]_vars, NEW i \in Indexers, pass[i].pc # "idle", pass'[i].pc = "idle",
         faults' = faults
  PROVE  VaultVerdicts(i) \/ (FullTx(i) /\ ~Copyable(i))
<1>1. pass \in [Indexers -> Passes] /\ faults \in Int
  BY BoundsType DEF Inv, Typed, TypeOK
<1>2. pass'[i] # pass[i]
  OBVIOUS
<1>3. ~UNCHANGED vars /\ ~World
  BY <1>2, WorldFacts DEF vars
<1>4. PICK k \in Indexers : Indexer(k) /\ ~Kill(k)
  <2>1. PICK k \in Indexers : Indexer(k) \/ Kill(k)
    BY <1>3 DEF Next
  <2>2. ~Kill(k)
    BY <1>1 DEF Kill
  <2> QED
    BY <2>1, <2>2
<1>5. \E p : pass' = [pass EXCEPT ![k] = p]
  BY <1>4 DEF Indexer, Walk, WalkOrphan, Start, Load, LoadUnread, Stat, ReadTail, ReadFull, FullTx, TailTx,
              Scan, Flag, Prune, PruneRow, PruneMark, VaultVerdicts, Step, Set
<1>6. k = i
  BY <1>1, <1>2, <1>5
<1> DEFINE q == pass[i]
<1>7. q \in Passes /\ \A p : pass' = [pass EXCEPT ![i] = p] => p.pc = "idle"
  BY <1>1
<1>8. ~Walk(i) /\ ~WalkOrphan(i)
  BY DEF Walk, WalkOrphan, Start, Pass
<1> HIDE DEF q
<1>9. ~Load(i) /\ ~LoadUnread(i)
  <2> SUFFICES ASSUME Load(i) \/ LoadUnread(i) PROVE FALSE
    OBVIOUS
  <2> DEFINE cur == [f \in q.walk |-> fi[f]]
             p1 == [q EXCEPT !.pc = "files", !.tombs = tombs, !.cur = cur]
             p2 == [q EXCEPT !.pc = "files", !.cur = cur]
  <2>1. pass' = [pass EXCEPT ![i] = p1] \/ pass' = [pass EXCEPT ![i] = p2]
    BY DEF Load, LoadUnread, Step, Set, q
  <2>2. p1.pc = "files" /\ p2.pc = "files"
    BY <1>7 DEF Passes
  <2> HIDE DEF p1, p2
  <2> QED
    BY <1>7, <2>1, <2>2
<1>10. ~Stat(i)
  <2> SUFFICES ASSUME Stat(i) PROVE FALSE
    OBVIOUS
  <2>1. PICK f : \/ Step(i, [q EXCEPT !.todo = @ \ {f}])
                 \/ Step(i, [[q EXCEPT !.todo = @ \ {f}] EXCEPT !.pc = "read", !.f = f, !.stat = disk[f]])
    BY DEF Stat, q
  <2> DEFINE p1 == [q EXCEPT !.todo = @ \ {f}]
             p2 == [p1 EXCEPT !.pc = "read", !.f = f, !.stat = disk[f]]
  <2>2. pass' = [pass EXCEPT ![i] = p1] \/ pass' = [pass EXCEPT ![i] = p2]
    BY <2>1 DEF Step, Set
  <2>3. q.pc = "files"
    BY DEF Stat, Pass, q
  <2>4. p1.pc = "files" /\ p2.pc = "read"
    BY <1>7, <2>3 DEF Passes
  <2> HIDE DEF p1, p2
  <2> QED
    BY <1>7, <2>2, <2>4
<1>11. NextFile(i).pc = "files" /\ \A kind, off, R : Having(i, kind, off, R).pc = "tx"
  BY <1>7 DEF NextFile, Having, Passes, q
<1>12. ~ReadTail(i) /\ ~ReadFull(i)
  <2> SUFFICES ASSUME ReadTail(i) \/ ReadFull(i) PROVE FALSE
    OBVIOUS
  <2>1. PICK p : Step(i, p) /\ (p = NextFile(i) \/ \E kind, off, R : p = Having(i, kind, off, R))
    <3>1. CASE ReadTail(i)
      <4> DEFINE r == pass[i]
                 n == Size(r.stat) \div 2
                 a == r.cur[r.f].off \div 2
                 R == Records(r.f, disk[r.f], a, n)
      <4>1. Step(i, IF n = a THEN NextFile(i) ELSE Having(i, "tail", 2 * n, R))
        BY <3>1 DEF ReadTail, Having
      <4> HIDE DEF n, a, R
      <4> QED
        BY <4>1
    <3>2. CASE ReadFull(i)
      <4> DEFINE size == Size(pass[i].stat)
                 f == pass[i].f
                 R == Records(f, disk[f], 0, disk[f].len)
      <4>1. Step(i, IF ~disk[f].on THEN NextFile(i) ELSE Having(i, "full", size, R))
        BY <3>2 DEF ReadFull, Having
      <4> HIDE DEF size, f, R
      <4> QED
        BY <4>1
    <3> QED
      BY <3>1, <3>2
  <2> QED
    BY <1>7, <1>11, <2>1 DEF Step, Set
<1>13. ~TailTx(i) /\ (FullTx(i) => ~Copyable(i))
  BY <1>7, <1>11 DEF TailTx, FullTx, Set
<1>14. ~Scan(i)
  <2> SUFFICES ASSUME Scan(i) PROVE FALSE
    OBVIOUS
  <2>1. PICK A : Step(i, [Rest EXCEPT !.pc = "retain", !.acts = A])
    BY DEF Scan
  <2> DEFINE p1 == [Rest EXCEPT !.pc = "retain", !.acts = A]
  <2>2. p1.pc = "retain"
    BY DEF Rest
  <2>3. pass' = [pass EXCEPT ![i] = p1]
    BY <2>1 DEF Step, Set
  <2> HIDE DEF p1
  <2> QED
    BY <1>7, <2>2, <2>3
<1>15. ~Flag(i) /\ ~Prune(i) /\ ~PruneRow(i) /\ ~PruneMark(i)
  <2> SUFFICES ASSUME Flag(i) \/ Prune(i) \/ PruneRow(i) \/ PruneMark(i) PROVE FALSE
    OBVIOUS
  <2>1. PICK a, g : \/ Flag(i) /\ pass' = [pass EXCEPT ![i] = Done(i, a)]
                    \/ pass' = [pass EXCEPT ![i] = [q EXCEPT !.pc = "prune row", !.f = g]]
                    \/ pass' = [pass EXCEPT ![i] = [q EXCEPT !.pc = "prune mark"]]
                    \/ pass' = [pass EXCEPT ![i] = [Done(i, a) EXCEPT !.pc = "retain", !.f = g]]
    BY DEF Flag, Prune, PruneRow, PruneMark, Set, q
  <2> DEFINE p1 == Done(i, a)
             p2 == [q EXCEPT !.pc = "prune row", !.f = g]
             p3 == [q EXCEPT !.pc = "prune mark"]
             p4 == [Done(i, a) EXCEPT !.pc = "retain", !.f = g]
  <2>2. Flag(i) => q.pc = "retain"
    BY DEF Flag, Pass, q
  <2>3. p1.pc = q.pc /\ p2.pc = "prune row" /\ p3.pc = "prune mark" /\ p4.pc = "retain"
    BY <1>7 DEF Done, Passes, q
  <2>4. \/ Flag(i) /\ pass' = [pass EXCEPT ![i] = p1]
        \/ pass' = [pass EXCEPT ![i] = p2]
        \/ pass' = [pass EXCEPT ![i] = p3]
        \/ pass' = [pass EXCEPT ![i] = p4]
    BY <2>1
  <2> HIDE DEF p1, p2, p3, p4
  <2> QED
    BY <1>7, <2>2, <2>3, <2>4
<1> QED
  BY <1>4, <1>6, <1>8, <1>9, <1>10, <1>12, <1>13, <1>14, <1>15 DEF Indexer

(* What a pass beside which nothing happened leaves.                        *)
LEMMA EndIsSettled ==
  ASSUME Inv, Settling, [Next]_vars, NEW i \in Indexers, alone = {i}, pass[i].pc # "idle",
         pass'[i].pc = "idle", faults' = faults
  PROVE  Settled'
<1> DEFINE p == pass[i]
<1>1. /\ p \in Passes /\ PassFits(p, disk, msgs, i \in late)
      /\ sess \in [Sessions -> Verdict] /\ disk \in [Files -> Transcript]
  BY PassFacts
<1>2. Orderly(p, fi, sess)
  BY DEF Settling, Undisturbed
<1>3. VaultVerdicts(i)
  <2> SUFFICES ASSUME FullTx(i) PROVE Copyable(i)
    BY PassEnds
  <2>1. p.pc = "tx"
    BY DEF FullTx, Pass
  <2>2. p.stat.on /\ p.stat = disk[p.f]
    BY <1>1, <1>2, <2>1 DEF PassFits, Statted, Orderly, Reading
  <2> QED
    BY <2>2 DEF Copyable
<1>4. /\ p.pc = "retain" /\ p.acts = {} /\ pass' = [pass EXCEPT ![i] = Rest]
      /\ scope' = scope /\ disk' = disk /\ tombs' = tombs /\ msgs' = msgs /\ sess' = sess /\ fi' = fi
  BY <1>3 DEF VaultVerdicts, Pass, Set, db
<1>5. /\ \A f \in Found : Owner[f] \notin tombs => Fresh(f, fi[f]) /\ sess[Owner[f]] # "only copy"
      /\ \A f \in Files : fi[f] # NoMark /\ ~Alive(Owner[f]) =>
           ~Wanted(Owner[f]) /\ sess[Owner[f]] # "live"
  BY <1>2, <1>4 DEF Orderly, Retaining, Retention
<1>6. ASSUME NEW f \in Files, Served(f), Owner[f] \notin tombs, scope.mode = "keep" \/ Quiet'
      PROVE  Whole(f) /\ sess[Owner[f]] = "live"
  <2>1. f \in Found /\ Fresh(f, fi[f]) /\ sess[Owner[f]] # "only copy"
    BY <1>5, <1>6 DEF Found
  <2>2. fi[f] # NoMark
    BY <2>1, FreshIsMarked
  <2>3. Trusted(Owner[f])
    <3>1. CASE scope.mode = "keep"
      BY <1>6, <3>1 DEF Trusted
    <3>2. CASE Quiet'
      <4>1. faults = 0 /\ \A k \in Indexers : pass'[k].pc = "idle"
        BY <3>2 DEF Quiet
      <4>2. \A k \in Indexers : k # i => pass'[k] = pass[k]
        BY <1>4 DEF Inv, Typed
      <4>3. \A k \in Indexers : pass[k].pc \notin Pruning
        BY <1>4, <4>1, <4>2 DEF Pruning
      <4> QED
        BY <1>6, <4>1, <4>3 DEF Trusted
    <3> QED
      BY <1>6, <3>1, <3>2
  <2>4. sess[Owner[f]] # "absent" /\ CoveredIn(f, fi[f], disk[f], msgs)
    BY <2>2, <2>3 DEF Settling, Base, Held
  <2>5. sess[Owner[f]] = "live"
    BY <1>1, <2>1, <2>4, OwnerIsSession DEF Verdict
  <2>6. Upto(f, disk[f].gen, 0, disk[f].len) \subseteq Of(msgs, Owner[f])
    BY <2>1, <2>4 DEF CoveredIn, Fresh
  <2> QED
    BY <2>5, <2>6 DEF Whole, Records, Upto, Stored
<1>7. ASSUME NEW s \in Sessions, ~Alive(s), ~Stranded(s)
      PROVE  sess[s] # "live" /\ (Wanted(s) => sess[s] = "absent" /\ Stored(s) = {})
  <2>1. (\A f \in FilesOf(s) : fi[f] = NoMark) => sess[s] = "absent" /\ Stored(s) = {}
    BY <1>7 DEF Stranded
  <2>2. ASSUME NEW f \in FilesOf(s), fi[f] # NoMark PROVE ~Wanted(s) /\ sess[s] # "live"
    BY <1>5, <1>7, <2>2 DEF FilesOf
  <2> QED
    BY <2>1, <2>2
<1>8. /\ \A f : Whole(f)' = Whole(f) /\ Served(f)' = Served(f)
      /\ \A s : Alive(s)' = Alive(s) /\ Stranded(s)' = Stranded(s) /\ Stored(s)' = Stored(s)
  BY <1>4 DEF Whole, Served, Alive, Stranded, Stored
<1>9. \A s : s \in tombs \/ (scope.mode # "keep" /\ \E f \in Files : Served(f)) => Wanted(s)
  BY DEF Wanted, Found
<1> QED
  BY <1>4, <1>6, <1>7, <1>8, <1>9 DEF Settled

(* A pass beside which nothing happens sets right what races and kills left *)
(* before it (updateIndexWithOrigin, updateContainers, ReconcileOrphanDB):  *)
(* what it has looked at has a watermark of what is there, and what it has  *)
(* yet to decide is among its decisions.                                    *)
THEOREM PassesSettle ==
  ASSUME Single, OneAtATime
  PROVE  Spec => PassSettles
<1>1. Inv /\ Settling /\ [Next]_vars =>
        (\A i \in Indexers :
           alone = {i} /\ pass[i].pc # "idle" /\ pass'[i].pc = "idle" /\ faults' = faults => Settled')
  BY EndIsSettled
<1>2. Inv /\ Settling /\ [Next]_vars => Settling'
  BY NextSettles
<1>3. Spec => []Settling
  BY <1>2, SettlingInit, ProjectInvariant, PTL DEF Spec
<1> QED
  BY <1>1, <1>3, ProjectInvariant, PTL DEF Spec, PassSettles
=============================================================================
