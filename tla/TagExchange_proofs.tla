------------------------- MODULE TagExchange_proofs -------------------------
(***************************************************************************)
(* What holds of TagExchange for any number of machines, taggings and      *)
(* segments: the home machine's store shows its latest tagging, and so do   *)
(* the stores of the others once nothing is left to do.                     *)
(***************************************************************************)
EXTENDS TagExchange, FiniteFacts

Parameters ==
  /\ Machines \subseteq Nat \ {0} /\ IsFiniteSet(Machines) /\ Home \in Machines
  /\ MaxTime \in Nat \ {0} /\ MaxWrites \in Nat /\ MaxFaults \in Nat

-----------------------------------------------------------------------------
(* Types. *)

Keyed(R) == \A r, q \in R : r.start = q.start => r = q

Verdicts == Verdict \cup {NoVerdict}
Table == {t \in [rows: SUBSET Segment, verdict: Verdicts, layer: BOOLEAN] : Keyed(t.rows)}
Child == [id: Nat, read: BOOLEAN, tags: Table]

Typed ==
  /\ db \in [Machines -> Table] /\ store \in [Machines -> Table]
  /\ mark = [m \in Machines |-> mark[m]] /\ \A m \in Machines : mark[m][2] \in 0 .. MaxTime
  /\ publishers \in SUBSET Child
  /\ files \in [Machines -> Table]
  /\ clone \in [Readers -> [Machines -> Table]]
  /\ now \in 1 .. MaxTime /\ writes \in 0 .. MaxWrites /\ faults \in 0 .. MaxFaults
  /\ lost \in BOOLEAN /\ blurred \in BOOLEAN /\ direct \in BOOLEAN /\ withheld \in BOOLEAN

-----------------------------------------------------------------------------
(* What is found elsewhere of the home machine's taggings D, of w taggings  *)
(* so far: b is whether two of them fell in one second.                     *)

\* A row of this tagging, or of an earlier one.
Prior(q, D, w, b) ==
  /\ q.at <= Latest(D) /\ q.n <= w
  /\ \A r \in D :
       /\ q.n = r.n => q.at = r.at
       /\ ~b /\ q.start = r.start /\ r.at <= q.at => q.by = r.by /\ q.n = r.n /\ q.at = r.at

\* The whole of this tagging, by way of machine o, or rows of earlier ones.
Version(R, D, o, b) == ~b => R = From(D, o) \/ \A q \in R : q.at < Latest(D)

Of(R, D, o, w, b) == \A q \in R : q.org = o /\ Prior(q, D, w, b)

Topics == db[Home].rows

\* What the home machine's project database holds.
HomeSound ==
  /\ Of(Topics, Topics, 0, writes, blurred)
  /\ Topics # {} => db[Home].layer
  /\ Latest(Topics) <= now
  /\ db[Home].verdict.org = 0 /\ db[Home].verdict.at <= now

\* What a publishing child has read: a verdict later than the segments read
\* with it is not later than those that were written since.
Snapshot(t) ==
  /\ Of(t.rows, Topics, 0, writes, blurred) /\ Version(t.rows, Topics, 0, blurred)
  /\ t.verdict.org = 0 /\ t.verdict.at <= now
  /\ ~blurred /\ t.rows # Topics => t.verdict.at <= Latest(Topics)

SnapshotsSound == \A c \in publishers : Snapshot(c.tags)

Pending == \E c \in publishers : ~c.read \/ c.tags.rows = Topics

\* A watermark as late as the latest tagging vouches for the rows R.
Vouches(k, R, o) ==
  /\ k <= Latest(Topics)
  /\ ~blurred /\ k = Latest(Topics) => R = From(Topics, o)

\* What its store shows.
Expected == ~blurred /\ ~lost => store[Home].rows = Topics \/ Pending

StoreSound ==
  ~direct =>
    /\ Of(store[Home].rows, Topics, 0, writes, blurred)
    /\ Version(store[Home].rows, Topics, 0, blurred)
    /\ Vouches(mark[Home][2], store[Home].rows, 0)
    /\ Expected

\* What is in the archive, F by machine directory.
Filed(F) ==
  /\ \A m \in Machines : Of(F[m].rows, Topics, 0, writes, blurred)
  /\ Version(F[Home].rows, Topics, 0, blurred)
  /\ (\E m \in Machines : F[m].rows # {}) => F[Home].rows # {}

\* What another machine has in its clone, its database and its store, and the
\* second of its watermark.  Wherever there is a row, there is one in the home
\* machine's file, which therefore wins.
Replica(C, d, s, k) ==
  /\ Filed(C)
  /\ Of(d, Topics, Home, writes, blurred) /\ Version(d, Topics, Home, blurred)
  /\ Of(s, Topics, Home, writes, blurred) /\ Vouches(k, s, Home)
  /\ d # {} \/ s # {} => C[Home].rows # {}

Archived(F, C, B, S, K) ==
  /\ Filed(F)
  /\ \A m \in Readers : /\ Replica(C[m], B[m].rows, S[m].rows, K[m][2])
                        /\ C[m][Home].rows # {} => F[Home].rows # {}

Claimed == ~direct /\ ~withheld /\ \A m \in Machines : m <= Home

ArchiveSound == Claimed => Archived(files, clone, db, store, mark)

Inv == Typed /\ HomeSound /\ SnapshotsSound /\ StoreSound /\ ArchiveSound

-----------------------------------------------------------------------------
(* The operators. *)

LEMMA MaxIs ==
  ASSUME NEW S \in SUBSET Nat, IsFiniteSet(S), S # {}
  PROVE  Max(S) \in S /\ \A y \in S : y <= Max(S)
<1>1. S \in SUBSET Int
  OBVIOUS
<1>2. PICK x \in S : \A y \in S : y <= x
  BY <1>1, FiniteMax
<1>3. \A y \in S : x >= y
  BY <1>2
<1>4. Max(S) \in S /\ \A y \in S : Max(S) >= y
  BY <1>3 DEF Max
<1> QED
  BY <1>4

LEMMA LatestIs ==
  ASSUME Parameters, NEW R \in SUBSET Segment
  PROVE  /\ Latest(R) \in 0 .. MaxTime
         /\ \A r \in R : r.at \in 1 .. MaxTime /\ r.at <= Latest(R)
         /\ R # {} => \E r \in R : r.at = Latest(R)
         /\ R = {} => Latest(R) = 0
<1> DEFINE S == {r.at : r \in R} \cup {0}
           whole == 0 .. MaxTime
<1>1. MaxTime \in Nat
  BY DEF Parameters
<1>2. \A r \in R : r.at \in 1 .. MaxTime
  BY DEF Segment
<1>3. S \in SUBSET whole /\ S \in SUBSET Nat /\ S # {}
  BY <1>1, <1>2
<1>4. IsFiniteSet(S)
  <2>1. IsFiniteSet(whole)
    BY <1>1, FS_Interval
  <2> HIDE DEF S, whole
  <2> QED
    BY <1>3, <2>1, FS_Subset
<1>5. Latest(R) = Max(S)
  BY DEF Latest
<1>6. Latest(R) \in S /\ \A y \in S : y <= Latest(R)
  <2> HIDE DEF S
  <2> QED
    BY <1>3, <1>4, <1>5, MaxIs
<1>7. R # {} => \E r \in R : r.at = Latest(R)
  <2>1. CASE Latest(R) \in {r.at : r \in R}
    BY <2>1
  <2>2. CASE Latest(R) = 0
    <3> SUFFICES ASSUME R # {} PROVE FALSE
      BY <1>6, <2>1
    <3>1. PICK r \in R : TRUE
      OBVIOUS
    <3>2. r.at \in S /\ r.at \in 1 .. MaxTime
      BY <1>2, <3>1
    <3> QED
      BY <1>1, <1>6, <2>2, <3>2
  <2> QED
    BY <1>6, <2>1, <2>2
<1> QED
  BY <1>1, <1>2, <1>3, <1>6, <1>7

LEMMA FromIs ==
  ASSUME NEW R \in SUBSET Segment, NEW o \in Machines \cup {0}, NEW p \in Machines \cup {0}
  PROVE  /\ From(R, o) \in SUBSET Segment
         /\ \A r \in From(R, o) : r.org = o /\ \E q \in R :
              q.at = r.at /\ q.start = r.start /\ q.by = r.by /\ q.n = r.n
         /\ \A q \in R : \E r \in From(R, o) :
              q.at = r.at /\ q.start = r.start /\ q.by = r.by /\ q.n = r.n
         /\ Keyed(R) => Keyed(From(R, o))
         /\ (\A r \in R : r.org = o) => From(R, o) = R
         /\ From(From(R, p), o) = From(R, o)
         /\ Content(From(R, o)) = Content(R)
         /\ From(R, o) = {} <=> R = {}
<1> DEFINE f == [r \in Segment |-> [r EXCEPT !.org = o]]
           g == [r \in Segment |-> [r EXCEPT !.org = p]]
<1>1. \A r \in Segment :
        /\ [r EXCEPT !.org = o] \in Segment /\ [r EXCEPT !.org = o].org = o
        /\ [r EXCEPT !.org = o].at = r.at /\ [r EXCEPT !.org = o].start = r.start
        /\ [r EXCEPT !.org = o].by = r.by /\ [r EXCEPT !.org = o].n = r.n
        /\ r.org = o => [r EXCEPT !.org = o] = r
  BY DEF Segment
<1>2. \A r \in Segment :
        /\ f[r] \in Segment /\ f[r].org = o /\ f[r].at = r.at /\ f[r].start = r.start
        /\ f[r].by = r.by /\ f[r].n = r.n /\ (r.org = o => f[r] = r)
  BY <1>1
<1>3. \A r \in Segment : g[r] \in Segment /\ f[g[r]] = f[r]
  <2> SUFFICES ASSUME NEW r \in Segment PROVE g[r] \in Segment /\ f[g[r]] = f[r]
    OBVIOUS
  <2>1. [r EXCEPT !.org = p] \in Segment /\ [[r EXCEPT !.org = p] EXCEPT !.org = o] = [r EXCEPT !.org = o]
    BY DEF Segment
  <2> QED
    BY <2>1
<1>4. From(R, o) = {f[r] : r \in R} /\ From(R, p) = {g[r] : r \in R}
  BY DEF From
<1>5. \A Q \in SUBSET Segment : From(Q, o) = {f[r] : r \in Q}
  BY DEF From
<1> HIDE DEF f, g
<1>6. From(R, p) \in SUBSET Segment
  BY <1>3, <1>4
<1>7. From(From(R, p), o) = From(R, o)
  <2>1. From(From(R, p), o) = {f[r] : r \in From(R, p)}
    BY <1>5, <1>6
  <2>2. ASSUME NEW x \in From(From(R, p), o) PROVE x \in From(R, o)
    BY <1>3, <1>4, <2>1
  <2>3. ASSUME NEW x \in From(R, o) PROVE x \in From(From(R, p), o)
    BY <1>3, <1>4, <2>1
  <2> QED
    BY <2>2, <2>3
<1> HIDE DEF From
<1>8. From(R, o) \in SUBSET Segment
  BY <1>2, <1>4
<1>9. \A r \in From(R, o) : r.org = o /\ \E q \in R :
        q.at = r.at /\ q.start = r.start /\ q.by = r.by /\ q.n = r.n
  BY <1>2, <1>4
<1>10. \A q \in R : \E r \in From(R, o) :
         q.at = r.at /\ q.start = r.start /\ q.by = r.by /\ q.n = r.n
  BY <1>2, <1>4
<1>11. Keyed(R) => Keyed(From(R, o))
  BY <1>2, <1>4 DEF Keyed
<1>12. (\A r \in R : r.org = o) => From(R, o) = R
  <2> SUFFICES ASSUME \A r \in R : r.org = o PROVE From(R, o) = R
    OBVIOUS
  <2>1. \A r \in R : f[r] = r
    BY <1>2
  <2> QED
    BY <1>4, <2>1
<1>13. Content(From(R, o)) = Content(R)
  <2>1. ASSUME NEW c \in Content(From(R, o)) PROVE c \in Content(R)
    BY <1>9 DEF Content
  <2>2. ASSUME NEW c \in Content(R) PROVE c \in Content(From(R, o))
    BY <1>10 DEF Content
  <2> QED
    BY <2>1, <2>2
<1>14. From(R, o) = {} <=> R = {}
  BY <1>4
<1> QED
  BY <1>7, <1>8, <1>9, <1>10, <1>11, <1>12, <1>13, <1>14

LEMMA FromLatest ==
  ASSUME Parameters, NEW R \in SUBSET Segment, NEW o \in Machines \cup {0}
  PROVE  Latest(From(R, o)) = Latest(R)
<1> DEFINE Q == From(R, o)
<1>1. /\ Q \in SUBSET Segment /\ (Q = {} <=> R = {})
      /\ \A r \in Q : \E q \in R : q.at = r.at
      /\ \A r \in R : \E q \in Q : q.at = r.at
  BY FromIs
<1> HIDE DEF Q
<1>2. \A T \in {Q, R} :
        /\ Latest(T) \in Int /\ \A r \in T : r.at \in Int /\ r.at <= Latest(T)
        /\ T # {} => \E r \in T : r.at = Latest(T)
        /\ T = {} => Latest(T) = 0
  <2> SUFFICES ASSUME NEW T \in {Q, R}
               PROVE  /\ Latest(T) \in Int /\ \A r \in T : r.at \in Int /\ r.at <= Latest(T)
                      /\ T # {} => \E r \in T : r.at = Latest(T)
                      /\ T = {} => Latest(T) = 0
    OBVIOUS
  <2>1. T \in SUBSET Segment /\ MaxTime \in Nat
    BY <1>1 DEF Parameters
  <2>2. /\ Latest(T) \in 0 .. MaxTime
        /\ \A r \in T : r.at \in 1 .. MaxTime /\ r.at <= Latest(T)
        /\ T # {} => \E r \in T : r.at = Latest(T)
        /\ T = {} => Latest(T) = 0
    BY <2>1, LatestIs
  <2> QED
    BY <2>1, <2>2
<1>3. Latest(Q) = Latest(R)
  <2>1. CASE R = {}
    BY <1>1, <1>2, <2>1
  <2>2. CASE R # {}
    <3>1. PICK r \in Q : r.at = Latest(Q)
      BY <1>1, <1>2, <2>2
    <3>2. PICK q \in R : q.at = Latest(R)
      BY <1>2, <2>2
    <3>3. Latest(Q) <= Latest(R)
      BY <1>1, <1>2, <3>1
    <3>4. Latest(R) <= Latest(Q)
      BY <1>1, <1>2, <3>2
    <3> QED
      BY <1>2, <3>3, <3>4
  <2> QED
    BY <2>1, <2>2
<1> QED
  BY <1>3 DEF Q

\* One of two verdicts.
LEMMA MergedIs ==
  ASSUME NEW v \in Verdicts, NEW w \in Verdicts
  PROVE  MergedVerdict(v, w) \in {v, w}
BY DEF MergedVerdict

LEMMA OriginIs ==
  ASSUME Parameters, NEW t \in Table
  PROVE  /\ Origin(t) \in Machines \cup {0}
         /\ (\A r \in t.rows : r.org = 0) /\ t.verdict.org = 0 => Origin(t) = 0
<1> DEFINE S == {r.org : r \in t.rows}
           all == Machines \cup {0}
<1>1. t.rows \in SUBSET Segment /\ t.verdict \in Verdicts
  BY DEF Table
<1>2. S \in SUBSET all /\ all \in SUBSET Nat
  BY <1>1 DEF Segment, Parameters
<1>3. IsFiniteSet(S) /\ S \in SUBSET Nat
  <2>1. IsFiniteSet(all)
    BY FS_AddElement DEF Parameters
  <2> HIDE DEF S, all
  <2> QED
    BY <1>2, <2>1, FS_Subset
<1>4. CASE t.rows = {}
  <2>1. Origin(t) = t.verdict.org
    BY <1>4 DEF Origin
  <2>2. t.verdict.org \in Machines \cup {0}
    BY <1>1 DEF Verdicts, Verdict, NoVerdict
  <2> QED
    BY <1>4, <2>1, <2>2
<1>5. CASE t.rows # {}
  <2>1. S # {} /\ Origin(t) = Max(S)
    BY <1>5 DEF Origin
  <2>2. (\A r \in t.rows : r.org = 0) => S \subseteq {0}
    OBVIOUS
  <2> HIDE DEF S
  <2>3. Max(S) \in S
    BY <1>3, <2>1, MaxIs
  <2> QED
    BY <1>2, <2>1, <2>2, <2>3
<1> QED
  BY <1>4, <1>5

LEMMA WrittenIs ==
  ASSUME Parameters, writes \in 0 .. MaxWrites, Authoring, now \in 1 .. MaxTime,
         NEW m \in Machines, NEW W \in SUBSET Starts, W # {}
  PROVE  /\ Written(m, W) \in SUBSET Segment /\ Written(m, W) # {} /\ Keyed(Written(m, W))
         /\ \A r \in Written(m, W) : /\ r.start \in W /\ r.by = m /\ r.n = writes + 1
                                     /\ r.at = now' /\ r.org = 0
<1>1. now' \in 1 .. MaxTime /\ writes + 1 \in 1 .. MaxWrites
  BY DEF Authoring, Parameters
<1>2. PICK t : t = now'
  OBVIOUS
<1> DEFINE g == [s \in Starts |-> [start |-> s, by |-> m, n |-> writes + 1, at |-> t, org |-> 0]]
<1>3. Written(m, W) = {g[s] : s \in W}
  BY <1>2 DEF Written
<1>4. \A s \in Starts : /\ g[s] \in Segment /\ g[s].start = s /\ g[s].by = m
                        /\ g[s].n = writes + 1 /\ g[s].at = t /\ g[s].org = 0
  BY <1>1, <1>2 DEF Segment
<1> HIDE DEF g
<1>5. Written(m, W) \in SUBSET Segment /\ Written(m, W) # {}
  BY <1>3, <1>4
<1>6. \A r \in Written(m, W) : /\ r.start \in W /\ r.by = m /\ r.n = writes + 1
                               /\ r.at = now' /\ r.org = 0
  BY <1>2, <1>3, <1>4
<1>7. Keyed(Written(m, W))
  BY <1>3, <1>4 DEF Keyed
<1> QED
  BY <1>5, <1>6, <1>7

LEMMA FoldedIs ==
  ASSUME NEW st \in Table, NEW t \in Table
  PROVE  /\ Folded(st, t) \in Table
         /\ Folded(st, t).verdict \in {st.verdict, t.verdict}
         /\ ~t.layer => Folded(st, t) = st
         /\ t.layer =>
              /\ Folded(st, t).rows \subseteq st.rows \cup t.rows
              /\ Folded(st, t).rows = {} <=> t.rows = {}
              /\ (\A q \in st.rows, r \in t.rows : q.start = r.start => q = r \/ Wins(r, q)) =>
                   Folded(st, t).rows = t.rows
<1>1. CASE ~t.layer
  BY <1>1 DEF Folded
<1>2. CASE t.layer
  <2> DEFINE anchored == {q \in st.rows : \E r \in t.rows : r.start = q.start}
             kept == {q \in anchored : \A r \in t.rows : r.start = q.start => ~Wins(r, q)}
             new == {r \in t.rows : \A q \in kept : q.start # r.start}
             v == MergedVerdict(t.verdict, st.verdict)
  <2>1. /\ st \in [rows: SUBSET Segment, verdict: Verdicts, layer: BOOLEAN] /\ Keyed(st.rows)
        /\ t \in [rows: SUBSET Segment, verdict: Verdicts, layer: BOOLEAN] /\ Keyed(t.rows)
    BY DEF Table
  <2>2. Folded(st, t) = [st EXCEPT !.rows = kept \cup new, !.verdict = v]
    BY <1>2 DEF Folded
  <2>3. v \in {st.verdict, t.verdict} /\ v \in Verdicts
    BY <2>1, MergedIs
  <2>4. kept \subseteq st.rows /\ new \subseteq t.rows /\ Keyed(kept \cup new)
    BY <2>1 DEF Keyed
  <2>5. kept \cup new = {} <=> t.rows = {}
    OBVIOUS
  <2>6. ASSUME \A q \in st.rows, r \in t.rows : q.start = r.start => q = r \/ Wins(r, q)
        PROVE  kept \cup new = t.rows
    <3>1. kept \subseteq t.rows
      BY <2>6
    <3>2. ASSUME NEW r \in t.rows, r \notin new PROVE r \in kept
      <4>1. PICK q \in kept : q.start = r.start
        BY <3>2
      <4>2. q = r
        BY <2>6, <4>1
      <4> QED
        BY <4>1, <4>2
    <3> QED
      BY <2>4, <3>1, <3>2
  <2> HIDE DEF kept, new, v
  <2>7. PICK x : x = [st EXCEPT !.rows = kept \cup new, !.verdict = v]
    OBVIOUS
  <2>8. x.rows = kept \cup new /\ x.verdict = v /\ x \in Table
    <3>1. kept \cup new \in SUBSET Segment
      BY <2>1, <2>4
    <3> QED
      BY <2>1, <2>3, <2>4, <2>7, <3>1 DEF Table
  <2> QED
    BY <1>2, <2>2, <2>3, <2>4, <2>5, <2>6, <2>7, <2>8
<1> QED
  BY <1>1, <1>2

\* What a file holds of t.
Stripped(t) == [t EXCEPT !.rows = From(@, 0), !.verdict.org = 0, !.layer = FALSE]

LEMMA StrippedIs ==
  ASSUME NEW t \in Table
  PROVE  Stripped(t) \in Table /\ Stripped(t).rows = From(t.rows, 0)
<1>1. t \in [rows: SUBSET Segment, verdict: Verdicts, layer: BOOLEAN] /\ Keyed(t.rows)
  BY DEF Table
<1>2. From(t.rows, 0) \in SUBSET Segment /\ Keyed(From(t.rows, 0))
  BY <1>1, FromIs
<1>3. [t.verdict EXCEPT !.org = 0] \in Verdicts
  BY <1>1 DEF Verdicts, Verdict, NoVerdict
<1>4. Stripped(t) = [t EXCEPT !.rows = From(t.rows, 0), !.verdict = [t.verdict EXCEPT !.org = 0], !.layer = FALSE]
  BY <1>1 DEF Stripped
<1> QED
  BY <1>1, <1>2, <1>3, <1>4 DEF Table

LEMMA ExportedIs ==
  ASSUME Parameters, Typed, NEW m \in Machines
  PROVE  /\ Exported(m) \in Table
         /\ \/ Exported(m).rows = From(store[m].rows, 0) /\ Tagged(store[m])
            \/ ~Tagged(store[m]) /\ m = Home /\ Exported(m).rows = From(db[m].rows, 0)
            \/ ~Tagged(store[m]) /\ m # Home /\ Exported(m).rows = {}
<1>1. store[m] \in Table /\ db[m] \in Table
  BY DEF Typed
<1>2. Untagged \in Table /\ From({}, 0) = {} /\ Untagged.rows = {}
  BY DEF Table, Untagged, Keyed, From, Verdicts
<1>3. CASE Tagged(store[m])
  <2>1. Exported(m) = Stripped(store[m])
    BY <1>3 DEF Exported, Stripped
  <2> QED
    BY <1>1, <1>3, <2>1, StrippedIs
<1>4. CASE ~Tagged(store[m]) /\ m = Home
  <2>1. Exported(m) = Stripped(db[m])
    BY <1>4 DEF Exported, Stripped
  <2> QED
    BY <1>1, <1>4, <2>1, StrippedIs
<1>5. CASE ~Tagged(store[m]) /\ m # Home
  <2>1. Exported(m) = Stripped(Untagged)
    BY <1>5 DEF Exported, Stripped
  <2> QED
    BY <1>2, <1>5, <2>1, StrippedIs
<1> QED
  BY <1>3, <1>4, <1>5

-----------------------------------------------------------------------------
(* Several machines' tag files. *)

Files == [Machines -> Table]

LEMMA WinnerIs ==
  ASSUME Parameters, NEW tfs \in Files, \E m \in Machines : tfs[m].rows # {}
  PROVE  /\ Winner(tfs) \in Machines /\ tfs[Winner(tfs)].rows # {}
         /\ \A m \in Machines : tfs[m].rows # {} => m <= Winner(tfs)
<1> DEFINE S == {m \in Machines : tfs[m].rows # {}}
<1>1. S \in SUBSET Machines /\ S # {} /\ Machines \in SUBSET Nat /\ IsFiniteSet(Machines)
  BY DEF Parameters
<1>2. IsFiniteSet(S) /\ S \in SUBSET Nat
  <2> HIDE DEF S
  <2> QED
    BY <1>1, FS_Subset
<1>3. Winner(tfs) = Max(S)
  BY DEF Winner
<1>4. Winner(tfs) \in S /\ \A m \in S : m <= Winner(tfs)
  <2> HIDE DEF S
  <2> QED
    BY <1>1, <1>2, <1>3, MaxIs
<1> QED
  BY <1>4

LEMMA ResolvedRowsIs ==
  ASSUME Parameters, NEW tfs \in Files
  PROVE  /\ ResolvedRows(tfs) \in SUBSET Segment /\ Keyed(ResolvedRows(tfs))
         /\ (\A m \in Machines : m <= Home) /\ tfs[Home].rows # {} =>
              ResolvedRows(tfs) = From(tfs[Home].rows, Home)
         /\ (\A m \in Machines : tfs[m].rows = {}) => ResolvedRows(tfs) = {}
<1>1. CASE \A m \in Machines : tfs[m].rows = {}
  <2>1. Home \in Machines
    BY DEF Parameters
  <2> QED
    BY <1>1, <2>1 DEF ResolvedRows, Keyed
<1>2. CASE \E m \in Machines : tfs[m].rows # {}
  <2> DEFINE w == Winner(tfs)
  <2>1. w \in Machines /\ \A m \in Machines : tfs[m].rows # {} => m <= w
    BY <1>2, WinnerIs
  <2> HIDE DEF w
  <2>2. ResolvedRows(tfs) = From(tfs[w].rows, w)
    BY <1>2 DEF ResolvedRows, w
  <2>3. tfs[w].rows \in SUBSET Segment /\ Keyed(tfs[w].rows)
    BY <2>1 DEF Files, Table
  <2>4. From(tfs[w].rows, w) \in SUBSET Segment /\ Keyed(From(tfs[w].rows, w))
    BY <2>1, <2>3, FromIs
  <2>5. ASSUME \A m \in Machines : m <= Home, tfs[Home].rows # {}
        PROVE  w = Home
    <3>1. Home <= w /\ w <= Home /\ Home \in Nat /\ w \in Nat
      BY <2>1, <2>5 DEF Parameters
    <3> QED
      BY <3>1
  <2> QED
    BY <1>2, <2>2, <2>4, <2>5
<1> QED
  BY <1>1, <1>2

LEMMA ResolvedVerdictIs ==
  ASSUME Parameters, NEW tfs \in Files
  PROVE  ResolvedVerdict(tfs) \in Verdicts
<1> DEFINE some == {o \in Machines : tfs[o].verdict # NoVerdict}
           f == [m \in some |-> [tfs[m].verdict EXCEPT !.org = m]]
           vs == {f[m] : m \in some}
<1>1. \A m \in some : f[m] \in Verdict /\ f[m].org = m
  <2> SUFFICES ASSUME NEW m \in some PROVE f[m] \in Verdict /\ f[m].org = m
    OBVIOUS
  <2>1. tfs[m].verdict \in Verdict
    BY DEF Files, Table, Verdicts
  <2> QED
    BY <2>1 DEF Verdict
<1>2. ResolvedVerdict(tfs) = IF vs = {} THEN NoVerdict
                             ELSE CHOOSE v \in vs : \A w \in vs \ {v} : Newer(v, w)
  <2> DEFINE us == {[tfs[m].verdict EXCEPT !.org = m] :
                      m \in {o \in Machines : tfs[o].verdict # NoVerdict}}
  <2>1. ResolvedVerdict(tfs) = IF us = {} THEN NoVerdict
                               ELSE CHOOSE v \in us : \A w \in us \ {v} : Newer(v, w)
    BY DEF ResolvedVerdict
  <2>2. us = vs
    OBVIOUS
  <2> HIDE DEF us, vs
  <2> QED
    BY <2>1, <2>2
<1> HIDE DEF f
<1>3. \A v \in vs : v \in Verdict
  BY <1>1
<1>4. \A v, w \in vs : v.org = w.org => v = w
  BY <1>1
<1>5. ASSUME vs # {}
      PROVE  \E v \in vs : \A w \in vs \ {v} : Newer(v, w)
  <2> HIDE DEF vs
  <2> DEFINE A == {v.at : v \in vs}
             whole == 1 .. MaxTime
  <2>1. A \in SUBSET whole /\ A # {} /\ A \in SUBSET Nat
    BY <1>3, <1>5 DEF Verdict, Parameters
  <2>2. IsFiniteSet(A)
    <3>1. IsFiniteSet(whole)
      BY FS_Interval DEF Parameters
    <3> HIDE DEF A, whole
    <3> QED
      BY <2>1, <3>1, FS_Subset
  <2>3. Max(A) \in A /\ \A x \in A : x <= Max(A)
    <3> HIDE DEF A
    <3> QED
      BY <2>1, <2>2, MaxIs
  <2>4. PICK t : t = Max(A)
    OBVIOUS
  <2> DEFINE O == {v.org : v \in {x \in vs : x.at = t}}
             all == Machines \cup {0}
  <2>5. O \in SUBSET all /\ O # {} /\ all \in SUBSET Nat
    BY <1>3, <2>3, <2>4 DEF Verdict, Parameters
  <2>6. IsFiniteSet(O) /\ O \in SUBSET Nat
    <3>1. IsFiniteSet(all)
      BY FS_AddElement DEF Parameters
    <3> HIDE DEF O, all
    <3> QED
      BY <2>5, <3>1, FS_Subset
  <2>7. Max(O) \in O /\ \A x \in O : x <= Max(O)
    <3> HIDE DEF O
    <3> QED
      BY <2>5, <2>6, MaxIs
  <2>8. PICK v \in vs : v.at = t /\ v.org = Max(O)
    BY <2>7
  <2>9. ASSUME NEW w \in vs \ {v} PROVE Newer(v, w)
    <3>1. w.at \in A /\ w.at \in Nat /\ v.at \in Nat
      BY <1>3, <2>1
    <3>2. w.at <= v.at
      BY <2>3, <2>4, <2>8, <3>1
    <3>3. CASE w.at = v.at
      <4>1. w.org \in O /\ w.org \in Nat /\ v.org \in Nat
        BY <2>6, <2>7, <2>8, <3>3
      <4>2. w.org <= v.org /\ w.org # v.org
        BY <1>4, <2>7, <2>8, <4>1
      <4> QED
        BY <3>3, <4>1, <4>2 DEF Newer
    <3> QED
      BY <3>1, <3>2, <3>3 DEF Newer
  <2> QED
    BY <2>9
<1>6. CASE vs = {}
  BY <1>2, <1>6 DEF Verdicts
<1>7. CASE vs # {}
  <2> HIDE DEF vs
  <2> QED
    BY <1>2, <1>3, <1>5, <1>7 DEF Verdicts
<1> QED
  BY <1>6, <1>7

LEMMA IngestedIs ==
  ASSUME Parameters, Typed, NEW m \in Readers
  PROVE  /\ Ingested(m) \in Table /\ Ingested(m).layer
         /\ Ingested(m).rows \in {db[m].rows, ResolvedRows(clone[m])}
         /\ (\E o \in Machines : clone[m][o].rows # {}) =>
              Content(Ingested(m).rows) = Content(ResolvedRows(clone[m]))
<1>1. db[m] \in Table /\ clone[m] \in Files /\ m \in Machines
  BY DEF Typed, Readers, Files
<1>2. /\ db[m] \in [rows: SUBSET Segment, verdict: Verdicts, layer: BOOLEAN] /\ Keyed(db[m].rows)
  BY <1>1 DEF Table
<1>3. CASE \E o \in Machines : Tagged(clone[m][o])
  <2> DEFINE R == ResolvedRows(clone[m])
             V == MergedVerdict(ResolvedVerdict(clone[m]), db[m].verdict)
  <2>1. R \in SUBSET Segment /\ Keyed(R)
    BY <1>1, ResolvedRowsIs
  <2>2. V \in Verdicts
    BY <1>1, <1>2, ResolvedVerdictIs, MergedIs
  <2>3. PICK x : x = Ingested(m)
    OBVIOUS
  <2>4. x = Resolved(db[m], clone[m])
    BY <1>3, <2>3 DEF Ingested
  <2>5. x.verdict = V /\ x.layer = TRUE
    BY <2>4 DEF Resolved
  <2>6. x.rows \in {db[m].rows, R} /\ Content(x.rows) = Content(R)
    BY <2>4 DEF Resolved
  <2>7. x = [rows |-> x.rows, verdict |-> V, layer |-> TRUE]
    BY <2>4 DEF Resolved
  <2> HIDE DEF R, V
  <2>8. x \in Table
    BY <1>2, <2>1, <2>2, <2>5, <2>6, <2>7 DEF Table
  <2> QED
    BY <2>3, <2>5, <2>6, <2>8 DEF R
<1>4. CASE \A o \in Machines : ~Tagged(clone[m][o])
  <2>1. Ingested(m) = [db[m] EXCEPT !.layer = TRUE]
    BY <1>4 DEF Ingested
  <2>2. \A o \in Machines : clone[m][o].rows = {}
    BY <1>4 DEF Tagged
  <2> QED
    BY <1>2, <2>1, <2>2 DEF Table
<1> QED
  BY <1>3, <1>4

-----------------------------------------------------------------------------
(* What a publication leaves in the store. *)

Revision(t) == Max({Latest(t.rows), t.verdict.at})

LEMMA RevisionIs ==
  ASSUME Parameters, NEW t \in Table
  PROVE  /\ Revision(t) \in {Latest(t.rows), t.verdict.at} /\ Revision(t) \in Nat
         /\ Latest(t.rows) <= Revision(t) /\ t.verdict.at <= Revision(t)
         /\ t.verdict.at \in 0 .. MaxTime
<1> DEFINE S == {Latest(t.rows), t.verdict.at}
<1>1. t.rows \in SUBSET Segment /\ t.verdict \in Verdicts
  BY DEF Table
<1>2. t.verdict.at \in 0 .. MaxTime
  BY <1>1 DEF Verdicts, Verdict, NoVerdict, Parameters
<1>3. Latest(t.rows) \in Nat /\ t.verdict.at \in Nat
  BY <1>1, <1>2, LatestIs DEF Parameters
<1>4. IsFiniteSet(S)
  <2>1. IsFiniteSet({Latest(t.rows)})
    BY FS_Singleton
  <2>2. S = {Latest(t.rows)} \cup {t.verdict.at}
    OBVIOUS
  <2> HIDE DEF S
  <2> QED
    BY <2>1, <2>2, FS_AddElement
<1>5. S \in SUBSET Nat /\ S # {}
  BY <1>3
<1>6. Max(S) \in S /\ \A y \in S : y <= Max(S)
  <2> HIDE DEF S
  <2> QED
    BY <1>4, <1>5, MaxIs
<1> QED
  BY <1>2, <1>3, <1>6 DEF Revision

LEMMA PublishedIs ==
  ASSUME Parameters, NEW st \in Table, NEW t \in Table
  PROVE  /\ Published(st, t) \in Table
         /\ (\A r \in st.rows : r.org = 0) /\ (\A r \in t.rows : r.org = 0) /\ t.verdict.org = 0 =>
              Published(st, t).rows =
                IF st.rows = {} \/ Latest(st.rows) < Revision(t) THEN t.rows ELSE st.rows
<1> DEFINE from == Origin(t)
           rev == Revision(t)
           same == {r \in st.rows : r.org = from}
           rows == IF ~Outdated(same, rev) THEN st.rows
                   ELSE t.rows \cup (IF from = 0 THEN st.rows \ same ELSE {})
           stale == st.verdict.org = 0 /\ st.verdict.at < rev
           v == IF t.verdict # NoVerdict THEN MergedVerdict(t.verdict, st.verdict)
                ELSE IF stale THEN NoVerdict ELSE st.verdict
<1>1. /\ st \in [rows: SUBSET Segment, verdict: Verdicts, layer: BOOLEAN] /\ Keyed(st.rows)
      /\ t \in [rows: SUBSET Segment, verdict: Verdicts, layer: BOOLEAN] /\ Keyed(t.rows)
  BY DEF Table
<1>2. from \in Nat /\ \A r \in st.rows : r.org \in Nat
  <2>1. from \in Machines \cup {0}
    BY OriginIs
  <2> HIDE DEF from, v, rows, same, rev, stale
  <2>2. \A r \in st.rows : r.org \in Machines \cup {0}
    BY <1>1 DEF Segment
  <2>3. Machines \subseteq Nat
    BY DEF Parameters
  <2>4. from \in Nat
    BY <2>1, <2>3
  <2>5. ASSUME NEW r \in st.rows PROVE r.org \in Nat
    <3>1. r.org \in Machines \cup {0}
      BY <2>2
    <3>2. PICK x \in Machines \cup {0} : x = r.org
      BY <3>1
    <3>3. x \in Nat
      BY <2>3
    <3> QED
      BY <3>2, <3>3
  <2> QED
    BY <2>4, <2>5
<1>3. v \in Verdicts
  <2>1. MergedVerdict(t.verdict, st.verdict) \in {t.verdict, st.verdict}
    BY <1>1, MergedIs
  <2>2. NoVerdict \in Verdicts
    BY DEF Verdicts
  <2> HIDE DEF stale
  <2> QED
    BY <1>1, <2>1, <2>2
<1>4. Published(st, t) = IF \E r \in st.rows : r.org > from THEN st
                         ELSE [st EXCEPT !.rows = rows, !.verdict = v]
  BY DEF Published, Revision
<1> HIDE DEF v, rev
<1>5. CASE \E r \in st.rows : r.org > from
  <2>1. Published(st, t) = st
    BY <1>4, <1>5
  <2>2. (\A r \in st.rows : r.org = 0) => from < 0
    BY <1>2, <1>5
  <2> QED
    BY <1>2, <2>1, <2>2
<1>6. CASE ~(\E r \in st.rows : r.org > from)
  <2>1. from = 0 => st.rows \ same = {}
    BY <1>2, <1>6
  <2>2. rows \in {st.rows, t.rows}
    BY <2>1
  <2>3. ASSUME \A r \in st.rows : r.org = 0, \A r \in t.rows : r.org = 0, t.verdict.org = 0
        PROVE  rows = IF st.rows = {} \/ Latest(st.rows) < rev THEN t.rows ELSE st.rows
    <3>1. from = 0
      BY <2>3, OriginIs
    <3>2. same = st.rows
      BY <2>3, <3>1
    <3> HIDE DEF from
    <3> QED
      BY <2>1, <3>1, <3>2 DEF Outdated
  <2> HIDE DEF rows, same, from
  <2>4. PICK x : x = [st EXCEPT !.rows = rows, !.verdict = v]
    OBVIOUS
  <2>5. x.rows = rows /\ x \in Table
    BY <1>1, <1>3, <2>2, <2>4 DEF Table
  <2>6. Published(st, t) = x
    BY <1>4, <1>6, <2>4
  <2> QED
    BY <2>3, <2>5, <2>6 DEF rev
<1> QED
  BY <1>5, <1>6

-----------------------------------------------------------------------------
(* A tagging at the home machine. *)

\* E is D after tagging w + 1, at t: some rows are new, and kept ones are of D.
Retagged(D, E, w, t, b, c) ==
  /\ E \in SUBSET Segment
  /\ \A r \in E : r \in D \/ (r.at = t /\ r.n = w + 1 /\ r.org = 0)
  /\ \E r \in E : r.at = t
  /\ ~c => Latest(D) < t /\ (b => \A r \in E : r.at = t)
  /\ Latest(D) <= t

LEMMA RetaggedLatest ==
  ASSUME Parameters, NEW D \in SUBSET Segment, NEW E, NEW w \in Nat, NEW t \in Nat,
         NEW b \in BOOLEAN, NEW c \in BOOLEAN, Retagged(D, E, w, t, b, c)
  PROVE  Latest(E) = t
<1>1. E \in SUBSET Segment
  BY DEF Retagged
<1>2. /\ Latest(D) \in Nat /\ \A r \in D : r.at \in Nat /\ r.at <= Latest(D)
      /\ \A r \in Segment : r.at \in Nat /\ r.n \in Nat
  BY LatestIs DEF Segment, Parameters
<1>3. /\ Latest(E) \in Nat /\ \A r \in E : r.at \in Nat /\ r.at <= Latest(E)
      /\ E # {} => \E r \in E : r.at = Latest(E)
  BY <1>1, LatestIs DEF Parameters
<1>4. \A r \in E : r.at <= t
  BY <1>2 DEF Retagged
<1>5. Latest(E) = t
  <2>1. PICK r \in E : r.at = t
    BY DEF Retagged
  <2>2. PICK q \in E : q.at = Latest(E)
    BY <1>3, <2>1
  <2> QED
    BY <1>3, <1>4, <2>1, <2>2
<1> QED
  BY <1>5

LEMMA RetaggedIs ==
  ASSUME Parameters, NEW D \in SUBSET Segment, NEW E, NEW w \in Nat, NEW t \in Nat,
         NEW b \in BOOLEAN, NEW c \in BOOLEAN, Retagged(D, E, w, t, b, c)
  PROVE  /\ Latest(E) = t
         /\ \A q \in Segment : Prior(q, D, w, b) => Prior(q, E, w + 1, c)
         /\ \A R \in SUBSET Segment : \A o : (\A q \in R : Prior(q, D, w, b)) => Version(R, E, o, c)
<1>1. E \in SUBSET Segment
  BY DEF Retagged
<1>2. /\ Latest(D) \in Nat /\ \A r \in D : r.at \in Nat /\ r.at <= Latest(D)
      /\ \A r \in Segment : r.at \in Nat /\ r.n \in Nat
  BY LatestIs DEF Segment, Parameters
<1>3. /\ Latest(E) \in Nat /\ \A r \in E : r.at \in Nat /\ r.at <= Latest(E)
      /\ E # {} => \E r \in E : r.at = Latest(E)
  BY <1>1, LatestIs DEF Parameters
<1>4. Latest(E) = t
  BY RetaggedLatest
<1>5. ASSUME NEW q \in Segment, Prior(q, D, w, b)
      PROVE  Prior(q, E, w + 1, c)
  <2>1. q.at <= Latest(D) /\ q.n <= w /\ q.at \in Nat /\ q.n \in Nat /\ Latest(D) <= t
    BY <1>2, <1>5 DEF Prior, Retagged
  <2>2. q.at <= Latest(E) /\ q.n <= w + 1
    BY <1>2, <1>4, <2>1
  <2>3. ASSUME NEW r \in E, q.n = r.n PROVE q.at = r.at
    <3>1. r \in D
      BY <2>1, <2>3 DEF Retagged
    <3> QED
      BY <1>5, <2>3, <3>1 DEF Prior
  <2>4. ASSUME NEW r \in E, ~c, q.start = r.start, r.at <= q.at
        PROVE  q.by = r.by /\ q.n = r.n /\ q.at = r.at
    <3>1. Latest(D) < t /\ r.at \in Nat
      BY <1>3, <2>4 DEF Retagged
    <3>2. r.at # t
      BY <1>2, <2>1, <2>4, <3>1
    <3>3. r \in D /\ ~b
      BY <2>4, <3>2 DEF Retagged
    <3> QED
      BY <1>5, <2>4, <3>3 DEF Prior
  <2> QED
    BY <2>2, <2>3, <2>4 DEF Prior
<1>6. ASSUME NEW R \in SUBSET Segment, NEW o, \A q \in R : Prior(q, D, w, b)
      PROVE  Version(R, E, o, c)
  <2> SUFFICES ASSUME ~c, NEW q \in R PROVE q.at < Latest(E)
    BY DEF Version
  <2>1. q.at <= Latest(D) /\ Latest(D) < t /\ q.at \in Nat
    BY <1>2, <1>6 DEF Prior, Retagged
  <2> QED
    BY <1>2, <1>4, <2>1
<1> QED
  BY <1>4, <1>5, <1>6

LEMMA Constants ==
  ASSUME Parameters
  PROVE  /\ Home \in Machines /\ MaxTime \in Nat \ {0} /\ MaxWrites \in Nat /\ MaxFaults \in Nat
         /\ \A m \in Machines : m \in Nat /\ m # 0
BY DEF Parameters

LEMMA UntaggedIs ==
  /\ Untagged \in Table /\ Untagged.rows = {} /\ Untagged.verdict.at = 0
  /\ Untagged.verdict.org = 0 /\ ~Untagged.layer /\ NoVerdict \in Verdicts
BY DEF Untagged, Table, Keyed, Verdicts, NoVerdict

LEMMA RowsOf ==
  ASSUME NEW t \in Table
  PROVE  t.rows \in SUBSET Segment /\ Keyed(t.rows) /\ t.verdict \in Verdicts /\ t.layer \in BOOLEAN
BY DEF Table

LEMMA AuthoringIs ==
  ASSUME Parameters, Typed, Authoring
  PROVE  /\ writes' = writes + 1 /\ writes' \in 1 .. MaxWrites /\ writes \in Nat
         /\ now' \in 1 .. MaxTime /\ now <= now' /\ now \in Nat
BY Constants DEF Authoring, Typed

LEMMA VerdictNow ==
  ASSUME Parameters, Typed, Authoring, NEW s \in {"agent", "floor"}
  PROVE  LET v == [src |-> s, at |-> now', org |-> 0] IN v \in Verdicts /\ v.at = now' /\ v.org = 0
BY AuthoringIs DEF Verdicts, Verdict

\* A tagging adds rows where there were none, or replaces them all.
LEMMA InsertIs ==
  ASSUME Parameters, Typed, Authoring, NEW m \in Machines, NEW R \in SUBSET Segment, Keyed(R),
         NEW E \in Insert(R, m)
  PROVE  /\ E \in SUBSET Segment /\ Keyed(E) /\ \E r \in E : r.at = now'
         /\ \A r \in E : r \in R \/ (r.at = now' /\ r.n = writes + 1 /\ r.org = 0)
<1>1. PICK W \in (SUBSET Window(R)) \ {{}} : E = R \cup Written(m, W)
  BY DEF Insert
<1>2. W \in SUBSET Starts /\ W # {} /\ \A s \in W : \A r \in R : r.start # s
  <2>1. Window(R) \subseteq Starts \ {r.start : r \in R}
    BY DEF Window
  <2>2. W \in SUBSET Window(R) /\ W \notin {{}}
    BY <1>1
  <2> QED
    BY <2>1, <2>2
<1>3. writes \in 0 .. MaxWrites /\ now \in 1 .. MaxTime
  BY DEF Typed
<1>4. /\ Written(m, W) \in SUBSET Segment /\ Written(m, W) # {} /\ Keyed(Written(m, W))
      /\ \A r \in Written(m, W) : /\ r.start \in W /\ r.by = m /\ r.n = writes + 1
                                  /\ r.at = now' /\ r.org = 0
  BY <1>2, <1>3, WrittenIs
<1>5. Keyed(E)
  BY <1>1, <1>2, <1>4 DEF Keyed
<1> QED
  BY <1>1, <1>4, <1>5

LEMMA RetagIs ==
  ASSUME Parameters, Typed, Authoring, NEW m \in Machines, NEW R, NEW E \in RetagAll(R, m)
  PROVE  /\ E \in SUBSET Segment /\ Keyed(E) /\ E # {}
         /\ \A r \in E : r.at = now' /\ r.n = writes + 1 /\ r.org = 0
<1>1. PICK W \in (SUBSET Starts) \ {{}} : E = Written(m, W)
  BY DEF RetagAll
<1>2. writes \in 0 .. MaxWrites /\ now \in 1 .. MaxTime /\ W \in SUBSET Starts /\ W # {}
  <2>1. W \in SUBSET Starts /\ W \notin {{}}
    BY <1>1
  <2> QED
    BY <2>1 DEF Typed
<1>3. /\ Written(m, W) \in SUBSET Segment /\ Written(m, W) # {} /\ Keyed(Written(m, W))
      /\ \A r \in Written(m, W) : /\ r.start \in W /\ r.by = m /\ r.n = writes + 1
                                  /\ r.at = now' /\ r.org = 0
  BY <1>2, WrittenIs
<1> QED
  BY <1>1, <1>3

\* A write of the project database: of segments, or of a verdict.
LEMMA WriteIs ==
  ASSUME Parameters, Typed, NEW m \in Machines, WriteProject(m), Latest(Topics) <= now
  PROVE  /\ m = Home /\ Authoring
         /\ db' \in [Machines -> Table] /\ blurred' \in BOOLEAN
         /\ \A o \in Readers : db'[o] = db[o]
         /\ db'[Home].layer
         /\ \/ /\ Retagged(Topics, db'[Home].rows, writes, now', blurred, blurred')
               /\ db'[Home].verdict = db[Home].verdict
            \/ /\ db'[Home].rows = Topics /\ blurred' = blurred
               /\ db'[Home].verdict.at = now' /\ db'[Home].verdict.org = 0
<1>1. m = Home /\ Authoring
  BY DEF WriteProject, Resolves
<1>2. /\ db \in [Machines -> Table] /\ Home \in Machines /\ blurred \in BOOLEAN
      /\ Topics \in SUBSET Segment /\ Keyed(Topics) /\ Topics = db[Home].rows
      /\ Readers = Machines \ {Home}
  BY Constants, RowsOf DEF Typed, Topics, Readers
<1>3. Latest(Topics) \in Nat /\ now' \in Nat /\ now \in Nat /\ Latest(Topics) <= now'
  <2>1. Latest(Topics) \in 0 .. MaxTime
    BY <1>2, LatestIs
  <2>2. now' \in 1 .. MaxTime /\ now <= now' /\ now \in Nat
    BY <1>1, AuthoringIs
  <2> QED
    BY <2>1, <2>2, Constants
<1>4. CASE \E E \in Insert(db[m].rows, m) :
             /\ db' = [db EXCEPT ![m] = [@ EXCEPT !.rows = E, !.layer = TRUE]]
             /\ blurred' = (blurred \/ now' <= Latest(db[m].rows))
  <2>1. PICK E \in Insert(Topics, Home) :
          /\ db' = [db EXCEPT ![Home] = [@ EXCEPT !.rows = E, !.layer = TRUE]]
          /\ blurred' = (blurred \/ now' <= Latest(Topics))
    BY <1>1, <1>2, <1>4
  <2>2. /\ E \in SUBSET Segment /\ Keyed(E) /\ \E r \in E : r.at = now'
        /\ \A r \in E : r \in Topics \/ (r.at = now' /\ r.n = writes + 1 /\ r.org = 0)
    BY <1>1, <1>2, InsertIs
  <2>3. PICK x : x = [db[Home] EXCEPT !.rows = E, !.layer = TRUE]
    OBVIOUS
  <2>4. x \in Table /\ x.rows = E /\ x.layer /\ x.verdict = db[Home].verdict
    <3>1. PICK y : y = db[Home]
      OBVIOUS
    <3>2. y \in Table /\ x = [y EXCEPT !.rows = E, !.layer = TRUE]
      BY <1>2, <2>3, <3>1
    <3>3. x \in Table /\ x.rows = E /\ x.layer /\ x.verdict = y.verdict
      BY <2>2, <3>2 DEF Table
    <3> QED
      BY <3>1, <3>3
  <2>5. db' = [db EXCEPT ![Home] = x]
    BY <2>1, <2>3
  <2>6. /\ db' \in [Machines -> Table] /\ db'[Home] = x
        /\ \A o \in Readers : db'[o] = db[o]
    BY <1>2, <2>4, <2>5
  <2>7. Retagged(Topics, E, writes, now', blurred, blurred')
    <3>1. ~blurred' => ~blurred /\ ~(now' <= Latest(Topics))
      BY <2>1
    <3>2. ~blurred' => ~blurred /\ Latest(Topics) < now'
      BY <1>3, <3>1
    <3> QED
      BY <1>3, <2>2, <3>2 DEF Retagged
  <2>8. blurred' \in BOOLEAN
    BY <1>2, <2>1
  <2> QED
    BY <1>1, <2>4, <2>6, <2>7, <2>8
<1>5. CASE \E E \in RetagAll(db[m].rows, m) :
             /\ db' = [db EXCEPT ![m] = [@ EXCEPT !.rows = E, !.layer = TRUE]]
             /\ blurred' = (now' <= Latest(db[m].rows))
  <2>1. PICK E \in RetagAll(Topics, Home) :
          /\ db' = [db EXCEPT ![Home] = [@ EXCEPT !.rows = E, !.layer = TRUE]]
          /\ blurred' = (now' <= Latest(Topics))
    BY <1>1, <1>2, <1>5
  <2>2. /\ E \in SUBSET Segment /\ Keyed(E) /\ E # {}
        /\ \A r \in E : r.at = now' /\ r.n = writes + 1 /\ r.org = 0
    BY <1>1, <1>2, RetagIs
  <2>3. PICK x : x = [db[Home] EXCEPT !.rows = E, !.layer = TRUE]
    OBVIOUS
  <2>4. x \in Table /\ x.rows = E /\ x.layer /\ x.verdict = db[Home].verdict
    <3>1. PICK y : y = db[Home]
      OBVIOUS
    <3>2. y \in Table /\ x = [y EXCEPT !.rows = E, !.layer = TRUE]
      BY <1>2, <2>3, <3>1
    <3>3. x \in Table /\ x.rows = E /\ x.layer /\ x.verdict = y.verdict
      BY <2>2, <3>2 DEF Table
    <3> QED
      BY <3>1, <3>3
  <2>5. db' = [db EXCEPT ![Home] = x]
    BY <2>1, <2>3
  <2>6. /\ db' \in [Machines -> Table] /\ db'[Home] = x
        /\ \A o \in Readers : db'[o] = db[o]
    BY <1>2, <2>4, <2>5
  <2>7. Retagged(Topics, E, writes, now', blurred, blurred')
    <3>1. ~blurred' => ~(now' <= Latest(Topics))
      BY <2>1
    <3>2. ~blurred' => Latest(Topics) < now'
      BY <1>3, <3>1
    <3> QED
      BY <1>3, <2>2, <3>2 DEF Retagged
  <2>8. blurred' \in BOOLEAN
    BY <2>1
  <2> QED
    BY <1>1, <2>4, <2>6, <2>7, <2>8
<1>6. CASE /\ db' = [db EXCEPT ![m] = [@ EXCEPT !.layer = TRUE,
                        !.verdict = [src |-> "agent", at |-> now', org |-> 0]]]
           /\ UNCHANGED blurred
  <2> DEFINE v == [src |-> "agent", at |-> now', org |-> 0]
  <2>1. v \in Verdicts /\ v.at = now' /\ v.org = 0
    BY <1>1, VerdictNow
  <2>2. db' = [db EXCEPT ![Home] = [@ EXCEPT !.layer = TRUE, !.verdict = v]]
    BY <1>1, <1>6
  <2> HIDE DEF v
  <2>3. PICK x : x = [db[Home] EXCEPT !.layer = TRUE, !.verdict = v]
    OBVIOUS
  <2>4. x \in Table /\ x.rows = Topics /\ x.layer /\ x.verdict = v
    <3>1. PICK y : y = db[Home]
      OBVIOUS
    <3>2. y \in Table /\ x = [y EXCEPT !.layer = TRUE, !.verdict = v]
      BY <1>2, <2>3, <3>1
    <3>3. x \in Table /\ x.rows = y.rows /\ x.layer /\ x.verdict = v
      BY <2>1, <3>2 DEF Table
    <3> QED
      BY <1>2, <3>1, <3>3
  <2>5. db' = [db EXCEPT ![Home] = x]
    BY <2>2, <2>3
  <2>6. /\ db' \in [Machines -> Table] /\ db'[Home] = x
        /\ \A o \in Readers : db'[o] = db[o]
    BY <1>2, <2>4, <2>5
  <2> QED
    BY <1>1, <1>2, <1>6, <2>1, <2>4, <2>6
<1> QED
  BY <1>4, <1>5, <1>6 DEF WriteProject

-----------------------------------------------------------------------------
(* Types are kept. *)

LEMMA TypedInit ==
  ASSUME Parameters, Init
  PROVE  Typed
<1>1. Untagged \in Table /\ [Untagged EXCEPT !.layer = TRUE] \in Table
  BY UntaggedIs DEF Table
<1>2. TagMark(Untagged)[2] = 0
  BY DEF TagMark, Untagged
<1>3. \A m \in Machines : mark[m] = TagMark(Untagged)
  BY DEF Init
<1>4. mark = [m \in Machines |-> mark[m]] /\ \A m \in Machines : mark[m][2] \in 0 .. MaxTime
  BY <1>2, <1>3, Constants DEF Init
<1>5. clone \in [Readers -> [Machines -> Table]]
  BY <1>1 DEF Init
<1>6. /\ db \in [Machines -> Table] /\ store \in [Machines -> Table] /\ files \in [Machines -> Table]
      /\ publishers \in SUBSET Child
  BY <1>1 DEF Init
<1>7. now \in 1 .. MaxTime /\ writes \in 0 .. MaxWrites /\ faults \in 0 .. MaxFaults
  BY Constants DEF Init
<1>8. lost \in BOOLEAN /\ blurred \in BOOLEAN /\ direct \in BOOLEAN /\ withheld \in BOOLEAN
  BY DEF Init
<1> QED
  BY <1>4, <1>5, <1>6, <1>7, <1>8 DEF Typed

LEMMA TagMarkIs ==
  ASSUME Parameters, NEW t \in Table
  PROVE  /\ TagMark(t)[2] = (IF t.layer THEN Latest(t.rows) ELSE 0)
         /\ TagMark(t)[2] \in 0 .. MaxTime
<1>1. TagMark(t)[2] = (IF t.layer THEN Latest(t.rows) ELSE 0)
  BY DEF TagMark
<1>2. Latest(t.rows) \in 0 .. MaxTime /\ MaxTime \in Nat
  BY RowsOf, LatestIs, Constants
<1> QED
  BY <1>1, <1>2

LEMMA MarkPut ==
  ASSUME Parameters, Typed, NEW m \in Machines, NEW t \in Table,
         mark' = [mark EXCEPT ![m] = TagMark(t)]
  PROVE  /\ mark' = [o \in Machines |-> mark'[o]] /\ \A o \in Machines : mark'[o][2] \in 0 .. MaxTime
         /\ mark'[m] = TagMark(t) /\ \A o \in Machines \ {m} : mark'[o] = mark[o]
<1>1. mark = [o \in Machines |-> mark[o]] /\ \A o \in Machines : mark[o][2] \in 0 .. MaxTime
  BY DEF Typed
<1>2. TagMark(t)[2] \in 0 .. MaxTime
  BY TagMarkIs
<1>3. PICK k : k = TagMark(t)
  OBVIOUS
<1>4. mark' = [mark EXCEPT ![m] = k] /\ k[2] \in 0 .. MaxTime
  BY <1>2, <1>3
<1>5. mark'[m] = k /\ \A o \in Machines \ {m} : mark'[o] = mark[o]
  BY <1>1, <1>4
<1>6. mark' = [o \in Machines |-> mark'[o]]
  BY <1>1, <1>4
<1> QED
  BY <1>1, <1>3, <1>4, <1>5, <1>6

LEMMA SpawnIs ==
  ASSUME Parameters, Typed, Authoring, Spawn
  PROVE  /\ publishers' \in SUBSET Child
         /\ \A c \in publishers' : c \in publishers \/ (~c.read /\ c.tags = Untagged)
         /\ faults' \in 0 .. MaxFaults /\ lost' \in BOOLEAN
         /\ \/ publishers \subseteq publishers' /\ \E c \in publishers' : ~c.read
            \/ lost'
<1>1. writes + 1 \in Nat /\ publishers \in SUBSET Child /\ faults \in 0 .. MaxFaults /\ lost \in BOOLEAN
  BY AuthoringIs DEF Typed
<1>2. CASE /\ publishers' = publishers \cup
                {[id |-> writes + 1, read |-> FALSE, tags |-> Untagged]}
           /\ UNCHANGED <<faults, lost>>
  <2>1. PICK x : x = [id |-> writes + 1, read |-> FALSE, tags |-> Untagged]
    OBVIOUS
  <2>2. x \in Child /\ ~x.read /\ x.tags = Untagged
    BY <1>1, <2>1, UntaggedIs DEF Child
  <2>3. publishers' = publishers \cup {x}
    BY <1>2, <2>1
  <2> QED
    BY <1>1, <1>2, <2>2, <2>3
<1>3. CASE faults < MaxFaults /\ faults' = faults + 1 /\ lost' = TRUE /\ UNCHANGED publishers
  <2>1. faults' \in 0 .. MaxFaults
    BY <1>1, <1>3, Constants
  <2> QED
    BY <1>1, <1>3, <2>1
<1> QED
  BY <1>2, <1>3 DEF Spawn

\* The store is tagged: its rows change only where a tagging is written to it.
LEMMA WriteStoreIs ==
  ASSUME Parameters, Typed, NEW m \in Machines, WriteStore(m)
  PROVE  /\ Authoring /\ store' \in [Machines -> Table] /\ direct' \in BOOLEAN
         /\ direct => direct'
         /\ ~direct' => \A o \in Machines : store'[o].rows = store[o].rows
<1>1. /\ Authoring /\ store \in [Machines -> Table] /\ store[m] \in Table /\ direct \in BOOLEAN
      /\ store[m].rows \in SUBSET Segment /\ Keyed(store[m].rows)
  BY RowsOf DEF WriteStore, Typed
<1>2. CASE \E rows \in Insert(store[m].rows, m) \cup RetagAll(store[m].rows, m) :
             /\ store' = [store EXCEPT ![m].rows = rows]
             /\ direct' = TRUE
  <2>1. PICK E \in Insert(store[m].rows, m) \cup RetagAll(store[m].rows, m) :
             /\ store' = [store EXCEPT ![m].rows = E]
             /\ direct' = TRUE
    BY <1>2
  <2>2. E \in SUBSET Segment /\ Keyed(E)
    BY <1>1, InsertIs, RetagIs
  <2>3. PICK y : y = store[m]
    OBVIOUS
  <2>4. PICK x : x = [y EXCEPT !.rows = E]
    OBVIOUS
  <2>5. y \in Table
    BY <1>1, <2>3
  <2>6. x \in Table
    BY <2>2, <2>4, <2>5 DEF Table
  <2>7. store' = [store EXCEPT ![m] = x]
    BY <1>1, <2>1, <2>3, <2>4
  <2>8. store' \in [Machines -> Table]
    BY <1>1, <2>6, <2>7
  <2> QED
    BY <1>1, <2>1, <2>8
<1>3. CASE /\ store' = [store EXCEPT ![m].verdict = [src |-> "agent", at |-> now', org |-> 0]]
           /\ UNCHANGED direct
  <2> DEFINE v == [src |-> "agent", at |-> now', org |-> 0]
  <2>1. v \in Verdicts
    BY <1>1, VerdictNow
  <2>2. store' = [store EXCEPT ![m].verdict = v]
    BY <1>3
  <2> HIDE DEF v
  <2>3. PICK y : y = store[m]
    OBVIOUS
  <2>4. PICK x : x = [y EXCEPT !.verdict = v]
    OBVIOUS
  <2>5. y \in Table
    BY <1>1, <2>3
  <2>6. x \in Table /\ x.rows = y.rows
    BY <2>1, <2>4, <2>5 DEF Table
  <2>7. store' = [store EXCEPT ![m] = x]
    BY <1>1, <2>2, <2>3, <2>4
  <2>8. store' \in [Machines -> Table] /\ \A o \in Machines : store'[o].rows = store[o].rows
    BY <1>1, <2>3, <2>6, <2>7
  <2> QED
    BY <1>1, <1>3, <2>8
<1> QED
  BY <1>2, <1>3 DEF WriteStore

LEMMA TagFloorIs ==
  ASSUME Parameters, Typed, NEW m \in Machines, TagFloor(m)
  PROVE  /\ Authoring /\ store' \in [Machines -> Table]
         /\ \A o \in Machines : store'[o].rows = store[o].rows
<1>1. /\ Authoring /\ store \in [Machines -> Table] /\ store[m] \in Table
      /\ store[m].verdict \in Verdicts
  BY RowsOf DEF TagFloor, Typed
<1>2. PICK v \in {NoVerdict, [src |-> "floor", at |-> now', org |-> 0]} :
          store' = [store EXCEPT ![m].verdict = IF @.src = "agent" THEN @ ELSE v]
  BY DEF TagFloor
<1>3. v \in Verdicts
  BY <1>1, <1>2, VerdictNow, UntaggedIs
<1>4. PICK y : y = store[m]
  OBVIOUS
<1>5. PICK u : u = (IF y.verdict.src = "agent" THEN y.verdict ELSE v)
  OBVIOUS
<1>6. u \in Verdicts /\ y \in Table
  BY <1>1, <1>3, <1>4, <1>5
<1>7. PICK x : x = [y EXCEPT !.verdict = u]
  OBVIOUS
<1>8. x \in Table /\ x.rows = y.rows
  BY <1>6, <1>7 DEF Table
<1>9. store' = [store EXCEPT ![m] = x]
  BY <1>1, <1>2, <1>4, <1>5, <1>7
<1> QED
  BY <1>1, <1>4, <1>8, <1>9

LEMMA FoldIs ==
  ASSUME Parameters, Typed, NEW m \in Machines, NEW t \in Table,
         store' = [store EXCEPT ![m] = Folded(@, t)]
  PROVE  /\ store' \in [Machines -> Table]
         /\ store'[m] = Folded(store[m], t)
         /\ \A o \in Machines \ {m} : store'[o] = store[o]
<1>1. store \in [Machines -> Table] /\ store[m] \in Table
  BY DEF Typed
<1>2. PICK x : x = Folded(store[m], t)
  OBVIOUS
<1>3. x \in Table
  BY <1>1, <1>2, FoldedIs
<1>4. store' = [store EXCEPT ![m] = x]
  BY <1>1, <1>2
<1> QED
  BY <1>1, <1>2, <1>3, <1>4

LEMMA PushIs ==
  ASSUME Parameters, Typed, NEW m \in Machines, Push(m)
  PROVE  /\ files' \in [Machines -> Table] /\ files'[m] = Exported(m)
         /\ \A o \in Machines \ {m} : files'[o] = files[o]
         /\ clone' \in [Readers -> [Machines -> Table]]
         /\ \A o \in Readers : \/ clone'[o] = files' /\ o = m
                               \/ clone'[o] = clone[o] /\ o # m
                               \/ clone'[o] = [clone[o] EXCEPT ![m] = Exported(m)] /\ o = m
         /\ withheld' \in BOOLEAN
         /\ ~withheld' => ~withheld /\ (m = Home /\ Exported(m).rows = {} => Topics = {})
<1>1. /\ files \in [Machines -> Table] /\ clone \in [Readers -> [Machines -> Table]]
      /\ withheld \in BOOLEAN /\ Exported(m) \in Table
  BY ExportedIs DEF Typed
<1>2. PICK x : x = Exported(m)
  OBVIOUS
<1>3. files' = [files EXCEPT ![m] = x]
  BY <1>2 DEF Push
<1>4. /\ files' \in [Machines -> Table] /\ files'[m] = x
      /\ \A o \in Machines \ {m} : files'[o] = files[o]
  BY <1>1, <1>2, <1>3
<1>5. /\ withheld' \in BOOLEAN
      /\ ~withheld' => ~withheld /\ (m = Home /\ x.rows = {} => Topics = {})
  <2>1. withheld' = (withheld \/ (m = Home /\ x.rows = {} /\ db[m].rows # {}))
    BY <1>2 DEF Push
  <2>2. withheld' \in BOOLEAN
    BY <1>1, <2>1
  <2>3. ~withheld' => ~withheld /\ ~(m = Home /\ x.rows = {} /\ db[m].rows # {})
    BY <2>1
  <2> QED
    BY <2>2, <2>3 DEF Topics
<1>6. CASE clone' = [o \in Readers |-> [clone[o] EXCEPT ![m] = IF o = m THEN Exported(m) ELSE @]]
  <2>1. \A o \in Readers : clone'[o] = [clone[o] EXCEPT ![m] = IF o = m THEN x ELSE clone[o][m]]
    BY <1>2, <1>6
  <2>2. ASSUME NEW o \in Readers, o # m PROVE clone'[o] = clone[o]
    <3>1. clone'[o] = [clone[o] EXCEPT ![m] = clone[o][m]]
      BY <2>1, <2>2
    <3>2. clone[o] \in [Machines -> Table]
      BY <1>1
    <3> QED
      BY <3>1, <3>2
  <2>3. ASSUME NEW o \in Readers, o = m PROVE clone'[o] = [clone[o] EXCEPT ![m] = x]
    BY <2>1, <2>3
  <2>4. ASSUME NEW o \in Readers PROVE clone'[o] \in [Machines -> Table]
    <3>1. clone[o] \in [Machines -> Table] /\ x \in Table
      BY <1>1, <1>2
    <3>2. CASE o = m
      BY <2>3, <3>1, <3>2
    <3>3. CASE o # m
      BY <2>2, <3>1, <3>3
    <3> QED
      BY <3>2, <3>3
  <2>5. clone' \in [Readers -> [Machines -> Table]]
    BY <1>6, <2>4
  <2> QED
    BY <1>2, <1>4, <1>5, <2>2, <2>3, <2>5
<1>7. CASE m # Home /\ clone' = [clone EXCEPT ![m] = files']
  <2>1. m \in Readers
    BY <1>7 DEF Readers
  <2>2. PICK f : f = files'
    OBVIOUS
  <2>3. f \in [Machines -> Table] /\ clone' = [clone EXCEPT ![m] = f]
    BY <1>4, <1>7, <2>2
  <2>4. /\ clone' \in [Readers -> [Machines -> Table]] /\ clone'[m] = f
        /\ \A o \in Readers \ {m} : clone'[o] = clone[o]
    BY <1>1, <2>1, <2>3
  <2> QED
    BY <1>2, <1>4, <1>5, <2>2, <2>4
<1> QED
  BY <1>6, <1>7 DEF Push

LEMMA PullIs ==
  ASSUME Parameters, Typed, NEW m \in Readers, Pull(m)
  PROVE  /\ clone' \in [Readers -> [Machines -> Table]]
         /\ clone'[m][m] = clone[m][m] /\ \A o \in Machines \ {m} : clone'[m][o] = files[o]
         /\ \A o \in Readers \ {m} : clone'[o] = clone[o]
<1>1. /\ files \in [Machines -> Table] /\ clone \in [Readers -> [Machines -> Table]]
      /\ m \in Machines
  BY DEF Typed, Readers
<1>2. PICK f : f = [files EXCEPT ![m] = clone[m][m]]
  OBVIOUS
<1>3. /\ f \in [Machines -> Table] /\ f[m] = clone[m][m]
      /\ \A o \in Machines \ {m} : f[o] = files[o]
  BY <1>1, <1>2
<1>4. clone' = [clone EXCEPT ![m] = f]
  BY <1>2 DEF Pull
<1> QED
  BY <1>1, <1>3, <1>4

LEMMA IngestIs ==
  ASSUME Parameters, Typed, NEW m \in Readers, Ingest(m)
  PROVE  /\ Ingested(m) \in Table /\ m \in Machines
         /\ db' \in [Machines -> Table] /\ db'[m] = Ingested(m)
         /\ \A o \in Machines \ {m} : db'[o] = db[o]
         /\ \/ /\ store' = [store EXCEPT ![m] = Folded(@, Ingested(m))]
               /\ mark' = [mark EXCEPT ![m] = TagMark(Ingested(m))]
            \/ UNCHANGED <<store, mark>>
<1>1. Ingested(m) \in Table /\ m \in Machines /\ db \in [Machines -> Table]
  BY IngestedIs DEF Typed, Readers
<1>2. PICK t : t = Ingested(m)
  OBVIOUS
<1>3. db' = [db EXCEPT ![m] = t]
  BY <1>2 DEF Ingest
<1>4. db' \in [Machines -> Table] /\ db'[m] = t /\ \A o \in Machines \ {m} : db'[o] = db[o]
  BY <1>1, <1>2, <1>3
<1> QED
  BY <1>1, <1>2, <1>4 DEF Ingest

LEMMA PublishIs ==
  ASSUME Parameters, Typed, NEW c \in publishers, Publish(c)
  PROVE  /\ c.tags \in Table /\ store[Home] \in Table
         /\ store' \in [Machines -> Table] /\ store'[Home] = Published(store[Home], c.tags)
         /\ \A o \in Readers : store'[o] = store[o]
<1>1. c.tags \in Table /\ store \in [Machines -> Table] /\ Home \in Machines
  BY Constants DEF Typed, Child
<1>2. store[Home] \in Table
  BY <1>1
<1>3. PICK x : x = Published(store[Home], c.tags)
  OBVIOUS
<1>4. x \in Table
  BY <1>1, <1>2, <1>3, PublishedIs
<1>5. store' = [store EXCEPT ![Home] = x]
  BY <1>1, <1>3 DEF Publish
<1> QED
  BY <1>1, <1>2, <1>3, <1>4, <1>5 DEF Readers

LEMMA TypedStep ==
  ASSUME Parameters, Typed, HomeSound, Next
  PROVE  Typed'
<1>1. /\ Typed /\ Home \in Machines
      /\ \A m \in Readers : m \in Machines
      /\ \A m \in Machines : db[m] \in Table /\ store[m] \in Table
      /\ Latest(Topics) <= now
  BY Constants DEF Typed, Readers, HomeSound
<1>2. ASSUME NEW m \in Machines, WriteProject(m)
      PROVE  Typed'
  <2>1. Authoring /\ db' \in [Machines -> Table] /\ blurred' \in BOOLEAN
    BY <1>1, <1>2, WriteIs
  <2>2. writes' \in 0 .. MaxWrites /\ now' \in 1 .. MaxTime
    BY <2>1, AuthoringIs, Constants
  <2>3. publishers' \in SUBSET Child /\ faults' \in 0 .. MaxFaults /\ lost' \in BOOLEAN
    <3>1. Spawn
      BY <1>2 DEF WriteProject
    <3> QED
      BY <2>1, <3>1, SpawnIs
  <2>4. UNCHANGED <<store, mark, files, clone, direct, withheld>>
    BY <1>2 DEF WriteProject, archive
  <2> QED
    BY <2>1, <2>2, <2>3, <2>4 DEF Typed
<1>3. ASSUME NEW m \in Machines, WriteStore(m)
      PROVE  Typed'
  <2>1. Authoring /\ store' \in [Machines -> Table] /\ direct' \in BOOLEAN
    BY <1>3, WriteStoreIs
  <2>2. writes' \in 0 .. MaxWrites /\ now' \in 1 .. MaxTime
    BY <2>1, AuthoringIs, Constants
  <2>3. UNCHANGED <<db, mark, publishers, files, clone, faults, lost, blurred, withheld>>
    BY <1>3 DEF WriteStore, archive
  <2> QED
    BY <2>1, <2>2, <2>3 DEF Typed
<1>4. ASSUME NEW m \in Machines, TagFloor(m)
      PROVE  Typed'
  <2>1. Authoring /\ store' \in [Machines -> Table]
    BY <1>4, TagFloorIs
  <2>2. writes' \in 0 .. MaxWrites /\ now' \in 1 .. MaxTime
    BY <2>1, AuthoringIs, Constants
  <2>3. UNCHANGED <<db, mark, publishers, files, clone, faults, lost, blurred, direct, withheld>>
    BY <1>4 DEF TagFloor, archive, excuses
  <2> QED
    BY <2>1, <2>2, <2>3 DEF Typed
<1>5. ASSUME NEW m \in Machines, Fold(m)
      PROVE  Typed'
  <2>1. store' \in [Machines -> Table]
    BY <1>1, <1>5, FoldIs DEF Fold
  <2>2. mark' = [o \in Machines |-> mark'[o]] /\ \A o \in Machines : mark'[o][2] \in 0 .. MaxTime
    BY <1>1, <1>5, MarkPut DEF Fold
  <2>3. lost' \in BOOLEAN
    BY <1>5 DEF Fold
  <2>4. UNCHANGED <<db, publishers, files, clone, now, writes, faults, blurred, direct, withheld>>
    BY <1>5 DEF Fold, archive
  <2> QED
    BY <2>1, <2>2, <2>3, <2>4 DEF Typed
<1>6. ASSUME NEW m \in Machines, Push(m)
      PROVE  Typed'
  <2>1. /\ files' \in [Machines -> Table] /\ clone' \in [Readers -> [Machines -> Table]]
        /\ withheld' \in BOOLEAN
    BY <1>6, PushIs
  <2>2. UNCHANGED <<db, store, mark, publishers, now, writes, faults, lost, blurred, direct>>
    BY <1>6 DEF Push, index, excuses
  <2> QED
    BY <2>1, <2>2 DEF Typed
<1>7. ASSUME NEW m \in Readers, Pull(m)
      PROVE  Typed'
  <2>1. clone' \in [Readers -> [Machines -> Table]]
    BY <1>7, PullIs
  <2>2. UNCHANGED <<db, store, mark, publishers, files, now, writes, faults, lost, blurred, direct,
                    withheld>>
    BY <1>7 DEF Pull, index, excuses
  <2> QED
    BY <2>1, <2>2 DEF Typed
<1>8. ASSUME NEW m \in Readers, Ingest(m)
      PROVE  Typed'
  <2>1. /\ Ingested(m) \in Table /\ m \in Machines /\ db' \in [Machines -> Table]
        /\ \/ /\ store' = [store EXCEPT ![m] = Folded(@, Ingested(m))]
              /\ mark' = [mark EXCEPT ![m] = TagMark(Ingested(m))]
           \/ UNCHANGED <<store, mark>>
    BY <1>8, IngestIs
  <2>2. UNCHANGED <<publishers, files, clone, now, writes, faults, lost, blurred, direct, withheld>>
    BY <1>8 DEF Ingest, excuses
  <2>3. /\ store' \in [Machines -> Table] /\ mark' = [o \in Machines |-> mark'[o]]
        /\ \A o \in Machines : mark'[o][2] \in 0 .. MaxTime
    <3>1. CASE /\ store' = [store EXCEPT ![m] = Folded(@, Ingested(m))]
               /\ mark' = [mark EXCEPT ![m] = TagMark(Ingested(m))]
      BY <2>1, <3>1, FoldIs, MarkPut
    <3>2. CASE UNCHANGED <<store, mark>>
      BY <3>2 DEF Typed
    <3> QED
      BY <2>1, <3>1, <3>2
  <2> QED
    BY <2>1, <2>2, <2>3 DEF Typed
<1>9. ASSUME NEW c \in publishers, ReadSnapshot(c)
      PROVE  Typed'
  <2>1. PICK t : t = db[Home]
    OBVIOUS
  <2>2. PICK d : d = [c EXCEPT !.read = TRUE, !.tags = t]
    OBVIOUS
  <2>3. publishers' = (publishers \ {c}) \cup {d}
    BY <1>9, <2>1, <2>2 DEF ReadSnapshot
  <2>4. publishers \in SUBSET Child /\ c \in Child /\ t \in Table
    BY <1>1, <2>1 DEF Typed
  <2>5. d \in Child
    BY <2>2, <2>4 DEF Child
  <2>6. publishers' \in SUBSET Child
    BY <2>3, <2>4, <2>5
  <2>7. UNCHANGED <<db, store, mark, files, clone, now, writes, faults, lost, blurred, direct, withheld>>
    BY <1>9 DEF ReadSnapshot, index, archive, excuses
  <2> QED
    BY <2>6, <2>7 DEF Typed
<1>10. ASSUME NEW c \in publishers, Publish(c)
       PROVE  Typed'
  <2>1. store' \in [Machines -> Table]
    BY <1>10, PublishIs
  <2>2. publishers' \in SUBSET Child
    BY <1>10 DEF Publish, Typed
  <2>3. UNCHANGED <<db, mark, files, clone, now, writes, faults, lost, blurred, direct, withheld>>
    BY <1>10 DEF Publish, archive, excuses
  <2> QED
    BY <2>1, <2>2, <2>3 DEF Typed
<1>11. ASSUME NEW c \in publishers, PublisherDies(c)
       PROVE  Typed'
  <2>1. faults' \in 0 .. MaxFaults
    BY <1>11, Constants DEF PublisherDies, Typed
  <2>2. publishers' \in SUBSET Child /\ lost' \in BOOLEAN
    BY <1>11 DEF PublisherDies, Typed
  <2>3. UNCHANGED <<db, store, mark, files, clone, now, writes, blurred, direct, withheld>>
    BY <1>11 DEF PublisherDies, index, archive
  <2> QED
    BY <2>1, <2>2, <2>3 DEF Typed
<1> QED
  BY <1>2, <1>3, <1>4, <1>5, <1>6, <1>7, <1>8, <1>9, <1>10, <1>11 DEF Next

-----------------------------------------------------------------------------
(* The home machine: its database, and its publishing children. *)

\* No segment is written.
Quiet ==
  /\ Topics' = Topics /\ blurred' = blurred
  /\ writes' \in Nat /\ writes <= writes' /\ now' \in Nat /\ now <= now'

LEMMA OfLater ==
  ASSUME NEW D \in SUBSET Segment, NEW R \in SUBSET Segment, NEW o, NEW w \in Nat, NEW v \in Nat,
         w <= v, NEW b, Of(R, D, o, w, b)
  PROVE  Of(R, D, o, v, b)
<1>1. \A q \in R : q.n \in Nat
  BY DEF Segment
<1>2. \A q \in R : q.n <= w => q.n <= v
  BY <1>1
<1> QED
  BY <1>2 DEF Of, Prior

LEMMA OfRetagged ==
  ASSUME Parameters, NEW D \in SUBSET Segment, NEW E, NEW w \in Nat, NEW t \in Nat,
         NEW b \in BOOLEAN, NEW c \in BOOLEAN, Retagged(D, E, w, t, b, c),
         NEW R \in SUBSET Segment, NEW o, Of(R, D, o, w, b)
  PROVE  /\ Of(R, E, o, w + 1, c)
         /\ \A p : Version(R, E, p, c)
<1>1. \A q \in R : q.org = o /\ Prior(q, D, w, b)
  BY DEF Of
<1>2. /\ \A q \in Segment : Prior(q, D, w, b) => Prior(q, E, w + 1, c)
      /\ \A Q \in SUBSET Segment : \A p : (\A q \in Q : Prior(q, D, w, b)) => Version(Q, E, p, c)
  BY RetaggedIs
<1> QED
  BY <1>1, <1>2 DEF Of

LEMMA TopicsAre ==
  ASSUME Parameters, Typed
  PROVE  /\ Topics \in SUBSET Segment /\ Keyed(Topics) /\ Latest(Topics) \in Nat
         /\ writes \in Nat /\ now \in Nat /\ blurred \in BOOLEAN
         /\ db[Home] \in Table /\ store[Home] \in Table
<1>1. db[Home] \in Table /\ store[Home] \in Table
  BY Constants DEF Typed
<1>2. Topics \in SUBSET Segment /\ Keyed(Topics)
  BY <1>1, RowsOf DEF Topics
<1>3. Latest(Topics) \in Nat
  BY <1>2, LatestIs, Constants
<1>4. writes \in Nat /\ now \in Nat /\ blurred \in BOOLEAN
  BY Constants DEF Typed
<1> QED
  BY <1>1, <1>2, <1>3, <1>4

LEMMA WroteIs ==
  ASSUME Parameters, Typed, HomeSound, NEW m \in Machines, WriteProject(m)
  PROVE  /\ m = Home /\ writes' = writes + 1 /\ now' \in Nat /\ now <= now'
         /\ blurred' \in BOOLEAN /\ Topics' = db'[Home].rows /\ db'[Home] \in Table
         /\ UNCHANGED <<store, mark, files, clone, direct, withheld>>
         /\ \A o \in Readers : db'[o] = db[o]
         /\ db'[Home].layer
         /\ \/ /\ Retagged(Topics, Topics', writes, now', blurred, blurred')
               /\ Latest(Topics') = now'
               /\ db'[Home].verdict = db[Home].verdict
            \/ /\ Quiet
               /\ db'[Home].verdict.at = now' /\ db'[Home].verdict.org = 0
<1>1. /\ m = Home /\ Authoring
      /\ db' \in [Machines -> Table] /\ blurred' \in BOOLEAN
      /\ \A o \in Readers : db'[o] = db[o]
      /\ db'[Home].layer
      /\ \/ /\ Retagged(Topics, db'[Home].rows, writes, now', blurred, blurred')
            /\ db'[Home].verdict = db[Home].verdict
         \/ /\ db'[Home].rows = Topics /\ blurred' = blurred
            /\ db'[Home].verdict.at = now' /\ db'[Home].verdict.org = 0
  BY WriteIs DEF HomeSound
<1>2. /\ writes' = writes + 1 /\ now' \in 1 .. MaxTime /\ now <= now' /\ writes \in Nat
  BY <1>1, AuthoringIs
<1>3. now' \in Nat /\ writes' \in Nat /\ writes <= writes'
  BY <1>2, Constants
<1>4. Topics' = db'[Home].rows /\ db'[Home] \in Table
  BY <1>1, Constants DEF Topics
<1>5. UNCHANGED <<store, mark, files, clone, direct, withheld>>
  BY DEF WriteProject, archive
<1>6. ASSUME Retagged(Topics, Topics', writes, now', blurred, blurred')
      PROVE  Latest(Topics') = now'
  <2>1. PICK E, t, c : E = Topics' /\ t = now' /\ c = blurred'
    OBVIOUS
  <2>2. Topics \in SUBSET Segment /\ writes \in Nat /\ t \in Nat /\ blurred \in BOOLEAN /\ c \in BOOLEAN
    <3>1. t \in Nat /\ c \in BOOLEAN
      BY <1>1, <1>3, <2>1
    <3> QED
      BY <3>1, TopicsAre
  <2>3. Retagged(Topics, E, writes, t, blurred, c)
    BY <1>6, <2>1
  <2>4. Latest(E) = t
    BY <2>2, <2>3, RetaggedLatest
  <2> QED
    BY <2>1, <2>4
<1>7. CASE /\ Retagged(Topics, db'[Home].rows, writes, now', blurred, blurred')
           /\ db'[Home].verdict = db[Home].verdict
  <2>1. Retagged(Topics, Topics', writes, now', blurred, blurred')
    BY <1>4, <1>7
  <2> QED
    BY <1>1, <1>2, <1>3, <1>4, <1>5, <1>6, <1>7, <2>1
<1>8. CASE /\ db'[Home].rows = Topics /\ blurred' = blurred
           /\ db'[Home].verdict.at = now' /\ db'[Home].verdict.org = 0
  <2>1. Quiet
    BY <1>2, <1>3, <1>4, <1>8 DEF Quiet
  <2> QED
    BY <1>1, <1>2, <1>3, <1>4, <1>5, <1>8, <2>1
<1> QED
  BY <1>1, <1>7, <1>8

LEMMA HomeKept ==
  ASSUME Parameters, Typed, HomeSound, Quiet
  PROVE  /\ Of(Topics', Topics', 0, writes', blurred')
         /\ Latest(Topics') <= now' /\ db[Home].verdict.at <= now'
<1>1. Of(Topics, Topics, 0, writes', blurred)
  <2>1. PICK v : v = writes'
    OBVIOUS
  <2>2. Of(Topics, Topics, 0, v, blurred)
    BY <2>1, TopicsAre, OfLater DEF HomeSound, Quiet
  <2> QED
    BY <2>1, <2>2
<1>2. Latest(Topics) <= now' /\ db[Home].verdict.at <= now'
  <2>1. Latest(Topics) \in Nat /\ now \in Nat
    BY TopicsAre
  <2>2. db[Home].verdict.at \in Nat
    BY TopicsAre, RevisionIs, Constants
  <2> QED
    BY <2>1, <2>2 DEF HomeSound, Quiet
<1>3. Topics' = Topics /\ blurred' = blurred
  BY DEF Quiet
<1> QED
  BY <1>1, <1>2, <1>3

LEMMA HomeWrites ==
  ASSUME Parameters, Typed, HomeSound, NEW m \in Machines, WriteProject(m)
  PROVE  HomeSound'
<1>1. /\ writes' = writes + 1 /\ now' \in Nat /\ now <= now' /\ blurred' \in BOOLEAN
      /\ Topics' = db'[Home].rows /\ db'[Home] \in Table /\ db'[Home].layer
      /\ \/ /\ Retagged(Topics, Topics', writes, now', blurred, blurred')
            /\ Latest(Topics') = now'
            /\ db'[Home].verdict = db[Home].verdict
         \/ /\ Quiet
            /\ db'[Home].verdict.at = now' /\ db'[Home].verdict.org = 0
  BY WroteIs
<1>2. CASE /\ Quiet
           /\ db'[Home].verdict.at = now' /\ db'[Home].verdict.org = 0
  <2>1. Of(Topics', Topics', 0, writes', blurred') /\ Latest(Topics') <= now'
    BY <1>2, HomeKept
  <2> QED
    BY <1>1, <1>2, <2>1 DEF HomeSound
<1>3. CASE /\ Retagged(Topics, Topics', writes, now', blurred, blurred')
           /\ Latest(Topics') = now'
           /\ db'[Home].verdict = db[Home].verdict
  <2>1. PICK D, E, w, t, c : /\ D = Topics /\ E = Topics' /\ w = writes /\ t = now' /\ c = blurred'
    OBVIOUS
  <2>2. /\ D \in SUBSET Segment /\ w \in Nat /\ t \in Nat /\ blurred \in BOOLEAN /\ c \in BOOLEAN
        /\ Retagged(D, E, w, t, blurred, c) /\ Latest(E) = t
    BY <1>1, <1>3, <2>1, TopicsAre
  <2>3. \A r \in D : r.org = 0 /\ Prior(r, D, w, blurred)
    BY <2>1 DEF HomeSound, Of
  <2>4. \A r \in E : r.org = 0 /\ r.n <= w + 1
    <3>1. \A r \in E : r \in D \/ (r.n = w + 1 /\ r.org = 0)
      BY <2>2 DEF Retagged
    <3>2. \A r \in D : r.n \in Nat /\ r.n <= w
      BY <2>2, <2>3 DEF Prior, Segment
    <3> QED
      BY <2>2, <2>3, <3>1, <3>2
  <2>5. E \in SUBSET Segment /\ Keyed(E)
    BY <1>1, <2>1, RowsOf
  <2>6. ASSUME NEW q \in E PROVE Prior(q, E, w + 1, c)
    <3>1. q.at <= Latest(E)
      BY <2>5, LatestIs
    <3>2. q.n <= w + 1
      BY <2>4
    <3>3. ASSUME NEW r \in E, q.n = r.n PROVE q.at = r.at
      <4>1. \A x \in E : x \in D \/ (x.at = t /\ x.n = w + 1)
        BY <2>2 DEF Retagged
      <4>2. \A x \in D : x.n <= w /\ x.n \in Nat
        BY <2>2, <2>3 DEF Prior, Segment
      <4>3. \A x \in D : x.n # w + 1
        BY <2>2, <4>2
      <4>4. CASE q \in D
        BY <2>3, <3>3, <4>1, <4>3, <4>4 DEF Prior
      <4>5. CASE q \notin D
        BY <3>3, <4>1, <4>3, <4>5
      <4> QED
        BY <4>4, <4>5
    <3>4. ASSUME NEW r \in E, q.start = r.start PROVE q = r
      BY <2>5, <3>4 DEF Keyed
    <3> QED
      BY <3>1, <3>2, <3>3, <3>4 DEF Prior
  <2>7. Of(E, E, 0, w + 1, c)
    BY <2>4, <2>6 DEF Of
  <2>8. Of(Topics', Topics', 0, writes', blurred')
    BY <1>1, <2>1, <2>7
  <2>9. db'[Home].verdict.at <= now' /\ db'[Home].verdict.org = 0
    <3>1. db[Home].verdict.at \in Nat /\ now \in Nat
      BY TopicsAre, RevisionIs, Constants
    <3> QED
      BY <1>1, <1>3, <3>1 DEF HomeSound
  <2>10. Latest(Topics') <= now'
    BY <1>1, <1>3
  <2> QED
    BY <1>1, <2>8, <2>9, <2>10 DEF HomeSound
<1> QED
  BY <1>1, <1>2, <1>3

\* Only a tagging changes what the home machine's database holds.
LEMMA StillHome ==
  ASSUME Parameters, Typed, Next, ~\E m \in Machines : WriteProject(m)
  PROVE  db'[Home] = db[Home] /\ Quiet
<1>1. writes \in Nat /\ now \in Nat
  BY TopicsAre
<1>2. ASSUME UNCHANGED <<db, blurred>>, \/ UNCHANGED <<writes, now>>
                                        \/ Authoring
      PROVE  db'[Home] = db[Home] /\ Quiet
  <2>1. writes' \in Nat /\ writes <= writes' /\ now' \in Nat /\ now <= now'
    <3>1. CASE UNCHANGED <<writes, now>>
      BY <1>1, <3>1
    <3>2. CASE Authoring
      <4>1. writes' = writes + 1 /\ now' \in 1 .. MaxTime /\ now <= now'
        BY <3>2, AuthoringIs
      <4> QED
        BY <1>1, <4>1, Constants
    <3> QED
      BY <1>2, <3>1, <3>2
  <2> QED
    BY <1>2, <2>1 DEF Quiet, Topics
<1>3. ASSUME NEW m \in Machines, WriteStore(m) \/ TagFloor(m) \/ Fold(m) \/ Push(m)
      PROVE  db'[Home] = db[Home] /\ Quiet
  <2>1. UNCHANGED <<db, blurred>> /\ (UNCHANGED <<writes, now>> \/ Authoring)
    BY <1>3 DEF WriteStore, TagFloor, Fold, Push, index, excuses
  <2> QED
    BY <1>2, <2>1
<1>4. ASSUME NEW m \in Readers, Pull(m)
      PROVE  db'[Home] = db[Home] /\ Quiet
  <2>1. UNCHANGED <<db, blurred, writes, now>>
    BY <1>4 DEF Pull, index, excuses
  <2> QED
    BY <1>2, <2>1
<1>5. ASSUME NEW m \in Readers, Ingest(m)
      PROVE  db'[Home] = db[Home] /\ Quiet
  <2>1. UNCHANGED <<blurred, writes, now>>
    BY <1>5 DEF Ingest, excuses
  <2>2. db'[Home] = db[Home]
    BY <1>5, IngestIs, Constants DEF Readers
  <2> QED
    BY <1>1, <2>1, <2>2 DEF Quiet, Topics
<1>6. ASSUME NEW c \in publishers, ReadSnapshot(c) \/ Publish(c) \/ PublisherDies(c)
      PROVE  db'[Home] = db[Home] /\ Quiet
  <2>1. UNCHANGED <<db, blurred, writes, now>>
    BY <1>6 DEF ReadSnapshot, Publish, PublisherDies, index, excuses
  <2> QED
    BY <1>2, <2>1
<1> QED
  BY <1>3, <1>4, <1>5, <1>6 DEF Next

LEMMA HomeStep ==
  ASSUME Parameters, Typed, HomeSound, Next
  PROVE  HomeSound'
<1>1. CASE \E m \in Machines : WriteProject(m)
  BY <1>1, HomeWrites
<1>2. CASE ~\E m \in Machines : WriteProject(m)
  <2>1. db'[Home] = db[Home] /\ Quiet
    BY <1>2, StillHome
  <2>2. /\ Of(Topics', Topics', 0, writes', blurred')
        /\ Latest(Topics') <= now' /\ db[Home].verdict.at <= now'
    BY <2>1, HomeKept
  <2> QED
    BY <2>1, <2>2 DEF HomeSound, Quiet
<1> QED
  BY <1>1, <1>2

LEMMA SnapshotKept ==
  ASSUME Parameters, Typed, NEW t \in Table, Snapshot(t), Quiet
  PROVE  Snapshot(t)'
<1>1. PICK v : v = writes'
  OBVIOUS
<1>2. t.rows \in SUBSET Segment /\ t.verdict.at \in Nat
  BY RowsOf, RevisionIs, Constants
<1>3. Of(t.rows, Topics, 0, v, blurred)
  BY <1>1, <1>2, TopicsAre, OfLater DEF Snapshot, Quiet
<1>4. t.verdict.at <= now'
  BY <1>2, TopicsAre DEF Snapshot, Quiet
<1> QED
  BY <1>1, <1>3, <1>4 DEF Snapshot, Quiet

LEMMA SnapshotRetagged ==
  ASSUME Parameters, Typed, NEW t \in Table, Snapshot(t),
         Retagged(Topics, Topics', writes, now', blurred, blurred'), Latest(Topics') = now',
         writes' = writes + 1, now' \in Nat, now <= now', blurred' \in BOOLEAN
  PROVE  Snapshot(t)'
<1>1. PICK E, u, c : E = Topics' /\ u = now' /\ c = blurred'
  OBVIOUS
<1>2. t.rows \in SUBSET Segment /\ t.verdict.at \in Nat
  BY RowsOf, RevisionIs, Constants
<1>3. Of(t.rows, E, 0, writes + 1, c) /\ Version(t.rows, E, 0, c)
  <2>1. Retagged(Topics, E, writes, u, blurred, c) /\ u \in Nat /\ c \in BOOLEAN
    BY <1>1
  <2>2. Of(t.rows, Topics, 0, writes, blurred)
    BY DEF Snapshot
  <2>3. /\ Of(t.rows, E, 0, writes + 1, c)
        /\ \A p : Version(t.rows, E, p, c)
    BY <1>2, <2>1, <2>2, TopicsAre, OfRetagged
  <2> QED
    BY <2>3
<1>4. t.verdict.at <= now' /\ t.verdict.at <= Latest(Topics')
  BY <1>2, TopicsAre DEF Snapshot
<1> QED
  BY <1>1, <1>3, <1>4 DEF Snapshot

LEMMA SnapshotsStep ==
  ASSUME Parameters, Typed, HomeSound, SnapshotsSound, Next
  PROVE  SnapshotsSound'
<1>1. \A c \in publishers : c.tags \in Table /\ Snapshot(c.tags)
  BY DEF Typed, Child, SnapshotsSound
<1>2. CASE \E m \in Machines : WriteProject(m)
  <2>1. PICK m \in Machines : WriteProject(m)
    BY <1>2
  <2>2. /\ writes' = writes + 1 /\ now' \in Nat /\ now <= now' /\ blurred' \in BOOLEAN
        /\ \/ /\ Retagged(Topics, Topics', writes, now', blurred, blurred')
              /\ Latest(Topics') = now'
           \/ Quiet
    BY <2>1, WroteIs
  <2>3. \A c \in publishers' : c \in publishers \/ c.tags = Untagged
    <3>1. Authoring /\ Spawn
      BY <2>1 DEF WriteProject
    <3> QED
      BY <3>1, SpawnIs
  <2>4. ASSUME NEW c \in publishers PROVE Snapshot(c.tags)'
    <3>1. PICK t \in Table : t = c.tags /\ Snapshot(t)
      BY <1>1
    <3>2. Snapshot(t)'
      BY <2>2, <3>1, SnapshotKept, SnapshotRetagged
    <3> QED
      BY <3>1, <3>2
  <2>5. Snapshot(Untagged)'
    <3>1. Latest(Topics') \in Nat
      <4>1. CASE Quiet
        BY <4>1, TopicsAre DEF Quiet
      <4> QED
        BY <2>2, <4>1
    <3>2. 0 <= now' /\ 0 <= Latest(Topics')
      BY <2>2, <3>1
    <3> QED
      BY <3>2, UntaggedIs DEF Snapshot, Of, Version
  <2>6. ASSUME NEW c \in publishers' PROVE Snapshot(c.tags)'
    <3>1. CASE c \in publishers
      BY <2>4, <3>1
    <3>2. CASE c.tags = Untagged
      BY <2>5, <3>2
    <3> QED
      BY <2>3, <3>1, <3>2
  <2> QED
    BY <2>6 DEF SnapshotsSound
<1>3. CASE ~\E m \in Machines : WriteProject(m)
  <2>1. db'[Home] = db[Home] /\ Quiet
    BY <1>3, StillHome
  <2>2. ASSUME NEW c \in publishers PROVE Snapshot(c.tags)'
    <3>1. PICK t \in Table : t = c.tags /\ Snapshot(t)
      BY <1>1
    <3>2. Snapshot(t)'
      BY <2>1, <3>1, SnapshotKept
    <3> QED
      BY <3>1, <3>2
  <2>3. PICK t : t = db[Home]
    OBVIOUS
  <2>4. Snapshot(t)'
    <3>1. t \in Table /\ t.rows = Topics /\ Topics \in SUBSET Segment
      BY <2>3, TopicsAre DEF Topics
    <3>2. \A r \in Topics : r.org = 0
      BY DEF HomeSound, Of
    <3>3. From(Topics, 0) = Topics
      BY <3>1, <3>2, FromIs, Constants
    <3>4. Snapshot(t)
      BY <2>3, <3>1, <3>3 DEF Snapshot, HomeSound, Version
    <3> QED
      BY <2>1, <3>1, <3>4, SnapshotKept
  <2>5. \A c \in publishers' : c \in publishers \/ c.tags = t
    <3>1. CASE \E c \in publishers : ReadSnapshot(c)
      <4>1. PICK c \in publishers : ReadSnapshot(c)
        BY <3>1
      <4>2. PICK d : d = [c EXCEPT !.read = TRUE, !.tags = t]
        OBVIOUS
      <4>3. publishers' = (publishers \ {c}) \cup {d}
        BY <2>3, <4>1, <4>2 DEF ReadSnapshot
      <4>4. d.tags = t
        BY <4>2 DEF Typed, Child
      <4> QED
        BY <4>3, <4>4
    <3>2. CASE ~\E c \in publishers : ReadSnapshot(c)
      <4>1. publishers' \subseteq publishers
        BY <1>3, <3>2 DEF Next, WriteStore, TagFloor, Fold, Push, Pull, Ingest, Publish,
                          PublisherDies
      <4> QED
        BY <4>1
    <3> QED
      BY <3>1, <3>2
  <2>6. ASSUME NEW c \in publishers' PROVE Snapshot(c.tags)'
    <3>1. CASE c \in publishers
      BY <2>2, <3>1
    <3>2. CASE c.tags = t
      BY <2>4, <3>2
    <3> QED
      BY <2>5, <3>1, <3>2
  <2> QED
    BY <2>6 DEF SnapshotsSound
<1> QED
  BY <1>2, <1>3

-----------------------------------------------------------------------------
(* The home machine's store. *)

\* What a step may do to the home machine's taggings.
Tagging ==
  /\ Retagged(Topics, Topics', writes, now', blurred, blurred') /\ Latest(Topics') = now'
  /\ writes' = writes + 1 /\ now' \in Nat /\ now <= now' /\ blurred' \in BOOLEAN

LEMMA Moves ==
  ASSUME Parameters, Typed, HomeSound, Next
  PROVE  Tagging \/ Quiet
<1>1. CASE \E m \in Machines : WriteProject(m)
  BY <1>1, WroteIs DEF Tagging
<1>2. CASE ~\E m \in Machines : WriteProject(m)
  BY <1>2, StillHome
<1> QED
  BY <1>1, <1>2

\* What was found of them elsewhere is found of them still.
LEMMA KnownLater ==
  ASSUME Parameters, Typed, Tagging \/ Quiet, NEW R \in SUBSET Segment, NEW o,
         Of(R, Topics, o, writes, blurred)
  PROVE  /\ Of(R, Topics', o, writes', blurred')
         /\ \A p : Version(R, Topics, p, blurred) => Version(R, Topics', p, blurred')
         /\ \A k \in Nat : \A Q, p : Vouches(k, Q, p) => Vouches(k, Q, p)'
<1>1. CASE Quiet
  <2>1. PICK v : v = writes'
    OBVIOUS
  <2>2. Of(R, Topics, o, v, blurred)
    BY <1>1, <2>1, TopicsAre, OfLater DEF Quiet
  <2> QED
    BY <1>1, <2>1, <2>2 DEF Quiet, Vouches
<1>2. CASE Tagging
  <2>1. PICK E, u, c : E = Topics' /\ u = now' /\ c = blurred'
    OBVIOUS
  <2>2. /\ Retagged(Topics, E, writes, u, blurred, c) /\ u \in Nat /\ c \in BOOLEAN
        /\ Latest(E) = u /\ writes' = writes + 1
    BY <1>2, <2>1 DEF Tagging
  <2>3. /\ Of(R, E, o, writes + 1, c)
        /\ \A p : Version(R, E, p, c)
    <3>1. Topics \in SUBSET Segment /\ writes \in Nat /\ blurred \in BOOLEAN
      BY TopicsAre
    <3>2. Retagged(Topics, E, writes, u, blurred, c) /\ u \in Nat /\ c \in BOOLEAN
      BY <2>2
    <3> QED
      BY <3>1, <3>2, OfRetagged
  <2>4. ASSUME NEW k \in Nat, NEW Q, NEW p, Vouches(k, Q, p) PROVE Vouches(k, Q, p)'
    <3>1. Latest(Topics) <= u /\ (~c => Latest(Topics) < u) /\ k <= Latest(Topics)
      BY <2>2, <2>4 DEF Retagged, Vouches
    <3>2. k <= Latest(E) /\ (~c => k # Latest(E))
      BY <2>2, <3>1, TopicsAre
    <3> QED
      BY <2>1, <3>2 DEF Vouches
  <2> QED
    BY <2>1, <2>2, <2>3, <2>4
<1> QED
  BY <1>1, <1>2

LEMMA StoreKept ==
  ASSUME Parameters, Typed, StoreSound, Tagging \/ Quiet,
         ~direct' => ~direct /\ store'[Home].rows = store[Home].rows,
         mark'[Home] = mark[Home], Expected'
  PROVE  StoreSound'
<1> SUFFICES ASSUME ~direct'
             PROVE  /\ Of(store[Home].rows, Topics', 0, writes', blurred')
                    /\ Version(store[Home].rows, Topics', 0, blurred')
                    /\ Vouches(mark[Home][2], store[Home].rows, 0)'
  BY DEF StoreSound
<1>1. PICK S : S = store[Home].rows
  OBVIOUS
<1>2. PICK k : k = mark[Home][2]
  OBVIOUS
<1>3. S \in SUBSET Segment /\ k \in Nat
  BY <1>1, <1>2, TopicsAre, RowsOf, Constants DEF Typed
<1>4. /\ Of(S, Topics, 0, writes, blurred) /\ Version(S, Topics, 0, blurred)
      /\ Vouches(k, S, 0)
  BY <1>1, <1>2 DEF StoreSound
<1>5. /\ Of(S, Topics', 0, writes', blurred') /\ Version(S, Topics', 0, blurred')
      /\ Vouches(k, S, 0)'
  BY <1>3, <1>4, KnownLater
<1>6. store'[Home].rows = S /\ mark'[Home][2] = k
  BY <1>1, <1>2
<1> QED
  BY <1>1, <1>5, <1>6

LEMMA OfSome ==
  ASSUME NEW R, NEW Q, NEW x, x \subseteq R \cup Q, NEW D, NEW o, NEW w, NEW b,
         Of(R, D, o, w, b), Of(Q, D, o, w, b)
  PROVE  Of(x, D, o, w, b)
BY DEF Of

LEMMA FoldedRows ==
  ASSUME NEW st \in Table, NEW t \in Table
  PROVE  Folded(st, t).rows \subseteq st.rows \cup t.rows
<1>1. t.layer => Folded(st, t).rows \subseteq st.rows \cup t.rows
  BY FoldedIs
<1>2. ~t.layer => Folded(st, t) = st
  BY FoldedIs
<1> QED
  BY <1>1, <1>2

\* The fold leaves the whole of the latest tagging where what is in the store
\* is of it or of earlier ones.
LEMMA FoldShows ==
  ASSUME Parameters, Typed, NEW st \in Table, NEW t \in Table, t.layer, NEW o \in Machines \cup {0},
         NEW D \in SUBSET Segment, NEW w,
         t.rows = From(D, o), Of(st.rows, D, o, w, FALSE)
  PROVE  Folded(st, t).rows = From(D, o)
<1>1. st.rows \in SUBSET Segment /\ t.rows \in SUBSET Segment
  BY RowsOf
<1>2. \A r \in t.rows : r.org = o /\ \E q \in D :
        q.at = r.at /\ q.start = r.start /\ q.by = r.by /\ q.n = r.n
  <2>1. \A r \in From(D, o) : r.org = o /\ \E q \in D :
          q.at = r.at /\ q.start = r.start /\ q.by = r.by /\ q.n = r.n
    BY FromIs
  <2> QED
    BY <2>1
<1>3. ASSUME NEW q \in st.rows, NEW r \in t.rows, q.start = r.start
      PROVE  q = r \/ Wins(r, q)
  <2>1. PICK p \in D : p.at = r.at /\ p.start = r.start /\ p.by = r.by /\ p.n = r.n
    BY <1>2
  <2>2. r.org = o /\ q.org = o
    BY <1>2 DEF Of
  <2>3. q \in Segment /\ r \in Segment /\ q.at \in Nat /\ r.at \in Nat
    BY <1>1 DEF Segment
  <2>4. r.at <= q.at => q.by = r.by /\ q.n = r.n /\ q.at = r.at
    BY <1>3, <2>1 DEF Of, Prior
  <2>5. CASE r.at <= q.at
    BY <1>3, <2>2, <2>3, <2>4, <2>5 DEF Segment
  <2>6. CASE ~(r.at <= q.at)
    BY <2>2, <2>3, <2>6 DEF Wins
  <2> QED
    BY <2>5, <2>6
<1> QED
  BY <1>3, FoldedIs

\* Where there is nothing to find, nothing is found.
LEMMA NoneOfNone ==
  ASSUME Parameters, NEW R \in SUBSET Segment, NEW o, Version(R, {}, o, FALSE)
  PROVE  R = {}
<1>1. From({}, o) = {}
  BY DEF From
<1>2. Latest({}) = 0
  BY LatestIs
<1>3. \A q \in R : q.at \in Nat
  BY DEF Segment
<1> QED
  BY <1>1, <1>2, <1>3 DEF Version

LEMMA StoreFolds ==
  ASSUME Parameters, Typed, HomeSound, StoreSound, Fold(Home)
  PROVE  StoreSound'
<1> SUFFICES ASSUME ~direct' PROVE StoreSound'
  BY DEF StoreSound
<1>1. PICK st, t, x : st = store[Home] /\ t = db[Home] /\ x = Folded(st, t)
  OBVIOUS
<1>2. /\ UNCHANGED <<db, writes, now, blurred, direct, publishers>>
      /\ store'[Home] = x /\ mark'[Home] = TagMark(t)
  <2>1. /\ store' = [store EXCEPT ![Home] = Folded(@, db[Home])]
        /\ mark' = [mark EXCEPT ![Home] = TagMark(db[Home])] /\ db[Home] \in Table /\ Home \in Machines
    BY TopicsAre, Constants DEF Fold
  <2>2. store'[Home] = x
    BY <1>1, <2>1, FoldIs
  <2>3. mark'[Home] = TagMark(t)
    BY <1>1, <2>1, MarkPut
  <2> QED
    BY <2>2, <2>3 DEF Fold
<1>3. PICK D : D = Topics
  OBVIOUS
<1>4. /\ st \in Table /\ t \in Table /\ D \in SUBSET Segment /\ t.rows = D /\ st.rows \in SUBSET Segment
      /\ blurred \in BOOLEAN
  BY <1>1, <1>3, TopicsAre, RowsOf DEF Topics
<1>5. /\ Of(st.rows, D, 0, writes, blurred) /\ Version(st.rows, D, 0, blurred)
      /\ Of(D, D, 0, writes, blurred)
      /\ D # {} => t.layer
  BY <1>1, <1>2, <1>3 DEF StoreSound, HomeSound
<1>6. From(D, 0) = D
  <2>1. \A r \in D : r.org = 0
    BY <1>5 DEF Of
  <2> QED
    BY <1>4, <2>1, FromIs
<1>7. Of(x.rows, D, 0, writes, blurred)
  <2>1. Folded(st, t).rows \subseteq st.rows \cup t.rows
    BY <1>4, FoldedRows
  <2>2. x.rows \subseteq st.rows \cup D
    BY <1>1, <1>4, <2>1
  <2> QED
    BY <1>5, <2>2, OfSome
<1>8. ~blurred => x.rows = D
  <2> SUFFICES ASSUME ~blurred PROVE x.rows = D
    OBVIOUS
  <2>1. blurred = FALSE
    BY <1>4
  <2>2. CASE t.layer
    <3>1. t.rows = From(D, 0) /\ Of(st.rows, D, 0, writes, FALSE) /\ t.layer
      BY <1>4, <1>5, <1>6, <2>1, <2>2
    <3>2. Folded(st, t).rows = From(D, 0)
      BY <1>4, <3>1, FoldShows
    <3> QED
      BY <1>1, <1>6, <3>2
  <2>3. CASE ~t.layer
    <3>1. Folded(st, t) = st
      BY <1>4, <2>3, FoldedIs
    <3>2. D = {} /\ x = st
      BY <1>1, <1>5, <2>3, <3>1
    <3>3. st.rows = {}
      BY <1>4, <1>5, <2>1, <3>2, NoneOfNone
    <3> QED
      BY <3>2, <3>3
  <2> QED
    BY <2>2, <2>3
<1>9. mark'[Home][2] <= Latest(D)
  <2>1. Latest(D) \in Nat
    BY <1>3, TopicsAre
  <2>2. TagMark(t)[2] \in {Latest(D), 0}
    BY <1>4, TagMarkIs
  <2> QED
    BY <1>2, <2>1, <2>2
<1>10. PICK k : k = mark'[Home][2]
  OBVIOUS
<1>11. Topics' = D /\ writes' = writes /\ blurred' = blurred /\ store'[Home].rows = x.rows
  BY <1>2, <1>3 DEF Topics
<1>12. /\ Of(x.rows, D, 0, writes, blurred) /\ Version(x.rows, D, 0, blurred)
       /\ Vouches(k, x.rows, 0)'
  BY <1>6, <1>7, <1>8, <1>9, <1>10, <1>11 DEF Version, Vouches
<1>13. Expected'
  BY <1>8, <1>11 DEF Expected
<1> QED
  BY <1>10, <1>11, <1>12, <1>13 DEF StoreSound

LEMMA StorePublishes ==
  ASSUME Parameters, Typed, HomeSound, SnapshotsSound, StoreSound,
         NEW c \in publishers, Publish(c)
  PROVE  StoreSound'
<1> SUFFICES ASSUME ~direct' PROVE StoreSound'
  BY DEF StoreSound
<1>1. PICK st, t, x, D, k : /\ st = store[Home] /\ t = c.tags /\ x = Published(st, t)
                            /\ D = Topics /\ k = mark[Home][2]
  OBVIOUS
<1>2. /\ UNCHANGED <<db, mark, writes, now, blurred, direct, lost>> /\ c.read
      /\ publishers' = publishers \ {c}
      /\ store'[Home] = x
  BY <1>1, PublishIs DEF Publish, excuses
<1>3. /\ st \in Table /\ t \in Table /\ D \in SUBSET Segment
      /\ st.rows \in SUBSET Segment /\ t.rows \in SUBSET Segment
      /\ blurred \in BOOLEAN
  BY <1>1, PublishIs, TopicsAre, RowsOf
<1>4. /\ Of(st.rows, D, 0, writes, blurred) /\ Version(st.rows, D, 0, blurred)
      /\ Vouches(k, st.rows, 0) /\ Expected
  BY <1>1, <1>2 DEF StoreSound
<1>5. /\ Of(t.rows, D, 0, writes, blurred) /\ Version(t.rows, D, 0, blurred)
      /\ t.verdict.org = 0
      /\ ~blurred /\ t.rows # D => t.verdict.at <= Latest(D)
  BY <1>1 DEF SnapshotsSound, Snapshot
<1>6. From(D, 0) = D
  <2>1. \A r \in D : r.org = 0
    BY <1>1 DEF HomeSound, Of
  <2> QED
    BY <1>3, <2>1, FromIs
<1>7. x.rows = IF st.rows = {} \/ Latest(st.rows) < Revision(t) THEN t.rows ELSE st.rows
  <2>1. (\A r \in st.rows : r.org = 0) /\ (\A r \in t.rows : r.org = 0)
    BY <1>4, <1>5 DEF Of
  <2>2. Published(st, t).rows =
          IF st.rows = {} \/ Latest(st.rows) < Revision(t) THEN t.rows ELSE st.rows
    BY <1>3, <1>5, <2>1, PublishedIs
  <2> QED
    BY <1>1, <2>2
<1>8. Of(x.rows, D, 0, writes, blurred)
  <2>1. x.rows \subseteq st.rows \cup t.rows
    BY <1>7
  <2> QED
    BY <1>4, <1>5, <2>1, OfSome
<1>9. /\ Revision(t) \in {Latest(t.rows), t.verdict.at} /\ Revision(t) \in Nat
      /\ Latest(t.rows) <= Revision(t)
  BY <1>3, RevisionIs
<1>10. ASSUME ~blurred, st.rows = D \/ t.rows = D
       PROVE  x.rows = D
  <2>1. Latest(D) \in Nat /\ Latest(st.rows) \in Nat /\ Latest(t.rows) \in Nat
    BY <1>3, LatestIs, Constants
  <2>2. CASE st.rows = D /\ t.rows # D
    <3>1. \A r \in t.rows : r.at < Latest(D)
      BY <1>5, <1>6, <1>10, <2>2 DEF Version
    <3>2. Latest(t.rows) <= Latest(D)
      <4>1. t.rows # {} => \E r \in t.rows : r.at = Latest(t.rows)
        BY <1>3, LatestIs
      <4>2. t.rows = {} => Latest(t.rows) = 0
        BY <1>3, LatestIs
      <4> QED
        BY <2>1, <3>1, <4>1, <4>2
    <3>3. D # {}
      <4>1. blurred = FALSE
        BY <1>3, <1>10
      <4>2. D = {} => Version(t.rows, {}, 0, FALSE)
        BY <1>5, <4>1
      <4> QED
        BY <1>3, <2>2, <4>2, NoneOfNone
    <3>4. Revision(t) <= Latest(D)
      BY <1>5, <1>9, <1>10, <2>2, <3>2
    <3>5. ~(Latest(st.rows) < Revision(t))
      BY <1>9, <2>1, <2>2, <3>4
    <3> QED
      BY <1>7, <2>2, <3>3, <3>5
  <2>3. CASE st.rows # D /\ t.rows = D
    <3>1. \A r \in st.rows : r.at < Latest(D)
      BY <1>4, <1>6, <1>10, <2>3 DEF Version
    <3>2. st.rows # {} => \E r \in st.rows : r.at = Latest(st.rows)
      BY <1>3, LatestIs
    <3>3. st.rows # {} => Latest(st.rows) < Latest(D)
      BY <3>1, <3>2
    <3>4. st.rows # {} => Latest(st.rows) < Revision(t)
      BY <1>9, <2>1, <2>3, <3>3
    <3> QED
      BY <1>7, <2>3, <3>4
  <2>4. CASE st.rows = D /\ t.rows = D
    BY <1>7, <2>4
  <2> QED
    BY <1>10, <2>2, <2>3, <2>4
<1>11. Version(x.rows, D, 0, blurred)
  <2>1. x.rows \in {st.rows, t.rows}
    BY <1>7
  <2> QED
    BY <1>4, <1>5, <2>1
<1>12. Topics' = D /\ writes' = writes /\ blurred' = blurred /\ store'[Home].rows = x.rows
       /\ mark'[Home][2] = k
  BY <1>1, <1>2 DEF Topics
<1>13. Vouches(k, x.rows, 0)'
  BY <1>1, <1>4, <1>6, <1>10, <1>12 DEF Vouches
<1>14. Expected'
  <2> SUFFICES ASSUME ~blurred, ~lost, x.rows # D PROVE Pending'
    BY <1>2, <1>12 DEF Expected
  <2>1. st.rows # D /\ t.rows # D
    BY <1>10
  <2>2. Pending
    BY <1>1, <1>4, <2>1 DEF Expected
  <2>3. PICK d \in publishers : ~d.read \/ d.tags.rows = D
    BY <1>1, <2>2 DEF Pending
  <2>4. d # c
    BY <1>1, <1>2, <2>1, <2>3
  <2> QED
    BY <1>2, <1>12, <2>3, <2>4 DEF Pending
<1> QED
  BY <1>8, <1>11, <1>12, <1>13, <1>14 DEF StoreSound

LEMMA StoreStep ==
  ASSUME Parameters, Typed, HomeSound, SnapshotsSound, StoreSound, Next
  PROVE  StoreSound'
<1> SUFFICES ASSUME ~direct' PROVE StoreSound'
  BY DEF StoreSound
<1>1. Tagging \/ Quiet
  BY Moves
<1>2. ASSUME ~direct, store'[Home].rows = store[Home].rows, mark'[Home] = mark[Home],
             UNCHANGED <<lost, publishers>>, ~\E m \in Machines : WriteProject(m)
      PROVE  StoreSound'
  <2>1. Quiet
    BY <1>2, StillHome
  <2>2. Expected
    BY <1>2 DEF StoreSound
  <2>3. Expected'
    BY <1>2, <2>1, <2>2 DEF Expected, Pending, Quiet
  <2> QED
    BY <1>1, <1>2, <2>3, StoreKept
<1>3. CASE \E m \in Machines : WriteProject(m)
  <2>1. PICK m \in Machines : WriteProject(m)
    BY <1>3
  <2>2. UNCHANGED <<store, mark, direct>>
    BY <2>1, WroteIs
  <2>3. Authoring /\ Spawn
    BY <2>1 DEF WriteProject
  <2>4. (\E c \in publishers' : ~c.read) \/ lost'
    BY <2>3, SpawnIs
  <2>5. Expected'
    BY <2>4 DEF Expected, Pending
  <2> QED
    BY <1>1, <2>2, <2>5, StoreKept
<1>4. CASE ~\E m \in Machines : WriteProject(m)
  <2>1. ASSUME NEW m \in Machines, WriteStore(m) PROVE StoreSound'
    <3>1. ~direct /\ store'[Home].rows = store[Home].rows
      BY <2>1, WriteStoreIs, Constants
    <3>2. UNCHANGED <<mark, lost, publishers>>
      BY <2>1 DEF WriteStore
    <3> QED
      BY <1>2, <1>4, <3>1, <3>2
  <2>2. ASSUME NEW m \in Machines, TagFloor(m) PROVE StoreSound'
    <3>1. store'[Home].rows = store[Home].rows
      BY <2>2, TagFloorIs, Constants
    <3>2. UNCHANGED <<mark, lost, publishers, direct>>
      BY <2>2 DEF TagFloor, excuses
    <3> QED
      BY <1>2, <1>4, <3>1, <3>2
  <2>3. ASSUME NEW m \in Machines, Fold(m) PROVE StoreSound'
    <3>1. CASE m = Home
      BY <2>3, <3>1, StoreFolds
    <3>2. CASE m # Home
      <4>1. /\ store' = [store EXCEPT ![m] = Folded(@, db[m])] /\ db[m] \in Table
            /\ mark' = [mark EXCEPT ![m] = TagMark(db[m])]
        BY <2>3 DEF Fold, Typed
      <4>2. store'[Home] = store[Home] /\ mark'[Home] = mark[Home]
        BY <3>2, <4>1, FoldIs, MarkPut, Constants
      <4>3. UNCHANGED <<lost, publishers, direct>>
        BY <2>3, <3>2 DEF Fold, Typed
      <4> QED
        BY <1>2, <1>4, <4>2, <4>3
    <3> QED
      BY <3>1, <3>2
  <2>4. ASSUME NEW m \in Machines, Push(m) PROVE StoreSound'
    BY <1>2, <1>4, <2>4 DEF Push, index, excuses
  <2>5. ASSUME NEW m \in Readers, Pull(m) PROVE StoreSound'
    BY <1>2, <1>4, <2>5 DEF Pull, index, excuses
  <2>6. ASSUME NEW m \in Readers, Ingest(m) PROVE StoreSound'
    <3>1. store'[Home] = store[Home] /\ mark'[Home] = mark[Home]
      <4>1. /\ Ingested(m) \in Table /\ m \in Machines /\ m # Home
            /\ \/ /\ store' = [store EXCEPT ![m] = Folded(@, Ingested(m))]
                  /\ mark' = [mark EXCEPT ![m] = TagMark(Ingested(m))]
               \/ UNCHANGED <<store, mark>>
        BY <2>6, IngestIs DEF Readers
      <4> QED
        BY <4>1, FoldIs, MarkPut, Constants
    <3>2. UNCHANGED <<lost, publishers, direct>>
      BY <2>6 DEF Ingest, excuses
    <3> QED
      BY <1>2, <1>4, <3>1, <3>2
  <2>7. ASSUME NEW c \in publishers, ReadSnapshot(c) PROVE StoreSound'
    <3>1. UNCHANGED <<store, mark, direct, db>>
      BY <2>7 DEF ReadSnapshot, index, excuses
    <3>2. PICK t, d : t = db[Home] /\ d = [c EXCEPT !.read = TRUE, !.tags = t]
      OBVIOUS
    <3>3. publishers' = (publishers \ {c}) \cup {d} /\ d.tags.rows = Topics'
      <4>1. publishers' = (publishers \ {c}) \cup {d}
        BY <2>7, <3>2 DEF ReadSnapshot
      <4>2. c \in Child
        BY DEF Typed
      <4>3. d.tags = t
        BY <3>2, <4>2 DEF Child
      <4> QED
        BY <3>1, <3>2, <4>1, <4>3 DEF Topics
    <3>4. Expected'
      BY <3>3 DEF Expected, Pending
    <3> QED
      BY <1>1, <3>1, <3>4, StoreKept
  <2>8. ASSUME NEW c \in publishers, Publish(c) PROVE StoreSound'
    BY <2>8, StorePublishes
  <2>9. ASSUME NEW c \in publishers, PublisherDies(c) PROVE StoreSound'
    <3>1. UNCHANGED <<store, mark, direct>> /\ lost'
      BY <2>9 DEF PublisherDies, index
    <3>2. Expected'
      BY <3>1 DEF Expected
    <3> QED
      BY <1>1, <3>1, <3>2, StoreKept
  <2> QED
    BY <1>4, <2>1, <2>2, <2>3, <2>4, <2>5, <2>6, <2>7, <2>8, <2>9 DEF Next
<1> QED
  BY <1>3, <1>4

-----------------------------------------------------------------------------
(* The archive, and the other machines. *)

LEMMA FromTwice ==
  ASSUME NEW R \in SUBSET Segment, NEW o \in Machines \cup {0}, NEW p \in Machines \cup {0}
  PROVE  From(From(R, p), o) = From(R, o)
BY FromIs

LEMMA OfFrom ==
  ASSUME NEW R \in SUBSET Segment, NEW D \in SUBSET Segment, NEW w, NEW b,
         NEW o \in Machines \cup {0}, NEW p \in Machines \cup {0}, Of(R, D, p, w, b)
  PROVE  /\ Of(From(R, o), D, o, w, b)
         /\ Version(R, D, p, b) => Version(From(R, o), D, o, b)
<1>1. \A r \in From(R, o) : r.org = o /\ \E q \in R :
        q.at = r.at /\ q.start = r.start /\ q.by = r.by /\ q.n = r.n
  BY FromIs
<1>2. Of(From(R, o), D, o, w, b)
  BY <1>1 DEF Of, Prior
<1>3. ASSUME Version(R, D, p, b) PROVE Version(From(R, o), D, o, b)
  <2> SUFFICES ASSUME ~b PROVE From(R, o) = From(D, o) \/ \A q \in From(R, o) : q.at < Latest(D)
    BY DEF Version
  <2>1. CASE R = From(D, p)
    <3>1. From(From(D, p), o) = From(D, o)
      BY FromTwice
    <3> QED
      BY <2>1, <3>1
  <2>2. CASE \A q \in R : q.at < Latest(D)
    BY <1>1, <2>2
  <2> QED
    BY <1>3, <2>1, <2>2 DEF Version
<1> QED
  BY <1>2, <1>3

LEMMA OfNone ==
  ASSUME Parameters, NEW R \in SUBSET Segment, NEW o, NEW w, NEW b, Of(R, {}, o, w, b)
  PROVE  R = {}
<1>1. Latest({}) = 0
  BY LatestIs
<1>2. \A q \in R : q.at \in Nat /\ q.at # 0
  BY DEF Segment
<1> QED
  BY <1>1, <1>2 DEF Of, Prior

\* The latest of rows of this and earlier taggings; if it is the latest of all,
\* they are the whole tagging.
LEMMA OfLatest ==
  ASSUME Parameters, NEW D \in SUBSET Segment, NEW R \in SUBSET Segment,
         NEW o, NEW w, NEW b, Of(R, D, o, w, b)
  PROVE  /\ Latest(R) <= Latest(D)
         /\ Latest(R) = Latest(D) /\ ~b /\ Version(R, D, o, b) => R = From(D, o)
<1>1. Latest(D) \in Nat /\ Latest(R) \in Nat
  BY LatestIs, Constants
<1>2. /\ R # {} => \E r \in R : r.at = Latest(R)
      /\ R = {} => Latest(R) = 0
      /\ D = {} <=> Latest(D) = 0
  <2>1. D # {} => Latest(D) # 0
    <3>1. \A r \in D : r.at \in 1 .. MaxTime
      BY LatestIs
    <3>2. D # {} => \E r \in D : r.at = Latest(D)
      BY LatestIs
    <3> QED
      BY <3>1, <3>2
  <2>2. D = {} => Latest(D) = 0
    BY LatestIs
  <2>3. R # {} => \E r \in R : r.at = Latest(R)
    BY LatestIs
  <2>4. R = {} => Latest(R) = 0
    BY LatestIs
  <2> QED
    BY <2>1, <2>2, <2>3, <2>4
<1>3. \A r \in R : r.at <= Latest(D)
  BY DEF Of, Prior
<1>4. Latest(R) <= Latest(D)
  BY <1>1, <1>2, <1>3
<1>5. ASSUME Latest(R) = Latest(D), ~b, Version(R, D, o, b)
      PROVE  R = From(D, o)
  <2> SUFFICES ASSUME \A q \in R : q.at < Latest(D) PROVE R = From(D, o)
    BY <1>5 DEF Version
  <2>1. R = {}
    BY <1>1, <1>2, <1>5
  <2>2. D = {}
    BY <1>2, <1>5, <2>1
  <2> QED
    BY <2>1, <2>2 DEF From
<1> QED
  BY <1>4, <1>5

LEMMA FiledLater ==
  ASSUME Parameters, Typed, Tagging \/ Quiet, NEW F \in Files, Filed(F)
  PROVE  Filed(F)'
<1>1. ASSUME NEW m \in Machines
      PROVE  /\ Of(F[m].rows, Topics', 0, writes', blurred')
             /\ m = Home => Version(F[m].rows, Topics', 0, blurred')
  <2>1. PICK R : R = F[m].rows
    OBVIOUS
  <2>2. R \in SUBSET Segment
    BY <2>1, RowsOf DEF Files
  <2>3. Of(R, Topics, 0, writes, blurred) /\ (m = Home => Version(R, Topics, 0, blurred))
    BY <2>1 DEF Filed
  <2>4. /\ Of(R, Topics', 0, writes', blurred')
        /\ \A p : Version(R, Topics, p, blurred) => Version(R, Topics', p, blurred')
    BY <2>2, <2>3, KnownLater
  <2> QED
    BY <2>1, <2>3, <2>4
<1> QED
  BY <1>1, Constants DEF Filed

LEMMA ReplicaLater ==
  ASSUME Parameters, Typed, Tagging \/ Quiet, NEW C \in Files,
         NEW d \in SUBSET Segment, NEW s \in SUBSET Segment, NEW k \in Nat, Replica(C, d, s, k)
  PROVE  Replica(C, d, s, k)'
<1>1. Filed(C)'
  BY FiledLater DEF Replica
<1>2. Of(d, Topics', Home, writes', blurred') /\ Version(d, Topics', Home, blurred')
  BY KnownLater DEF Replica
<1>3. Of(s, Topics', Home, writes', blurred') /\ Vouches(k, s, Home)'
  BY KnownLater DEF Replica
<1> QED
  BY <1>1, <1>2, <1>3 DEF Replica

LEMMA ArchivedLater ==
  ASSUME Parameters, Typed, Tagging \/ Quiet, NEW F \in Files, NEW C \in [Readers -> Files],
         NEW B \in [Machines -> Table], NEW S \in [Machines -> Table], NEW K,
         \A m \in Machines : K[m][2] \in Nat,
         Archived(F, C, B, S, K)
  PROVE  Archived(F, C, B, S, K)'
<1>1. Filed(F)'
  BY FiledLater DEF Archived
<1>2. ASSUME NEW m \in Readers
      PROVE  Replica(C[m], B[m].rows, S[m].rows, K[m][2])'
  <2>1. PICK c, d, s, k : c = C[m] /\ d = B[m].rows /\ s = S[m].rows /\ k = K[m][2]
    OBVIOUS
  <2>2. m \in Machines
    BY DEF Readers
  <2>3. c \in Files /\ d \in SUBSET Segment /\ s \in SUBSET Segment /\ k \in Nat
    BY <2>1, <2>2, RowsOf
  <2>4. Replica(c, d, s, k)
    BY <2>1 DEF Archived
  <2>5. Replica(c, d, s, k)'
    BY <2>3, <2>4, ReplicaLater
  <2> QED
    BY <2>1, <2>5
<1> QED
  BY <1>1, <1>2 DEF Archived

LEMMA ExportKnown ==
  ASSUME Parameters, Typed, HomeSound, StoreSound, Claimed,
         Archived(files, clone, db, store, mark), NEW m \in Machines
  PROVE  /\ Of(Exported(m).rows, Topics, 0, writes, blurred)
         /\ m = Home => Version(Exported(m).rows, Topics, 0, blurred)
         /\ m # Home /\ Exported(m).rows # {} => clone[m][Home].rows # {}
<1>1. PICK x, S : x = Exported(m) /\ S = store[m].rows
  OBVIOUS
<1>2. S \in SUBSET Segment /\ Topics \in SUBSET Segment
  BY <1>1, RowsOf, TopicsAre DEF Typed
<1>3. \/ x.rows = From(S, 0)
      \/ m = Home /\ x.rows = From(Topics, 0)
      \/ m # Home /\ x.rows = {}
  BY <1>1, ExportedIs DEF Topics
<1>4. CASE m = Home
  <2>1. Of(S, Topics, 0, writes, blurred) /\ Version(S, Topics, 0, blurred)
    BY <1>1, <1>4 DEF StoreSound, Claimed
  <2>2. Of(From(S, 0), Topics, 0, writes, blurred) /\ Version(From(S, 0), Topics, 0, blurred)
    BY <1>2, <2>1, OfFrom
  <2>3. Of(From(Topics, 0), Topics, 0, writes, blurred)
    <3>1. Of(Topics, Topics, 0, writes, blurred)
      BY DEF HomeSound
    <3> QED
      BY <1>2, <3>1, OfFrom
  <2>4. Version(From(Topics, 0), Topics, 0, blurred)
    BY DEF Version
  <2> QED
    BY <1>1, <1>3, <1>4, <2>2, <2>3, <2>4
<1>5. CASE m # Home
  <2>1. m \in Readers
    BY <1>5 DEF Readers
  <2>2. Of(S, Topics, Home, writes, blurred) /\ (S # {} => clone[m][Home].rows # {})
    BY <1>1, <2>1 DEF Archived, Replica
  <2>3. Of(From(S, 0), Topics, 0, writes, blurred)
    BY <1>2, <2>2, OfFrom, Constants
  <2>4. From(S, 0) = {} <=> S = {}
    BY <1>2, FromIs
  <2>5. Of({}, Topics, 0, writes, blurred)
    BY DEF Of
  <2> QED
    BY <1>1, <1>3, <1>5, <2>2, <2>3, <2>4, <2>5
<1> QED
  BY <1>4, <1>5

LEMMA ReplicaFolds ==
  ASSUME Parameters, Typed, NEW C, NEW st \in Table, NEW t \in Table, NEW k,
         Replica(C, t.rows, st.rows, k)
  PROVE  Replica(C, t.rows, Folded(st, t).rows, TagMark(t)[2])
<1>1. PICK D, x, j : D = Topics /\ x = Folded(st, t) /\ j = TagMark(t)[2]
  OBVIOUS
<1>2. /\ D \in SUBSET Segment /\ st.rows \in SUBSET Segment /\ t.rows \in SUBSET Segment
      /\ Latest(D) \in Nat /\ blurred \in BOOLEAN /\ Home \in Machines
  BY <1>1, TopicsAre, RowsOf, Constants
<1>3. /\ Of(t.rows, D, Home, writes, blurred) /\ Version(t.rows, D, Home, blurred)
      /\ Of(st.rows, D, Home, writes, blurred)
      /\ t.rows # {} \/ st.rows # {} => C[Home].rows # {}
      /\ Filed(C)
  BY <1>1 DEF Replica
<1>4. x.rows \subseteq st.rows \cup t.rows
  BY <1>1, FoldedRows
<1>5. Of(x.rows, D, Home, writes, blurred)
  BY <1>3, <1>4, OfSome
<1>6. j = IF t.layer THEN Latest(t.rows) ELSE 0
  BY <1>1, TagMarkIs
<1>7. Latest(t.rows) <= Latest(D)
  BY <1>2, <1>3, OfLatest
<1>8. j <= Latest(D)
  BY <1>2, <1>6, <1>7
<1>9. ASSUME ~blurred, j = Latest(D) PROVE x.rows = From(D, Home)
  <2>1. blurred = FALSE
    BY <1>2, <1>9
  <2>2. CASE t.layer
    <3>1. t.rows = From(D, Home)
      BY <1>2, <1>3, <1>6, <1>9, <2>2, OfLatest
    <3>2. Of(st.rows, D, Home, writes, FALSE)
      BY <1>3, <2>1
    <3>3. Folded(st, t).rows = From(D, Home)
      <4>1. Home \in Machines \cup {0} /\ D \in SUBSET Segment
        BY <1>2
      <4> QED
        BY <2>2, <3>1, <3>2, <4>1, FoldShows
    <3> QED
      BY <1>1, <3>3
  <2>3. CASE ~t.layer
    <3>1. D = {}
      <4>1. D # {} => \E r \in D : r.at = Latest(D)
        BY <1>2, LatestIs
      <4>2. \A r \in D : r.at \in 1 .. MaxTime
        BY <1>2, LatestIs
      <4>3. \A r \in D : r.at # 0
        BY <4>2, Constants
      <4> QED
        BY <1>6, <1>9, <2>3, <4>1, <4>3
    <3>2. st.rows = {}
      BY <1>2, <1>3, <3>1, OfNone
    <3>3. x = st
      BY <1>1, <2>3, FoldedIs
    <3>4. From({}, Home) = {}
      BY DEF From
    <3> QED
      BY <3>1, <3>2, <3>3, <3>4
  <2> QED
    BY <2>2, <2>3
<1>10. Vouches(j, x.rows, Home)
  BY <1>1, <1>8, <1>9 DEF Vouches
<1>11. t.rows # {} \/ x.rows # {} => C[Home].rows # {}
  BY <1>3, <1>4
<1> QED
  BY <1>1, <1>3, <1>5, <1>10, <1>11 DEF Replica

LEMMA ReplicaIngests ==
  ASSUME Parameters, Typed, Claimed, NEW m \in Readers, NEW s, NEW k,
         Replica(clone[m], db[m].rows, s, k)
  PROVE  Replica(clone[m], Ingested(m).rows, s, k)
<1>1. PICK C, D, d, e, R : /\ C = clone[m] /\ D = Topics /\ d = db[m].rows /\ e = Ingested(m).rows
                           /\ R = ResolvedRows(C)
  OBVIOUS
<1>2. C \in Files /\ D \in SUBSET Segment /\ Home \in Machines
  BY <1>1, TopicsAre, Constants DEF Typed, Files
<1>3. e \in {d, R}
  BY <1>1, IngestedIs
<1>4. /\ Filed(C) /\ (d # {} \/ s # {} => C[Home].rows # {})
      /\ Of(s, D, Home, writes, blurred) /\ Vouches(k, s, Home)
      /\ Of(d, D, Home, writes, blurred) /\ Version(d, D, Home, blurred)
  BY <1>1 DEF Replica
<1>5. CASE C[Home].rows = {}
  <2>1. R = {}
    <3>1. \A o \in Machines : C[o].rows = {}
      BY <1>4, <1>5 DEF Filed
    <3> QED
      BY <1>1, <1>2, <3>1, ResolvedRowsIs
  <2>2. e = d
    BY <1>3, <1>4, <1>5, <2>1
  <2> QED
    BY <1>1, <2>2
<1>6. CASE C[Home].rows # {}
  <2>1. R = From(C[Home].rows, Home)
    BY <1>1, <1>2, <1>6, ResolvedRowsIs DEF Claimed
  <2>2. Of(C[Home].rows, D, 0, writes, blurred) /\ Version(C[Home].rows, D, 0, blurred)
    BY <1>1, <1>2, <1>4 DEF Filed
  <2>3. C[Home].rows \in SUBSET Segment
    BY <1>2, RowsOf DEF Files
  <2>4. Of(R, D, Home, writes, blurred) /\ Version(R, D, Home, blurred)
    BY <1>2, <2>1, <2>2, <2>3, OfFrom
  <2>5. Of(e, D, Home, writes, blurred) /\ Version(e, D, Home, blurred)
    BY <1>3, <1>4, <2>4
  <2> QED
    BY <1>1, <1>4, <1>6, <2>5 DEF Replica
<1> QED
  BY <1>5, <1>6

\* A file written to what is filed, by another machine than home.
LEMMA FiledPut ==
  ASSUME Parameters, NEW G \in Files, Filed(G), NEW F, NEW m \in Readers, NEW x, F[m] = x,
         \A o \in Machines \ {m} : F[o] = G[o],
         Of(x.rows, Topics, 0, writes, blurred), x.rows # {} => G[Home].rows # {}
  PROVE  Filed(F) /\ F[Home] = G[Home]
<1>1. F[Home] = G[Home]
  BY Constants DEF Readers
<1>2. \A o \in Machines : Of(F[o].rows, Topics, 0, writes, blurred)
  BY DEF Filed
<1>3. Version(F[Home].rows, Topics, 0, blurred)
  BY <1>1 DEF Filed
<1>4. (\E o \in Machines : F[o].rows # {}) => F[Home].rows # {}
  BY <1>1 DEF Filed
<1> QED
  BY <1>1, <1>2, <1>3, <1>4 DEF Filed

\* The home machine pushes.
LEMMA FiledHome ==
  ASSUME Parameters, Typed, HomeSound, StoreSound, Claimed,
         Archived(files, clone, db, store, mark), NEW F, F[Home] = Exported(Home),
         \A o \in Machines \ {Home} : F[o] = files[o],
         Exported(Home).rows = {} => Topics = {}
  PROVE  Filed(F) /\ (files[Home].rows # {} => F[Home].rows # {})
<1>1. PICK x : x = Exported(Home)
  OBVIOUS
<1>2. Of(x.rows, Topics, 0, writes, blurred) /\ Version(x.rows, Topics, 0, blurred)
  BY <1>1, ExportKnown, Constants
<1>3. Filed(files) /\ files \in Files
  BY DEF Archived, Typed, Files
<1>4. \A o \in Machines : Of(F[o].rows, Topics, 0, writes, blurred)
  BY <1>1, <1>2, <1>3 DEF Filed
<1>5. Version(F[Home].rows, Topics, 0, blurred)
  BY <1>1, <1>2
<1>6. ASSUME NEW o \in Machines, files[o].rows # {}
      PROVE  x.rows # {}
  <2>1. PICK R : R = files[o].rows
    OBVIOUS
  <2>2. R \in SUBSET Segment /\ Of(R, Topics, 0, writes, blurred)
    BY <1>3, <2>1, RowsOf DEF Filed, Files
  <2>3. Topics # {}
    BY <1>6, <2>1, <2>2, OfNone
  <2> QED
    BY <1>1, <2>3
<1>7. (\E o \in Machines : F[o].rows # {}) => F[Home].rows # {}
  BY <1>1, <1>6
<1> QED
  BY <1>1, <1>4, <1>5, <1>6, <1>7, Constants DEF Filed

LEMMA ArchivePushes ==
  ASSUME Parameters, Typed, HomeSound, StoreSound, Claimed,
         Archived(files, clone, db, store, mark), NEW m \in Machines, Push(m), Claimed',
         NEW F, NEW C, F = files', C = clone'
  PROVE  Archived(F, C, db, store, mark)
<1>1. PICK x : x = Exported(m)
  OBVIOUS
<1>2. /\ F[m] = x
      /\ \A o \in Machines \ {m} : F[o] = files[o]
      /\ \A o \in Readers : \/ C[o] = F /\ o = m
                            \/ C[o] = clone[o] /\ o # m
                            \/ C[o] = [clone[o] EXCEPT ![m] = x] /\ o = m
      /\ m = Home /\ x.rows = {} => Topics = {}
  BY <1>1, PushIs DEF Claimed
<1>3. /\ Filed(files) /\ files \in Files
      /\ \A o \in Readers : /\ Replica(clone[o], db[o].rows, store[o].rows, mark[o][2])
                            /\ clone[o][Home].rows # {} => files[Home].rows # {}
                            /\ clone[o] \in Files
  BY DEF Archived, Typed, Files
<1>4. /\ Of(x.rows, Topics, 0, writes, blurred)
      /\ m # Home /\ x.rows # {} => clone[m][Home].rows # {}
  BY <1>1, ExportKnown
<1>5. CASE m = Home
  <2>1. Filed(F) /\ (files[Home].rows # {} => F[Home].rows # {})
    BY <1>1, <1>2, <1>5, FiledHome
  <2>2. \A o \in Readers : C[o] = clone[o]
    BY <1>2, <1>5 DEF Readers
  <2> QED
    BY <1>3, <2>1, <2>2 DEF Archived
<1>6. CASE m # Home
  <2>1. m \in Readers
    BY <1>6 DEF Readers
  <2>2. x.rows # {} => files[Home].rows # {} /\ clone[m][Home].rows # {}
    BY <1>3, <1>4, <1>6, <2>1
  <2>3. Filed(F) /\ F[Home] = files[Home]
    BY <1>2, <1>3, <1>4, <2>1, <2>2, FiledPut
  <2>4. PICK c, d, s, k : c = clone[m] /\ d = db[m].rows /\ s = store[m].rows /\ k = mark[m][2]
    OBVIOUS
  <2>5. Replica(c, d, s, k) /\ c \in Files /\ (c[Home].rows # {} => files[Home].rows # {})
    BY <1>3, <2>1, <2>4
  <2>6. Replica(C[m], d, s, k) /\ (C[m][Home].rows # {} => F[Home].rows # {})
    <3>1. CASE C[m] = F
      <4>1. Replica(F, d, s, k)
        BY <2>3, <2>5 DEF Replica
      <4> QED
        BY <3>1, <4>1
    <3>2. CASE C[m] = [c EXCEPT ![m] = x]
      <4>1. PICK G : G = C[m]
        OBVIOUS
      <4>2. G[m] = x /\ \A o \in Machines \ {m} : G[o] = c[o]
        BY <2>5, <3>2, <4>1 DEF Files
      <4>3. Filed(c)
        BY <2>5 DEF Replica
      <4>4. Filed(G) /\ G[Home] = c[Home]
        BY <1>4, <2>1, <2>2, <2>4, <2>5, <4>2, <4>3, FiledPut
      <4>5. Replica(G, d, s, k)
        BY <2>5, <4>4 DEF Replica
      <4> QED
        BY <2>3, <2>5, <4>1, <4>4, <4>5
    <3> QED
      BY <1>2, <2>1, <2>4, <3>1, <3>2
  <2>7. ASSUME NEW o \in Readers
        PROVE  /\ Replica(C[o], db[o].rows, store[o].rows, mark[o][2])
               /\ C[o][Home].rows # {} => F[Home].rows # {}
    <3>1. CASE o = m
      BY <2>4, <2>6, <3>1
    <3>2. CASE o # m
      <4>1. C[o] = clone[o]
        BY <1>2, <3>2
      <4> QED
        BY <1>3, <2>3, <4>1
    <3> QED
      BY <3>1, <3>2
  <2> QED
    BY <2>3, <2>7 DEF Archived
<1> QED
  BY <1>5, <1>6

LEMMA ArchivePulls ==
  ASSUME Parameters, Typed, Archived(files, clone, db, store, mark), NEW m \in Readers, Pull(m),
         NEW C, C = clone'
  PROVE  Archived(files, C, db, store, mark)
<1>1. PICK c, d, s, k : c = clone[m] /\ d = db[m].rows /\ s = store[m].rows /\ k = mark[m][2]
  OBVIOUS
<1>2. /\ C[m][m] = c[m] /\ \A o \in Machines \ {m} : C[m][o] = files[o]
      /\ \A o \in Readers \ {m} : C[o] = clone[o]
  BY <1>1, PullIs
<1>3. /\ Filed(files) /\ files \in Files /\ m \in Machines
      /\ Replica(c, d, s, k) /\ (c[Home].rows # {} => files[Home].rows # {})
  BY <1>1 DEF Archived, Typed, Files, Readers
<1>4. /\ Of(c[m].rows, Topics, 0, writes, blurred) /\ (c[m].rows # {} => c[Home].rows # {})
  BY <1>3 DEF Replica, Filed
<1>5. PICK G : G = C[m]
  OBVIOUS
<1>6. Filed(G) /\ G[Home] = files[Home]
  BY <1>2, <1>3, <1>4, <1>5, FiledPut
<1>7. Replica(G, d, s, k)
  BY <1>3, <1>6 DEF Replica
<1> QED
  BY <1>1, <1>2, <1>3, <1>5, <1>6, <1>7 DEF Archived

\* A machine's rows and watermark, but for one machine's, are what they were.
LEMMA ArchivedPut ==
  ASSUME NEW F, NEW C, NEW B, NEW S, NEW K, Archived(F, C, B, S, K),
         NEW m \in Readers, NEW E, NEW T, NEW L,
         \A o \in Readers \ {m} : E[o].rows = B[o].rows /\ T[o].rows = S[o].rows /\ L[o] = K[o],
         Replica(C[m], E[m].rows, T[m].rows, L[m][2])
  PROVE  Archived(F, C, E, T, L)
<1>1. ASSUME NEW o \in Readers PROVE Replica(C[o], E[o].rows, T[o].rows, L[o][2])
  <2>1. CASE o = m
    BY <2>1
  <2>2. CASE o # m
    BY <2>2 DEF Archived
  <2> QED
    BY <2>1, <2>2
<1> QED
  BY <1>1 DEF Archived

LEMMA ArchiveFolds ==
  ASSUME Parameters, Typed, Archived(files, clone, db, store, mark), NEW m \in Readers, Fold(m),
         NEW S, NEW K, S = store', K = mark'
  PROVE  Archived(files, clone, db, S, K)
<1>1. PICK st, t : st = store[m] /\ t = db[m]
  OBVIOUS
<1>2. m \in Machines /\ st \in Table /\ t \in Table
  BY <1>1 DEF Typed, Readers
<1>3. /\ store' = [store EXCEPT ![m] = Folded(@, t)]
      /\ mark' = [mark EXCEPT ![m] = TagMark(t)]
  BY <1>1 DEF Fold
<1>4. S[m] = Folded(st, t) /\ \A o \in Readers \ {m} : S[o] = store[o]
  BY <1>1, <1>2, <1>3, FoldIs DEF Readers
<1>5. K[m] = TagMark(t) /\ \A o \in Readers \ {m} : K[o] = mark[o]
  BY <1>2, <1>3, MarkPut DEF Readers
<1>6. PICK C, k : C = clone[m] /\ k = mark[m][2]
  OBVIOUS
<1>7. Replica(C, t.rows, st.rows, k)
  BY <1>1, <1>6 DEF Archived
<1>8. Replica(C, t.rows, Folded(st, t).rows, TagMark(t)[2])
  BY <1>2, <1>7, ReplicaFolds
<1>9. Replica(clone[m], db[m].rows, S[m].rows, K[m][2])
  BY <1>1, <1>4, <1>5, <1>6, <1>8
<1> QED
  BY <1>4, <1>5, <1>9, ArchivedPut

LEMMA ArchiveIngests ==
  ASSUME Parameters, Typed, Claimed, Archived(files, clone, db, store, mark),
         NEW m \in Readers, Ingest(m), NEW B, NEW S, NEW K, B = db', S = store', K = mark'
  PROVE  Archived(files, clone, B, S, K)
<1>1. PICK st, t, C, k : st = store[m] /\ t = Ingested(m) /\ C = clone[m] /\ k = mark[m][2]
  OBVIOUS
<1>2. /\ t \in Table /\ m \in Machines /\ B[m] = t /\ \A o \in Machines \ {m} : B[o] = db[o]
      /\ \/ /\ store' = [store EXCEPT ![m] = Folded(@, t)]
            /\ mark' = [mark EXCEPT ![m] = TagMark(t)]
         \/ UNCHANGED <<store, mark>>
  BY <1>1, IngestIs
<1>3. st \in Table /\ Replica(C, db[m].rows, st.rows, k)
  BY <1>1, <1>2 DEF Archived, Typed
<1>4. Replica(C, t.rows, st.rows, k)
  <2>1. PICK s : s = st.rows
    OBVIOUS
  <2>2. Replica(clone[m], db[m].rows, s, k)
    BY <1>1, <1>3, <2>1
  <2>3. Replica(clone[m], Ingested(m).rows, s, k)
    BY <2>2, ReplicaIngests
  <2> QED
    BY <1>1, <2>1, <2>3
<1>5. CASE /\ store' = [store EXCEPT ![m] = Folded(@, t)]
           /\ mark' = [mark EXCEPT ![m] = TagMark(t)]
  <2>1. S[m] = Folded(st, t) /\ \A o \in Readers \ {m} : S[o] = store[o]
    BY <1>1, <1>2, <1>5, FoldIs DEF Readers
  <2>2. K[m] = TagMark(t) /\ \A o \in Readers \ {m} : K[o] = mark[o]
    BY <1>2, <1>5, MarkPut DEF Readers
  <2>3. Replica(C, t.rows, Folded(st, t).rows, TagMark(t)[2])
    BY <1>2, <1>3, <1>4, ReplicaFolds
  <2>4. Replica(clone[m], B[m].rows, S[m].rows, K[m][2])
    BY <1>1, <1>2, <2>1, <2>2, <2>3
  <2>5. \A o \in Readers \ {m} : B[o] = db[o]
    BY <1>2 DEF Readers
  <2> QED
    BY <2>1, <2>2, <2>4, <2>5, ArchivedPut
<1>6. CASE UNCHANGED <<store, mark>>
  <2>1. Replica(clone[m], B[m].rows, S[m].rows, K[m][2])
    BY <1>1, <1>2, <1>4, <1>6
  <2>2. \A o \in Readers \ {m} : B[o] = db[o] /\ S[o] = store[o] /\ K[o] = mark[o]
    BY <1>2, <1>6 DEF Readers
  <2> QED
    BY <2>1, <2>2, ArchivedPut
<1> QED
  BY <1>2, <1>5, <1>6

LEMMA ArchiveStep ==
  ASSUME Parameters, Typed, Typed', HomeSound, StoreSound, ArchiveSound, Next
  PROVE  ArchiveSound'
<1> SUFFICES ASSUME Claimed' PROVE ArchiveSound'
  BY DEF ArchiveSound
<1>1. PICK F, C, B, S, K : F = files' /\ C = clone' /\ B = db' /\ S = store' /\ K = mark'
  OBVIOUS
<1>2. Tagging \/ Quiet
  BY Moves
<1>3. ASSUME Archived(F, C, B, S, K) PROVE ArchiveSound'
  <2>1. /\ F \in Files /\ C \in [Readers -> Files] /\ B \in [Machines -> Table]
        /\ S \in [Machines -> Table] /\ \A m \in Machines : K[m][2] \in Nat
    BY <1>1, Constants DEF Typed, Files
  <2>2. Archived(F, C, B, S, K)'
    BY <1>2, <1>3, <2>1, ArchivedLater
  <2> QED
    BY <1>1, <2>2 DEF ArchiveSound
<1>4. ASSUME ~direct, ~withheld
      PROVE  Claimed /\ Archived(files, clone, db, store, mark)
  BY <1>4 DEF Claimed, ArchiveSound
<1>5. ASSUME ~direct, UNCHANGED <<files, clone, withheld>>,
             \A m \in Readers : /\ db'[m] = db[m] /\ store'[m].rows = store[m].rows
                                /\ mark'[m] = mark[m]
      PROVE  ArchiveSound'
  <2>1. Archived(files, clone, db, store, mark)
    BY <1>4, <1>5 DEF Claimed
  <2>2. Archived(F, C, B, S, K)
    BY <1>1, <1>5, <2>1 DEF Archived
  <2> QED
    BY <1>3, <2>2
<1>6. ~direct' /\ ~withheld' /\ \A m \in Readers : m \in Machines /\ m # Home
  BY DEF Claimed, Readers
<1>7. ASSUME NEW m \in Machines, WriteProject(m) PROVE ArchiveSound'
  BY <1>5, <1>6, <1>7, WroteIs
<1>8. ASSUME NEW m \in Machines, WriteStore(m) PROVE ArchiveSound'
  <2>1. ~direct /\ \A o \in Machines : store'[o].rows = store[o].rows
    BY <1>6, <1>8, WriteStoreIs
  <2>2. UNCHANGED <<files, clone, withheld, db, mark>>
    BY <1>8 DEF WriteStore, archive
  <2> QED
    BY <1>5, <1>6, <2>1, <2>2
<1>9. ASSUME NEW m \in Machines, TagFloor(m) PROVE ArchiveSound'
  <2>1. \A o \in Machines : store'[o].rows = store[o].rows
    BY <1>9, TagFloorIs
  <2>2. UNCHANGED <<files, clone, withheld, db, mark, direct>>
    BY <1>9 DEF TagFloor, archive, excuses
  <2> QED
    BY <1>5, <1>6, <2>1, <2>2
<1>10. ASSUME NEW m \in Machines, Fold(m) PROVE ArchiveSound'
  <2>1. UNCHANGED <<files, clone, withheld, db, direct>>
    BY <1>10 DEF Fold, archive
  <2>2. CASE m = Home
    <3>1. /\ store' = [store EXCEPT ![m] = Folded(@, db[m])] /\ db[m] \in Table
          /\ mark' = [mark EXCEPT ![m] = TagMark(db[m])]
      BY <1>10 DEF Fold, Typed
    <3>2. \A o \in Readers : store'[o] = store[o] /\ mark'[o] = mark[o]
      BY <1>6, <2>2, <3>1, FoldIs, MarkPut
    <3> QED
      BY <1>5, <1>6, <2>1, <3>2
  <2>3. CASE m # Home
    <3>1. m \in Readers
      BY <2>3 DEF Readers
    <3>2. Archived(files, clone, db, store, mark)
      BY <1>4, <1>6, <2>1
    <3>3. Archived(files, clone, db, S, K)
      BY <1>1, <1>10, <3>1, <3>2, ArchiveFolds
    <3>4. F = files /\ C = clone /\ B = db
      BY <1>1, <2>1
    <3> QED
      BY <1>3, <3>3, <3>4
  <2> QED
    BY <2>2, <2>3
<1>11. ASSUME NEW m \in Machines, Push(m) PROVE ArchiveSound'
  <2>1. UNCHANGED <<db, store, mark, direct>> /\ ~withheld
    BY <1>6, <1>11, PushIs DEF Push, index, excuses
  <2>2. Claimed /\ Archived(files, clone, db, store, mark)
    BY <1>4, <1>6, <2>1
  <2>3. Archived(F, C, db, store, mark)
    BY <1>1, <1>11, <2>2, ArchivePushes
  <2>4. B = db /\ S = store /\ K = mark
    BY <1>1, <2>1
  <2> QED
    BY <1>3, <2>3, <2>4
<1>12. ASSUME NEW m \in Readers, Pull(m) PROVE ArchiveSound'
  <2>1. UNCHANGED <<db, store, mark, direct, files, withheld>>
    BY <1>12 DEF Pull, index, excuses
  <2>2. Archived(files, clone, db, store, mark)
    BY <1>4, <1>6, <2>1
  <2>3. Archived(files, C, db, store, mark)
    BY <1>1, <1>12, <2>2, ArchivePulls
  <2>4. F = files /\ B = db /\ S = store /\ K = mark
    BY <1>1, <2>1
  <2> QED
    BY <1>3, <2>3, <2>4
<1>13. ASSUME NEW m \in Readers, Ingest(m) PROVE ArchiveSound'
  <2>1. UNCHANGED <<files, clone, direct, withheld>>
    BY <1>13 DEF Ingest, excuses
  <2>2. Claimed /\ Archived(files, clone, db, store, mark)
    BY <1>4, <1>6, <2>1
  <2>3. Archived(files, clone, B, S, K)
    BY <1>1, <1>13, <2>2, ArchiveIngests
  <2>4. F = files /\ C = clone
    BY <1>1, <2>1
  <2> QED
    BY <1>3, <2>3, <2>4
<1>14. ASSUME NEW c \in publishers, ReadSnapshot(c) \/ PublisherDies(c) PROVE ArchiveSound'
  <2>1. UNCHANGED <<db, store, mark, direct, files, clone, withheld>>
    BY <1>14 DEF ReadSnapshot, PublisherDies, index, archive, excuses
  <2> QED
    BY <1>5, <1>6, <2>1
<1>15. ASSUME NEW c \in publishers, Publish(c) PROVE ArchiveSound'
  <2>1. UNCHANGED <<db, mark, direct, files, clone, withheld>>
    BY <1>15 DEF Publish, archive, excuses
  <2>2. \A o \in Readers : store'[o] = store[o]
    BY <1>15, PublishIs
  <2> QED
    BY <1>5, <1>6, <2>1, <2>2
<1> QED
  BY <1>7, <1>8, <1>9, <1>10, <1>11, <1>12, <1>13, <1>14, <1>15 DEF Next

-----------------------------------------------------------------------------
(* The invariant. *)

LEMMA InvInit ==
  ASSUME Parameters, Init
  PROVE  Inv
<1>1. Typed
  BY TypedInit
<1>2. Latest({}) = 0 /\ Home \in Machines /\ TagMark(Untagged)[2] = 0
  BY LatestIs, Constants DEF TagMark, Untagged
<1>3. /\ \A m \in Machines : /\ db[m].rows = {} /\ store[m].rows = {} /\ files[m].rows = {}
                             /\ mark[m][2] = 0
      /\ \A m \in Readers : \A o \in Machines : clone[m][o].rows = {}
      /\ Topics = {} /\ publishers = {} /\ db[Home].verdict.org = 0 /\ db[Home].verdict.at = 0
      /\ now = 1
  BY <1>2, UntaggedIs DEF Init, Topics, Untagged
<1>4. \A o, w, b : Of({}, {}, o, w, b) /\ Version({}, {}, o, b)
  BY DEF Of, Version
<1>5. From({}, 0) = {} /\ From({}, Home) = {}
  BY DEF From
<1>6. HomeSound
  BY <1>2, <1>3, <1>4 DEF HomeSound
<1>7. SnapshotsSound
  BY <1>3 DEF SnapshotsSound
<1>8. StoreSound
  <2>1. store[Home].rows = {} /\ mark[Home][2] = 0
    BY <1>2, <1>3
  <2>2. Of({}, Topics, 0, writes, blurred) /\ Version({}, Topics, 0, blurred)
    BY <1>3, <1>4
  <2>3. Vouches(0, {}, 0)
    BY <1>2, <1>3, <1>5 DEF Vouches
  <2>4. Expected
    BY <1>3, <2>1 DEF Expected
  <2> QED
    BY <2>1, <2>2, <2>3, <2>4 DEF StoreSound
<1>9. ArchiveSound
  <2>1. Filed(files) /\ \A m \in Readers : Filed(clone[m])
    BY <1>2, <1>3, <1>4 DEF Filed
  <2>2. Vouches(0, {}, Home)
    BY <1>2, <1>3, <1>5 DEF Vouches
  <2>3. ASSUME NEW m \in Readers
        PROVE  /\ Replica(clone[m], db[m].rows, store[m].rows, mark[m][2])
               /\ clone[m][Home].rows = {}
    <3>1. db[m].rows = {} /\ store[m].rows = {} /\ mark[m][2] = 0 /\ clone[m][Home].rows = {}
      BY <1>2, <1>3 DEF Readers
    <3> QED
      BY <1>3, <1>4, <2>1, <2>2, <3>1 DEF Replica
  <2> QED
    BY <2>1, <2>3 DEF ArchiveSound, Archived
<1> QED
  BY <1>1, <1>6, <1>7, <1>8, <1>9 DEF Inv

LEMMA InvStep ==
  ASSUME Parameters, Inv, [Next]_vars
  PROVE  Inv'
<1>1. CASE Next
  <2>1. Typed'
    BY <1>1, TypedStep DEF Inv
  <2>2. HomeSound'
    BY <1>1, HomeStep DEF Inv
  <2>3. SnapshotsSound'
    BY <1>1, SnapshotsStep DEF Inv
  <2>4. StoreSound'
    BY <1>1, StoreStep DEF Inv
  <2>5. ArchiveSound'
    BY <1>1, <2>1, ArchiveStep DEF Inv
  <2> QED
    BY <2>1, <2>2, <2>3, <2>4, <2>5 DEF Inv
<1>2. CASE UNCHANGED vars
  <2>1. UNCHANGED <<db, store, mark, publishers, files, clone, now, writes, faults,
                    lost, blurred, direct, withheld>>
    BY <1>2 DEF vars, index, archive, excuses
  <2>2. Typed'
    BY <2>1 DEF Inv, Typed
  <2>3. HomeSound'
    BY <2>1 DEF Inv, HomeSound, Topics
  <2>4. SnapshotsSound'
    BY <2>1 DEF Inv, SnapshotsSound, Snapshot, Topics
  <2>5. StoreSound'
    BY <2>1 DEF Inv, StoreSound, Expected, Pending, Vouches, Topics
  <2>6. ArchiveSound'
    BY <2>1 DEF Inv, ArchiveSound, Claimed, Archived, Filed, Replica, Vouches, Topics
  <2> QED
    BY <2>2, <2>3, <2>4, <2>5, <2>6 DEF Inv
<1> QED
  BY <1>1, <1>2

LEMMA Invariance ==
  ASSUME Parameters
  PROVE  Spec => []Inv
<1>1. Init => Inv
  BY InvInit
<1>2. Inv /\ [Next]_vars => Inv'
  BY InvStep
<1> QED
  BY <1>1, <1>2, PTL DEF Spec

LEMMA InvTypes ==
  ASSUME Parameters, Inv
  PROVE  TypeOK
<1>1. ASSUME NEW t \in {db[m] : m \in Machines} \cup {store[m] : m \in Machines}
                  \cup {files[m] : m \in Machines} \cup {c.tags : c \in publishers}
      PROVE  /\ t.rows \subseteq Segment /\ t.verdict \in Verdict \cup {NoVerdict}
             /\ \A r, q \in t.rows : r.start = q.start => r = q
  <2>1. t \in Table
    BY DEF Inv, Typed, Child
  <2> QED
    BY <2>1, RowsOf DEF Keyed, Verdicts
<1> QED
  BY <1>1 DEF TypeOK, Inv, Typed

LEMMA InvShows ==
  ASSUME Parameters, Inv
  PROVE  StoreShowsLatest
BY DEF StoreShowsLatest, Inv, StoreSound, Expected, Pending, Topics

\* Rows with the content of the whole tagging are the whole tagging.
LEMMA WholeByContent ==
  ASSUME Parameters, NEW D \in SUBSET Segment, NEW R \in SUBSET Segment, NEW o, NEW w,
         D # {}, Of(R, D, o, w, FALSE), Version(R, D, o, FALSE), Content(R) = Content(D)
  PROVE  R = From(D, o)
<1> SUFFICES ASSUME \A q \in R : q.at < Latest(D) PROVE FALSE
  BY DEF Version
<1>1. PICK r \in D : r.at = Latest(D)
  BY LatestIs
<1>2. <<r.start, r.by, r.n>> \in Content(R)
  BY DEF Content
<1>3. PICK q \in R : <<q.start, q.by, q.n>> = <<r.start, r.by, r.n>>
  BY <1>2 DEF Content
<1>4. q.at = r.at
  BY <1>3 DEF Of, Prior
<1>5. Latest(D) \in Nat
  BY LatestIs, Constants
<1> QED
  BY <1>1, <1>4, <1>5

LEMMA InvArrives ==
  ASSUME Parameters, Inv
  PROVE  TaggingsArrive
<1> SUFFICES ASSUME Settled, \A m \in Machines : m <= Home, ~blurred, ~direct, ~withheld,
                    NEW m \in Machines
             PROVE  Content(store[m].rows) = Content(db[Home].rows)
  BY DEF TaggingsArrive
<1>1. PICK D : D = Topics
  OBVIOUS
<1>2. /\ Typed /\ D \in SUBSET Segment /\ Home \in Machines /\ D = db[Home].rows
      /\ blurred = FALSE /\ db[Home] \in Table /\ store[Home] \in Table
  BY <1>1, TopicsAre, Constants DEF Inv, Topics
<1>3. /\ Of(store[Home].rows, D, 0, writes, FALSE)
      /\ Vouches(mark[Home][2], store[Home].rows, 0)
      /\ Of(D, D, 0, writes, FALSE) /\ (D # {} => db[Home].layer)
  BY <1>1, <1>2 DEF Inv, HomeSound, StoreSound
<1>4. From(D, 0) = D
  <2>1. \A r \in D : r.org = 0
    BY <1>3 DEF Of
  <2>2. D \in SUBSET Segment
    BY <1>2
  <2> QED
    BY <2>1, <2>2, FromIs
<1>5. ASSUME NEW R \in SUBSET Segment, NEW o, Of(R, D, o, writes, FALSE), D = {}
      PROVE  Content(R) = Content(D)
  <2>1. R = {}
    BY <1>5, OfNone
  <2> QED
    BY <1>5, <2>1
<1>6. store[Home].rows = D
  <2>1. CASE D = {}
    <3>1. store[Home].rows \in SUBSET Segment
      BY <1>2, RowsOf
    <3>2. Of(store[Home].rows, {}, 0, writes, FALSE)
      BY <1>3, <2>1
    <3> QED
      BY <2>1, <3>1, <3>2, OfNone
  <2>2. CASE D # {}
    <3>1. mark[Home] = TagMark(db[Home])
      BY <1>2 DEF Settled
    <3>2. mark[Home][2] = Latest(D)
      BY <1>2, <1>3, <2>2, <3>1, TagMarkIs
    <3> QED
      BY <1>1, <1>3, <1>4, <3>2 DEF Vouches
  <2> QED
    BY <2>1, <2>2
<1>7. CASE m = Home
  BY <1>2, <1>6, <1>7
<1>8. CASE m # Home
  <2>1. m \in Readers /\ store[m] \in Table /\ db[m] \in Table /\ clone[m] \in Files
    BY <1>2, <1>8 DEF Readers, Typed, Files
  <2>2. Replica(clone[m], db[m].rows, store[m].rows, mark[m][2])
    BY <2>1 DEF Inv, ArchiveSound, Archived, Claimed
  <2>3. /\ Of(store[m].rows, D, Home, writes, FALSE) /\ Vouches(mark[m][2], store[m].rows, Home)
        /\ Of(db[m].rows, D, Home, writes, FALSE) /\ Version(db[m].rows, D, Home, FALSE)
        /\ store[m].rows \in SUBSET Segment /\ db[m].rows \in SUBSET Segment
    BY <1>1, <1>2, <2>1, <2>2, RowsOf DEF Replica
  <2>4. CASE D = {}
    BY <1>2, <1>5, <2>3, <2>4
  <2>5. CASE D # {}
    <3>1. Exported(Home).rows = D /\ Tagged(Exported(Home))
      <4>1. Tagged(store[Home])
        BY <1>6, <2>5 DEF Tagged
      <4>2. Exported(Home).rows = From(D, 0)
        BY <1>2, <1>6, <4>1, ExportedIs
      <4> QED
        BY <1>4, <2>5, <4>2 DEF Tagged
    <3>2. clone[m][Home].rows = D /\ db[m] = Ingested(m)
      BY <1>2, <2>1, <3>1 DEF Settled
    <3>3. ResolvedRows(clone[m]) = From(D, Home)
      BY <2>1, <2>5, <3>2, ResolvedRowsIs
    <3>4. Content(From(D, Home)) = Content(D)
      BY <1>2, FromIs
    <3>5. Content(db[m].rows) = Content(D) /\ db[m].layer
      <4>1. \E o \in Machines : clone[m][o].rows # {}
        BY <1>2, <2>5, <3>2
      <4>2. /\ Content(Ingested(m).rows) = Content(ResolvedRows(clone[m]))
            /\ Ingested(m).layer
        BY <1>2, <2>1, <4>1, IngestedIs
      <4> QED
        BY <3>2, <3>3, <3>4, <4>2
    <3>6. db[m].rows = From(D, Home)
      BY <1>2, <2>3, <2>5, <3>5, WholeByContent
    <3>7. mark[m][2] = Latest(D)
      <4>1. mark[m] = TagMark(db[m])
        BY DEF Settled
      <4>2. TagMark(db[m])[2] = Latest(db[m].rows)
        BY <2>1, <3>5, TagMarkIs
      <4>3. Home \in Machines \cup {0}
        BY <1>2
      <4>4. Latest(From(D, Home)) = Latest(D)
        BY <1>2, <4>3, FromLatest
      <4> QED
        BY <3>6, <4>1, <4>2, <4>4
    <3>8. store[m].rows = From(D, Home)
      BY <1>1, <2>3, <3>7 DEF Vouches
    <3> QED
      BY <1>2, <3>4, <3>8
  <2> QED
    BY <2>4, <2>5
<1> QED
  BY <1>7, <1>8

-----------------------------------------------------------------------------
(* The theorems. *)

(* Tables, snapshots and tag files are well typed, and a segment's start    *)
(* message is a key in each.                                               *)
THEOREM Types ==
  ASSUME Parameters
  PROVE  Spec => []TypeOK
<1>1. Inv => TypeOK
  BY InvTypes
<1> QED
  BY <1>1, Invariance, PTL

(* Once the children of the tag-writes are done, whatever order they read   *)
(* and published in, the store shows the session's latest tagging.         *)
THEOREM ShowsLatest ==
  ASSUME Parameters
  PROVE  Spec => []StoreShowsLatest
<1>1. Inv => StoreShowsLatest
  BY InvShows
<1> QED
  BY <1>1, Invariance, PTL

(* Once nothing is left to do, every machine shows the latest tagging of a  *)
(* session whose transcript is on the machine of the highest id.           *)
THEOREM Arrive ==
  ASSUME Parameters
  PROVE  Spec => []TaggingsArrive
<1>1. Inv => TaggingsArrive
  BY InvArrives
<1> QED
  BY <1>1, Invariance, PTL
=============================================================================
