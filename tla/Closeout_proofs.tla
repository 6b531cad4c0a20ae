--------------------------- MODULE Closeout_proofs ---------------------------
(***************************************************************************)
(* What holds of the background tagging for any number of workers and      *)
(* prewarms, and any transcript: the token is one worker's, no message is  *)
(* in two segments, and a worker that is done leaves none untagged.        *)
(***************************************************************************)
EXTENDS Closeout, FiniteFacts

Parameters == MaxMessages \in Nat \ {0} /\ MaxKills \in Nat

Steps == {"idle", "exists", "reclaim", "claimed", "queued", "start", "prep", "tagger", "write",
          "insert", "release", "rmdir", "over"}

Locks == [tokens: SUBSET Workers, stale: BOOLEAN, held: BOOLEAN]
Works == [pc: Steps, try: {1, 2}, pass: Nat, window: SUBSET Nat, starts: SUBSET Nat]
Warms == [pc: {"idle", "stat", "dump", "state", "over"}, window: SUBSET Nat, n: Nat,
          topics: Nat, stat: Nat]
Segment(n) == {g \in [from: Nat, to: Nat] :
                 g.from <= g.to /\ g.from \in Displayable(n) /\ g.to \in Displayable(n)}

Typed ==
  /\ len \in 1 .. MaxMessages /\ kills \in 0 .. MaxKills
  /\ segs \subseteq Segment(len) /\ IsFiniteSet(segs) /\ shown \subseteq segs
  /\ lock \in Locks /\ worker \in [Workers -> Works]
  /\ dump \in [window: SUBSET Nat, n: Nat] /\ state \in [n: Nat, topics: Nat]
  /\ prewarm \in [Prewarmers -> Warms]
  /\ robbed \in BOOLEAN /\ torn \in BOOLEAN /\ short \in BOOLEAN
  /\ \A w \in Workers : At(w, "insert") =>
       worker[w].starts \subseteq worker[w].window /\ worker[w].window \subseteq Displayable(len)

----------------------------------------------------------------------------
(* Windows and segments. *)

LEMMA LeastIs ==
  ASSUME NEW n \in Nat, NEW S \in SUBSET (1 .. n), S # {}
  PROVE  Min(S) \in S /\ \A y \in S : Min(S) <= y
BY FirstPlace DEF Min

LEMMA GreatestIs ==
  ASSUME NEW n \in Nat, NEW S \in SUBSET (1 .. n), S # {}
  PROVE  Max(S) \in S /\ \A y \in S : y <= Max(S)
<1>1. \E x \in S : \A y \in S : x >= y
  BY LastPlace
<1> QED
  BY <1>1 DEF Max

LEMMA CoveredMember ==
  ASSUME NEW ss, NEW i
  PROVE  i \in Covered(ss) <=> \E g \in ss : i \in g.from .. g.to
BY DEF Covered

(* A window is of displayable messages that no segment covers, and no       *)
(* segment of displayable ends lies between two of them.                    *)
LEMMA WindowFacts ==
  ASSUME NEW n \in Nat, NEW ss
  PROVE  /\ Window(n, ss) \subseteq Displayable(n) \ Covered(ss)
         /\ \A i, k \in Window(n, ss) : \A j \in Displayable(n) \cap Covered(ss) : ~(i <= j /\ j <= k)
         /\ Window(n, ss) = {} <=> Displayable(n) \subseteq Covered(ss)
<1> DEFINE open == Displayable(n) \ Covered(ss)
           first == Min(open)
           stretch == {i \in open : \A j \in Displayable(n) \cap Covered(ss) : j < first \/ i < j}
           fits(i) == i = first \/ Bytes({j \in stretch : j <= i}) <= ChunkByteCap
           W == IF open = {} THEN {} ELSE {i \in stretch : fits(i)}
<1>1. Window(n, ss) = W
  BY DEF Window
<1>2. open \in SUBSET (1 .. n) /\ Displayable(n) \subseteq 1 .. n
  BY DEF Displayable
<1>3. CASE open = {}
  BY <1>1, <1>3
<1>4. CASE open # {}
  <2> HIDE DEF open
  <2>1. first \in open /\ \A y \in open : first <= y
    BY <1>2, <1>4, LeastIs
  <2>2. open \cap Covered(ss) = {} /\ open \subseteq Displayable(n)
    BY DEF open
  <2> HIDE DEF first
  <2>3. first \in stretch
    BY <1>2, <2>1, <2>2
  <2>4. fits(first)
    OBVIOUS
  <2>5. stretch \subseteq open
    OBVIOUS
  <2>6. \A k \in stretch : \A j \in Displayable(n) \cap Covered(ss) : j < first \/ k < j
    OBVIOUS
  <2> HIDE DEF fits, stretch
  <2>7. first \in W /\ W \subseteq stretch
    BY <1>4, <2>3, <2>4
  <2> HIDE DEF W
  <2>8. ASSUME NEW i \in W, NEW k \in W, NEW j \in Displayable(n) \cap Covered(ss), i <= j, j <= k
        PROVE  FALSE
    <3>1. i \in Int /\ j \in Int /\ k \in Int /\ first \in Int /\ first <= i
      BY <1>2, <2>1, <2>5, <2>7, <2>8
    <3>2. j < first \/ k < j
      BY <2>6, <2>7, <2>8
    <3> QED
      BY <2>8, <3>1, <3>2
  <2>9. W # {} /\ ~(Displayable(n) \subseteq Covered(ss)) /\ W \subseteq Displayable(n) \ Covered(ss)
    BY <2>1, <2>2, <2>5, <2>7
  <2> QED
    BY <1>1, <2>8, <2>9
<1> QED
  BY <1>3, <1>4

(* The segments of some starts in a window: each starts at one of them and  *)
(* ends in the window, before the next one starts.                          *)
LEMMA SegmentFacts ==
  ASSUME NEW n \in Nat, NEW W \in SUBSET (1 .. n), NEW S \in SUBSET W, NEW g \in Segments(S, W)
  PROVE  /\ g \in [from: Nat, to: Nat] /\ g.from \in S /\ g.to \in W /\ g.from <= g.to
         /\ \A j \in S : j > g.from => g.to < j
         /\ \A h \in Segments(S, W) : h.from = g.from => h = g
<1> DEFINE later(i) == {j \in S : j > i}
           last(i) == IF later(i) = {} THEN W ELSE {j \in W : j < Min(later(i))}
           seg(i) == [from |-> i, to |-> Max(last(i) \cup {i})]
<1>1. Segments(S, W) = {seg(i) : i \in S}
  BY DEF Segments
<1>2. PICK i \in S : g = seg(i)
  BY <1>1
<1>3. \A h \in Segments(S, W) : h.from = g.from => h = g
  <2>1. \A k \in S : seg(k).from = k
    OBVIOUS
  <2> HIDE DEF seg
  <2> QED
    BY <1>1, <1>2, <2>1
<1> DEFINE T == last(i) \cup {i}
<1>4. T \in SUBSET (1 .. n) /\ T # {} /\ T \subseteq W /\ i \in T
  OBVIOUS
<1>5. g = [from |-> i, to |-> Max(T)]
  BY <1>2
<1>6. ASSUME NEW j \in S, j > i PROVE \A y \in T : y < j
  <2> DEFINE L == later(i)
  <2>1. L \in SUBSET (1 .. n) /\ j \in L
    BY <1>6
  <2>2. Min(L) \in L /\ \A y \in L : Min(L) <= y
    <3> HIDE DEF L
    <3> QED
      BY <2>1, LeastIs
  <2>3. \A y \in L : y > i
    OBVIOUS
  <2>4. last(i) = {y \in W : y < Min(L)}
    BY <2>1
  <2>5. i \in 1 .. n /\ j \in 1 .. n
    OBVIOUS
  <2> DEFINE m == Min(L)
  <2>6. m \in L /\ (\A y \in L : m <= y) /\ last(i) = {y \in W : y < m}
    BY <2>2, <2>4
  <2> HIDE DEF L, last, later, m
  <2>7. m \in Int /\ m <= j /\ i < m
    BY <2>1, <2>3, <2>5, <2>6
  <2>8. \A y \in last(i) : y < m
    BY <2>6
  <2>9. \A y \in T : y \in Int /\ (y \in last(i) \/ y = i)
    BY <1>4
  <2> HIDE DEF T
  <2> QED
    BY <1>6, <2>5, <2>7, <2>8, <2>9
<1> HIDE DEF T, later, last, seg
<1>7. Max(T) \in T /\ \A y \in T : y <= Max(T)
  BY <1>4, GreatestIs
<1> DEFINE m == Max(T)
<1>9. m \in T /\ (\A y \in T : y <= m) /\ g = [from |-> i, to |-> m]
  BY <1>5, <1>7
<1> HIDE DEF m
<1>8. g.from = i /\ g.to = m /\ i \in Nat /\ m \in Nat /\ g \in [from: Nat, to: Nat]
  BY <1>4, <1>9
<1>10. g.from \in S /\ g.to \in W /\ g.from <= g.to
  BY <1>4, <1>8, <1>9
<1>11. \A j \in S : j > g.from => g.to < j
  BY <1>6, <1>8, <1>9
<1> QED
  BY <1>3, <1>8, <1>10, <1>11

LEMMA SegmentsFinite ==
  ASSUME NEW n \in Nat, NEW W \in SUBSET (1 .. n), NEW S \in SUBSET W
  PROVE  IsFiniteSet(Segments(S, W))
<1> DEFINE places == 1 .. n
           later(i) == {j \in S : j > i}
           last(i) == IF later(i) = {} THEN W ELSE {j \in W : j < Min(later(i))}
           seg == [i \in S |-> [from |-> i, to |-> Max(last(i) \cup {i})]]
<1>1. IsFiniteSet(places) /\ S \subseteq places
  BY FS_Interval
<1>2. IsFiniteSet(S)
  <2> HIDE DEF places
  <2> QED
    BY <1>1, FS_Subset
<1>3. Segments(S, W) = {seg[i] : i \in S}
  BY DEF Segments
<1> HIDE DEF seg, later, last
<1>4. IsFiniteSet({seg[i] : i \in S})
  BY <1>2, FiniteImage
<1> QED
  BY <1>3, <1>4

LEMMA DisplayableGrows ==
  ASSUME NEW m \in Nat, NEW n \in Nat, m <= n
  PROVE  Displayable(m) \subseteq Displayable(n) /\ Displayable(n) \subseteq 1 .. n
BY DEF Displayable

----------------------------------------------------------------------------
(* Types. *)

LEMMA TypedInit == Parameters /\ Init => Typed
<1> SUFFICES ASSUME Parameters, Init PROVE Typed
  OBVIOUS
<1>1. worker \in [Workers -> Works] /\ \A w \in Workers : worker[w].pc = "idle"
  BY DEF Init, Over, Works, Steps
<1>2. prewarm \in [Prewarmers -> Warms]
  BY DEF Init, Warmed, Warms
<1>3. lock \in Locks
  <2>1. NoLock \in Locks
    BY DEF NoLock, Locks
  <2>2. [tokens |-> {}, stale |-> TRUE, held |-> TRUE] \in Locks
    BY DEF Locks
  <2> QED
    BY <2>1, <2>2 DEF Init
<1>4. dump \in [window: SUBSET Nat, n: Nat] /\ state \in [n: Nat, topics: Nat]
  BY DEF Init, NoDump, NoState
<1>5. len \in 1 .. MaxMessages /\ kills \in 0 .. MaxKills
  BY DEF Init, Parameters
<1> QED
  BY <1>1, <1>2, <1>3, <1>4, <1>5, FS_EmptySet DEF Init, Typed, At

(* The next state of one worker is typed.                                   *)
LEMMA WorkerTyped ==
  ASSUME Typed, NEW w \in Workers, NEW r \in Works,
         worker' = [worker EXCEPT ![w] = r],
         r.pc = "insert" => r.starts \subseteq r.window /\ r.window \subseteq Displayable(len)
  PROVE  /\ worker' \in [Workers -> Works]
         /\ \A v \in Workers : worker'[v].pc = "insert" =>
              worker'[v].starts \subseteq worker'[v].window /\ worker'[v].window \subseteq Displayable(len)
<1>1. worker \in [Workers -> Works] /\ \A v \in Workers : worker[v].pc = "insert" =>
         worker[v].starts \subseteq worker[v].window /\ worker[v].window \subseteq Displayable(len)
  BY DEF Typed, At
<1>2. worker' \in [Workers -> Works] /\ \A v \in Workers : worker'[v] = IF v = w THEN r ELSE worker[v]
  BY <1>1
<1> QED
  BY <1>1, <1>2

LEMMA OverTyped ==
  /\ Over \in Works /\ Over.pc = "over"
  /\ \A pc \in Steps, pass \in Nat :
       [Over EXCEPT !.pc = pc, !.pass = pass] \in Works
BY DEF Over, Works, Steps

(* A step of a worker, and the state it goes on with.                       *)
WorkerSteps(w) ==
  \/ Mkdir(w) \/ StatLock(w) \/ Reclaim(w) \/ Mark(w) \/ SpawnCloseout(w) \/ Validate(w)
  \/ Release(w) \/ Rmdir(w) \/ Prep(w) \/ Tagger(w) \/ Write(w) \/ InsertSegments(w) \/ KillWorker(w)

LEMMA WorkerMoves ==
  ASSUME Typed, NEW w \in Workers, WorkerSteps(w)
  PROVE  /\ worker' \in [Workers -> Works]
         /\ \A v \in Workers : worker'[v].pc = "insert" =>
              worker'[v].starts \subseteq worker'[v].window /\ worker'[v].window \subseteq Displayable(len)
         /\ \A v \in Workers \ {w} : worker'[v] = worker[v]
         /\ UNCHANGED <<len, shown, prewarm, torn>>
<1> DEFINE me == worker[w]
<1>1. worker \in [Workers -> Works] /\ me \in Works /\ len \in Nat
  BY DEF Typed
<1>2. SUFFICES \E r \in Works :
                 /\ worker' = [worker EXCEPT ![w] = r]
                 /\ r.pc = "insert" => r.starts \subseteq r.window /\ r.window \subseteq Displayable(len)
  <2>1. PICK r \in Works :
          /\ worker' = [worker EXCEPT ![w] = r]
          /\ r.pc = "insert" => r.starts \subseteq r.window /\ r.window \subseteq Displayable(len)
    BY <1>2
  <2>2. \A v \in Workers \ {w} : worker'[v] = worker[v]
    BY <1>1, <2>1
  <2>3. UNCHANGED <<len, shown, prewarm, torn>>
    BY DEF WorkerSteps, Mkdir, StatLock, Reclaim, Mark, SpawnCloseout, Validate, Release, Rmdir,
           Prep, Tagger, Write, InsertSegments, KillWorker, tags, locks, cache
  <2>4. /\ worker' \in [Workers -> Works]
        /\ \A v \in Workers : worker'[v].pc = "insert" =>
              worker'[v].starts \subseteq worker'[v].window /\ worker'[v].window \subseteq Displayable(len)
    <3> HIDE DEF me
    <3> QED
      BY <2>1, WorkerTyped
  <2> QED
    BY <2>2, <2>3, <2>4
<1> DEFINE Goal == \E r \in Works :
                     /\ worker' = [worker EXCEPT ![w] = r]
                     /\ r.pc = "insert" => r.starts \subseteq r.window /\ r.window \subseteq Displayable(len)
<1>3. ASSUME NEW pc \in Steps \ {"insert"}, Go(w, pc) PROVE Goal
  <2> DEFINE r == [me EXCEPT !.pc = pc]
  <2>1. r \in Works /\ r.pc = pc
    BY <1>1 DEF Works
  <2>2. worker' = [worker EXCEPT ![w] = r]
    BY <1>3 DEF Go
  <2> HIDE DEF r
  <2> QED
    BY <2>1, <2>2
<1>4. ASSUME End(w) PROVE Goal
  BY <1>4, OverTyped DEF End
<1>5. ASSUME Leave(w) PROVE Goal
  <2> DEFINE r == [Over EXCEPT !.pc = "release"]
  <2>1. r \in Works /\ r.pc = "release"
    BY DEF Over, Works, Steps
  <2>2. worker' = [worker EXCEPT ![w] = r]
    BY <1>5 DEF Leave
  <2> HIDE DEF r
  <2> QED
    BY <2>1, <2>2
<1>6. CASE Mkdir(w) \/ StatLock(w) \/ SpawnCloseout(w) \/ Validate(w) \/ Release(w)
  <2>1. End(w) \/ \E pc \in Steps \ {"insert"} : Go(w, pc)
    BY <1>6 DEF Mkdir, StatLock, SpawnCloseout, Validate, Release, Steps
  <2> QED
    BY <1>3, <1>4, <2>1
<1>7. CASE Rmdir(w) \/ KillWorker(w)
  BY <1>4, <1>7 DEF Rmdir, KillWorker
<1>8. CASE Reclaim(w)
  <2> DEFINE r == [me EXCEPT !.pc = "idle", !.try = 2]
  <2>1. r \in Works /\ r.pc = "idle"
    BY <1>1 DEF Works, Steps
  <2>2. End(w) \/ worker' = [worker EXCEPT ![w] = r]
    BY <1>8 DEF Reclaim
  <2> HIDE DEF r
  <2> QED
    BY <1>4, <2>1, <2>2
<1>9. CASE Mark(w)
  <2> DEFINE r == [me EXCEPT !.pc = "queued", !.try = 1]
  <2>1. r \in Works /\ r.pc = "queued"
    BY <1>1 DEF Works, Steps
  <2>2. End(w) \/ worker' = [worker EXCEPT ![w] = r]
    BY <1>9 DEF Mark
  <2> HIDE DEF r
  <2> QED
    BY <1>4, <2>1, <2>2
<1>10. CASE Prep(w)
  <2> DEFINE served == IF Fresh(Cardinality(shown)) THEN dump.window ELSE Window(len, Authoritative)
             r == [me EXCEPT !.pc = "tagger", !.window = served]
  <2>1. served \in SUBSET Nat
    <3>1. dump.window \in SUBSET Nat
      BY DEF Typed
    <3>2. Window(len, Authoritative) \in SUBSET Nat
      BY <1>1, WindowFacts DEF Displayable
    <3> QED
      BY <3>1, <3>2
  <2>2. Leave(w) \/ worker' = [worker EXCEPT ![w] = r]
    BY <1>10 DEF Prep
  <2> HIDE DEF served
  <2>3. r \in Works /\ r.pc = "tagger"
    BY <1>1, <2>1 DEF Works, Steps
  <2> HIDE DEF r
  <2> QED
    BY <1>5, <2>2, <2>3
<1>11. CASE Tagger(w)
  <2>1. CASE Leave(w)
    BY <1>5, <2>1
  <2>2. CASE \E S \in (SUBSET worker[w].window) \ {{}} :
               worker' = [worker EXCEPT ![w].pc = "write", ![w].starts = S]
    <3>1. PICK S \in SUBSET me.window : worker' = [worker EXCEPT ![w].pc = "write", ![w].starts = S]
      BY <2>2
    <3> DEFINE r == [me EXCEPT !.pc = "write", !.starts = S]
    <3>2. S \in SUBSET Nat
      BY <1>1 DEF Works
    <3>3. r \in Works /\ r.pc = "write"
      BY <1>1, <3>2 DEF Works, Steps
    <3>4. worker' = [worker EXCEPT ![w] = r]
      BY <3>1
    <3> HIDE DEF r
    <3> QED
      BY <3>3, <3>4
  <2> QED
    BY <1>11, <2>1, <2>2 DEF Tagger
<1>12. CASE Write(w)
  <2> DEFINE window == Window(len, segs)
             r == [me EXCEPT !.pc = "insert", !.window = window]
  <2>1. window \subseteq Displayable(len) /\ window \in SUBSET Nat
    BY <1>1, WindowFacts DEF Displayable
  <2>2. Leave(w) \/ (me.starts \subseteq window /\ worker' = [worker EXCEPT ![w] = r])
    BY <1>12 DEF Write, Accepts
  <2> HIDE DEF window
  <2>3. r \in Works /\ r.starts = me.starts /\ r.window = window
    BY <1>1, <2>1 DEF Works, Steps
  <2> HIDE DEF r
  <2> QED
    BY <1>5, <2>1, <2>2, <2>3
<1>13. CASE InsertSegments(w)
  <2> DEFINE next == worker[w].pass + 1
             r == [Over EXCEPT !.pc = "prep", !.pass = next]
  <2>1. r \in Works /\ r.pc = "prep"
    <3>1. next \in Nat
      BY <1>1 DEF Works
    <3> HIDE DEF next
    <3> QED
      BY <3>1 DEF Over, Works, Steps
  <2>2. Leave(w) \/ worker' = [worker EXCEPT ![w] = r]
    BY <1>13 DEF InsertSegments
  <2> HIDE DEF r
  <2> QED
    BY <1>5, <2>1, <2>2
<1> QED
  BY <1>6, <1>7, <1>8, <1>9, <1>10, <1>11, <1>12, <1>13 DEF WorkerSteps

(* What a worker inserts is a segment of the transcript.                    *)
LEMMA InsertTyped ==
  ASSUME Typed, NEW w \in Workers, InsertSegments(w)
  PROVE  segs' \subseteq Segment(len) /\ IsFiniteSet(segs') /\ segs \subseteq segs'
<1> DEFINE W == worker[w].window
           S == worker[w].starts
           new == Segments(S, W)
<1>1. len \in Nat /\ W \in SUBSET Displayable(len) /\ S \in SUBSET W
      /\ segs \subseteq Segment(len) /\ IsFiniteSet(segs)
  BY DEF Typed, InsertSegments
<1>2. W \in SUBSET (1 .. len)
  BY <1>1 DEF Displayable
<1>3. segs' = segs \/ segs' = segs \cup new
  BY DEF InsertSegments
<1> HIDE DEF W, S
<1>4. \A g \in new : g \in [from: Nat, to: Nat] /\ g.from \in S /\ g.to \in W /\ g.from <= g.to
  BY <1>1, <1>2, SegmentFacts
<1>5. IsFiniteSet(new)
  BY <1>1, <1>2, SegmentsFinite
<1> HIDE DEF new
<1>6. new \subseteq Segment(len)
  BY <1>1, <1>4 DEF Segment
<1>7. IsFiniteSet(segs \cup new)
  BY <1>1, <1>5, FS_Union
<1> QED
  BY <1>1, <1>3, <1>6, <1>7

PrewarmSteps(p) == \/ Compute(p) \/ StatTranscript(p) \/ WriteDump(p) \/ WriteState(p) \/ KillPrewarm(p)

LEMMA PrewarmMoves ==
  ASSUME Typed, NEW p \in Prewarmers, PrewarmSteps(p)
  PROVE  prewarm' \in [Prewarmers -> Warms]
<1> DEFINE me == prewarm[p]
<1>1. prewarm \in [Prewarmers -> Warms] /\ me \in Warms /\ len \in Nat
  BY DEF Typed
<1>2. Warmed \in Warms
  BY DEF Warmed, Warms
<1>3. CASE Compute(p)
  <2> DEFINE known == Authoritative
             topics == Cardinality(known)
             window == Window(len, known)
             r == [pc |-> "stat", window |-> window, n |-> len, topics |-> topics, stat |-> 0]
  <2>1. topics \in Nat
    <3>1. IsFiniteSet(known)
      <4>1. known \subseteq segs
        BY DEF Authoritative, Typed
      <4> HIDE DEF known
      <4> QED
        BY <4>1, FS_Subset DEF Typed
    <3> HIDE DEF known
    <3> QED
      BY <3>1, FS_CardinalityType
  <2>2. window \in SUBSET Nat
    BY <1>1, WindowFacts DEF Displayable
  <2>3. prewarm' = [prewarm EXCEPT ![p] = Warmed] \/ prewarm' = [prewarm EXCEPT ![p] = r]
    BY <1>3 DEF Compute
  <2> HIDE DEF topics, window
  <2>4. r \in Warms
    BY <1>1, <2>1, <2>2 DEF Warms
  <2> HIDE DEF r
  <2> QED
    BY <1>1, <1>2, <2>3, <2>4
<1>4. CASE StatTranscript(p)
  <2> DEFINE r == [me EXCEPT !.pc = "dump", !.stat = len]
  <2>1. r \in Warms
    BY <1>1 DEF Warms
  <2>2. prewarm' = [prewarm EXCEPT ![p] = r]
    BY <1>4 DEF StatTranscript
  <2> HIDE DEF r
  <2> QED
    BY <1>1, <2>1, <2>2
<1>5. CASE WriteDump(p)
  <2> DEFINE r == [me EXCEPT !.pc = "state"]
  <2>1. r \in Warms
    BY <1>1 DEF Warms
  <2>2. prewarm' = [prewarm EXCEPT ![p] = r]
    BY <1>5 DEF WriteDump
  <2> HIDE DEF r
  <2> QED
    BY <1>1, <2>1, <2>2
<1>6. CASE WriteState(p) \/ KillPrewarm(p)
  BY <1>1, <1>2, <1>6 DEF WriteState, KillPrewarm
<1> QED
  BY <1>3, <1>4, <1>5, <1>6 DEF PrewarmSteps

LEMMA TypedStep == Parameters /\ Typed /\ [Next]_vars => Typed'
<1> SUFFICES ASSUME Parameters, Typed, [Next]_vars PROVE Typed'
  OBVIOUS
<1>1. CASE UNCHANGED vars
  BY <1>1 DEF vars, tags, locks, cache, Typed, At
<1>2. ASSUME NEW w \in Workers, WorkerSteps(w) PROVE Typed'
  <2>1. /\ worker' \in [Workers -> Works]
        /\ \A v \in Workers : worker'[v].pc = "insert" =>
              worker'[v].starts \subseteq worker'[v].window /\ worker'[v].window \subseteq Displayable(len)
        /\ len' = len /\ shown' = shown /\ prewarm' = prewarm /\ torn' = torn
    BY <1>2, WorkerMoves
  <2>2. segs' \subseteq Segment(len) /\ IsFiniteSet(segs') /\ shown' \subseteq segs'
    <3>1. CASE InsertSegments(w)
      BY <2>1, <3>1, InsertTyped DEF Typed
    <3>2. CASE ~InsertSegments(w)
      <4>1. segs' = segs
        BY <1>2, <3>2 DEF WorkerSteps, Mkdir, StatLock, Reclaim, Mark, SpawnCloseout, Validate,
             Release, Rmdir, Prep, Tagger, Write, KillWorker, tags
      <4> QED
        BY <2>1, <4>1 DEF Typed
    <3> QED
      BY <3>1, <3>2
  <2>3. lock' \in Locks /\ robbed' \in BOOLEAN
    <3>1. lock \in Locks /\ NoLock \in Locks /\ robbed \in BOOLEAN
      BY DEF Typed, NoLock, Locks
    <3>2. CASE UNCHANGED locks
      BY <3>1, <3>2 DEF locks
    <3>3. CASE Mkdir(w) \/ Mark(w) \/ Release(w) \/ Rmdir(w)
      <4>1. \/ lock' = lock \/ lock' = NoLock
            \/ lock' = [lock EXCEPT !.held = TRUE]
            \/ lock' = [lock EXCEPT !.tokens = @ \cup {w}, !.stale = FALSE]
            \/ lock' = [lock EXCEPT !.tokens = @ \ {w}, !.stale = FALSE]
        BY <3>3 DEF Mkdir, Mark, Release, Rmdir
      <4>2. lock' \in Locks
        <5>1. [lock EXCEPT !.held = TRUE] \in Locks
          BY <3>1 DEF Locks
        <5>2. [lock EXCEPT !.tokens = @ \cup {w}, !.stale = FALSE] \in Locks
          BY <3>1 DEF Locks
        <5>3. [lock EXCEPT !.tokens = @ \ {w}, !.stale = FALSE] \in Locks
          BY <3>1 DEF Locks
        <5> QED
          BY <3>1, <4>1, <5>1, <5>2, <5>3
      <4>3. robbed' = robbed
        BY <3>3 DEF Mkdir, Mark, Release, Rmdir
      <4> QED
        BY <3>1, <4>2, <4>3
    <3>4. CASE Reclaim(w)
      <4>1. UNCHANGED locks \/ (lock' = NoLock /\ robbed' = (robbed \/ ~lock.stale))
        BY <3>4 DEF Reclaim
      <4> QED
        BY <3>1, <4>1 DEF locks, Locks
    <3> QED
      BY <1>2, <3>2, <3>3, <3>4 DEF WorkerSteps, StatLock, SpawnCloseout, Validate, Prep, Tagger,
           Write, InsertSegments, KillWorker
  <2>4. dump' \in [window: SUBSET Nat, n: Nat] /\ state' \in [n: Nat, topics: Nat]
    <3>1. NoDump \in [window: SUBSET Nat, n: Nat] /\ NoState \in [n: Nat, topics: Nat]
      BY DEF NoDump, NoState
    <3>2. (dump' = dump \/ dump' = NoDump) /\ (state' = state \/ state' = NoState)
      BY <1>2 DEF WorkerSteps, Mkdir, StatLock, Reclaim, Mark, SpawnCloseout, Validate, Release,
             Rmdir, Prep, Tagger, Write, InsertSegments, KillWorker, cache
    <3> QED
      BY <3>1, <3>2 DEF Typed
  <2>5. kills' \in 0 .. MaxKills
    <3>1. kills' = kills \/ (kills < MaxKills /\ kills' = kills + 1)
      BY <1>2 DEF WorkerSteps, Mkdir, StatLock, Reclaim, Mark, SpawnCloseout, Validate, Release,
             Rmdir, Prep, Tagger, Write, InsertSegments, KillWorker
    <3> QED
      BY <3>1 DEF Typed, Parameters
  <2>6. short' \in BOOLEAN
    <3>1. short' = short \/ short' = (short \/ Window(len, segs) # {})
      BY <1>2 DEF WorkerSteps, Mkdir, StatLock, Reclaim, Mark, SpawnCloseout, Validate, Release,
             Rmdir, Prep, Tagger, Write, InsertSegments, KillWorker
    <3> QED
      BY <3>1 DEF Typed
  <2> QED
    BY <2>1, <2>2, <2>3, <2>4, <2>5, <2>6 DEF Typed, At
<1>3. ASSUME NEW p \in Prewarmers, PrewarmSteps(p) PROVE Typed'
  <2>1. /\ UNCHANGED <<len, segs, shown, lock, robbed, worker, short>>
        /\ kills' = kills \/ (kills < MaxKills /\ kills' = kills + 1)
    BY <1>3 DEF PrewarmSteps, Compute, StatTranscript, WriteDump, WriteState, KillPrewarm, tags, locks
  <2>2. prewarm' \in [Prewarmers -> Warms]
    BY <1>3, PrewarmMoves
  <2>3. prewarm[p] \in Warms
    BY DEF Typed
  <2>4. /\ dump' = dump \/ dump' = [window |-> prewarm[p].window, n |-> prewarm[p].n]
        /\ state' = state \/ state' = [n |-> prewarm[p].stat, topics |-> prewarm[p].topics]
        /\ torn' = torn \/ torn' = (torn \/ Vouching(dump', state)) \/ torn' = (torn \/ Vouching(dump, state'))
    BY <1>3 DEF PrewarmSteps, Compute, StatTranscript, WriteDump, WriteState, KillPrewarm
  <2>5. dump' \in [window: SUBSET Nat, n: Nat] /\ state' \in [n: Nat, topics: Nat] /\ torn' \in BOOLEAN
    <3>1. dump' \in [window: SUBSET Nat, n: Nat]
      BY <2>3, <2>4 DEF Typed, Warms
    <3>2. state' \in [n: Nat, topics: Nat]
      BY <2>3, <2>4 DEF Typed, Warms
    <3>3. torn' \in BOOLEAN
      <4> DEFINE x == Vouching(dump', state)
                 y == Vouching(dump, state')
      <4>1. x \in BOOLEAN /\ y \in BOOLEAN /\ torn \in BOOLEAN
        BY DEF Vouching, Typed
      <4>2. torn' = torn \/ torn' = (torn \/ x) \/ torn' = (torn \/ y)
        BY <2>4
      <4> HIDE DEF x, y
      <4> QED
        BY <4>1, <4>2
    <3> QED
      BY <3>1, <3>2, <3>3
  <2>6. kills' \in 0 .. MaxKills
    BY <2>1 DEF Typed, Parameters
  <2> QED
    BY <2>1, <2>2, <2>5, <2>6 DEF Typed, At
<1>4. CASE Age
  <2>1. lock' \in Locks
    BY <1>4 DEF Age, Typed, Locks
  <2> QED
    BY <1>4, <2>1 DEF Age, tags, cache, Typed, At
<1>5. CASE Publish
  BY <1>5 DEF Publish, locks, cache, Typed, At
<1>6. CASE Append
  <2>1. len \in Nat /\ len' = len + 1 /\ len' \in 1 .. MaxMessages
    BY <1>6 DEF Append, Typed, Parameters
  <2>2. Displayable(len) \subseteq Displayable(len')
    BY <2>1, DisplayableGrows
  <2>3. Segment(len) \subseteq Segment(len')
    BY <2>2 DEF Segment
  <2>4. /\ segs' \subseteq Segment(len')
        /\ \A w \in Workers : At(w, "insert") =>
              worker[w].starts \subseteq worker[w].window /\ worker[w].window \subseteq Displayable(len')
    BY <1>6, <2>2, <2>3 DEF Append, tags, Typed
  <2> QED
    BY <1>6, <2>1, <2>4 DEF Append, tags, locks, cache, Typed, At
<1> QED
  BY <1>1, <1>2, <1>3, <1>4, <1>5, <1>6 DEF Next, WorkerSteps, PrewarmSteps

----------------------------------------------------------------------------
(* The token: while a process has the claim, the lock is there, it is not   *)
(* stale, and no other process has the claim.                               *)

Claims ==
  /\ ~lock.held => lock = NoLock
  /\ robbed \/ \A w \in Workers : worker[w].pc \in Claiming =>
       lock.held /\ ~lock.stale /\ \A v \in Workers : worker[v].pc \in Claiming => v = w

(* The program counter after a step of a worker.                            *)
LEMMA PcAfter ==
  ASSUME Typed, NEW w \in Workers
  PROVE  /\ \A pc : Go(w, pc) => worker'[w].pc = pc
         /\ End(w) => worker'[w].pc = "over"
         /\ Leave(w) => worker'[w].pc = "release"
         /\ \A pc, try : worker' = [worker EXCEPT ![w].pc = pc, ![w].try = try] => worker'[w].pc = pc
<1>1. worker \in [Workers -> Works] /\ worker[w] \in Works
  BY DEF Typed
<1>2. Over.pc = "over" /\ [Over EXCEPT !.pc = "release"].pc = "release"
  BY DEF Over
<1>3. \A pc : Go(w, pc) => worker'[w].pc = pc
  BY <1>1 DEF Go, Works
<1>4. (End(w) => worker'[w].pc = "over") /\ (Leave(w) => worker'[w].pc = "release")
  BY <1>1, <1>2 DEF End, Leave
<1>5. \A pc, try : worker' = [worker EXCEPT ![w].pc = pc, ![w].try = try] => worker'[w].pc = pc
  BY <1>1 DEF Works
<1> QED
  BY <1>3, <1>4, <1>5

LEMMA ClaimsInit == Parameters /\ Init => Claims
<1> SUFFICES ASSUME Init PROVE Claims
  OBVIOUS
<1>1. \A w \in Workers : worker[w].pc = "idle"
  BY DEF Init, Over
<1>2. ~lock.held => lock = NoLock
  BY DEF Init, NoLock
<1> QED
  BY <1>1, <1>2 DEF Claims, Claiming

LEMMA ClaimsStep == Typed /\ Claims /\ [Next]_vars => Claims'
<1> SUFFICES ASSUME Typed, Claims, [Next]_vars PROVE Claims'
  OBVIOUS
<1>1. CASE UNCHANGED vars
  BY <1>1 DEF vars, locks, Claims
<1>2. ASSUME NEW w \in Workers, WorkerSteps(w) PROVE Claims'
  <2>1. \A v \in Workers \ {w} : worker'[v] = worker[v]
    BY <1>2, WorkerMoves
  <2>2. worker \in [Workers -> Works] /\ lock \in Locks /\ robbed \in BOOLEAN
    BY DEF Typed
  <2>3. ~lock'.held => lock' = NoLock
    <3>1. CASE Mkdir(w) \/ Mark(w)
      <4>1. lock' = lock \/ lock' = [lock EXCEPT !.held = TRUE]
            \/ (lock.held /\ lock' = [lock EXCEPT !.tokens = @ \cup {w}, !.stale = FALSE])
        BY <3>1 DEF Mkdir, Mark
      <4> QED
        BY <2>2, <4>1 DEF Claims, Locks
    <3>2. CASE Release(w)
      <4>1. lock' = lock \/ (w \in lock.tokens /\ lock' = [lock EXCEPT !.tokens = @ \ {w}, !.stale = FALSE])
        BY <3>2 DEF Release
      <4>2. w \in lock.tokens => lock.held
        BY DEF Claims, NoLock
      <4> QED
        BY <2>2, <4>1, <4>2 DEF Claims, Locks
    <3>3. CASE ~(Mkdir(w) \/ Mark(w) \/ Release(w))
      <4>1. lock' = lock \/ lock' = NoLock
        BY <1>2, <3>3 DEF WorkerSteps, StatLock, Reclaim, SpawnCloseout, Validate, Rmdir, Prep,
             Tagger, Write, InsertSegments, KillWorker, locks
      <4> QED
        BY <4>1 DEF Claims
    <3> QED
      BY <3>1, <3>2, <3>3
  <2> DEFINE Held(v) == lock.held /\ ~lock.stale /\ \A u \in Workers : worker[u].pc \in Claiming => u = v
  <2>4. CASE robbed
    <3>1. robbed'
      BY <1>2, <2>4 DEF WorkerSteps, Mkdir, StatLock, Reclaim, Mark, SpawnCloseout, Validate, Release,
             Rmdir, Prep, Tagger, Write, InsertSegments, KillWorker, locks
    <3> QED
      BY <2>3, <3>1 DEF Claims
  <2>5. CASE ~robbed
    <3>1. \A v \in Workers : worker[v].pc \in Claiming => Held(v)
      BY <2>5 DEF Claims
    <3>2. CASE Mkdir(w)
      <4>1. CASE lock.held
        <5>1. lock' = lock /\ worker'[w].pc = "exists"
          BY <3>2, <4>1, PcAfter DEF Mkdir, Free
        <5> QED
          BY <2>1, <2>3, <3>1, <5>1 DEF Claims, Claiming
      <4>2. CASE ~lock.held
        <5>1. \A v \in Workers : worker[v].pc \notin Claiming
          BY <3>1, <4>2
        <5>2. lock'.held /\ ~lock'.stale
          BY <3>2, <4>2 DEF Mkdir, Free, Claims, NoLock
        <5> QED
          BY <2>1, <2>3, <5>1, <5>2 DEF Claims
      <4> QED
        BY <4>1, <4>2
    <3>3. CASE Reclaim(w)
      <4>1. CASE lock.held /\ ~lock.stale
        <5>1. robbed'
          BY <3>3, <4>1 DEF Reclaim
        <5> QED
          BY <2>3, <5>1 DEF Claims
      <4>2. CASE ~lock.held \/ lock.stale
        <5>1. \A v \in Workers : worker[v].pc \notin Claiming
          BY <3>1, <4>2
        <5>2. worker'[w].pc \in {"idle", "over"}
          BY <2>2, <3>3, PcAfter DEF Reclaim
        <5>3. \A v \in Workers : worker'[v].pc \notin Claiming
          BY <2>1, <5>1, <5>2 DEF Claiming
        <5> QED
          BY <2>3, <5>3 DEF Claims
      <4> QED
        BY <4>1, <4>2
    <3>4. CASE Rmdir(w)
      <4>1. worker[w].pc \in Claiming /\ worker'[w].pc = "over"
        BY <2>2, <3>4 DEF Rmdir, At, End, Over, Claiming
      <4>2. \A v \in Workers : worker'[v].pc \notin Claiming
        BY <2>1, <3>1, <4>1 DEF Claiming
      <4> QED
        BY <2>3, <4>2 DEF Claims
    <3>5. CASE StatLock(w)
      <4>1. worker'[w].pc \notin Claiming /\ lock' = lock
        BY <3>5, PcAfter DEF StatLock, locks, Claiming
      <4> QED
        BY <2>1, <2>3, <3>1, <4>1 DEF Claims
    <3>6. CASE \/ Mark(w) \/ SpawnCloseout(w) \/ Validate(w) \/ Release(w)
               \/ Prep(w) \/ Tagger(w) \/ Write(w) \/ InsertSegments(w) \/ KillWorker(w)
      <4>1. worker[w].pc \in Claiming
        BY <3>6 DEF Mark, SpawnCloseout, Validate, Release, Prep, Tagger, Write, InsertSegments,
             KillWorker, At, Claiming
      <4>2. lock.held /\ ~lock.stale /\ \A v \in Workers : worker[v].pc \in Claiming => v = w
        BY <3>1, <4>1
      <4>3. lock'.held /\ ~lock'.stale
        BY <2>2, <3>6, <4>2 DEF Mark, SpawnCloseout, Validate, Release, Prep, Tagger, Write,
             InsertSegments, KillWorker, locks, Locks
      <4>4. \A v \in Workers : worker'[v].pc \in Claiming => v = w
        BY <2>1, <4>2
      <4> QED
        BY <2>3, <4>3, <4>4 DEF Claims
    <3> QED
      BY <1>2, <3>2, <3>3, <3>4, <3>5, <3>6 DEF WorkerSteps
  <2> QED
    BY <2>2, <2>4, <2>5
<1>3. ASSUME NEW p \in Prewarmers, PrewarmSteps(p) PROVE Claims'
  <2>1. UNCHANGED <<lock, robbed, worker>>
    BY <1>3 DEF PrewarmSteps, Compute, StatTranscript, WriteDump, WriteState, KillPrewarm, locks
  <2> QED
    BY <2>1 DEF Claims
<1>4. CASE Age
  <2>1. lock'.held /\ robbed' = robbed /\ worker' = worker
    BY <1>4 DEF Age, Typed, Locks
  <2>2. \A w \in Workers : worker'[w].pc \notin Claiming
    BY <1>4, <2>1 DEF Age
  <2> QED
    BY <2>1, <2>2 DEF Claims
<1>5. CASE Publish \/ Append
  BY <1>5 DEF Publish, Append, locks, Claims
<1> QED
  BY <1>1, <1>2, <1>3, <1>4, <1>5 DEF Next, WorkerSteps, PrewarmSteps

----------------------------------------------------------------------------
(* The segments: apart from each other, and what is about to be inserted is *)
(* of a window that was computed from the very segments that are there.     *)

Overlap(g, h) == (g.from .. g.to) \cap (h.from .. h.to) # {}

Apart(ss) == \A g, h \in ss : g # h => ~Overlap(g, h)

OfThese(W, ss, m) == \E n \in 1 .. m : W = Window(n, ss) /\ \A g \in ss : g.to <= n

Disjoint == robbed \/ (Apart(segs) /\ \A w \in Workers : At(w, "insert") => OfThese(worker[w].window, segs, len))

(* Segments of a window overlap neither each other nor those the window was *)
(* computed from.                                                           *)
LEMMA NewApart ==
  ASSUME NEW n \in Nat, NEW ss \in SUBSET Segment(n), NEW S \in SUBSET Window(n, ss), Apart(ss)
  PROVE  Apart(ss \cup Segments(S, Window(n, ss)))
<1> DEFINE W == Window(n, ss)
           new == Segments(S, W)
           old == Displayable(n) \cap Covered(ss)
<1>1. W \subseteq Displayable(n) \ Covered(ss) /\ Displayable(n) \subseteq 1 .. n
  BY WindowFacts, DisplayableGrows
<1>2. \A i, k \in W : \A j \in old : ~(i <= j /\ j <= k)
  BY WindowFacts
<1>3. W \in SUBSET (1 .. n) /\ S \in SUBSET W
  BY <1>1
<1>4. ASSUME NEW g \in ss
      PROVE  /\ g.from \in old /\ g.to \in old /\ g.from \in Nat /\ g.to \in Nat /\ g.from <= g.to
             /\ \A j \in g.from .. g.to : j \in Covered(ss)
  <2>1. g.from \in Displayable(n) /\ g.to \in Displayable(n) /\ g.from \in Nat /\ g.to \in Nat /\ g.from <= g.to
    BY DEF Segment
  <2>2. g.from \in g.from .. g.to /\ g.to \in g.from .. g.to
    BY <2>1
  <2> QED
    BY <2>1, <2>2, CoveredMember
<1> HIDE DEF W, old
<1>5. ASSUME NEW h \in new
      PROVE  /\ h.from \in Nat /\ h.to \in Nat /\ h.from \in W /\ h.to \in W
             /\ \A k \in new : h # k => h.from # k.from
             /\ \A k \in new : k.from > h.from => h.to < k.from
  <2>1. /\ h \in [from: Nat, to: Nat] /\ h.from \in S /\ h.to \in W
        /\ \A j \in S : j > h.from => h.to < j
        /\ \A k \in new : k.from = h.from => k = h
    BY <1>3, SegmentFacts
  <2>2. \A k \in new : k.from \in S
    BY <1>3, SegmentFacts
  <2> HIDE DEF new
  <2> QED
    BY <1>3, <2>1, <2>2
<1> HIDE DEF new
<1>6. ASSUME NEW g \in ss, NEW h \in new PROVE ~Overlap(g, h)
  <2>1. SUFFICES ASSUME NEW x \in (g.from .. g.to) \cap (h.from .. h.to) PROVE FALSE
    BY DEF Overlap
  <2>2. /\ g.from \in Int /\ g.to \in Int /\ h.from \in Int /\ h.to \in Int /\ x \in Int
        /\ g.from <= x /\ x <= g.to /\ h.from <= x /\ x <= h.to
    BY <1>4, <1>5, <2>1
  <2>3. CASE h.from <= g.from
    <3>1. g.from <= h.to
      BY <2>2
    <3> QED
      BY <1>2, <1>4, <1>5, <2>3, <3>1
  <2>4. CASE g.from <= h.from
    <3>1. h.from <= g.to
      BY <2>2
    <3>2. h.from \in g.from .. g.to
      BY <2>2, <2>4, <3>1
    <3> QED
      BY <1>1, <1>4, <1>5, <3>2 DEF W
  <2> QED
    BY <2>2, <2>3, <2>4
<1>7. ASSUME NEW h \in new, NEW k \in new, h # k PROVE ~Overlap(h, k)
  <2>1. h.from \in Nat /\ h.to \in Nat /\ k.from \in Nat /\ k.to \in Nat /\ h.from # k.from
    BY <1>5, <1>7
  <2>2. h.to < k.from \/ k.to < h.from
    BY <1>5, <2>1
  <2> QED
    BY <2>1, <2>2 DEF Overlap
<1>8. \A g, h \in ss : g # h => ~Overlap(g, h)
  BY DEF Apart
<1>9. \A g, h : Overlap(g, h) <=> Overlap(h, g)
  BY DEF Overlap
<1>10. \A g, h \in ss \cup new : g # h => ~Overlap(g, h)
  BY <1>6, <1>7, <1>8, <1>9
<1> QED
  BY <1>10 DEF Apart, new, W

LEMMA DisjointInit == Parameters /\ Init => Disjoint
<1> SUFFICES ASSUME Init PROVE Disjoint
  OBVIOUS
<1>1. \A w \in Workers : worker[w].pc = "idle"
  BY DEF Init, Over
<1> QED
  BY <1>1 DEF Init, Disjoint, Apart, At

LEMMA DisjointStep == Typed /\ Claims /\ Disjoint /\ [Next]_vars => Disjoint'
<1> SUFFICES ASSUME Typed, Claims, Disjoint, [Next]_vars PROVE Disjoint'
  OBVIOUS
<1>1. CASE UNCHANGED vars
  BY <1>1 DEF vars, tags, locks, Disjoint, At
<1>2. ASSUME NEW w \in Workers, WorkerSteps(w) PROVE Disjoint'
  <2>1. (\A v \in Workers \ {w} : worker'[v] = worker[v]) /\ len' = len
    BY <1>2, WorkerMoves
  <2>2. CASE robbed
    <3>1. robbed'
      BY <1>2, <2>2 DEF WorkerSteps, Mkdir, StatLock, Reclaim, Mark, SpawnCloseout, Validate, Release,
             Rmdir, Prep, Tagger, Write, InsertSegments, KillWorker, locks
    <3> QED
      BY <3>1 DEF Disjoint
  <2>3. CASE ~robbed /\ InsertSegments(w)
    <3> DEFINE W == worker[w].window
               S == worker[w].starts
    <3>1. At(w, "insert") /\ Apart(segs) /\ OfThese(W, segs, len) /\ S \in SUBSET W
      BY <2>3 DEF InsertSegments, Disjoint, Typed
    <3>2. PICK n \in 1 .. len : W = Window(n, segs) /\ \A g \in segs : g.to <= n
      BY <3>1 DEF OfThese
    <3>3. n \in Nat /\ len \in Nat
      BY DEF Typed
    <3>4. segs \in SUBSET Segment(n)
      <4>1. ASSUME NEW g \in segs PROVE g \in Segment(n)
        <5>1. g \in [from: Nat, to: Nat] /\ g.from <= g.to /\ g.from \in Displayable(len)
              /\ g.to \in Displayable(len) /\ g.to <= n
          BY <3>2 DEF Typed, Segment
        <5>2. g.from \in Nat /\ g.to \in Nat /\ g.from <= n
          BY <3>3, <5>1
        <5>3. g.from \in Displayable(n) /\ g.to \in Displayable(n)
          BY <3>3, <5>1, <5>2 DEF Displayable
        <5> QED
          BY <5>1, <5>3 DEF Segment
      <4> QED
        BY <4>1
    <3>5. Apart(segs \cup Segments(S, W))
      <4> HIDE DEF S, W
      <4>1. S \in SUBSET Window(n, segs)
        BY <3>1, <3>2
      <4>2. Apart(segs \cup Segments(S, Window(n, segs)))
        BY <3>1, <3>3, <3>4, <4>1, NewApart
      <4> QED
        BY <3>2, <4>2
    <3>6. segs' = segs \/ segs' = segs \cup Segments(S, W)
      BY <2>3 DEF InsertSegments
    <3>7. Apart(segs)'
      <4>1. Apart(segs')
        BY <3>1, <3>5, <3>6
      <4> QED
        BY <4>1 DEF Apart
    <3>8. \A v \in Workers : worker'[v].pc # "insert"
      <4>1. \A v \in Workers : worker[v].pc \in Claiming => v = w
        BY <2>3, <3>1 DEF Claims, At, Claiming
      <4>2. worker'[w].pc # "insert"
        <5>1. Leave(w) \/ \E pass : worker' = [worker EXCEPT ![w] = [Over EXCEPT !.pc = "prep", !.pass = pass]]
          BY <2>3 DEF InsertSegments
        <5>2. \A pass : [Over EXCEPT !.pc = "prep", !.pass = pass].pc = "prep"
          BY DEF Over
        <5>3. worker \in [Workers -> Works]
          BY DEF Typed
        <5> QED
          BY <5>1, <5>2, <5>3, PcAfter
      <4> QED
        BY <2>1, <4>1, <4>2 DEF Claiming
    <3> QED
      BY <3>7, <3>8 DEF Disjoint, At
  <2>4. CASE ~robbed /\ ~InsertSegments(w)
    <3>1. segs' = segs
      BY <1>2, <2>4 DEF WorkerSteps, Mkdir, StatLock, Reclaim, Mark, SpawnCloseout, Validate,
             Release, Rmdir, Prep, Tagger, Write, KillWorker, tags
    <3>3. CASE Write(w)
      <4>1. worker \in [Workers -> Works] /\ worker[w] \in Works /\ len \in 1 .. MaxMessages /\ len \in 1 .. len
        BY DEF Typed
      <4>2. Leave(w) \/ worker' = [worker EXCEPT ![w].pc = "insert", ![w].window = Window(len, segs)]
        BY <3>3 DEF Write
      <4>3. worker'[w].pc = "insert" => worker'[w].window = Window(len, segs)
        <5>1. CASE Leave(w)
          BY <5>1, PcAfter
        <5>2. CASE worker' = [worker EXCEPT ![w].pc = "insert", ![w].window = Window(len, segs)]
          BY <4>1, <5>2 DEF Works
        <5> QED
          BY <4>2, <5>1, <5>2
      <4>4. OfThese(Window(len, segs), segs, len)
        <5>1. \A g \in segs : g.to <= len
          <6>1. \A g \in segs : g.to \in Displayable(len)
            BY DEF Typed, Segment
          <6> QED
            BY <6>1 DEF Displayable
        <5> QED
          BY <4>1, <5>1 DEF OfThese
      <4>5. \A v \in Workers : worker'[v].pc = "insert" => OfThese(worker'[v].window, segs, len)
        BY <2>1, <2>4, <4>3, <4>4 DEF Disjoint, At
      <4>6. \A v \in Workers : worker'[v].pc = "insert" => OfThese(worker'[v].window, segs', len')
        BY <2>1, <3>1, <4>5
      <4>7. Apart(segs)'
        BY <2>4, <3>1 DEF Disjoint, Apart
      <4> QED
        BY <4>6, <4>7 DEF Disjoint, At
    <3>4. CASE ~Write(w)
      <4>1. worker'[w].pc # "insert"
        <5>1. worker \in [Workers -> Works] /\ worker[w] \in Works
          BY DEF Typed
        <5>2. CASE Prep(w)
          <6>1. Leave(w) \/ \E r : worker' = [worker EXCEPT ![w].pc = "tagger", ![w].window = r]
            BY <5>2 DEF Prep
          <6> QED
            BY <5>1, <6>1, PcAfter DEF Works
        <5>3. CASE Tagger(w)
          <6>1. Leave(w) \/ \E r : worker' = [worker EXCEPT ![w].pc = "write", ![w].starts = r]
            BY <5>3 DEF Tagger
          <6> QED
            BY <5>1, <6>1, PcAfter DEF Works
        <5>4. CASE Mkdir(w) \/ StatLock(w) \/ SpawnCloseout(w) \/ Validate(w) \/ Release(w) \/ Rmdir(w) \/ KillWorker(w)
          <6>1. End(w) \/ \E pc \in Steps \ {"insert"} : Go(w, pc)
            BY <5>4 DEF Mkdir, StatLock, SpawnCloseout, Validate, Release, Rmdir, KillWorker, Steps
          <6> QED
            BY <6>1, PcAfter
        <5>5. CASE Reclaim(w) \/ Mark(w)
          <6>1. End(w) \/ \E pc \in {"idle", "queued"} : \E try : worker' = [worker EXCEPT ![w].pc = pc, ![w].try = try]
            BY <5>5 DEF Reclaim, Mark
          <6> QED
            BY <6>1, PcAfter
        <5> QED
          BY <1>2, <2>4, <3>4, <5>2, <5>3, <5>4, <5>5 DEF WorkerSteps
      <4>2. \A v \in Workers : worker'[v].pc = "insert" => OfThese(worker'[v].window, segs, len)
        BY <2>1, <2>4, <4>1 DEF Disjoint, At
      <4>3. \A v \in Workers : worker'[v].pc = "insert" => OfThese(worker'[v].window, segs', len')
        BY <2>1, <3>1, <4>2
      <4>4. Apart(segs)'
        BY <2>4, <3>1 DEF Disjoint, Apart
      <4> QED
        BY <4>3, <4>4 DEF Disjoint, At
    <3> QED
      BY <3>3, <3>4
  <2> QED
    BY <2>2, <2>3, <2>4
<1>3. ASSUME NEW p \in Prewarmers, PrewarmSteps(p) PROVE Disjoint'
  <2>1. UNCHANGED <<len, segs, robbed, worker>>
    BY <1>3 DEF PrewarmSteps, Compute, StatTranscript, WriteDump, WriteState, KillPrewarm, locks, tags
  <2> QED
    BY <2>1 DEF Disjoint, At
<1>4. CASE Age \/ Publish
  <2>1. UNCHANGED <<len, segs, robbed, worker>>
    BY <1>4 DEF Age, Publish, locks, tags
  <2> QED
    BY <2>1 DEF Disjoint, At
<1>5. CASE Append
  <2>1. UNCHANGED <<segs, robbed, worker>> /\ len \in Nat /\ len' = len + 1
    BY <1>5 DEF Append, locks, tags, Typed
  <2>2. 1 .. len \subseteq 1 .. len'
    BY <2>1
  <2>3. \A w \in Workers : OfThese(worker[w].window, segs, len) => OfThese(worker[w].window, segs', len')
    BY <2>1, <2>2 DEF OfThese
  <2> QED
    BY <2>1, <2>3 DEF Disjoint, At
<1> QED
  BY <1>1, <1>2, <1>3, <1>4, <1>5 DEF Next, WorkerSteps, PrewarmSteps

----------------------------------------------------------------------------
(* The dumps: one that shows nothing was computed when nothing was untagged, *)
(* and unless the cache was torn its fingerprint is that of its transcript. *)

Settled(W, n, ss) == W = {} => Displayable(n) \subseteq Covered(ss)

Dumps ==
  /\ Settled(dump.window, dump.n, segs)
  /\ \A p \in Prewarmers : Settled(prewarm[p].window, prewarm[p].n, segs)
  /\ torn \/ ~Vouching(dump, state)
  /\ short => torn

LEMMA SettledGrows ==
  ASSUME NEW W, NEW n, NEW ss, NEW tt, ss \subseteq tt, Settled(W, n, ss)
  PROVE  Settled(W, n, tt)
BY DEF Settled, Covered

LEMMA NothingSettled == \A ss : Settled({}, 0, ss)
BY DEF Settled, Displayable

LEMMA WindowSettles ==
  ASSUME NEW n \in Nat, NEW ss
  PROVE  Settled(Window(n, ss), n, ss)
BY WindowFacts DEF Settled

LEMMA AuthoritativeIsThere == Typed => Authoritative = segs
BY DEF Typed, Authoritative

LEMMA DumpsInit == Parameters /\ Init => Dumps
<1> SUFFICES ASSUME Init PROVE Dumps
  OBVIOUS
<1>1. dump.window = {} /\ dump.n = 0 /\ \A p \in Prewarmers : prewarm[p].window = {} /\ prewarm[p].n = 0
  BY DEF Init, NoDump, Warmed
<1> QED
  BY <1>1, NothingSettled DEF Init, Dumps, Vouching

LEMMA DumpsStep == Parameters /\ Typed /\ Dumps /\ [Next]_vars => Dumps'
<1> SUFFICES ASSUME Parameters, Typed, Dumps, [Next]_vars PROVE Dumps'
  OBVIOUS
<1>0. len \in Nat
  BY DEF Typed
<1>1. CASE UNCHANGED vars
  BY <1>1 DEF vars, tags, cache, Dumps, Vouching
<1>2. ASSUME NEW w \in Workers, WorkerSteps(w) PROVE Dumps'
  <2>1. UNCHANGED <<len, prewarm, torn>>
    BY <1>2, WorkerMoves
  <2>2. CASE InsertSegments(w)
    <3>1. segs \subseteq segs' /\ short' = short
      BY <2>2, InsertTyped DEF InsertSegments
    <3>2. (dump' = dump /\ state' = state) \/ (dump' = NoDump /\ state' = NoState)
      BY <2>2 DEF InsertSegments
    <3>3. Settled(dump.window, dump.n, segs') /\ \A p \in Prewarmers : Settled(prewarm[p].window, prewarm[p].n, segs')
      BY <3>1, SettledGrows DEF Dumps
    <3>4. Settled(dump'.window, dump'.n, segs')
      BY <3>2, <3>3, NothingSettled DEF NoDump
    <3>5. torn' \/ ~Vouching(dump', state')
      BY <2>1, <3>2 DEF Dumps, Vouching
    <3> QED
      BY <2>1, <3>1, <3>3, <3>4, <3>5 DEF Dumps
  <2>3. CASE Prep(w)
    <3>1. UNCHANGED <<segs, dump, state>>
      BY <2>3 DEF Prep, tags, cache
    <3>2. short' => torn
      <4>1. CASE short' = short
        BY <4>1 DEF Dumps
      <4>2. CASE Window(len, segs) # {} /\ ~torn /\ short' # short
        <5> DEFINE fresh == Fresh(Cardinality(shown))
                   served == IF fresh THEN dump.window ELSE Window(len, Authoritative)
        <5>1. served = {}
          BY <2>3, <4>2 DEF Prep
        <5>2. fresh
          BY <4>2, <5>1, AuthoritativeIsThere
        <5>3. dump.window = {} /\ dump # NoDump /\ state # NoState /\ state.n = len
          BY <5>1, <5>2 DEF Fresh
        <5>4. dump.n = len
          BY <4>2, <5>3 DEF Dumps, Vouching
        <5>5. Displayable(len) \subseteq Covered(segs)
          BY <5>3, <5>4 DEF Dumps, Settled
        <5>6. Window(len, segs) = {}
          BY <1>0, <5>5, WindowFacts
        <5> QED
          BY <4>2, <5>6
      <4>3. short' = short \/ short' = (short \/ Window(len, segs) # {})
        BY <2>3 DEF Prep
      <4> QED
        BY <4>1, <4>2, <4>3 DEF Typed
    <3> QED
      BY <2>1, <3>1, <3>2 DEF Dumps, Vouching
  <2>4. CASE ~(InsertSegments(w) \/ Prep(w))
    <3>1. UNCHANGED <<segs, dump, state, short>>
      BY <1>2, <2>4 DEF WorkerSteps, Mkdir, StatLock, Reclaim, Mark, SpawnCloseout, Validate, Release,
             Rmdir, Tagger, Write, KillWorker, tags, cache
    <3> QED
      BY <2>1, <3>1 DEF Dumps, Vouching
  <2> QED
    BY <2>2, <2>3, <2>4
<1>3. ASSUME NEW p \in Prewarmers, PrewarmSteps(p) PROVE Dumps'
  <2>1. UNCHANGED <<segs, short>>
    BY <1>3 DEF PrewarmSteps, Compute, StatTranscript, WriteDump, WriteState, KillPrewarm, tags
  <2>2. prewarm \in [Prewarmers -> Warms] /\ torn \in BOOLEAN
    BY DEF Typed
  <2>3. /\ \A q \in Prewarmers \ {p} : prewarm'[q] = prewarm[q]
        /\ Settled(prewarm'[p].window, prewarm'[p].n, segs)
    <3>1. Warmed.window = {} /\ Warmed.n = 0
      BY DEF Warmed
    <3>2. Settled(prewarm[p].window, prewarm[p].n, segs)
      BY DEF Dumps
    <3>3. CASE Compute(p)
      <4> DEFINE topics == Cardinality(Authoritative)
                 window == Window(len, Authoritative)
                 r == [pc |-> "stat", window |-> window, n |-> len, topics |-> topics, stat |-> 0]
      <4>1. Settled(window, len, segs)
        BY <1>0, AuthoritativeIsThere, WindowSettles
      <4>2. prewarm' = [prewarm EXCEPT ![p] = Warmed] \/ prewarm' = [prewarm EXCEPT ![p] = r]
        BY <3>3 DEF Compute
      <4> HIDE DEF window, topics
      <4>3. r.window = window /\ r.n = len
        OBVIOUS
      <4> HIDE DEF r
      <4> QED
        BY <2>2, <3>1, <4>1, <4>2, <4>3, NothingSettled
    <3>4. CASE StatTranscript(p)
      BY <2>2, <3>2, <3>4 DEF StatTranscript, Warms
    <3>5. CASE WriteDump(p)
      BY <2>2, <3>2, <3>5 DEF WriteDump, Warms
    <3>6. CASE WriteState(p) \/ KillPrewarm(p)
      <4>1. prewarm' = [prewarm EXCEPT ![p] = Warmed]
        BY <3>6 DEF WriteState, KillPrewarm
      <4> QED
        BY <2>2, <3>1, <4>1, NothingSettled
    <3> QED
      BY <1>3, <3>3, <3>4, <3>5, <3>6 DEF PrewarmSteps
  <2>4. \A q \in Prewarmers : Settled(prewarm'[q].window, prewarm'[q].n, segs)
    BY <2>3 DEF Dumps
  <2>5. Settled(dump'.window, dump'.n, segs)
    <3>1. dump' = dump \/ dump' = [window |-> prewarm[p].window, n |-> prewarm[p].n]
      BY <1>3 DEF PrewarmSteps, Compute, StatTranscript, WriteDump, WriteState, KillPrewarm
    <3> QED
      BY <3>1 DEF Dumps
  <2>6. torn' \/ ~Vouching(dump', state')
    <3>1. CASE WriteDump(p)
      BY <2>2, <3>1 DEF WriteDump, Vouching
    <3>2. CASE WriteState(p)
      BY <2>2, <3>2 DEF WriteState, Vouching
    <3>3. CASE Compute(p) \/ StatTranscript(p) \/ KillPrewarm(p)
      BY <3>3 DEF Compute, StatTranscript, KillPrewarm, cache, Dumps, Vouching
    <3> QED
      BY <1>3, <3>1, <3>2, <3>3 DEF PrewarmSteps
  <2>7. torn => torn'
    BY <1>3, <2>2 DEF PrewarmSteps, Compute, StatTranscript, WriteDump, WriteState, KillPrewarm
  <2> QED
    BY <2>1, <2>4, <2>5, <2>6, <2>7 DEF Dumps
<1>4. CASE Age \/ Publish \/ Append
  <2>1. UNCHANGED <<segs, dump, state, prewarm, torn, short>>
    BY <1>4 DEF Age, Publish, Append, tags, cache
  <2> QED
    BY <2>1 DEF Dumps, Vouching
<1> QED
  BY <1>1, <1>2, <1>3, <1>4 DEF Next, WorkerSteps, PrewarmSteps

----------------------------------------------------------------------------

Inv == Typed /\ Claims /\ Disjoint /\ Dumps

(* The inductive invariant of the tagging, for any parameters.              *)
THEOREM CloseoutInvariant ==
  ASSUME Parameters
  PROVE  Spec => []Inv
<1>1. Init => Inv
  BY TypedInit, ClaimsInit, DisjointInit, DumpsInit DEF Inv
<1>2. Inv /\ [Next]_vars => Inv'
  BY TypedStep, ClaimsStep, DisjointStep, DumpsStep DEF Inv
<1> QED
  BY <1>1, <1>2, PTL DEF Spec

(* Every segment is of messages of the transcript, the store shows none     *)
(* that the project database has not, and a token is in a lock directory.   *)
THEOREM TypesHold ==
  ASSUME Parameters
  PROVE  Spec => []TypeOK
<1>1. Inv => TypeOK
  <2> SUFFICES ASSUME Inv PROVE TypeOK
    OBVIOUS
  <2>1. Typed /\ Claims
    BY DEF Inv
  <2>2. \A g \in segs \cup shown : g.from <= g.to /\ g.to <= len
    <3>1. \A g \in segs \cup shown : g.from <= g.to /\ g.to \in Displayable(len)
      BY <2>1 DEF Typed, Segment
    <3> QED
      BY <2>1, <3>1 DEF Displayable, Typed
  <2>3. lock.tokens # {} => lock.held
    BY <2>1 DEF Claims, NoLock
  <2> QED
    BY <2>1, <2>2, <2>3 DEF Typed, TypeOK, Locks
<1> QED
  BY <1>1, CloseoutInvariant, PTL

(* However claims, reclaims and releases interleave, two processes tag at   *)
(* once only after a fresh lock was taken for the stale one it replaced.    *)
THEOREM OneTagsAtOnce ==
  ASSUME Parameters
  PROVE  Spec => []OneWorker
<1>1. Inv => OneWorker
  BY DEF Inv, Claims, OneWorker, Tagging, Claiming
<1> QED
  BY <1>1, CloseoutInvariant, PTL

(* No message is ever in two segments, whatever dumps the taggers saw.      *)
THEOREM NoMessageTwice ==
  ASSUME Parameters
  PROVE  Spec => []SegmentsDisjoint
<1>1. Inv => SegmentsDisjoint
  BY DEF Inv, Disjoint, Apart, Overlap, SegmentsDisjoint
<1> QED
  BY <1>1, CloseoutInvariant, PTL

(* A worker that ends well leaves nothing untagged, unless the cache's      *)
(* fingerprint was that of another transcript than its dump's.              *)
THEOREM NothingUntagged ==
  ASSUME Parameters
  PROVE  Spec => []DoneMeansTagged
<1>1. Inv => DoneMeansTagged
  BY DEF Inv, Dumps, DoneMeansTagged
<1> QED
  BY <1>1, CloseoutInvariant, PTL

=============================================================================
