------------------------ MODULE ArchiveSync_proofs ------------------------
(***************************************************************************)
(* The archive, for any machines, sessions, projects and bounds.  First    *)
(* facts about branches; then the invariants, one action at a time; then   *)
(* what a stamped push vouches for, what leaves the archive and an index,  *)
(* and that the machines share one log.                                    *)
(***************************************************************************)
EXTENDS ArchiveSync, SequenceTheorems, FiniteFacts, TLAPS

Commits == [by : Machines, dir : Trees, drops : {{}}]

Clones == [st : {"none", "fetching", "checkout", "done"}, ok : BOOLEAN, head : Seq(Commits),
           ref : Nat, work : Trees, staged : BOOLEAN,
           mid : {"no", "rebase", "detached", "ff"}]

Ops == [kind : {"none", "push", "pull", "init"},
        pc : {"idle", "open", "clone", "copy", "commit", "push", "landed", "rebase"},
        tombs : SUBSET Sessions, todo : SUBSET Sessions, goal : Trees, try : Nat]

Working == {"copy", "commit", "push", "landed", "rebase"}
CheckedOut == {"checkout", "done"}

(* The types of the state.                                                 *)
Typed ==
    /\ disk \in Trees /\ remote \in Seq(Commits)
    /\ tombs \subseteq Sessions /\ known \subseteq Sessions /\ torn \subseteq Machines
    /\ \A s \in Sessions : disk[s] > 0 => s \in known
    /\ clone \in [Machines -> Clones] /\ op \in [Machines -> Ops]
    /\ replica \in [Machines -> SUBSET Sessions]
    /\ shipped \in [Machines -> Trees] /\ buried \in [Machines -> SUBSET Sessions]
    /\ changes \in 0 .. MaxChanges /\ faults \in 0 .. MaxFaults

(* What a machine has agrees with the rest, and it works on a clone that   *)
(* is checked out only.                                                    *)
Whole(m) ==
    /\ clone[m].ref <= Len(remote)
    /\ clone[m].ok => clone[m].st = "done"
    /\ op[m].try < MaxPushAttempts
    /\ op[m].todo \subseteq Own(m) /\ replica[m] \subseteq Foreign(m)
    /\ op[m].tombs \subseteq tombs /\ buried[m] \subseteq tombs
    /\ op[m].pc \in Working => clone[m].st = "done"
    /\ op[m].pc \in {"copy", "commit", "push", "landed"} => op[m].kind = "push"
    /\ op[m].pc = "rebase" => op[m].kind \in {"push", "pull"}
    /\ op[m].pc # "idle" => op[m].kind # "none"
    /\ clone[m].st # "done" \/ op[m].pc = "clone" => clone[m].mid = "no"
    /\ op[m].pc \in Working => clone[m].mid \in {"no", "ff"}

(* What m has committed on a branch.                                       *)
Dirs(b, m) == {b[i].dir : i \in {j \in DOMAIN b : b[j].by = m}}

(* Branch b of m left c after k commits: what follows in b is m's, and what *)
(* follows in c is not.                                                    *)
Forked(b, c, m, k) ==
    /\ k \in Nat /\ k <= Len(b) /\ k <= Len(c)
    /\ \A i \in 1 .. k : b[i] = c[i]
    /\ \A i \in k + 1 .. Len(b) : b[i].by = m
    /\ \A i \in k + 1 .. Len(c) : c[i].by # m

Branched(m) ==
    IF clone[m].st \in CheckedOut THEN \E k \in Nat : Forked(clone[m].head, remote, m, k)
                                  ELSE clone[m].head = <<>>

(* A tree has the latest version, of those in some others, of what is not  *)
(* deleted.                                                                *)
Tops(dir, dirs, m) == \A d \in dirs : \A s \in Own(m) \ tombs : d[s] <= dir[s]

(* Trees that were copied from the disk: it has no version below theirs.   *)
Copies(dirs, m) ==
    \A d \in dirs : \A s \in Own(m) :
        d[s] = 0 \/ (s \in known /\ (disk[s] = 0 \/ d[s] <= disk[s]))

Grown(m) ==
    /\ Tops(Tip(remote, m), Dirs(remote, m), m)
    /\ Tops(Tip(clone[m].head, m), Dirs(clone[m].head, m), m)
    /\ clone[m].st = "done" => Tops(clone[m].work, Dirs(clone[m].head, m), m)
    /\ Copies(Dirs(remote, m), m) /\ Copies(Dirs(clone[m].head, m), m)
    /\ Copies({clone[m].work}, m)

(* What a push is about to vouch for.                                      *)
Pushing(m) == op[m].pc = "push" \/ (op[m].pc = "rebase" /\ op[m].kind = "push")
Goal(m, dir) == \A s \in Own(m) \ tombs : op[m].goal[s] <= dir[s]
Cleared(m, dir) == \A s \in Own(m) \cap op[m].tombs : dir[s] = 0

Vouching(m) ==
    /\ \A s \in Foreign(m) : op[m].goal[s] = 0
    /\ op[m].kind = "push" /\ op[m].pc \in Working => buried[m] \subseteq op[m].tombs
    /\ op[m].pc \in {"copy", "commit"} => Goal(m, clone[m].work)
    /\ op[m].pc = "commit" => Cleared(m, clone[m].work)
    /\ Pushing(m) => LET tip == Tip(clone[m].head, m) IN Goal(m, tip) /\ Cleared(m, tip)
    /\ op[m].pc = "landed" =>
          /\ Forked(clone[m].head, remote, m, Len(clone[m].head))
          /\ Goal(m, Tip(remote, m)) /\ Cleared(m, Tip(remote, m))

(* What a stamped push vouches for.                                        *)
Vouched(m) ==
    /\ \A s \in Foreign(m) : shipped[m][s] = 0
    /\ \A s \in Own(m) \ tombs : shipped[m][s] <= Tip(remote, m)[s]
    /\ \A s \in Own(m) \cap buried[m] : Tip(remote, m)[s] = 0

(* What a machine has indexed is in the archive, and in its clone.         *)
Held(b, s) == s \in tombs \/ \E d \in Dirs(b, Owner[s]) : d[s] > 0

Indexed(m) ==
    /\ \A s \in replica[m] : Held(remote, s)
    /\ m \notin torn => clone[m].mid = "no"
    /\ m \notin torn /\ clone[m].st \in CheckedOut => \A s \in replica[m] : Held(clone[m].head, s)

Sound(m) == Whole(m) /\ Branched(m) /\ Grown(m) /\ Vouching(m) /\ Vouched(m) /\ Indexed(m)

Inv == Typed /\ \A m \in Machines : Sound(m)
-----------------------------------------------------------------------------
(* Branches.                                                               *)

LEMMA TreesType ==
  /\ NoFiles \in Trees
  /\ \A t \in Trees, s \in Sessions : t[s] \in 0 .. Longest[s] /\ t[s] \in Nat
  /\ \A t \in Trees, s \in Sessions : \A v \in 0 .. Longest[s] : [t EXCEPT ![s] = v] \in Trees
<1> Longest \in [Sessions -> Nat \ {0}]
  BY ArchiveAssumption
<1> USE DEF Trees, NoFiles
<1>1. NoFiles \in Trees
  OBVIOUS
<1>2. ASSUME NEW t \in Trees, NEW s \in Sessions PROVE t[s] \in 0 .. Longest[s] /\ t[s] \in Nat
  OBVIOUS
<1>3. ASSUME NEW t \in Trees, NEW s \in Sessions, NEW v \in 0 .. Longest[s]
      PROVE  [t EXCEPT ![s] = v] \in Trees
  <2> DEFINE u == [t EXCEPT ![s] = v]
  <2>1. \A r \in Sessions : u[r] \in 0 .. Longest[r]
    OBVIOUS
  <2>2. u \in [Sessions -> UNION {0 .. Longest[r] : r \in Sessions}]
    OBVIOUS
  <2> QED
    BY <2>1, <2>2
<1> QED
  BY <1>1, <1>2, <1>3

LEMMA CommitAt ==
  ASSUME NEW b \in Seq(Commits)
  PROVE  /\ Len(b) \in Nat /\ DOMAIN b = 1 .. Len(b)
         /\ \A i \in DOMAIN b : /\ b[i] \in Commits /\ b[i].by \in Machines
                               /\ b[i].dir \in Trees /\ b[i].drops = {}
<1>1. Len(b) \in Nat /\ DOMAIN b = 1 .. Len(b)
  BY LenProperties
<1>2. \A i \in DOMAIN b : b[i] \in Commits
  BY <1>1, ElementOfSeq
<1> QED
  BY <1>1, <1>2 DEF Commits

(* The tip has the directory of the last commit of m, if there is one.     *)
LEMMA TipNone ==
  ASSUME NEW b \in Seq(Commits), NEW m \in Machines, \A i \in DOMAIN b : b[i].by # m
  PROVE  Tip(b, m) = NoFiles /\ Dirs(b, m) = {}
<1>1. \A i \in DOMAIN b : b[i].drops = {}
  BY CommitAt
<1> QED
  BY <1>1 DEF Tip, Dirs

LEMMA TipLast ==
  ASSUME NEW b \in Seq(Commits), NEW m \in Machines, NEW k \in DOMAIN b, b[k].by = m,
         \A i \in DOMAIN b : b[i].by = m => i <= k
  PROVE  Tip(b, m) = b[k].dir /\ b[k].dir \in Dirs(b, m) /\ b[k].dir \in Trees
<1>1. \A i \in DOMAIN b : b[i].drops = {} /\ b[i].dir \in Trees /\ i \in Nat
  BY CommitAt
<1> DEFINE touches == {i \in DOMAIN b : b[i].by = m \/ m \in b[i].drops}
           last == CHOOSE i \in touches : \A j \in touches : j <= i
<1>2. k \in touches /\ \A j \in touches : j <= k
  BY <1>1
<1>3. last \in touches /\ \A j \in touches : j <= last
  BY <1>2
<1>4. last = k
  <2> HIDE DEF last, touches
  <2>1. last <= k /\ k <= last /\ last \in Nat /\ k \in Nat
    <3>1. touches \subseteq Nat
      BY <1>1 DEF touches
    <3> QED
      BY <1>2, <1>3, <3>1
  <2> QED
    BY <2>1
<1>5. Tip(b, m) = b[last].dir
  BY <1>2, <1>4 DEF Tip
<1> QED
  BY <1>1, <1>4, <1>5 DEF Dirs

LEMMA LastOf ==
  ASSUME NEW b \in Seq(Commits), NEW m \in Machines, NEW i \in DOMAIN b, b[i].by = m
  PROVE  \E k \in DOMAIN b : b[k].by = m /\ \A j \in DOMAIN b : b[j].by = m => j <= k
<1> DEFINE S == {j \in DOMAIN b : b[j].by = m}
<1>1. S \in SUBSET (1 .. Len(b)) /\ S # {} /\ Len(b) \in Nat
  BY LenProperties
<1>2. PICK k \in S : \A j \in S : j <= k
  <2> HIDE DEF S
  <2> QED
    BY <1>1, LastPlace
<1> QED
  BY <1>2

LEMMA TipType ==
  ASSUME NEW b \in Seq(Commits), NEW m \in Machines
  PROVE  /\ Tip(b, m) \in Trees
         /\ Dirs(b, m) = {} => Tip(b, m) = NoFiles
         /\ Dirs(b, m) # {} => Tip(b, m) \in Dirs(b, m)
         /\ Dirs(b, m) \subseteq Trees
<1>1. CASE \A i \in DOMAIN b : b[i].by # m
  BY <1>1, TipNone, TreesType
<1>2. CASE ~ \A i \in DOMAIN b : b[i].by # m
  <2>1. PICK k \in DOMAIN b : b[k].by = m /\ \A j \in DOMAIN b : b[j].by = m => j <= k
    BY <1>2, LastOf
  <2>2. Tip(b, m) = b[k].dir /\ b[k].dir \in Dirs(b, m) /\ b[k].dir \in Trees
    BY <2>1, TipLast
  <2>3. Dirs(b, m) \subseteq Trees
    BY CommitAt DEF Dirs
  <2> QED
    BY <2>2, <2>3
<1> QED
  BY <1>1, <1>2

(* Branches with the same commits of m, in the same order, at their ends.  *)
LEMMA TipShift ==
  ASSUME NEW b \in Seq(Commits), NEW c \in Seq(Commits), NEW m \in Machines,
         NEW k \in Nat, NEW d \in Nat, k <= Len(b), k + d <= Len(c), Len(c) = Len(b) + d,
         \A i \in 1 .. k : i <= Len(c) /\ b[i] = c[i],
         \A i \in k + 1 .. k + d : c[i].by # m,
         \A i \in k + 1 .. Len(b) : b[i] = c[i + d]
  PROVE  Tip(b, m) = Tip(c, m) /\ Dirs(b, m) = Dirs(c, m)
<1>0. Len(b) \in Nat /\ Len(c) \in Nat /\ DOMAIN b = 1 .. Len(b) /\ DOMAIN c = 1 .. Len(c)
  BY LenProperties
<1> DEFINE to(i) == IF i <= k THEN i ELSE i + d
<1>1. \A i \in DOMAIN b : to(i) \in DOMAIN c /\ c[to(i)] = b[i]
  BY <1>0
<1>2. \A j \in DOMAIN c : c[j].by = m => \E i \in DOMAIN b : to(i) = j
  <2> SUFFICES ASSUME NEW j \in DOMAIN c, c[j].by = m PROVE \E i \in DOMAIN b : to(i) = j
    OBVIOUS
  <2>1. CASE j <= k
    BY <1>0, <2>1
  <2>2. CASE j > k
    <3>1. j > k + d /\ j \in Nat
      BY <1>0, <2>2
    <3>2. j - d \in DOMAIN b /\ to(j - d) = j
      BY <1>0, <3>1
    <3> QED
      BY <3>2
  <2> QED
    BY <1>0, <2>1, <2>2
<1>3. \A i, j \in DOMAIN b : i <= j => to(i) <= to(j)
  BY <1>0
<1> HIDE DEF to
<1>4. Dirs(b, m) = Dirs(c, m)
  <2>1. \A i \in DOMAIN b : b[i].by = m => b[i].dir \in Dirs(c, m)
    BY <1>1 DEF Dirs
  <2>2. \A j \in DOMAIN c : c[j].by = m => c[j].dir \in Dirs(b, m)
    BY <1>1, <1>2 DEF Dirs
  <2> QED
    BY <2>1, <2>2 DEF Dirs
<1>5. CASE \A i \in DOMAIN b : b[i].by # m
  <2>1. \A j \in DOMAIN c : c[j].by # m
    BY <1>1, <1>2, <1>5
  <2> QED
    BY <1>4, <1>5, <2>1, TipNone
<1>6. CASE ~ \A i \in DOMAIN b : b[i].by # m
  <2>1. PICK n \in DOMAIN b : b[n].by = m /\ \A j \in DOMAIN b : b[j].by = m => j <= n
    BY <1>6, LastOf
  <2>2. to(n) \in DOMAIN c /\ c[to(n)] = b[n]
    BY <1>1, <2>1
  <2>3. \A j \in DOMAIN c : c[j].by = m => j <= to(n)
    BY <1>1, <1>2, <1>3, <2>1
  <2>4. Tip(c, m) = c[to(n)].dir
    BY <2>1, <2>2, <2>3, TipLast
  <2> QED
    BY <1>4, <2>1, <2>2, <2>4, TipLast
<1> QED
  BY <1>5, <1>6

(* How much two branches share is what it is said to be.                   *)
LEMMA CommonIs ==
  ASSUME NEW b \in Seq(Commits), NEW c \in Seq(Commits), NEW k \in Nat, k <= Len(b), k <= Len(c),
         \A i \in 1 .. k : b[i] = c[i],
         k = Len(b) \/ k = Len(c) \/ b[k + 1] # c[k + 1]
  PROVE  Common(b, c) = k /\ Beyond(b, c) = SubSeq(b, k + 1, Len(b))
<1>0. Len(b) \in Nat /\ Len(c) \in Nat
  BY LenProperties
<1> DEFINE Shares(j) == /\ j <= Len(c) /\ \A i \in 1 .. j : b[i] = c[i]
                        /\ j = Len(b) \/ j = Len(c) \/ b[j + 1] # c[j + 1]
<1>1. k \in 0 .. Len(b) /\ Shares(k)
  BY <1>0
<1>2. ASSUME NEW j \in 0 .. Len(b), Shares(j) PROVE j = k
  <2>1. CASE j < k
    <3>1. j + 1 \in 1 .. k /\ j # Len(b) /\ j # Len(c) /\ b[j + 1] # c[j + 1]
      BY <1>0, <1>2, <2>1
    <3> QED
      BY <3>1
  <2>2. CASE k < j
    <3>1. k + 1 \in 1 .. j /\ k # Len(b) /\ k # Len(c) /\ b[k + 1] # c[k + 1]
      BY <1>0, <1>2, <2>2
    <3> QED
      BY <1>2, <3>1
  <2> QED
    BY <1>0, <2>1, <2>2
<1>3. Common(b, c) = CHOOSE j \in 0 .. Len(b) : Shares(j)
  BY DEF Common
<1>4. Common(b, c) = k
  <2> HIDE DEF Shares
  <2> QED
    BY <1>1, <1>2, <1>3
<1> QED
  BY <1>4 DEF Beyond

LEMMA EmptyBranch ==
  ASSUME NEW c \in Seq(Commits)
  PROVE  Common(<<>>, c) = 0 /\ Beyond(<<>>, c) = <<>>
<1>1. <<>> \in Seq(Commits) /\ Len(<<>>) = 0 /\ Len(c) \in Nat
  BY EmptySeq, LenProperties
<1>2. Common(<<>>, c) = 0 /\ Beyond(<<>>, c) = SubSeq(<<>>, 1, 0)
  BY <1>1, CommonIs
<1> QED
  BY <1>2, SubSeqEmpty

(* The commits of a fork that the other branch does not have.              *)
LEMMA ForkCommon ==
  ASSUME NEW b \in Seq(Commits), NEW c \in Seq(Commits), NEW m \in Machines, NEW k, Forked(b, c, m, k)
  PROVE  /\ Common(b, c) = k /\ Beyond(b, c) = SubSeq(b, k + 1, Len(b))
         /\ Beyond(b, c) \in Seq(Commits) /\ Len(Beyond(b, c)) = Len(b) - k
         /\ \A i \in 1 .. Len(b) - k : Beyond(b, c)[i] = b[k + i] /\ b[k + i].by = m
<1>0. Len(b) \in Nat /\ Len(c) \in Nat /\ k \in Nat
  BY LenProperties DEF Forked
<1>1. k = Len(b) \/ k = Len(c) \/ b[k + 1] # c[k + 1]
  <2> SUFFICES ASSUME k < Len(b), k < Len(c) PROVE b[k + 1].by # c[k + 1].by
    BY <1>0 DEF Forked
  <2> QED
    BY <1>0 DEF Forked
<1>2. Common(b, c) = k /\ Beyond(b, c) = SubSeq(b, k + 1, Len(b))
  BY <1>0, <1>1, CommonIs DEF Forked
<1>3. \A i \in k + 1 .. Len(b) : b[i] \in Commits
  BY <1>0, CommitAt
<1> DEFINE p == SubSeq(b, k + 1, Len(b))
<1>4. /\ p \in Seq(Commits) /\ Len(p) = IF k + 1 <= Len(b) THEN Len(b) - (k + 1) + 1 ELSE 0
      /\ \A i \in 1 .. Len(b) - (k + 1) + 1 : p[i] = b[k + 1 + i - 1]
  BY <1>0, <1>3, SubSeqProperties
<1>5. Len(p) = Len(b) - k /\ \A i \in 1 .. Len(b) - k : p[i] = b[k + i]
  <2> HIDE DEF p
  <2> QED
    BY <1>0, <1>4 DEF Forked
<1>6. \A i \in 1 .. Len(b) - k : b[k + i].by = m
  BY <1>0 DEF Forked
<1> QED
  BY <1>2, <1>4, <1>5, <1>6

(* Nothing beyond what was fetched is nothing beyond the branch.           *)
LEMMA NothingBeyond ==
  ASSUME NEW b \in Seq(Commits), NEW c \in Seq(Commits), NEW m \in Machines, NEW k, Forked(b, c, m, k),
         NEW r \in Nat, r <= Len(c), Beyond(b, SubSeq(c, 1, r)) = <<>>
  PROVE  k = Len(b)
<1> DEFINE f == SubSeq(c, 1, r)
           j == IF k <= r THEN k ELSE r
<1>0. Len(b) \in Nat /\ Len(c) \in Nat /\ k \in Nat /\ j \in Nat /\ j <= Len(b)
  BY LenProperties DEF Forked
<1>1. f \in Seq(Commits) /\ Len(f) = r /\ \A i \in 1 .. r : f[i] = c[i]
  <2>1. \A i \in 1 .. r : c[i] \in Commits
    BY <1>0, CommitAt
  <2> QED
    BY <1>0, <2>1, SubSeqProperties
<1> HIDE DEF f
<1>2. j <= Len(f) /\ \A i \in 1 .. j : b[i] = f[i]
  BY <1>0, <1>1 DEF Forked
<1>3. j = Len(b) \/ j = Len(f) \/ b[j + 1] # f[j + 1]
  <2> SUFFICES ASSUME j < Len(b), j < Len(f) PROVE b[j + 1].by # f[j + 1].by
    BY <1>0, <1>1, <1>2
  <2>1. j = k /\ f[j + 1] = c[j + 1] /\ j + 1 <= Len(c)
    BY <1>0, <1>1
  <2> QED
    BY <1>0, <2>1 DEF Forked
<1>4. Beyond(b, f) = SubSeq(b, j + 1, Len(b))
  BY <1>0, <1>1, <1>2, <1>3, CommonIs
<1> SUFFICES ASSUME k # Len(b) PROVE FALSE
  OBVIOUS
<1>5. j + 1 <= Len(b)
  BY <1>0 DEF Forked
<1>6. Len(SubSeq(b, j + 1, Len(b))) = Len(b) - (j + 1) + 1
  <2>1. \A i \in j + 1 .. Len(b) : b[i] \in Commits
    BY <1>0, CommitAt
  <2>2. j + 1 \in Int /\ Len(b) \in Int
    BY <1>0
  <2> HIDE DEF j
  <2> QED
    BY <1>5, <2>1, <2>2, SubSeqProperties
<1>7. Len(SubSeq(b, j + 1, Len(b))) = 0
  <2>1. SubSeq(b, j + 1, Len(b)) = <<>>
    BY <1>4 DEF f
  <2> QED
    BY <2>1, EmptySeq
<1> QED
  BY <1>0, <1>5, <1>6, <1>7

(* A commit of m.                                                          *)
LEMMA ForkAppend ==
  ASSUME NEW b \in Seq(Commits), NEW m \in Machines, NEW e \in Commits, e.by = m
  PROVE  /\ Append(b, e) \in Seq(Commits)
         /\ Tip(Append(b, e), m) = e.dir /\ Dirs(Append(b, e), m) = Dirs(b, m) \cup {e.dir}
         /\ \A n \in Machines \ {m} : Dirs(Append(b, e), n) = Dirs(b, n)
         /\ \A c \in Seq(Commits), k \in Nat : Forked(b, c, m, k) =>
               Forked(Append(b, e), c, m, k) /\ Beyond(Append(b, e), c) = Append(Beyond(b, c), e)
<1> DEFINE a == Append(b, e)
<1>0. Len(b) \in Nat /\ DOMAIN b = 1 .. Len(b)
  BY LenProperties
<1>1. /\ a \in Seq(Commits) /\ Len(a) = Len(b) + 1 /\ a[Len(b) + 1] = e
      /\ \A i \in 1 .. Len(b) : a[i] = b[i]
  BY AppendProperties
<1>2. DOMAIN a = 1 .. Len(b) + 1
  BY <1>1, LenProperties
<1> HIDE DEF a
<1>3. Tip(a, m) = e.dir
  BY <1>0, <1>1, <1>2, TipLast
<1>4. Dirs(a, m) = Dirs(b, m) \cup {e.dir}
  BY <1>0, <1>1, <1>2 DEF Dirs
<1>5. \A n \in Machines \ {m} : Dirs(a, n) = Dirs(b, n)
  BY <1>0, <1>1, <1>2 DEF Dirs
<1>6. ASSUME NEW c \in Seq(Commits), NEW k \in Nat, Forked(b, c, m, k)
      PROVE  Forked(a, c, m, k) /\ Beyond(a, c) = Append(Beyond(b, c), e)
  <2>0. k \in Nat /\ k <= Len(b) /\ Len(c) \in Nat
    BY <1>6, LenProperties DEF Forked
  <2>1. Forked(a, c, m, k)
    BY <1>0, <1>1, <1>6 DEF Forked
  <2>2. /\ Beyond(a, c) \in Seq(Commits) /\ Len(Beyond(a, c)) = Len(a) - k
        /\ \A i \in 1 .. Len(a) - k : Beyond(a, c)[i] = a[k + i]
    <3>1. a \in Seq(Commits)
      BY <1>1
    <3> QED
      BY SMTT(30), <2>1, <3>1, ForkCommon
  <2>3. /\ Beyond(b, c) \in Seq(Commits) /\ Len(Beyond(b, c)) = Len(b) - k
        /\ \A i \in 1 .. Len(b) - k : Beyond(b, c)[i] = b[k + i]
    BY <1>6, ForkCommon
  <2> DEFINE q == Beyond(b, c)
             p == Append(q, e)
  <2>4. /\ p \in Seq(Commits) /\ Len(p) = Len(q) + 1 /\ p[Len(q) + 1] = e
        /\ \A i \in 1 .. Len(q) : p[i] = q[i]
    BY <2>3, AppendProperties
  <2> HIDE DEF p, q
  <2>5. \A i \in 1 .. Len(p) : p[i] = Beyond(a, c)[i]
    <3> SUFFICES ASSUME NEW i \in 1 .. Len(p) PROVE p[i] = Beyond(a, c)[i]
      OBVIOUS
    <3>1. Len(q) = Len(b) - k /\ Len(p) = Len(b) + 1 - k
      BY <1>0, <2>0, <2>3, <2>4 DEF q
    <3>2. Beyond(a, c)[i] = a[k + i]
      BY <1>0, <1>1, <2>0, <2>2, <3>1
    <3>3. CASE i = Len(q) + 1
      BY <1>0, <1>1, <2>0, <2>4, <3>1, <3>2, <3>3
    <3>4. CASE i # Len(q) + 1
      <4>1. i \in 1 .. Len(q) /\ k + i \in 1 .. Len(b)
        BY <1>0, <2>0, <3>1, <3>4
      <4> QED
        BY <1>1, <2>3, <2>4, <3>1, <3>2, <4>1 DEF q
    <3> QED
      BY <3>3, <3>4
  <2>6. Len(p) = Len(Beyond(a, c))
    BY <1>0, <1>1, <2>0, <2>2, <2>3, <2>4 DEF q
  <2> QED
    BY <2>1, <2>2, <2>4, <2>5, <2>6, SeqEqual DEF p, q
<1> QED
  BY <1>1, <1>3, <1>4, <1>5, <1>6 DEF a

(* What m's commits are put on: they are the same, and in the same order.  *)
LEMMA ForkRebase ==
  ASSUME NEW b \in Seq(Commits), NEW c \in Seq(Commits), NEW m \in Machines, NEW k, Forked(b, c, m, k)
  PROVE  LET a == c \o Beyond(b, c) IN
         /\ a \in Seq(Commits) /\ Forked(a, c, m, Len(c))
         /\ Beyond(a, c) = Beyond(b, c)
         /\ Tip(a, m) = Tip(b, m) /\ Dirs(a, m) = Dirs(b, m)
         /\ \A n \in Machines \ {m} : Tip(a, n) = Tip(c, n) /\ Dirs(a, n) = Dirs(c, n)
         /\ k = Len(c) => a = b
<1> DEFINE p == Beyond(b, c)
           a == c \o p
<1>0. Len(b) \in Nat /\ Len(c) \in Nat /\ k \in Nat /\ k <= Len(b) /\ k <= Len(c)
  BY LenProperties DEF Forked
<1>1. p \in Seq(Commits) /\ Len(p) = Len(b) - k /\ \A i \in 1 .. Len(b) - k : p[i] = b[k + i] /\ b[k + i].by = m
  BY ForkCommon
<1>2. /\ a \in Seq(Commits) /\ Len(a) = Len(c) + Len(p)
      /\ \A i \in 1 .. Len(c) + Len(p) : a[i] = IF i <= Len(c) THEN c[i] ELSE p[i - Len(c)]
  BY <1>1, ConcatProperties
<1> HIDE DEF a, p
<1>3. /\ \A i \in 1 .. Len(c) : a[i] = c[i]
      /\ \A i \in Len(c) + 1 .. Len(a) : a[i] = p[i - Len(c)] /\ a[i] = b[k + (i - Len(c))] /\ a[i].by = m
  <2>1. ASSUME NEW i \in 1 .. Len(c) PROVE a[i] = c[i]
    <3>1. i \in 1 .. Len(c) + Len(p) /\ i <= Len(c)
      BY <1>0, <1>1
    <3> QED
      BY <1>2, <3>1
  <2>2. ASSUME NEW i \in Len(c) + 1 .. Len(a)
        PROVE  a[i] = p[i - Len(c)] /\ a[i] = b[k + (i - Len(c))] /\ a[i].by = m
    <3>1. i \in 1 .. Len(c) + Len(p) /\ ~(i <= Len(c)) /\ i - Len(c) \in 1 .. Len(b) - k
      BY <1>0, <1>1, <1>2
    <3> QED
      BY <1>1, <1>2, <3>1
  <2> QED
    BY <2>1, <2>2
<1>4. Forked(a, c, m, Len(c))
  BY <1>0, <1>1, <1>2, <1>3 DEF Forked
<1>5. Beyond(a, c) = p
  <2>1. /\ Beyond(a, c) \in Seq(Commits) /\ Len(Beyond(a, c)) = Len(a) - Len(c)
        /\ \A i \in 1 .. Len(a) - Len(c) : Beyond(a, c)[i] = a[Len(c) + i]
    BY <1>2, <1>4, ForkCommon
  <2>2. Len(Beyond(a, c)) = Len(p)
    BY <1>0, <1>1, <1>2, <2>1
  <2>3. \A i \in 1 .. Len(p) : Beyond(a, c)[i] = p[i]
    <3> SUFFICES ASSUME NEW i \in 1 .. Len(p) PROVE Beyond(a, c)[i] = p[i]
      OBVIOUS
    <3>1. Len(c) + i \in Len(c) + 1 .. Len(a) /\ i \in 1 .. Len(a) - Len(c) /\ Len(c) + i - Len(c) = i
      BY <1>0, <1>1, <1>2
    <3> QED
      BY <1>3, <2>1, <3>1
  <2> QED
    BY <1>1, <2>1, <2>2, <2>3, SeqEqual
<1>6. Tip(a, m) = Tip(b, m) /\ Dirs(a, m) = Dirs(b, m)
  <2> DEFINE d == Len(c) - k
  <2>1. d \in Nat /\ k + d <= Len(a) /\ Len(a) = Len(b) + d
    BY <1>0, <1>1, <1>2
  <2>2. \A i \in 1 .. k : i <= Len(a) /\ b[i] = a[i]
    BY <1>0, <1>1, <1>2, <1>3 DEF Forked
  <2>3. \A i \in k + 1 .. k + d : a[i].by # m
    BY <1>0, <1>1, <1>2, <1>3 DEF Forked
  <2>4. \A i \in k + 1 .. Len(b) : b[i] = a[i + d]
    <3> SUFFICES ASSUME NEW i \in k + 1 .. Len(b) PROVE b[i] = a[i + d]
      OBVIOUS
    <3>1. i + d \in Len(c) + 1 .. Len(a) /\ k + ((i + d) - Len(c)) = i
      BY <1>0, <1>1, <1>2
    <3> QED
      BY <1>3, <3>1
  <2> HIDE DEF d
  <2> QED
    BY <1>0, <1>2, <2>1, <2>2, <2>3, <2>4, TipShift
<1>7. ASSUME NEW n \in Machines \ {m} PROVE Tip(a, n) = Tip(c, n) /\ Dirs(a, n) = Dirs(c, n)
  <2> DEFINE d == Len(p)
             j == Len(c)
  <2>1. /\ d \in Nat /\ j \in Nat /\ Len(a) = Len(c) + d /\ j <= Len(c) /\ j + d <= Len(a)
        /\ n \in Machines /\ a \in Seq(Commits)
    BY <1>0, <1>1, <1>2
  <2>2. \A i \in j + 1 .. j + d : a[i].by # n
    BY <1>2, <1>3, <1>7
  <2>3. \A i \in j + 1 .. Len(c) : c[i] = a[i + d]
    BY <1>0
  <2>4. \A i \in 1 .. j : i <= Len(a) /\ c[i] = a[i]
    BY <1>0, <1>3, <2>1
  <2> HIDE DEF d, j
  <2> QED
    BY <2>1, <2>2, <2>3, <2>4, TipShift
<1>8. ASSUME k = Len(c) PROVE a = b
  <2>1. Len(a) = Len(b)
    BY <1>0, <1>1, <1>2, <1>8
  <2>2. \A i \in 1 .. Len(a) : a[i] = b[i]
    <3> SUFFICES ASSUME NEW i \in 1 .. Len(a) PROVE a[i] = b[i]
      OBVIOUS
    <3>1. CASE i <= k
      BY <1>0, <1>3, <1>8, <3>1 DEF Forked
    <3>2. CASE i > k
      <4>1. i \in Len(c) + 1 .. Len(a) /\ k + (i - Len(c)) = i
        BY <1>0, <1>8, <3>2
      <4> QED
        BY <1>3, <4>1
    <3> QED
      BY <1>0, <3>1, <3>2
  <2> QED
    BY <1>2, <2>1, <2>2, SeqEqual
<1> QED
  BY <1>2, <1>4, <1>5, <1>6, <1>7, <1>8 DEF a, p

(* A branch that another machine pushed its commits to.                    *)
LEMMA ForkLand ==
  ASSUME NEW b \in Seq(Commits), NEW c \in Seq(Commits), NEW m \in Machines, NEW k, Forked(b, c, m, k),
         NEW n \in Machines \ {m}, NEW e \in Seq(Commits), Forked(e, c, n, Len(c))
  PROVE  Forked(b, e, m, k) /\ Beyond(b, e) = Beyond(b, c)
<1>0. Len(b) \in Nat /\ Len(c) \in Nat /\ Len(e) \in Nat /\ k \in Nat
  BY LenProperties DEF Forked
<1>1. \A i \in k + 1 .. Len(e) : e[i].by # m
  <2> SUFFICES ASSUME NEW i \in k + 1 .. Len(e) PROVE e[i].by # m
    OBVIOUS
  <2>1. CASE i <= Len(c)
    BY <1>0, <2>1 DEF Forked
  <2>2. CASE i > Len(c)
    BY <1>0, <2>2 DEF Forked
  <2> QED
    BY <1>0, <2>1, <2>2
<1>2. Forked(b, e, m, k)
  BY <1>0, <1>1 DEF Forked
<1> QED
  BY <1>2, ForkCommon

LEMMA ForkSelf ==
  ASSUME NEW b \in Seq(Commits), NEW m \in Machines
  PROVE  Forked(b, b, m, Len(b)) /\ Beyond(b, b) = <<>> /\ Common(b, b) = Len(b)
<1>1. Len(b) \in Nat
  BY LenProperties
<1>2. Forked(b, b, m, Len(b))
  BY <1>1 DEF Forked
<1>3. Common(b, b) = Len(b) /\ Beyond(b, b) = SubSeq(b, Len(b) + 1, Len(b))
  BY <1>2, ForkCommon
<1> QED
  BY <1>1, <1>2, <1>3, SubSeqEmpty

(* A branch with nothing beyond another has the same commits of m.         *)
LEMMA ForkBehind ==
  ASSUME NEW b \in Seq(Commits), NEW c \in Seq(Commits), NEW m \in Machines, NEW k, Forked(b, c, m, k)
  PROVE  /\ k = Len(b) => Tip(b, m) = Tip(c, m) /\ Dirs(b, m) = Dirs(c, m) /\ Beyond(b, c) = <<>>
         /\ Dirs(c, m) \subseteq Dirs(b, m)
         /\ \A n \in Machines \ {m} : Dirs(b, n) \subseteq Dirs(c, n)
<1>0. /\ Len(b) \in Nat /\ Len(c) \in Nat /\ k \in Nat /\ k <= Len(b) /\ k <= Len(c)
      /\ DOMAIN b = 1 .. Len(b) /\ DOMAIN c = 1 .. Len(c)
  BY LenProperties DEF Forked
<1>1. ASSUME k = Len(b) PROVE Tip(b, m) = Tip(c, m) /\ Dirs(b, m) = Dirs(c, m) /\ Beyond(b, c) = <<>>
  <2> DEFINE d == Len(c) - k
  <2>1. d \in Nat /\ k + d <= Len(c) /\ Len(c) = Len(b) + d
    BY <1>0, <1>1
  <2>2. \A i \in 1 .. k : i <= Len(c) /\ b[i] = c[i]
    BY <1>0 DEF Forked
  <2>3. \A i \in k + 1 .. k + d : c[i].by # m
    BY <1>0 DEF Forked
  <2>4. \A i \in k + 1 .. Len(b) : b[i] = c[i + d]
    BY <1>0, <1>1
  <2>5. Tip(b, m) = Tip(c, m) /\ Dirs(b, m) = Dirs(c, m)
    <3> HIDE DEF d
    <3> QED
      BY <1>0, <2>1, <2>2, <2>3, <2>4, TipShift
  <2>6. Beyond(b, c) = SubSeq(b, Len(b) + 1, Len(b))
    BY <1>1, ForkCommon
  <2>7. Beyond(b, c) = <<>>
    BY <1>0, <2>6, SubSeqEmpty
  <2> QED
    BY <2>5, <2>7
<1>2. Dirs(c, m) \subseteq Dirs(b, m)
  <2>1. \A i \in DOMAIN c : c[i].by = m => i \in DOMAIN b /\ b[i] = c[i]
    BY <1>0 DEF Forked
  <2> QED
    BY <2>1 DEF Dirs
<1>3. ASSUME NEW n \in Machines \ {m} PROVE Dirs(b, n) \subseteq Dirs(c, n)
  <2>1. \A i \in DOMAIN b : b[i].by = n => i \in DOMAIN c /\ b[i] = c[i]
    BY <1>0, <1>3 DEF Forked
  <2> QED
    BY <2>1 DEF Dirs
<1> QED
  BY <1>1, <1>2, <1>3

-----------------------------------------------------------------------------
(* Steps that one machine takes on its own.                                *)

LEMMA EmptyTypes == NoClone \in Clones /\ NoOp \in Ops
BY TreesType, EmptySeq DEF NoClone, NoOp, Clones, Ops

(* The parts of a well typed state of a machine.                           *)
LEMMA Parts ==
  ASSUME Typed, NEW m \in Machines
  PROVE  /\ clone[m] \in Clones /\ clone[m].head \in Seq(Commits) /\ clone[m].ref \in Nat
         /\ clone[m].work \in Trees /\ clone[m].ok \in BOOLEAN
         /\ op[m] \in Ops /\ op[m].goal \in Trees /\ op[m].tombs \subseteq Sessions
         /\ op[m].try \in Nat
         /\ Own(m) \subseteq Sessions /\ remote \in Seq(Commits)
         /\ Tip(clone[m].head, m) \in Trees /\ Tip(remote, m) \in Trees
         /\ Dirs(clone[m].head, m) \subseteq Trees /\ Dirs(remote, m) \subseteq Trees
<1>1. clone[m] \in Clones /\ op[m] \in Ops /\ remote \in Seq(Commits) /\ Own(m) \subseteq Sessions
  BY DEF Typed, Own
<1>2. /\ clone[m].head \in Seq(Commits) /\ clone[m].ref \in Nat /\ clone[m].work \in Trees
      /\ clone[m].ok \in BOOLEAN
  BY <1>1 DEF Clones
<1>3. op[m].goal \in Trees /\ op[m].tombs \subseteq Sessions /\ op[m].try \in Nat
  BY <1>1 DEF Ops
<1> QED
  BY <1>1, <1>2, <1>3, TipType

Apart(m) ==
    /\ UNCHANGED <<disk, known, tombs, remote>>
    /\ \A n \in Machines \ {m} :
          /\ clone'[n] = clone[n] /\ op'[n] = op[n] /\ replica'[n] = replica[n]
          /\ shipped'[n] = shipped[n] /\ buried'[n] = buried[n] /\ (n \in torn' <=> n \in torn)

(* It leaves the others as they are.                                       *)
LEMMA Elsewhere ==
  ASSUME NEW m \in Machines, Apart(m), NEW n \in Machines \ {m}, Sound(n)
  PROVE  Sound(n)'
<1>1. /\ disk' = disk /\ known' = known /\ tombs' = tombs /\ remote' = remote
      /\ clone'[n] = clone[n] /\ op'[n] = op[n] /\ replica'[n] = replica[n]
      /\ shipped'[n] = shipped[n] /\ buried'[n] = buried[n] /\ (n \in torn' <=> n \in torn)
  BY DEF Apart
<1>2. Whole(n)'
  BY <1>1 DEF Whole, Working, Sound
<1>3. Branched(n)'
  BY <1>1 DEF Branched, Sound
<1>4. Grown(n)'
  BY <1>1 DEF Grown, Tops, Copies, Sound
<1>5. Vouching(n)'
  BY <1>1 DEF Vouching, Pushing, Goal, Cleared, Sound
<1>6. Vouched(n)'
  BY <1>1 DEF Vouched, Sound
<1>7. Indexed(n)'
  BY <1>1 DEF Indexed, Held, Sound
<1> QED
  BY <1>2, <1>3, <1>4, <1>5, <1>6, <1>7 DEF Sound

LEMMA Alone ==
  ASSUME Inv, NEW m \in Machines, Apart(m), Typed', Sound(m)'
  PROVE  Inv'
BY Elsewhere DEF Inv

(* What does not change the branch, the files and the index of m.          *)
Steady(m) ==
    /\ Apart(m)
    /\ clone'[m].st = clone[m].st /\ clone'[m].head = clone[m].head
    /\ clone'[m].work = clone[m].work /\ replica'[m] = replica[m]

LEMMA SteadyClone ==
  ASSUME NEW m \in Machines, Steady(m), Sound(m)
  PROVE  /\ Branched(m)' /\ Grown(m)'
         /\ (m \notin torn' => m \notin torn /\ clone'[m].mid = "no") => Indexed(m)'
<1>1. /\ disk' = disk /\ known' = known /\ tombs' = tombs /\ remote' = remote
      /\ clone'[m].st = clone[m].st /\ clone'[m].head = clone[m].head
      /\ clone'[m].work = clone[m].work /\ replica'[m] = replica[m]
  BY DEF Steady, Apart
<1>2. Branched(m)'
  BY <1>1 DEF Branched, Sound
<1>3. Grown(m)'
  BY <1>1 DEF Grown, Tops, Copies, Sound
<1>4. ASSUME m \notin torn' => m \notin torn /\ clone'[m].mid = "no"
      PROVE  Indexed(m)'
  BY <1>1, <1>4 DEF Indexed, Held, Sound
<1> QED
  BY <1>2, <1>3, <1>4

LEMMA SameVouched ==
  ASSUME NEW m \in Machines, Apart(m), Sound(m), shipped'[m] = shipped[m], buried'[m] = buried[m]
  PROVE  Vouched(m)'
<1>1. remote' = remote /\ tombs' = tombs
  BY DEF Apart
<1> QED
  BY <1>1 DEF Sound, Vouched

(* An operation that ends, or has not read anything yet.                   *)
LEMMA FreshOp ==
  ASSUME NEW m \in Machines, op'[m].goal = NoFiles, op'[m].pc \notin Working, Apart(m)
  PROVE  Vouching(m)'
<1>1. \A s \in Foreign(m) : NoFiles[s] = 0
  BY DEF NoFiles, Foreign
<1> QED
  BY <1>1 DEF Vouching, Pushing, Working, Goal, Foreign, Own

LEMMA OpTyped ==
  ASSUME Typed, NEW m \in Machines, NEW c \in Clones, NEW o \in Ops,
         UNCHANGED <<disk, known, tombs, remote, replica, shipped, buried, torn, changes, faults>>,
         clone' = [clone EXCEPT ![m] = c], op' = [op EXCEPT ![m] = o]
  PROVE  /\ Typed' /\ Apart(m) /\ clone'[m] = c /\ op'[m] = o
         /\ replica'[m] = replica[m] /\ shipped'[m] = shipped[m] /\ buried'[m] = buried[m]
<1>1. clone' \in [Machines -> Clones] /\ op' \in [Machines -> Ops] /\ clone'[m] = c /\ op'[m] = o
  BY DEF Typed
<1>2. \A n \in Machines \ {m} : clone'[n] = clone[n] /\ op'[n] = op[n]
  BY DEF Typed
<1>3. Typed'
  BY <1>1 DEF Typed
<1> QED
  BY <1>1, <1>2, <1>3 DEF Apart

LEMMA AcquireStep ==
  ASSUME Inv, NEW m \in Machines, NEW kind \in {"push", "pull"}, Acquire(m, kind)
  PROVE  Inv'
<1> DEFINE o == [NoOp EXCEPT !.kind = kind, !.pc = "open"]
<1>1. o \in Ops /\ o.goal = NoFiles /\ o.pc = "open" /\ o.kind = kind /\ o.try = 0
      /\ o.todo = {} /\ o.tombs = {}
  BY EmptyTypes DEF NoOp, Ops
<1>2. Typed /\ Sound(m) /\ clone[m] \in Clones
  BY Parts DEF Inv
<1>3. /\ UNCHANGED <<disk, known, tombs, remote, replica, shipped, buried, torn, changes, faults>>
      /\ clone' = [clone EXCEPT ![m] = clone[m]] /\ op' = [op EXCEPT ![m] = o]
  BY <1>2 DEF Acquire, Local, world, history, Typed
<1> HIDE DEF o
<1>4. /\ Typed' /\ Apart(m) /\ clone'[m] = clone[m] /\ op'[m] = o
      /\ replica'[m] = replica[m] /\ shipped'[m] = shipped[m] /\ buried'[m] = buried[m]
  BY <1>1, <1>2, <1>3, OpTyped
<1>5. Branched(m)' /\ Grown(m)' /\ Indexed(m)'
  BY <1>2, <1>3, <1>4, SteadyClone DEF Steady, Sound, Indexed
<1>6. Vouching(m)' /\ Vouched(m)'
  BY <1>1, <1>2, <1>4, FreshOp, SameVouched DEF Working
<1>7. Whole(m)'
  BY <1>1, <1>2, <1>4, ArchiveAssumption DEF Whole, Sound, Apart, Own, Working, Foreign
<1> QED
  BY <1>4, <1>5, <1>6, <1>7, Alone DEF Sound

(* A step that changes no more than the machine's clone, its operation and *)
(* what its last push vouches for.                                         *)
LEMMA OwnStep ==
  ASSUME Typed, NEW m \in Machines, NEW c \in Clones, NEW o \in Ops,
         NEW goal \in Trees, NEW gone \in SUBSET Sessions,
         UNCHANGED <<disk, known, tombs, remote, replica>>,
         clone' = [clone EXCEPT ![m] = c], op' = [op EXCEPT ![m] = o],
         shipped' = [shipped EXCEPT ![m] = goal], buried' = [buried EXCEPT ![m] = gone],
         torn' \in {torn, torn \ {m}, torn \cup {m}},
         changes' \in 0 .. MaxChanges, faults' \in 0 .. MaxFaults
  PROVE  /\ Typed' /\ Apart(m) /\ clone'[m] = c /\ op'[m] = o
         /\ replica'[m] = replica[m] /\ shipped'[m] = goal /\ buried'[m] = gone
<1>1. clone' \in [Machines -> Clones] /\ op' \in [Machines -> Ops] /\ clone'[m] = c /\ op'[m] = o
  BY DEF Typed
<1>2. /\ shipped' \in [Machines -> Trees] /\ buried' \in [Machines -> SUBSET Sessions]
      /\ shipped'[m] = goal /\ buried'[m] = gone /\ replica'[m] = replica[m]
  BY DEF Typed
<1>3. \A n \in Machines \ {m} : /\ clone'[n] = clone[n] /\ op'[n] = op[n] /\ replica'[n] = replica[n]
                               /\ shipped'[n] = shipped[n] /\ buried'[n] = buried[n]
                               /\ (n \in torn' <=> n \in torn)
  BY DEF Typed
<1>4. torn' \subseteq Machines
  BY DEF Typed
<1>5. Typed'
  BY <1>1, <1>2, <1>4 DEF Typed
<1> QED
  BY <1>1, <1>2, <1>3, <1>5 DEF Apart

(* The operation of a machine ends, and nothing else changes.              *)
LEMMA EndStep ==
  ASSUME Inv, NEW m \in Machines, clone' = clone, op' = [op EXCEPT ![m] = NoOp],
         UNCHANGED <<disk, known, tombs, remote, replica, shipped, buried, torn, changes>>,
         faults' \in 0 .. MaxFaults
  PROVE  Inv'
<1>1. Typed /\ Sound(m) /\ clone[m] \in Clones /\ NoOp \in Ops
  BY Parts, EmptyTypes DEF Inv
<1>2. /\ shipped[m] \in Trees /\ buried[m] \in SUBSET Sessions /\ changes' \in 0 .. MaxChanges
      /\ clone' = [clone EXCEPT ![m] = clone[m]]
      /\ shipped' = [shipped EXCEPT ![m] = shipped[m]] /\ buried' = [buried EXCEPT ![m] = buried[m]]
  BY <1>1 DEF Typed
<1>3. /\ Typed' /\ Apart(m) /\ clone'[m] = clone[m] /\ op'[m] = NoOp
      /\ replica'[m] = replica[m] /\ shipped'[m] = shipped[m] /\ buried'[m] = buried[m]
  BY <1>1, <1>2, OwnStep
<1>4. Branched(m)' /\ Grown(m)' /\ Indexed(m)'
  BY <1>1, <1>3, SteadyClone DEF Steady, Sound, Indexed
<1>5. NoOp.goal = NoFiles /\ NoOp.pc = "idle" /\ NoOp.try = 0 /\ NoOp.todo = {} /\ NoOp.tombs = {}
  BY DEF NoOp
<1>6. Vouching(m)' /\ Vouched(m)'
  BY <1>1, <1>3, <1>5, FreshOp, SameVouched DEF Working
<1>7. Whole(m)'
  BY <1>1, <1>3, <1>5, ArchiveAssumption DEF Whole, Sound, Apart, Own, Working, Foreign
<1> QED
  BY <1>3, <1>4, <1>6, <1>7, Alone DEF Sound

LEMMA EndSteps ==
  ASSUME Inv, NEW m \in Machines, RefuseWipe(m) \/ RebaseRefused(m) \/ Stop(m)
  PROVE  Inv'
<1>1. /\ clone' = clone /\ op' = [op EXCEPT ![m] = NoOp]
      /\ UNCHANGED <<disk, known, tombs, remote, replica, shipped, buried, torn, changes>>
  BY DEF RefuseWipe, RebaseRefused, Stop, Local, Finish, world, history
<1>2. faults' \in 0 .. MaxFaults
  <2>1. faults' = faults \/ (faults < MaxFaults /\ faults' = faults + 1)
    BY DEF RefuseWipe, RebaseRefused, Stop, Local
  <2> QED
    BY <2>1, ArchiveAssumption DEF Inv, Typed
<1> QED
  BY <1>1, <1>2, EndStep

LEMMA AbortStep ==
  ASSUME Inv, NEW m \in Machines, AbortRebase(m)
  PROVE  Inv'
<1> DEFINE c == [clone[m] EXCEPT !.mid = "no"]
<1>1. Typed /\ Sound(m) /\ clone[m] \in Clones /\ op[m] \in Ops
  BY Parts DEF Inv
<1>2. /\ c \in Clones /\ c.st = clone[m].st /\ c.head = clone[m].head /\ c.work = clone[m].work
      /\ c.ref = clone[m].ref /\ c.ok = clone[m].ok /\ c.mid = "no"
  BY <1>1 DEF Clones
<1>3. /\ clone' = [clone EXCEPT ![m] = c] /\ op' = [op EXCEPT ![m] = op[m]]
      /\ UNCHANGED <<disk, known, tombs, remote, replica, shipped, buried, torn, changes, faults>>
  BY <1>1 DEF AbortRebase, Local, world, history, Typed
<1> HIDE DEF c
<1>4. /\ Typed' /\ Apart(m) /\ clone'[m] = c /\ op'[m] = op[m]
      /\ replica'[m] = replica[m] /\ shipped'[m] = shipped[m] /\ buried'[m] = buried[m]
  BY <1>1, <1>2, <1>3, OpTyped
<1>5. Branched(m)' /\ Grown(m)' /\ Indexed(m)' /\ Vouched(m)'
  BY <1>1, <1>2, <1>3, <1>4, SteadyClone, SameVouched DEF Steady
<1>6. Vouching(m)' /\ Whole(m)'
  <2>1. tombs' = tombs /\ remote' = remote /\ op[m].pc = "open"
    BY <1>4 DEF Apart, AbortRebase, At
  <2>2. Vouching(m)'
    BY <1>1, <1>4, <2>1 DEF Vouching, Pushing, Working, Sound
  <2>3. Whole(m)'
    BY <1>1, <1>2, <1>4, <2>1 DEF Whole, Sound, Working
  <2> QED
    BY <2>2, <2>3
<1> QED
  BY <1>4, <1>5, <1>6, Alone DEF Sound

(* With a clone to work on: what a push does not copy is in the clone as   *)
(* it is on disk.                                                          *)
LEMMA OpenedStep ==
  ASSUME Inv, NEW m \in Machines, clone' = [clone EXCEPT ![m].ok = TRUE], Opened(m),
         clone[m].st = "done", clone[m].mid \in {"no", "ff"}, op[m].pc \in {"open", "clone"},
         UNCHANGED <<disk, known, tombs, remote, replica, shipped, buried, torn, changes, faults>>
  PROVE  Inv'
<1> DEFINE c == [clone[m] EXCEPT !.ok = TRUE]
           todo == {s \in Listed(m) : NeedsCopy(m, s)}
           goal == [s \in Sessions |-> IF s \in Listed(m) \ todo THEN disk[s] ELSE 0]
           pull == [op[m] EXCEPT !.pc = "rebase"]
           push == [op[m] EXCEPT !.pc = "copy", !.tombs = tombs, !.todo = todo, !.goal = goal]
           o == CASE op[m].kind = "init" -> NoOp [] op[m].kind = "pull" -> pull [] OTHER -> push
<1>1. /\ Typed /\ Sound(m) /\ clone[m] \in Clones /\ op[m] \in Ops /\ op[m].goal \in Trees
      /\ tombs \subseteq Sessions
  BY Parts DEF Inv, Typed
<1>2. /\ c \in Clones /\ c.st = "done" /\ c.head = clone[m].head /\ c.work = clone[m].work
      /\ c.ref = clone[m].ref /\ c.mid = clone[m].mid
  BY <1>1 DEF Clones
<1>3. clone' = [clone EXCEPT ![m] = c] /\ clone'[m] = c
  BY <1>1 DEF Typed
<1>4. todo \subseteq Own(m) \ tombs /\ todo \subseteq Sessions
  BY DEF Listed, Own
<1>5. /\ goal \in Trees /\ \A s \in Foreign(m) : goal[s] = 0
      /\ \A s \in Own(m) \ tombs : goal[s] <= clone[m].work[s]
  <2>1. disk \in Trees /\ NoFiles \in Trees /\ clone[m].work \in Trees
    BY <1>1, TreesType, Parts DEF Typed
  <2>2. goal \in Trees
    <3>1. ASSUME NEW s \in Sessions PROVE goal[s] \in 0 .. Longest[s]
      <4> HIDE DEF todo
      <4>1. goal[s] \in {disk[s], NoFiles[s]}
        BY DEF NoFiles
      <4> QED
        BY <2>1, <4>1, TreesType
    <3> QED
      BY <3>1 DEF Trees
  <2>3. \A s \in Foreign(m) : goal[s] = 0
    BY DEF Foreign, Listed, Own
  <2>4. ASSUME NEW s \in Own(m) \ tombs PROVE goal[s] <= clone[m].work[s]
    <3>1. s \in Sessions /\ clone[m].work[s] \in Nat
      BY <2>1, TreesType DEF Own
    <3>2. CASE s \in Listed(m) \ todo
      <4>1. clone[m].work[s] = disk[s]
        BY <1>2, <1>3, <3>2 DEF NeedsCopy
      <4> QED
        BY <3>1, <3>2, <4>1
    <3>3. CASE s \notin Listed(m) \ todo
      BY <3>1, <3>3
    <3> QED
      BY <3>2, <3>3
  <2> QED
    BY <2>2, <2>3, <2>4
<1> HIDE DEF todo, goal, c
<1>6. pull \in Ops /\ push \in Ops /\ NoOp \in Ops
  BY <1>1, <1>4, <1>5, EmptyTypes DEF Ops
<1>7. op' = [op EXCEPT ![m] = o] /\ o \in Ops
  <2>1. op' = [op EXCEPT ![m] = o]
    BY DEF Opened, todo, goal
  <2>2. o \in Ops
    <3> HIDE DEF pull, push
    <3> QED
      BY <1>6
  <2> QED
    BY <2>1, <2>2
<1> HIDE DEF o
<1>8. /\ Typed' /\ Apart(m) /\ clone'[m] = c /\ op'[m] = o
      /\ replica'[m] = replica[m] /\ shipped'[m] = shipped[m] /\ buried'[m] = buried[m]
  <2>1. UNCHANGED <<disk, known, tombs, remote, replica, shipped, buried, torn, changes, faults>>
    OBVIOUS
  <2> HIDE DEF pull, push
  <2>2. PICK x \in Ops : x = o
    BY <1>7
  <2>3. PICK y \in Clones : y = c
    BY <1>2
  <2>4. clone' = [clone EXCEPT ![m] = y] /\ op' = [op EXCEPT ![m] = x]
    BY <1>3, <1>7, <2>2, <2>3
  <2>5. /\ Typed' /\ Apart(m) /\ clone'[m] = y /\ op'[m] = x
        /\ replica'[m] = replica[m] /\ shipped'[m] = shipped[m] /\ buried'[m] = buried[m]
    BY <1>1, <2>1, <2>4, OpTyped
  <2> QED
    BY <2>2, <2>3, <2>5
<1>9. Branched(m)' /\ Grown(m)' /\ Indexed(m)' /\ Vouched(m)'
  <2>1. m \notin torn' => m \notin torn /\ clone'[m].mid = "no"
    BY <1>1, <1>2, <1>8 DEF Indexed, Sound
  <2> QED
    BY <1>1, <1>2, <1>8, <2>1, SteadyClone, SameVouched DEF Steady
<1>10. tombs' = tombs /\ remote' = remote
  BY <1>8 DEF Apart
<1>11. /\ op[m].kind \in {"push", "pull", "init"} /\ op[m].todo \subseteq Own(m)
       /\ op[m].tombs \subseteq tombs /\ buried[m] \subseteq tombs
       /\ op[m].try < MaxPushAttempts /\ \A s \in Foreign(m) : op[m].goal[s] = 0
  BY <1>1 DEF Sound, Whole, Vouching, Ops
<1>12. o \in {NoOp, pull, push} /\ (o = pull => op[m].kind = "pull") /\ (o = push => op[m].kind = "push")
  <2>1. CASE op[m].kind = "init"
    <3>1. o = NoOp /\ NoOp.kind = "none" /\ pull.kind = "init" /\ push.kind = "init"
      BY <1>1, <2>1 DEF o, NoOp, Ops
    <3> HIDE DEF pull, push
    <3> QED
      BY <3>1
  <2>2. CASE op[m].kind = "pull"
    <3>1. o = pull /\ pull.pc = "rebase" /\ push.pc = "copy"
      BY <1>1, <2>2 DEF o, Ops
    <3> HIDE DEF pull, push
    <3> QED
      BY <2>2, <3>1
  <2>3. CASE op[m].kind = "push"
    <3>1. o = push /\ pull.pc = "rebase" /\ push.pc = "copy"
      BY <1>1, <2>3 DEF o, Ops
    <3> HIDE DEF pull, push
    <3> QED
      BY <2>3, <3>1
  <2> QED
    BY <1>11, <2>1, <2>2, <2>3
<1>13. CASE o = NoOp
  <2>1. NoOp.goal = NoFiles /\ NoOp.pc = "idle" /\ NoOp.try = 0 /\ NoOp.todo = {} /\ NoOp.tombs = {}
    BY DEF NoOp
  <2>2. Vouching(m)'
    BY <1>8, <1>13, <2>1, FreshOp DEF Working
  <2>3. Whole(m)'
    BY <1>1, <1>2, <1>8, <1>10, <1>13, <2>1, ArchiveAssumption DEF Whole, Sound, Working
  <2> QED
    BY <1>8, <1>9, <2>2, <2>3, Alone DEF Sound
<1>14. CASE o = pull
  <2>1. /\ o.goal = op[m].goal /\ o.pc = "rebase" /\ o.try = op[m].try /\ o.todo = op[m].todo
        /\ o.tombs = op[m].tombs /\ o.kind = "pull"
    BY <1>1, <1>12, <1>14 DEF Ops
  <2>2. Vouching(m)'
    BY <1>8, <1>11, <2>1 DEF Vouching, Pushing, Working, Foreign, Own
  <2>3. Whole(m)'
    BY <1>1, <1>2, <1>8, <1>10, <1>11, <2>1 DEF Whole, Sound, Working
  <2> QED
    BY <1>8, <1>9, <2>2, <2>3, Alone DEF Sound
<1>15. CASE o = push
  <2>1. /\ o.goal = goal /\ o.pc = "copy" /\ o.try = op[m].try /\ o.todo = todo
        /\ o.tombs = tombs /\ o.kind = "push"
    BY <1>1, <1>12, <1>15 DEF Ops
  <2>2. Vouching(m)'
    BY <1>2, <1>5, <1>8, <1>10, <1>11, <2>1 DEF Vouching, Pushing, Goal, Working, Foreign, Own
  <2>3. Whole(m)'
    BY <1>1, <1>2, <1>4, <1>8, <1>10, <1>11, <2>1 DEF Whole, Sound, Working
  <2> QED
    BY <1>8, <1>9, <2>2, <2>3, Alone DEF Sound
<1> QED
  BY <1>12, <1>13, <1>14, <1>15

LEMMA UseSteps ==
  ASSUME Inv, NEW m \in Machines, UseClone(m) \/ Sentinel(m)
  PROVE  Inv'
<1>1. Typed /\ Sound(m) /\ clone[m] \in Clones
  BY Parts DEF Inv
<1>2. /\ clone' = [clone EXCEPT ![m].ok = TRUE] /\ Opened(m)
      /\ UNCHANGED <<disk, known, tombs, remote, replica, shipped, buried, torn, changes, faults>>
      /\ clone[m].st = "done" /\ op[m].pc \in {"open", "clone"}
  BY DEF UseClone, Sentinel, Local, world, history, Complete, At
<1>3. clone[m].mid \in {"no", "ff"}
  <2>1. CASE UseClone(m)
    BY <1>1, <2>1 DEF UseClone, Recovered, Complete, Clones
  <2>2. CASE Sentinel(m)
    BY <1>1, <2>2 DEF Sentinel, At, Sound, Whole
  <2> QED
    BY <2>1, <2>2
<1> QED
  BY <1>2, <1>3, OpenedStep

(* The clone is thrown away.                                               *)
LEMMA WipedStep ==
  ASSUME Inv, NEW m \in Machines, NEW o \in Ops, o.pc = "clone", o.kind # "none",
         o.try < MaxPushAttempts, o.todo \subseteq Own(m), o.tombs \subseteq tombs,
         \A s \in Foreign(m) : o.goal[s] = 0,
         NEW c \in Clones, c.st = "fetching", c.head = <<>>, c.work = NoFiles, c.ref = 0, c.mid = "no",
         c.ok = FALSE, clone' = [clone EXCEPT ![m] = c],
         op' = [op EXCEPT ![m] = o],
         UNCHANGED <<disk, known, tombs, remote, replica, shipped, buried, torn, faults>>,
         changes' \in 0 .. MaxChanges
  PROVE  Inv'
<1>1. Typed /\ Sound(m)
  BY DEF Inv
<1>2. faults' \in 0 .. MaxFaults
  BY <1>1 DEF Typed
<1>4. /\ shipped[m] \in Trees /\ buried[m] \in SUBSET Sessions
      /\ shipped' = [shipped EXCEPT ![m] = shipped[m]] /\ buried' = [buried EXCEPT ![m] = buried[m]]
  BY <1>1 DEF Typed
<1>5. /\ Typed' /\ Apart(m) /\ clone'[m] = c /\ op'[m] = o
      /\ replica'[m] = replica[m] /\ shipped'[m] = shipped[m] /\ buried'[m] = buried[m]
  BY <1>1, <1>2, <1>4, OwnStep
<1>6. disk' = disk /\ known' = known /\ tombs' = tombs /\ remote' = remote /\ torn' = torn
  OBVIOUS
<1>7. Whole(m)'
  <2>1. Len(remote) \in Nat
    BY <1>1, LenProperties DEF Typed
  <2>2. Whole(m)
    BY <1>1 DEF Sound
  <2>3. /\ clone'[m].ref = 0 /\ clone'[m].ok = FALSE /\ clone'[m].mid = "no"
        /\ op'[m].pc = "clone" /\ op'[m].kind # "none" /\ op'[m].try < MaxPushAttempts
    BY <1>2, <1>5, Zenon
  <2>5. Len(remote') \in Nat
    BY <1>6, <2>1
  <2>4. /\ op'[m].todo \subseteq Own(m) /\ replica'[m] \subseteq Foreign(m)
        /\ op'[m].tombs \subseteq tombs' /\ buried'[m] \subseteq tombs'
    BY <1>5, <1>6, <2>2 DEF Whole
  <2> QED
    BY <2>3, <2>4, <2>5 DEF Whole, Working
<1>8. Branched(m)'
  BY <1>2, <1>5 DEF Branched, CheckedOut
<1>9. Grown(m)'
  <2>1. Dirs(<<>>, m) = {}
    BY EmptySeq DEF Dirs
  <2>2. \A s \in Own(m) : NoFiles[s] = 0
    BY DEF NoFiles, Own
  <2>3. Grown(m)
    BY <1>1 DEF Sound
  <2> QED
    <3>1. /\ Tops(Tip(remote, m), Dirs(remote, m), m)' /\ Copies(Dirs(remote, m), m)'
      <4>1. Tops(Tip(remote, m), Dirs(remote, m), m) /\ Copies(Dirs(remote, m), m)
        BY <2>3 DEF Grown
      <4>2. Tip(remote, m)' = Tip(remote, m) /\ Dirs(remote, m)' = Dirs(remote, m)
        BY <1>6 DEF Tip, Dirs
      <4>3. tombs' = tombs /\ disk' = disk /\ known' = known
        BY <1>6
      <4> QED
        BY <4>1, <4>2, <4>3 DEF Tops, Copies
    <3>2. /\ clone'[m].head = <<>> /\ clone'[m].work = NoFiles /\ clone'[m].st # "done"
      BY <1>5
    <3>3. Dirs(clone[m].head, m)' = {}
      BY <2>1, <3>2 DEF Dirs
    <3>4. /\ Tops(Tip(clone[m].head, m), Dirs(clone[m].head, m), m)'
          /\ Copies(Dirs(clone[m].head, m), m)'
      BY <3>3 DEF Tops, Copies
    <3>5. Copies({clone[m].work}, m)'
      BY <2>2, <3>2 DEF Copies
    <3> QED
      BY <3>1, <3>2, <3>4, <3>5 DEF Grown
<1>10. Vouching(m)'
  BY <1>5 DEF Vouching, Pushing, Working
<1>11. Vouched(m)'
  BY <1>1, <1>5, SameVouched
<1>12. Indexed(m)'
  BY <1>1, <1>2, <1>5, <1>6 DEF Indexed, Held, Sound, CheckedOut
<1> QED
  BY <1>5, <1>7, <1>8, <1>9, <1>10, <1>11, <1>12, Alone DEF Sound

LEMMA WipeStep ==
  ASSUME Inv, NEW m \in Machines, Wipe(m)
  PROVE  Inv'
<1> DEFINE c == [NoClone EXCEPT !.st = "fetching"]
<1> DEFINE o == [op[m] EXCEPT !.pc = "clone"]
<1>1. Typed /\ Sound(m) /\ op[m] \in Ops
  BY Parts DEF Inv
<1>2. /\ o \in Ops /\ o.pc = "clone" /\ o.kind = op[m].kind /\ o.try = op[m].try
      /\ o.todo = op[m].todo /\ o.tombs = op[m].tombs /\ o.goal = op[m].goal
  BY <1>1 DEF Ops
<1>3. /\ op' = [op EXCEPT ![m] = o]
      /\ clone' = [clone EXCEPT ![m] = c]
      /\ UNCHANGED <<disk, known, tombs, remote, replica, shipped, buried, torn, faults>>
      /\ changes' \in 0 .. MaxChanges
  BY <1>1 DEF Wipe, Go, Local, world, history, Typed
<1>4. op[m].pc = "open"
  BY DEF Wipe, At
<1>7. /\ c \in Clones /\ c.st = "fetching" /\ c.head = <<>> /\ c.work = NoFiles
      /\ c.ref = 0 /\ c.mid = "no" /\ c.ok = FALSE
  BY EmptyTypes DEF NoClone, Clones
<1> HIDE DEF c, o
<1>5. /\ o.kind # "none" /\ o.try < MaxPushAttempts /\ o.todo \subseteq Own(m)
      /\ o.tombs \subseteq tombs /\ \A s \in Foreign(m) : o.goal[s] = 0
  BY <1>1, <1>2, <1>4 DEF Sound, Whole, Vouching
<1> QED
  BY <1>2, <1>3, <1>5, <1>7, WipedStep

LEMMA ReinitStep ==
  ASSUME Inv, NEW m \in Machines, Reinit(m)
  PROVE  Inv'
<1> DEFINE c == [NoClone EXCEPT !.st = "fetching"]
<1> DEFINE o == [NoOp EXCEPT !.kind = "init", !.pc = "clone"]
<1>1. Typed /\ Sound(m)
  BY DEF Inv
<1>2. /\ o \in Ops /\ o.pc = "clone" /\ o.kind = "init" /\ o.try = 0
      /\ o.todo = {} /\ o.tombs = {} /\ o.goal = NoFiles
  BY EmptyTypes DEF NoOp, Ops
<1>3. \A s \in Foreign(m) : NoFiles[s] = 0
  BY DEF NoFiles, Foreign
<1>4. /\ op' = [op EXCEPT ![m] = o]
      /\ clone' = [clone EXCEPT ![m] = c]
      /\ UNCHANGED <<disk, known, tombs, remote, replica, shipped, buried, torn, faults>>
  BY DEF Reinit, history
<1>5. changes' \in 0 .. MaxChanges
  BY <1>1, ArchiveAssumption DEF Reinit, Typed
<1>7. /\ c \in Clones /\ c.st = "fetching" /\ c.head = <<>> /\ c.work = NoFiles
      /\ c.ref = 0 /\ c.mid = "no" /\ c.ok = FALSE
  BY EmptyTypes DEF NoClone, Clones
<1> HIDE DEF c, o
<1>6. 0 < MaxPushAttempts
  BY ArchiveAssumption
<1> QED
  BY <1>2, <1>3, <1>4, <1>5, <1>6, <1>7, WipedStep

(* git clone: the branch of the remote.                                    *)
LEMMA CloneRefsStep ==
  ASSUME Inv, NEW m \in Machines, CloneRefs(m)
  PROVE  Inv'
<1> DEFINE c == [clone[m] EXCEPT !.st = "checkout", !.head = remote, !.ref = Len(remote)]
<1>1. /\ Typed /\ Sound(m) /\ clone[m] \in Clones /\ op[m] \in Ops /\ remote \in Seq(Commits)
      /\ Len(remote) \in Nat
  BY Parts, LenProperties DEF Inv
<1>2. /\ c \in Clones /\ c.st = "checkout" /\ c.head = remote /\ c.work = clone[m].work
      /\ c.ref = Len(remote) /\ c.mid = clone[m].mid /\ c.ok = clone[m].ok
  BY <1>1 DEF Clones
<1>3. /\ clone' = [clone EXCEPT ![m] = c] /\ op' = [op EXCEPT ![m] = op[m]]
      /\ UNCHANGED <<disk, known, tombs, remote, replica, shipped, buried, changes, faults>>
      /\ torn' = torn \ {m} /\ clone[m].st = "fetching" /\ op[m].pc = "clone"
  BY <1>1 DEF CloneRefs, At, world, history, Typed
<1> HIDE DEF c
<1>4. /\ shipped[m] \in Trees /\ buried[m] \in SUBSET Sessions
      /\ shipped' = [shipped EXCEPT ![m] = shipped[m]] /\ buried' = [buried EXCEPT ![m] = buried[m]]
      /\ changes' \in 0 .. MaxChanges /\ faults' \in 0 .. MaxFaults
  BY <1>1, <1>3 DEF Typed
<1>5. /\ Typed' /\ Apart(m) /\ clone'[m] = c /\ op'[m] = op[m]
      /\ replica'[m] = replica[m] /\ shipped'[m] = shipped[m] /\ buried'[m] = buried[m]
  BY <1>1, <1>2, <1>3, <1>4, OwnStep
<1>6. Whole(m)'
  BY <1>1, <1>2, <1>3, <1>5 DEF Whole, Sound, Working
<1>7. Branched(m)'
  <2>1. Forked(remote, remote, m, Len(remote))
    BY <1>1, ForkSelf
  <2>2. /\ clone'[m].st \in CheckedOut /\ clone'[m].head = remote /\ remote' = remote
    BY <1>2, <1>3, <1>5 DEF CheckedOut
  <2>3. Forked(clone'[m].head, remote', m, Len(remote))
    BY <2>1, <2>2
  <2> QED
    BY <1>1, <2>2, <2>3 DEF Branched
<1>8. Grown(m)'
  BY <1>1, <1>2, <1>3, <1>5 DEF Grown, Sound, Tops, Copies
<1>9. Vouching(m)'
  BY <1>1, <1>3, <1>5 DEF Vouching, Pushing, Working, Sound
<1>10. Vouched(m)'
  BY <1>1, <1>5, SameVouched
<1>11. Indexed(m)'
  BY <1>1, <1>2, <1>3, <1>5 DEF Indexed, Held, Sound, Whole
<1> QED
  BY <1>5, <1>6, <1>7, <1>8, <1>9, <1>10, <1>11, Alone DEF Sound

(* ... and its files.                                                      *)
LEMMA CloneFilesStep ==
  ASSUME Inv, NEW m \in Machines, CloneFiles(m)
  PROVE  Inv'
<1> DEFINE c == [clone[m] EXCEPT !.st = "done", !.work = Committed(m)]
<1>1. /\ Typed /\ Sound(m) /\ clone[m] \in Clones /\ op[m] \in Ops
      /\ Committed(m) = Tip(clone[m].head, m) /\ Committed(m) \in Trees
      /\ clone[m].head \in Seq(Commits)
  BY Parts DEF Inv, Committed
<1>2. /\ c \in Clones /\ c.st = "done" /\ c.head = clone[m].head /\ c.work = Tip(clone[m].head, m)
      /\ c.ref = clone[m].ref /\ c.mid = clone[m].mid /\ c.ok = clone[m].ok
  BY <1>1 DEF Clones
<1>3. /\ clone' = [clone EXCEPT ![m] = c] /\ op' = [op EXCEPT ![m] = op[m]]
      /\ UNCHANGED <<disk, known, tombs, remote, replica, shipped, buried, torn, changes, faults>>
      /\ clone[m].st = "checkout" /\ op[m].pc = "clone"
  BY <1>1 DEF CloneFiles, At, Local, world, history, Typed
<1> HIDE DEF c
<1>4. /\ Typed' /\ Apart(m) /\ clone'[m] = c /\ op'[m] = op[m]
      /\ replica'[m] = replica[m] /\ shipped'[m] = shipped[m] /\ buried'[m] = buried[m]
  BY <1>1, <1>2, <1>3, OpTyped
<1>5. Whole(m)'
  BY <1>1, <1>2, <1>3, <1>4 DEF Whole, Sound, Working
<1>6. Branched(m)'
  BY <1>1, <1>2, <1>3, <1>4 DEF Branched, Sound, CheckedOut
<1>7. Grown(m)'
  <2> DEFINE tip == Tip(clone[m].head, m)
  <2>1. Grown(m)
    BY <1>1 DEF Sound
  <2>2. tip \in Dirs(clone[m].head, m) \/ tip = NoFiles
    BY <1>1, TipType
  <2>3. \A s \in Own(m) : NoFiles[s] = 0
    BY DEF NoFiles, Own
  <2> HIDE DEF tip
  <2>4. Copies({tip}, m)
    BY <2>1, <2>2, <2>3 DEF Grown, Copies
  <2> QED
    BY <1>2, <1>3, <1>4, <2>1, <2>4 DEF Grown, Tops, Copies, tip
<1>8. Vouching(m)'
  BY <1>1, <1>3, <1>4 DEF Vouching, Pushing, Working, Sound
<1>9. Vouched(m)'
  BY <1>1, <1>4, SameVouched
<1>10. Indexed(m)'
  BY <1>1, <1>2, <1>3, <1>4 DEF Indexed, Held, Sound, CheckedOut
<1> QED
  BY <1>4, <1>5, <1>6, <1>7, <1>8, <1>9, <1>10, Alone DEF Sound

(* A transcript is copied: the clone had no later version of it.           *)
LEMMA CopyStep ==
  ASSUME Inv, NEW m \in Machines, CopyFile(m)
  PROVE  Inv'
<1>1. /\ Typed /\ Sound(m) /\ clone[m] \in Clones /\ op[m] \in Ops
      /\ clone[m].work \in Trees /\ op[m].goal \in Trees /\ disk \in Trees
      /\ Dirs(clone[m].head, m) \subseteq Trees
  BY Parts DEF Inv, Typed
<1>2. PICK s \in op[m].todo : /\ clone' = [clone EXCEPT ![m].work[s] = Copied(m, s)]
                              /\ op' = [op EXCEPT ![m].todo = @ \ {s}, ![m].goal[s] = disk[s]]
  BY DEF CopyFile
<1> DEFINE work == [clone[m].work EXCEPT ![s] = Copied(m, s)]
           goal == [op[m].goal EXCEPT ![s] = disk[s]]
           c == [clone[m] EXCEPT !.work = work]
           o == [op[m] EXCEPT !.todo = @ \ {s}, !.goal = goal]
<1>3. /\ s \in Own(m) /\ s \in Sessions /\ disk[s] \in 0 .. Longest[s] /\ disk[s] \in Nat
      /\ Copied(m, s) \in 0 .. Longest[s] /\ Copied(m, s) \in Nat
      /\ op[m].pc = "copy" /\ Copied(m, s) = IF disk[s] > 0 THEN disk[s] ELSE clone[m].work[s]
  BY <1>1, TreesType DEF Sound, Whole, Own, Copied, CopyFile, At
<1>4. work \in Trees /\ goal \in Trees
  BY <1>1, <1>3, TreesType
<1>5. /\ \A r \in Sessions : work[r] = IF r = s THEN Copied(m, s) ELSE clone[m].work[r]
      /\ \A r \in Sessions : goal[r] = IF r = s THEN disk[s] ELSE op[m].goal[r]
  BY <1>1 DEF Trees
<1> HIDE DEF work, goal
<1>6. /\ c \in Clones /\ c.st = clone[m].st /\ c.head = clone[m].head /\ c.work = work
      /\ c.ref = clone[m].ref /\ c.mid = clone[m].mid /\ c.ok = clone[m].ok
  BY <1>1, <1>4 DEF Clones
<1>7. /\ o \in Ops /\ o.pc = op[m].pc /\ o.kind = op[m].kind /\ o.try = op[m].try
      /\ o.todo \subseteq op[m].todo /\ o.tombs = op[m].tombs /\ o.goal = goal
  BY <1>1, <1>4 DEF Ops
<1>8. /\ clone' = [clone EXCEPT ![m] = c] /\ op' = [op EXCEPT ![m] = o]
      /\ UNCHANGED <<disk, known, tombs, remote, replica, shipped, buried, torn, changes, faults>>
  <2>1. clone' = [clone EXCEPT ![m] = c]
    BY <1>1, <1>2 DEF work, Typed
  <2>2. op' = [op EXCEPT ![m] = o]
    BY <1>1, <1>2 DEF goal, Typed
  <2>3. UNCHANGED <<disk, known, tombs, remote, replica, shipped, buried, torn, changes, faults>>
    BY DEF CopyFile, Local, world, history
  <2> QED
    BY <2>1, <2>2, <2>3
<1> HIDE DEF c, o
<1>9. /\ Typed' /\ Apart(m) /\ clone'[m] = c /\ op'[m] = o
      /\ replica'[m] = replica[m] /\ shipped'[m] = shipped[m] /\ buried'[m] = buried[m]
  BY <1>1, <1>6, <1>7, <1>8, OpTyped
<1>10. disk' = disk /\ known' = known /\ tombs' = tombs /\ remote' = remote /\ torn' = torn
  BY <1>8
<1>11. Whole(m)'
  BY <1>1, <1>6, <1>7, <1>9, <1>10 DEF Whole, Sound
<1>12. Branched(m)' /\ Vouched(m)' /\ Indexed(m)'
  BY <1>1, <1>6, <1>9, <1>10, SameVouched DEF Branched, Indexed, Held, Sound
<1>13. Grown(m)'
  <2>1. Grown(m)
    BY <1>1 DEF Sound
  <2>2. Copies({work}, m)
    <3> SUFFICES ASSUME NEW r \in Own(m)
                 PROVE  work[r] = 0 \/ (r \in known /\ (disk[r] = 0 \/ work[r] <= disk[r]))
      BY DEF Copies
    <3>1. r \in Sessions /\ disk[r] \in Nat /\ clone[m].work[r] \in Nat
      BY <1>1, TreesType DEF Own
    <3>2. disk[r] > 0 => r \in known
      BY <1>1, <3>1 DEF Typed
    <3>3. clone[m].work[r] = 0 \/ (r \in known /\ (disk[r] = 0 \/ clone[m].work[r] <= disk[r]))
      BY <2>1 DEF Grown, Copies
    <3> QED
      BY <1>3, <1>5, <3>1, <3>2, <3>3
  <2>3. ASSUME clone[m].st = "done" PROVE Tops(work, Dirs(clone[m].head, m), m)
    <3> SUFFICES ASSUME NEW d \in Dirs(clone[m].head, m), NEW r \in Own(m) \ tombs
                 PROVE  d[r] <= work[r]
      BY DEF Tops
    <3>1. r \in Sessions /\ disk[r] \in Nat /\ clone[m].work[r] \in Nat /\ d[r] \in Nat
      BY <1>1, TreesType DEF Own
    <3>2. d[r] <= clone[m].work[r]
      BY <2>1, <2>3 DEF Grown, Tops
    <3>3. d[r] = 0 \/ disk[r] = 0 \/ d[r] <= disk[r]
      BY <2>1 DEF Grown, Copies
    <3> QED
      BY <1>3, <1>5, <3>1, <3>2, <3>3
  <2> QED
    BY <1>6, <1>9, <1>10, <2>1, <2>2, <2>3 DEF Grown, Tops, Copies
<1>14. Vouching(m)'
  <2>1. Vouching(m)
    BY <1>1 DEF Sound
  <2>2. \A r \in Foreign(m) : goal[r] = 0
    BY <1>3, <1>5, <2>1 DEF Vouching, Foreign, Own
  <2>3. ASSUME NEW r \in Own(m) \ tombs PROVE goal[r] <= work[r]
    <3>1. r \in Sessions /\ disk[r] \in Nat /\ clone[m].work[r] \in Nat /\ op[m].goal[r] \in Nat
      BY <1>1, TreesType DEF Own
    <3>2. op[m].goal[r] <= clone[m].work[r]
      BY <1>3, <2>1 DEF Vouching, Goal
    <3> QED
      BY <1>3, <1>5, <3>1, <3>2
  <2> QED
    BY <1>3, <1>6, <1>7, <1>9, <1>10, <2>1, <2>2, <2>3 DEF Vouching, Pushing, Goal, Working
<1> QED
  BY <1>9, <1>11, <1>12, <1>13, <1>14, Alone DEF Sound

(* The commit: the directory as it is in the files.                        *)
LEMMA CommitStep ==
  ASSUME Inv, NEW m \in Machines, CommitStaged(m)
  PROVE  Inv'
<1> DEFINE e == [Commit(m, clone[m].work) EXCEPT !.drops = Dropped(m)]
           head == Append(clone[m].head, e)
           c == [clone[m] EXCEPT !.staged = FALSE, !.st = "done", !.head = head]
           o == [op[m] EXCEPT !.pc = "push"]
<1>1. /\ Typed /\ Sound(m) /\ clone[m] \in Clones /\ op[m] \in Ops
      /\ clone[m].work \in Trees /\ clone[m].head \in Seq(Commits)
  BY Parts DEF Inv, Typed
<1>2. op[m].pc = "commit" /\ clone[m].st = "done" /\ op[m].kind = "push"
  BY <1>1 DEF CommitStaged, At, Sound, Whole, Working
<1>3. e \in Commits /\ e.by = m /\ e.dir = clone[m].work
  BY <1>1, <1>2 DEF Commit, Dropped, Commits
<1>4. /\ op' = [op EXCEPT ![m] = o]
      /\ clone' = [clone EXCEPT ![m] = c]
      /\ UNCHANGED <<disk, known, tombs, remote, replica, shipped, buried, torn, changes, faults>>
  <2>1. op' = [op EXCEPT ![m] = o]
    BY <1>1 DEF CommitStaged, Go, Typed
  <2>2. clone' = [clone EXCEPT ![m] = c]
    BY <1>1 DEF CommitStaged, Typed
  <2>3. UNCHANGED <<disk, known, tombs, remote, replica, shipped, buried, torn, changes, faults>>
    BY DEF CommitStaged, Local, world, history
  <2> QED
    BY <2>1, <2>2, <2>3
<1> HIDE DEF e
<1>5. /\ head \in Seq(Commits) /\ Tip(head, m) = clone[m].work
      /\ Dirs(head, m) = Dirs(clone[m].head, m) \cup {clone[m].work}
      /\ \A n \in Machines \ {m} : Dirs(head, n) = Dirs(clone[m].head, n)
      /\ \A k \in Nat : Forked(clone[m].head, remote, m, k) => Forked(head, remote, m, k)
  BY <1>1, <1>3, ForkAppend DEF Typed
<1> HIDE DEF head
<1>6. /\ c \in Clones /\ c.st = "done" /\ c.head = head /\ c.work = clone[m].work
      /\ c.ref = clone[m].ref /\ c.mid = clone[m].mid /\ c.ok = clone[m].ok
  BY <1>1, <1>5 DEF Clones
<1>7. /\ o \in Ops /\ o.pc = "push" /\ o.kind = op[m].kind /\ o.try = op[m].try
      /\ o.todo = op[m].todo /\ o.tombs = op[m].tombs /\ o.goal = op[m].goal
  BY <1>1 DEF Ops
<1> HIDE DEF c, o
<1>8. /\ Typed' /\ Apart(m) /\ clone'[m] = c /\ op'[m] = o
      /\ replica'[m] = replica[m] /\ shipped'[m] = shipped[m] /\ buried'[m] = buried[m]
  BY <1>1, <1>4, <1>6, <1>7, OpTyped
<1>9. disk' = disk /\ known' = known /\ tombs' = tombs /\ remote' = remote /\ torn' = torn
  BY <1>4
<1>10. Whole(m)'
  BY <1>1, <1>2, <1>6, <1>7, <1>8, <1>9 DEF Whole, Sound, Working
<1>11. Branched(m)'
  <2>1. PICK k \in Nat : Forked(clone[m].head, remote, m, k)
    BY <1>1, <1>2 DEF Sound, Branched, CheckedOut
  <2>2. Forked(head, remote, m, k)
    BY <1>5, <2>1
  <2> QED
    BY <1>6, <1>8, <1>9, <2>2 DEF Branched, CheckedOut
<1>12. Grown(m)'
  <2>1. Grown(m)
    BY <1>1 DEF Sound
  <2>2. \A r \in Own(m) : clone[m].work[r] \in Nat
    BY <1>1, TreesType DEF Own
  <2>3. Tops(clone[m].work, Dirs(head, m), m) /\ Copies(Dirs(head, m), m)
    BY <1>2, <1>5, <2>1, <2>2 DEF Grown, Tops, Copies
  <2> QED
    BY <1>5, <1>6, <1>8, <1>9, <2>1, <2>3 DEF Grown, Tops, Copies
<1>13. Vouching(m)'
  BY <1>1, <1>2, <1>5, <1>6, <1>7, <1>8, <1>9 DEF Vouching, Pushing, Goal, Cleared, Working, Sound
<1>14. Vouched(m)'
  BY <1>1, <1>8, SameVouched
<1>15. Indexed(m)'
  <2>1. \A s \in replica[m] : Owner[s] \in Machines \ {m}
    BY <1>1, ArchiveAssumption DEF Sound, Whole, Foreign, Own
  <2>2. Indexed(m)
    BY <1>1 DEF Sound
  <2> QED
    BY <1>2, <1>5, <1>6, <1>8, <1>9, <2>1, <2>2 DEF Indexed, Held, CheckedOut
<1> QED
  BY <1>8, <1>10, <1>11, <1>12, <1>13, <1>14, <1>15, Alone DEF Sound

(* With nothing left to push, the remote has what the clone committed.     *)
LEMMA NothingAhead ==
  ASSUME Typed, NEW m \in Machines, Sound(m), clone[m].st = "done", ~AheadOfRemote(m)
  PROVE  Tip(clone[m].head, m) = Tip(remote, m)
<1>1. /\ clone[m].head \in Seq(Commits) /\ remote \in Seq(Commits) /\ clone[m].ref \in Nat
      /\ clone[m].ref <= Len(remote)
  BY Parts DEF Sound, Whole
<1>2. PICK k \in Nat : Forked(clone[m].head, remote, m, k)
  BY DEF Sound, Branched, CheckedOut
<1>3. k = Len(clone[m].head)
  <2>1. CASE clone[m].head = <<>>
    <3>1. Len(clone[m].head) = 0
      BY <2>1, EmptySeq
    <3> QED
      BY <1>2, <3>1 DEF Forked
  <2>2. CASE clone[m].head # <<>>
    <3>1. Beyond(clone[m].head, SubSeq(remote, 1, clone[m].ref)) = <<>>
      BY <2>2 DEF AheadOfRemote, Stranded, Fetched
    <3> QED
      BY <1>1, <1>2, <3>1, NothingBeyond
  <2> QED
    BY <2>1, <2>2
<1> QED
  BY <1>1, <1>2, <1>3, ForkBehind

(* The deleted transcripts are taken out of the files.                     *)
LEMMA RemovedType ==
  ASSUME Typed, NEW m \in Machines
  PROVE  /\ Removed(m) \in Trees
         /\ \A s \in Sessions : Removed(m)[s] = IF s \in op[m].tombs THEN 0 ELSE clone[m].work[s]
<1>1. clone[m].work \in Trees
  BY Parts
<1>2. \A s \in Sessions : Removed(m)[s] = IF s \in op[m].tombs THEN 0 ELSE clone[m].work[s]
  BY DEF Removed
<1>3. ASSUME NEW s \in Sessions PROVE Removed(m)[s] \in 0 .. Longest[s]
  <2>1. clone[m].work[s] \in 0 .. Longest[s] /\ NoFiles[s] \in 0 .. Longest[s] /\ NoFiles[s] = 0
    BY <1>1, TreesType DEF NoFiles
  <2> QED
    BY <1>2, <2>1
<1>4. Removed(m) \in [Sessions -> UNION {0 .. Longest[s] : s \in Sessions}]
  BY <1>3 DEF Removed
<1> QED
  BY <1>2, <1>3, <1>4, ArchiveAssumption DEF Trees

LEMMA StageStep ==
  ASSUME Inv, NEW m \in Machines, Stage(m)
  PROVE  Inv'
<1> DEFINE changed == Removed(m) # Committed(m)
           work == Removed(m)
           c == [clone[m] EXCEPT !.work = work, !.staged = changed]
           commit == [op[m] EXCEPT !.pc = "commit"]
           push == [op[m] EXCEPT !.pc = "push"]
<1>1. /\ Typed /\ Sound(m) /\ clone[m] \in Clones /\ op[m] \in Ops
      /\ clone[m].work \in Trees /\ op[m].goal \in Trees /\ op[m].tombs \subseteq Sessions
  BY Parts DEF Inv, Typed
<1>2. op[m].pc = "copy" /\ clone[m].st = "done" /\ op[m].kind = "push" /\ op[m].tombs \subseteq tombs
  BY <1>1 DEF Stage, At, Sound, Whole, Working
<1>3. /\ work \in Trees
      /\ \A s \in Sessions : work[s] = IF s \in op[m].tombs THEN 0 ELSE clone[m].work[s]
  BY <1>1, RemovedType
<1>4. /\ clone' = [clone EXCEPT ![m] = c]
      /\ UNCHANGED <<disk, known, tombs, remote, replica, torn, changes, faults>>
      /\ \/ changed /\ op' = [op EXCEPT ![m] = commit] /\ UNCHANGED <<shipped, buried>>
         \/ ~changed /\ op' = [op EXCEPT ![m] = push] /\ UNCHANGED <<shipped, buried>>
         \/ ~changed /\ ~AheadOfRemote(m) /\ StampPush(m)
  <2>1. clone' = [clone EXCEPT ![m] = c]
    BY <1>1 DEF Stage, Typed
  <2>2. UNCHANGED <<disk, known, tombs, remote, replica, torn, changes, faults>>
    BY DEF Stage, Local, world
  <2>3. \/ changed /\ Go(m, "commit") /\ UNCHANGED history
        \/ ~changed /\ Go(m, "push") /\ UNCHANGED history
        \/ ~changed /\ ~AheadOfRemote(m) /\ StampPush(m)
    BY Zenon DEF Stage
  <2> QED
    BY <2>1, <2>2, <2>3 DEF Go, history
<1>5. ~changed => work = Tip(clone[m].head, m)
  BY DEF Committed
<1>7. /\ c \in Clones /\ c.st = clone[m].st /\ c.head = clone[m].head /\ c.work = work
      /\ c.ref = clone[m].ref /\ c.mid = clone[m].mid /\ c.ok = clone[m].ok
  <2> HIDE DEF changed, work
  <2>1. changed \in BOOLEAN
    BY DEF changed
  <2> QED
    BY <1>1, <1>3, <2>1 DEF Clones
<1> HIDE DEF c, work, changed
<1>8. \A s \in Own(m) \ tombs : work[s] = clone[m].work[s]
  BY <1>2, <1>3 DEF Own
<1>9. Goal(m, work) /\ Cleared(m, work) /\ \A s \in Foreign(m) : op[m].goal[s] = 0
  <2>1. Goal(m, clone[m].work)
    BY <1>1, <1>2 DEF Sound, Vouching
  <2>2. Goal(m, work)
    BY <1>8, <2>1 DEF Goal
  <2>3. Cleared(m, work)
    BY <1>3 DEF Cleared, Own
  <2> QED
    BY <1>1, <2>2, <2>3 DEF Sound, Vouching
<1>10. Tops(work, Dirs(clone[m].head, m), m) /\ Copies({work}, m)
  <2>1. Tops(clone[m].work, Dirs(clone[m].head, m), m) /\ Copies({clone[m].work}, m)
    BY <1>1, <1>2 DEF Sound, Grown
  <2>2. Tops(work, Dirs(clone[m].head, m), m)
    BY <1>8, <2>1 DEF Tops
  <2>3. Copies({work}, m)
    BY <1>3, <2>1 DEF Copies, Own
  <2> QED
    BY <2>2, <2>3
(* What is the same, whatever the push does next.                          *)
<1>11. ASSUME NEW o \in Ops, NEW goal \in Trees, NEW gone \in SUBSET Sessions, gone \subseteq tombs,
              op' = [op EXCEPT ![m] = o], shipped' = [shipped EXCEPT ![m] = goal],
              buried' = [buried EXCEPT ![m] = gone],
              o.try < MaxPushAttempts, o.todo \subseteq Own(m), o.tombs \subseteq tombs,
              o.pc \in {"commit", "push", "idle"}, o.pc # "idle" => o.kind = "push"
       PROVE  /\ Typed' /\ Apart(m) /\ Whole(m)' /\ Branched(m)' /\ Grown(m)' /\ Indexed(m)'
              /\ clone'[m].work = work /\ clone'[m].head = clone[m].head
              /\ op'[m] = o /\ shipped'[m] = goal /\ buried'[m] = gone
              /\ tombs' = tombs /\ remote' = remote
  <2>0. PICK y \in Clones : y = c
    BY <1>7
  <2>1. /\ Typed' /\ Apart(m) /\ clone'[m] = c /\ op'[m] = o
        /\ replica'[m] = replica[m] /\ shipped'[m] = goal /\ buried'[m] = gone
    <3>1. clone' = [clone EXCEPT ![m] = y]
      BY <1>4, <2>0
    <3>2. changes' \in 0 .. MaxChanges /\ faults' \in 0 .. MaxFaults /\ torn' = torn
      BY <1>1, <1>4 DEF Typed
    <3>3. UNCHANGED <<disk, known, tombs, remote, replica>>
      BY <1>4
    <3>4. /\ Typed' /\ Apart(m) /\ clone'[m] = y /\ op'[m] = o
          /\ replica'[m] = replica[m] /\ shipped'[m] = goal /\ buried'[m] = gone
      <4>1. /\ Typed /\ op' = [op EXCEPT ![m] = o] /\ shipped' = [shipped EXCEPT ![m] = goal]
            /\ buried' = [buried EXCEPT ![m] = gone] /\ torn' \in {torn, torn \ {m}, torn \cup {m}}
        BY <1>1, <1>11, <3>2
      <4> QED
        BY <3>1, <3>2, <3>3, <4>1, OwnStep
    <3> QED
      BY <2>0, <3>4
  <2>2. disk' = disk /\ known' = known /\ tombs' = tombs /\ remote' = remote /\ torn' = torn
    BY <1>4
  <2>3. Whole(m)'
    BY <1>1, <1>2, <1>7, <1>11, <2>1, <2>2 DEF Whole, Sound, Working
  <2>4. Branched(m)' /\ Indexed(m)'
    BY <1>1, <1>7, <2>1, <2>2 DEF Branched, Indexed, Held, Sound
  <2>5. Grown(m)'
    BY <1>1, <1>2, <1>7, <1>10, <2>1, <2>2 DEF Grown, Tops, Copies, Sound
  <2> QED
    BY <1>7, <2>1, <2>2, <2>3, <2>4, <2>5
<1>12. /\ shipped[m] \in Trees /\ buried[m] \in SUBSET Sessions /\ buried[m] \subseteq tombs
       /\ shipped = [shipped EXCEPT ![m] = shipped[m]] /\ buried = [buried EXCEPT ![m] = buried[m]]
       /\ op[m].try < MaxPushAttempts /\ op[m].todo \subseteq Own(m) /\ buried[m] \subseteq op[m].tombs
  BY <1>1, <1>2 DEF Typed, Sound, Whole, Vouching, Working
<1>13. CASE changed /\ op' = [op EXCEPT ![m] = commit] /\ UNCHANGED <<shipped, buried>>
  <2>1. /\ commit \in Ops /\ commit.pc = "commit" /\ commit.kind = "push" /\ commit.try = op[m].try
        /\ commit.todo = op[m].todo /\ commit.tombs = op[m].tombs /\ commit.goal = op[m].goal
    BY <1>1, <1>2 DEF Ops
  <2> HIDE DEF commit
  <2>2. /\ Typed' /\ Apart(m) /\ Whole(m)' /\ Branched(m)' /\ Grown(m)' /\ Indexed(m)'
        /\ clone'[m].work = work /\ clone'[m].head = clone[m].head
        /\ op'[m] = commit /\ shipped'[m] = shipped[m] /\ buried'[m] = buried[m]
        /\ tombs' = tombs /\ remote' = remote
    BY <1>2, <1>11, <1>12, <1>13, <2>1
  <2>3. Vouching(m)'
    BY <1>9, <1>12, <2>1, <2>2 DEF Vouching, Pushing, Goal, Cleared, Working
  <2> QED
    BY <1>1, <2>2, <2>3, SameVouched, Alone DEF Sound
<1>14. CASE ~changed /\ op' = [op EXCEPT ![m] = push] /\ UNCHANGED <<shipped, buried>>
  <2>1. /\ push \in Ops /\ push.pc = "push" /\ push.kind = "push" /\ push.try = op[m].try
        /\ push.todo = op[m].todo /\ push.tombs = op[m].tombs /\ push.goal = op[m].goal
    BY <1>1, <1>2 DEF Ops
  <2> HIDE DEF push
  <2>2. /\ Typed' /\ Apart(m) /\ Whole(m)' /\ Branched(m)' /\ Grown(m)' /\ Indexed(m)'
        /\ clone'[m].work = work /\ clone'[m].head = clone[m].head
        /\ op'[m] = push /\ shipped'[m] = shipped[m] /\ buried'[m] = buried[m]
        /\ tombs' = tombs /\ remote' = remote
    BY <1>2, <1>11, <1>12, <1>14, <2>1
  <2>3. Vouching(m)'
    BY <1>5, <1>9, <1>12, <1>14, <2>1, <2>2 DEF Vouching, Pushing, Goal, Cleared, Working
  <2> QED
    BY <1>1, <2>2, <2>3, SameVouched, Alone DEF Sound
<1>15. CASE ~changed /\ ~AheadOfRemote(m) /\ StampPush(m)
  <2> HIDE DEF commit, push
  <2>1. /\ NoOp \in Ops /\ NoOp.pc = "idle" /\ NoOp.try = 0 /\ NoOp.goal = NoFiles
        /\ NoOp.todo = {} /\ NoOp.tombs = {}
    BY EmptyTypes DEF NoOp
  <2>2. /\ op' = [op EXCEPT ![m] = NoOp] /\ shipped' = [shipped EXCEPT ![m] = op[m].goal]
        /\ buried' = [buried EXCEPT ![m] = op[m].tombs]
    BY <1>15 DEF StampPush, Finish
  <2>3. 0 < MaxPushAttempts /\ NoOp.todo \subseteq Own(m) /\ NoOp.tombs \subseteq tombs
    BY <2>1, ArchiveAssumption
  <2>4. /\ Typed' /\ Apart(m) /\ Whole(m)' /\ Branched(m)' /\ Grown(m)' /\ Indexed(m)'
        /\ clone'[m].work = work /\ clone'[m].head = clone[m].head
        /\ op'[m] = NoOp /\ shipped'[m] = op[m].goal /\ buried'[m] = op[m].tombs
        /\ tombs' = tombs /\ remote' = remote
    <3>1. PICK goal \in Trees : goal = op[m].goal
      BY <1>1
    <3>2. PICK gone \in SUBSET Sessions : gone = op[m].tombs
      BY <1>1
    <3>3. PICK o \in Ops : o = NoOp
      BY <2>1
    <3>4. /\ op' = [op EXCEPT ![m] = o] /\ shipped' = [shipped EXCEPT ![m] = goal]
          /\ buried' = [buried EXCEPT ![m] = gone] /\ gone \subseteq tombs
          /\ o.try < MaxPushAttempts /\ o.todo \subseteq Own(m) /\ o.tombs \subseteq tombs
          /\ o.pc = "idle"
      BY <1>2, <2>1, <2>2, <2>3, <3>1, <3>2, <3>3
    <3> QED
      BY <1>11, <3>1, <3>2, <3>3, <3>4
  <2>5. Vouching(m)'
    BY <2>1, <2>4, FreshOp DEF Working
  <2>6. work = Tip(remote, m)
    BY <1>1, <1>2, <1>5, <1>15, NothingAhead
  <2>7. Vouched(m)'
    BY <1>9, <2>4, <2>6 DEF Vouched, Goal, Cleared
  <2> QED
    BY <2>4, <2>5, <2>7, Alone DEF Sound
<1> QED
  BY <1>4, <1>13, <1>14, <1>15

(* The push that landed is stamped: it vouches for what it read.           *)
LEMMA TrackStep ==
  ASSUME Inv, NEW m \in Machines, Track(m)
  PROVE  Inv'
<1> DEFINE c == [clone[m] EXCEPT !.ref = Len(clone[m].head)]
<1>1. /\ Typed /\ Sound(m) /\ clone[m] \in Clones /\ op[m] \in Ops /\ op[m].goal \in Trees
      /\ op[m].tombs \in SUBSET Sessions /\ Len(clone[m].head) \in Nat
  BY Parts, LenProperties DEF Inv
<1>2. /\ op[m].pc = "landed" /\ clone[m].st = "done" /\ op[m].tombs \subseteq tombs
      /\ Len(clone[m].head) <= Len(remote)
  BY <1>1 DEF Track, At, Sound, Whole, Working, Vouching, Forked
<1>3. /\ c \in Clones /\ c.st = clone[m].st /\ c.head = clone[m].head /\ c.work = clone[m].work
      /\ c.ref = Len(clone[m].head) /\ c.mid = clone[m].mid /\ c.ok = clone[m].ok
  BY <1>1 DEF Clones
<1>4. /\ clone' = [clone EXCEPT ![m] = c] /\ op' = [op EXCEPT ![m] = NoOp]
      /\ shipped' = [shipped EXCEPT ![m] = op[m].goal] /\ buried' = [buried EXCEPT ![m] = op[m].tombs]
      /\ UNCHANGED <<disk, known, tombs, remote, replica, torn, changes, faults>>
  <2>1. clone' = [clone EXCEPT ![m] = c]
    BY <1>1 DEF Track, Typed
  <2> QED
    BY <2>1 DEF Track, StampPush, Finish, Local, world
<1> HIDE DEF c
<1>5. /\ NoOp \in Ops /\ NoOp.pc = "idle" /\ NoOp.try = 0 /\ NoOp.goal = NoFiles
      /\ NoOp.todo = {} /\ NoOp.tombs = {}
  BY EmptyTypes DEF NoOp
<1>6. /\ Typed' /\ Apart(m) /\ clone'[m] = c /\ op'[m] = NoOp
      /\ replica'[m] = replica[m] /\ shipped'[m] = op[m].goal /\ buried'[m] = op[m].tombs
  <2>1. changes' \in 0 .. MaxChanges /\ faults' \in 0 .. MaxFaults /\ torn' = torn
    BY <1>1, <1>4 DEF Typed
  <2>2. PICK goal \in Trees : goal = op[m].goal
    BY <1>1
  <2>3. PICK gone \in SUBSET Sessions : gone = op[m].tombs
    BY <1>1
  <2>4. PICK y \in Clones : y = c
    BY <1>3
  <2>5. PICK x \in Ops : x = NoOp
    BY <1>5
  <2>6. /\ Typed /\ clone' = [clone EXCEPT ![m] = y] /\ op' = [op EXCEPT ![m] = x]
        /\ shipped' = [shipped EXCEPT ![m] = goal]
        /\ buried' = [buried EXCEPT ![m] = gone]
        /\ UNCHANGED <<disk, known, tombs, remote, replica>>
        /\ torn' \in {torn, torn \ {m}, torn \cup {m}}
    BY <1>1, <1>4, <2>1, <2>2, <2>3, <2>4, <2>5
  <2>7. /\ Typed' /\ Apart(m) /\ clone'[m] = y /\ op'[m] = x
        /\ replica'[m] = replica[m] /\ shipped'[m] = goal /\ buried'[m] = gone
    BY <2>1, <2>6, OwnStep
  <2> QED
    BY <2>2, <2>3, <2>4, <2>5, <2>7
<1>7. tombs' = tombs /\ remote' = remote /\ torn' = torn
  BY <1>4
<1>8. Branched(m)' /\ Grown(m)' /\ Indexed(m)'
  <2>1. m \notin torn' => m \notin torn /\ clone'[m].mid = "no"
    BY <1>1, <1>3, <1>6, <1>7 DEF Indexed, Sound
  <2> QED
    BY <1>1, <1>3, <1>6, <2>1, SteadyClone DEF Steady
<1>9. Vouching(m)'
  BY <1>5, <1>6, FreshOp DEF Working
<1>10. Vouched(m)'
  BY <1>1, <1>2, <1>6, <1>7 DEF Vouched, Vouching, Sound, Goal, Cleared
<1>11. Whole(m)'
  BY <1>1, <1>2, <1>3, <1>5, <1>6, <1>7, ArchiveAssumption DEF Whole, Sound, Working
<1> QED
  BY <1>6, <1>8, <1>9, <1>10, <1>11, Alone DEF Sound

LEMMA RejectStep ==
  ASSUME Inv, NEW m \in Machines, Reject(m)
  PROVE  Inv'
<1> DEFINE next == op[m].try + 1
           o == [op[m] EXCEPT !.pc = "rebase", !.try = next]
<1>1. Typed /\ Sound(m) /\ clone[m] \in Clones /\ op[m] \in Ops /\ op[m].try \in Nat
  BY Parts DEF Inv
<1>2. /\ op[m].pc = "push" /\ op[m].kind = "push" /\ clone[m].st = "done"
      /\ clone[m].mid \in {"no", "ff"} /\ op[m].try < MaxPushAttempts
  BY <1>1 DEF Reject, At, Sound, Whole, Working
<1>3. /\ clone' = clone /\ clone' = [clone EXCEPT ![m] = clone[m]]
      /\ UNCHANGED <<disk, known, tombs, remote, replica, shipped, buried, torn, changes, faults>>
  BY <1>1 DEF Reject, Local, world, history, Typed
<1>4. CASE op' = [op EXCEPT ![m] = NoOp]
  BY <1>1, <1>3, <1>4, EndStep DEF Typed
<1>5. CASE op[m].try + 1 # MaxPushAttempts /\ op' = [op EXCEPT ![m] = o]
  <2>0. next \in Nat /\ next = op[m].try + 1
    BY <1>1
  <2> HIDE DEF next
  <2>1. /\ o \in Ops /\ o.pc = "rebase" /\ o.kind = "push" /\ o.try = next
        /\ o.todo = op[m].todo /\ o.tombs = op[m].tombs /\ o.goal = op[m].goal
    BY <1>1, <1>2, <2>0 DEF Ops
  <2> HIDE DEF o
  <2>2. /\ Typed' /\ Apart(m) /\ clone'[m] = clone[m] /\ op'[m] = o
        /\ replica'[m] = replica[m] /\ shipped'[m] = shipped[m] /\ buried'[m] = buried[m]
    BY <1>1, <1>3, <1>5, <2>1, OpTyped
  <2>3. tombs' = tombs /\ remote' = remote /\ torn' = torn
    BY <1>3
  <2>4. Branched(m)' /\ Grown(m)' /\ Indexed(m)' /\ Vouched(m)'
    <3>1. m \notin torn' => m \notin torn /\ clone'[m].mid = "no"
      BY <1>1, <2>2, <2>3 DEF Indexed, Sound
    <3> QED
      BY <1>1, <2>2, <3>1, SteadyClone, SameVouched DEF Steady
  <2>5. Vouching(m)'
    BY <1>1, <1>2, <2>1, <2>2, <2>3 DEF Vouching, Pushing, Goal, Cleared, Sound, Working
  <2>6. Whole(m)'
    <3>1. next < MaxPushAttempts
      BY <1>1, <1>2, <1>5, <2>0, ArchiveAssumption
    <3> QED
      BY <1>1, <1>2, <2>1, <2>2, <2>3, <3>1 DEF Whole, Sound, Working
  <2> QED
    BY <2>2, <2>4, <2>5, <2>6, Alone DEF Sound
<1> QED
  <2>1. op' = [op EXCEPT ![m].pc = "rebase", ![m].try = @ + 1] => op' = [op EXCEPT ![m] = o]
    BY <1>1 DEF Typed
  <2>2. IF op[m].try + 1 = MaxPushAttempts THEN Finish(m)
        ELSE op' = [op EXCEPT ![m].pc = "rebase", ![m].try = @ + 1]
    BY Zenon DEF Reject
  <2> HIDE DEF o
  <2> QED
    BY <1>4, <1>5, <2>1, <2>2 DEF Finish

(* What the remote lacks is put on top of it.                              *)
LEMMA RebaseStep ==
  ASSUME Inv, NEW m \in Machines, Rebase(m)
  PROVE  Inv'
<1> DEFINE head == Rebased(m)
           c == [clone[m] EXCEPT !.head = head, !.ref = Len(remote)]
           push == [op[m] EXCEPT !.pc = "push"]
           o == IF op[m].kind = "pull" THEN NoOp ELSE push
<1>1. /\ Typed /\ Sound(m) /\ clone[m] \in Clones /\ op[m] \in Ops
      /\ clone[m].head \in Seq(Commits) /\ remote \in Seq(Commits) /\ Len(remote) \in Nat
  BY Parts, LenProperties DEF Inv
<1>2. op[m].pc = "rebase" /\ clone[m].st = "done" /\ op[m].kind \in {"push", "pull"} /\ clone[m].mid = "no"
  BY <1>1 DEF Rebase, At, Sound, Whole, Working, Dirty
<1>3. /\ head \in Seq(Commits) /\ Forked(head, remote, m, Len(remote))
      /\ Tip(head, m) = Tip(clone[m].head, m) /\ Dirs(head, m) = Dirs(clone[m].head, m)
      /\ \A n \in Machines \ {m} : Dirs(head, n) = Dirs(remote, n)
  <2>1. PICK k \in Nat : Forked(clone[m].head, remote, m, k)
    BY <1>1, <1>2 DEF Sound, Branched, CheckedOut
  <2>2. head = remote \o Beyond(clone[m].head, remote)
    BY DEF Rebased
  <2> HIDE DEF head
  <2> QED
    BY <1>1, <2>1, <2>2, ForkRebase
<1>4. /\ op' = [op EXCEPT ![m] = o] /\ clone' = [clone EXCEPT ![m] = c] /\ torn' = torn \ {m}
      /\ UNCHANGED <<disk, known, tombs, remote, replica, shipped, buried, changes, faults>>
  <2>1. clone' = [clone EXCEPT ![m] = c]
    BY <1>1 DEF Rebase, Typed
  <2>2. op' = [op EXCEPT ![m] = o]
    BY <1>1 DEF Rebase, Go, Finish, Typed
  <2>3. torn' = torn \ {m} /\ UNCHANGED <<disk, known, tombs, remote, replica, shipped, buried, changes, faults>>
    BY DEF Rebase, world, history
  <2> QED
    BY <2>1, <2>2, <2>3
<1>5. /\ push \in Ops /\ push.pc = "push" /\ push.kind = op[m].kind /\ push.try = op[m].try
      /\ push.todo = op[m].todo /\ push.tombs = op[m].tombs /\ push.goal = op[m].goal
  BY <1>1 DEF Ops
<1>6. /\ NoOp \in Ops /\ NoOp.pc = "idle" /\ NoOp.try = 0 /\ NoOp.goal = NoFiles
      /\ NoOp.todo = {} /\ NoOp.tombs = {}
  BY EmptyTypes DEF NoOp
<1> HIDE DEF push, head
<1>7. o \in Ops /\ (o = NoOp \/ (o = push /\ op[m].kind = "push"))
  BY <1>2, <1>5, <1>6
<1> HIDE DEF o
<1>8. /\ c \in Clones /\ c.st = "done" /\ c.head = head /\ c.work = clone[m].work
      /\ c.ref = Len(remote) /\ c.mid = "no" /\ c.ok = clone[m].ok
  BY <1>1, <1>2, <1>3 DEF Clones
<1> HIDE DEF c
<1>9. /\ Typed' /\ Apart(m) /\ clone'[m] = c /\ op'[m] = o
      /\ replica'[m] = replica[m] /\ shipped'[m] = shipped[m] /\ buried'[m] = buried[m]
  <2>1. /\ shipped[m] \in Trees /\ buried[m] \in SUBSET Sessions
        /\ shipped' = [shipped EXCEPT ![m] = shipped[m]] /\ buried' = [buried EXCEPT ![m] = buried[m]]
        /\ changes' \in 0 .. MaxChanges /\ faults' \in 0 .. MaxFaults
    BY <1>1, <1>4 DEF Typed
  <2> QED
    BY <1>1, <1>4, <1>7, <1>8, <2>1, OwnStep
<1>10. disk' = disk /\ known' = known /\ tombs' = tombs /\ remote' = remote /\ torn' = torn \ {m}
  BY <1>4
<1>11. Branched(m)'
  <2>1. Forked(clone'[m].head, remote', m, Len(remote)) /\ clone'[m].st \in CheckedOut
    BY <1>3, <1>8, <1>9, <1>10 DEF CheckedOut
  <2> QED
    BY <1>1, <2>1 DEF Branched
<1>12. Grown(m)'
  <2>1. Grown(m)
    BY <1>1 DEF Sound
  <2> QED
    BY <1>2, <1>3, <1>8, <1>9, <1>10, <2>1 DEF Grown, Tops, Copies
<1>13. Vouched(m)'
  BY <1>1, <1>9, SameVouched
<1>14. Indexed(m)'
  <2>1. \A s \in replica[m] : Owner[s] \in Machines \ {m}
    BY <1>1, ArchiveAssumption DEF Sound, Whole, Foreign, Own
  <2>2. Indexed(m)
    BY <1>1 DEF Sound
  <2> QED
    BY <1>3, <1>8, <1>9, <1>10, <2>1, <2>2 DEF Indexed, Held
<1>15. Vouching(m)' /\ Whole(m)'
  <2>1. Whole(m) /\ Vouching(m)
    BY <1>1 DEF Sound
  <2>2. CASE o = NoOp
    <3>1. Vouching(m)'
      BY <1>6, <1>9, <2>2, FreshOp DEF Working
    <3>2. Whole(m)'
      BY <1>1, <1>6, <1>8, <1>9, <1>10, <2>1, <2>2, ArchiveAssumption DEF Whole, Working
    <3> QED
      BY <3>1, <3>2
  <2>3. CASE o = push /\ op[m].kind = "push"
    <3>1. Vouching(m)'
      BY <1>2, <1>3, <1>5, <1>8, <1>9, <1>10, <2>1, <2>3
        DEF Vouching, Pushing, Goal, Cleared, Working
    <3>2. Whole(m)'
      BY <1>1, <1>5, <1>8, <1>9, <1>10, <2>1, <2>3 DEF Whole, Working
    <3> QED
      BY <3>1, <3>2
  <2> QED
    BY <1>7, <2>2, <2>3
<1> QED
  BY <1>9, <1>11, <1>12, <1>13, <1>14, <1>15, Alone DEF Sound

LEMMA RebaseKilledStep ==
  ASSUME Inv, NEW m \in Machines, RebaseKilled(m)
  PROVE  Inv'
<1>1. /\ Typed /\ Sound(m) /\ clone[m] \in Clones /\ op[m] \in Ops /\ Len(remote) \in Nat
  BY Parts, LenProperties DEF Inv
<1>2. PICK mid \in {"ff", "rebase", "detached"} :
          clone' = [clone EXCEPT ![m].ref = Len(remote), ![m].mid = mid]
  BY DEF RebaseKilled
<1> DEFINE c == [clone[m] EXCEPT !.ref = Len(remote), !.mid = mid]
<1>3. /\ op[m].pc = "rebase" /\ clone[m].st = "done" /\ op' = [op EXCEPT ![m] = NoOp]
      /\ UNCHANGED <<disk, known, tombs, remote, replica, shipped, buried, changes>>
      /\ torn' = torn \cup {m} /\ faults' \in 0 .. MaxFaults
  <2>1. op[m].pc = "rebase" /\ clone[m].st = "done"
    BY <1>1 DEF RebaseKilled, At, Sound, Whole, Working
  <2>2. faults' \in 0 .. MaxFaults
    BY <1>1, ArchiveAssumption DEF RebaseKilled, Typed
  <2> QED
    BY <2>1, <2>2 DEF RebaseKilled, Finish, world, history
<1>4. /\ c \in Clones /\ c.st = "done" /\ c.head = clone[m].head /\ c.work = clone[m].work
      /\ c.ref = Len(remote) /\ c.mid = mid /\ c.ok = clone[m].ok
  BY <1>1, <1>3 DEF Clones
<1>5. clone' = [clone EXCEPT ![m] = c]
  BY <1>1, <1>2 DEF Typed
<1> HIDE DEF c
<1>6. /\ NoOp \in Ops /\ NoOp.pc = "idle" /\ NoOp.try = 0 /\ NoOp.goal = NoFiles
      /\ NoOp.todo = {} /\ NoOp.tombs = {}
  BY EmptyTypes DEF NoOp
<1>7. /\ Typed' /\ Apart(m) /\ clone'[m] = c /\ op'[m] = NoOp
      /\ replica'[m] = replica[m] /\ shipped'[m] = shipped[m] /\ buried'[m] = buried[m]
  <2>1. /\ shipped[m] \in Trees /\ buried[m] \in SUBSET Sessions
        /\ shipped' = [shipped EXCEPT ![m] = shipped[m]] /\ buried' = [buried EXCEPT ![m] = buried[m]]
        /\ changes' \in 0 .. MaxChanges
    BY <1>1, <1>3 DEF Typed
  <2> QED
    BY <1>1, <1>3, <1>4, <1>5, <1>6, <2>1, OwnStep
<1>8. disk' = disk /\ known' = known /\ tombs' = tombs /\ remote' = remote /\ m \in torn'
  BY <1>3
<1>9. Branched(m)' /\ Grown(m)' /\ Indexed(m)' /\ Vouched(m)'
  BY <1>1, <1>3, <1>4, <1>7, <1>8, SteadyClone, SameVouched DEF Steady
<1>10. Vouching(m)'
  BY <1>6, <1>7, FreshOp DEF Working
<1>11. Whole(m)'
  BY <1>1, <1>3, <1>4, <1>6, <1>7, <1>8, ArchiveAssumption DEF Whole, Sound, Working
<1> QED
  BY <1>7, <1>9, <1>10, <1>11, Alone DEF Sound

(* A push lands: the branch of the clone becomes the remote's.             *)
LEMMA LandFork ==
  ASSUME Typed, NEW m \in Machines, Sound(m), Land(m)
  PROVE  /\ clone[m].head \in Seq(Commits) /\ remote' = clone[m].head
         /\ Forked(clone[m].head, remote, m, Len(remote)) /\ Len(remote) <= Len(clone[m].head)
         /\ Dirs(remote, m) \subseteq Dirs(clone[m].head, m)
         /\ \A n \in Machines \ {m} : /\ Tip(clone[m].head, n) = Tip(remote, n)
                                      /\ Dirs(clone[m].head, n) = Dirs(remote, n)
<1>1. /\ clone[m].head \in Seq(Commits) /\ remote \in Seq(Commits) /\ Len(remote) \in Nat
      /\ clone[m].st = "done"
  BY Parts, LenProperties DEF Land, At, Sound, Whole, Working
<1>2. PICK k \in Nat : Forked(clone[m].head, remote, m, k)
  BY <1>1 DEF Sound, Branched, CheckedOut
<1>3. k = Len(remote)
  BY <1>1, <1>2, ForkCommon DEF Land, FastForward
<1>4. remote \o Beyond(clone[m].head, remote) = clone[m].head
  BY <1>1, <1>2, <1>3, ForkRebase
<1>5. \A n \in Machines \ {m} : /\ Tip(clone[m].head, n) = Tip(remote, n)
                                /\ Dirs(clone[m].head, n) = Dirs(remote, n)
  <2>1. \A n \in Machines \ {m} :
            /\ Tip(remote \o Beyond(clone[m].head, remote), n) = Tip(remote, n)
            /\ Dirs(remote \o Beyond(clone[m].head, remote), n) = Dirs(remote, n)
    BY <1>1, <1>2, ForkRebase
  <2> QED
    BY <1>4, <2>1
<1>6. Dirs(remote, m) \subseteq Dirs(clone[m].head, m)
  BY <1>1, <1>2, ForkBehind
<1> QED
  BY <1>1, <1>2, <1>3, <1>5, <1>6 DEF Land, Forked

LEMMA LandStep ==
  ASSUME Inv, NEW m \in Machines, Land(m)
  PROVE  Inv'
<1> DEFINE o == [op[m] EXCEPT !.pc = "landed"]
           head == clone[m].head
<1>1. /\ Typed /\ Sound(m) /\ clone[m] \in Clones /\ op[m] \in Ops /\ remote \in Seq(Commits)
      /\ Len(remote) \in Nat /\ Len(head) \in Nat
  BY Parts, LenProperties DEF Inv
<1>2. /\ head \in Seq(Commits) /\ remote' = head
      /\ Forked(head, remote, m, Len(remote)) /\ Len(remote) <= Len(head)
      /\ Dirs(remote, m) \subseteq Dirs(head, m)
      /\ \A n \in Machines \ {m} : Tip(head, n) = Tip(remote, n) /\ Dirs(head, n) = Dirs(remote, n)
  BY <1>1, LandFork
<1>3. op[m].pc = "push" /\ op[m].kind = "push" /\ clone[m].st = "done"
  BY <1>1 DEF Land, At, Sound, Whole, Working
<1>4. /\ o \in Ops /\ o.pc = "landed" /\ o.kind = op[m].kind /\ o.try = op[m].try
      /\ o.todo = op[m].todo /\ o.tombs = op[m].tombs /\ o.goal = op[m].goal
  BY <1>1 DEF Ops
<1>5. /\ op' = [op EXCEPT ![m] = o]
      /\ UNCHANGED <<disk, known, tombs, clone, replica, shipped, buried, torn, changes, faults>>
  BY <1>1 DEF Land, Go, world, history, Typed
<1> HIDE DEF o, head
<1>6. /\ op'[m] = o /\ \A n \in Machines \ {m} : op'[n] = op[n]
      /\ op' \in [Machines -> Ops]
  BY <1>1, <1>4, <1>5 DEF Typed
<1>7. Typed'
  BY <1>1, <1>2, <1>5, <1>6 DEF Typed
<1>8. \A s \in Sessions : Held(remote, s) => Held(head, s)
  <2> SUFFICES ASSUME NEW s \in Sessions, Held(remote, s) PROVE Held(head, s)
    OBVIOUS
  <2>1. Owner[s] \in Machines
    BY ArchiveAssumption
  <2>2. Dirs(remote, Owner[s]) \subseteq Dirs(head, Owner[s])
    BY <1>2, <2>1
  <2> QED
    BY <2>2 DEF Held
<1>9. Sound(m)'
  <2>1. Whole(m)'
    <3>1. Whole(m)
      BY <1>1 DEF Sound
    <3>2. clone[m].ref <= Len(remote')
      BY <1>1, <1>2, <3>1 DEF Whole, Clones
    <3> QED
      BY <1>3, <1>4, <1>5, <1>6, <3>1, <3>2 DEF Whole, Working
  <2>2. Forked(head, head, m, Len(head))
    BY <1>2, ForkSelf
  <2>3. Branched(m)'
    <3>1. Forked(clone'[m].head, remote', m, Len(head)) /\ clone'[m].st \in CheckedOut
      BY <1>2, <1>3, <1>5, <2>2 DEF CheckedOut, head
    <3> QED
      BY <1>1, <3>1 DEF Branched
  <2>4. Grown(m)'
    BY <1>1, <1>2, <1>3, <1>5 DEF Grown, Tops, Copies, Sound, head
  <2>5. Vouching(m)'
    <3>1. Goal(m, Tip(head, m)) /\ Cleared(m, Tip(head, m)) /\ Vouching(m)
      BY <1>1, <1>3 DEF Sound, Vouching, Pushing, head
    <3>2. \A s \in Foreign(m) : op'[m].goal[s] = 0
      BY <1>4, <1>6, <3>1 DEF Vouching
    <3>3. buried'[m] \subseteq op'[m].tombs
      BY <1>3, <1>4, <1>5, <1>6, <3>1 DEF Vouching, Working
    <3>4. Goal(m, Tip(remote, m))' /\ Cleared(m, Tip(remote, m))'
      BY <1>2, <1>4, <1>5, <1>6, <3>1 DEF Goal, Cleared
    <3>5. Forked(clone[m].head, remote, m, Len(clone[m].head))'
      BY <1>2, <1>5, <2>2 DEF head
    <3> QED
      BY <1>4, <1>6, <3>2, <3>3, <3>4, <3>5 DEF Vouching, Pushing
  <2>6. Vouched(m)'
    <3>1. Vouched(m) /\ Grown(m) /\ Vouching(m)
      BY <1>1 DEF Sound
    <3>2. \A s \in Own(m) \ tombs : shipped[m][s] <= Tip(head, m)[s]
      <4> SUFFICES ASSUME NEW s \in Own(m) \ tombs PROVE shipped[m][s] <= Tip(head, m)[s]
        OBVIOUS
      <4>1. /\ s \in Sessions /\ shipped[m] \in Trees /\ Tip(head, m) \in Trees /\ Tip(remote, m) \in Trees
            /\ NoFiles[s] = 0
        BY <1>1, Parts DEF Own, Typed, head, NoFiles
      <4>2. shipped[m][s] \in Nat /\ Tip(head, m)[s] \in Nat /\ Tip(remote, m)[s] \in Nat
        BY <4>1, TreesType
      <4>3. shipped[m][s] <= Tip(remote, m)[s]
        BY <3>1 DEF Vouched
      <4>4. Tip(remote, m) = NoFiles \/ Tip(remote, m) \in Dirs(head, m)
        BY <1>1, <1>2, TipType
      <4>5. Tip(remote, m)[s] <= Tip(head, m)[s]
        BY <3>1, <4>1, <4>2, <4>4 DEF Grown, Tops, head
      <4> QED
        BY <4>2, <4>3, <4>5
    <3>3. \A s \in Own(m) \cap buried[m] : Tip(head, m)[s] = 0
      BY <1>3, <3>1 DEF Vouching, Pushing, Cleared, Working, head
    <3> QED
      BY <1>2, <1>5, <3>1, <3>2, <3>3 DEF Vouched
  <2>7. Indexed(m)'
    <3>1. Indexed(m) /\ replica[m] \subseteq Sessions
      BY <1>1 DEF Sound, Typed
    <3>2. \A s \in replica[m] : Held(head, s)
      BY <1>8, <3>1 DEF Indexed
    <3> QED
      BY <1>2, <1>5, <3>1, <3>2 DEF Indexed, Held, head
  <2> QED
    BY <2>1, <2>3, <2>4, <2>5, <2>6, <2>7 DEF Sound
<1>10. ASSUME NEW n \in Machines \ {m} PROVE Sound(n)'
  <2>1. Sound(n) /\ clone[n] \in Clones /\ clone[n].head \in Seq(Commits) /\ op'[n] = op[n]
    BY <1>1, <1>6, Parts DEF Inv
  <2>2. Tip(remote', n) = Tip(remote, n) /\ Dirs(remote', n) = Dirs(remote, n)
    BY <1>2
  <2>3. \A k : Forked(clone[n].head, remote, n, k) => Forked(clone[n].head, remote', n, k)
    BY <1>1, <1>2, <2>1, ForkLand
  <2>4. Whole(n)'
    <3>1. Whole(n)
      BY <2>1 DEF Sound
    <3>2. clone[n].ref <= Len(remote')
      BY <1>1, <1>2, <2>1, <3>1 DEF Whole, Clones
    <3> QED
      BY <1>5, <2>1, <3>1, <3>2 DEF Whole
  <2>5. Branched(n)'
    <3>1. Branched(n)
      BY <2>1 DEF Sound
    <3> QED
      BY <1>5, <2>3, <3>1 DEF Branched
  <2>6. Grown(n)'
    BY <1>5, <2>1, <2>2 DEF Grown, Tops, Copies, Sound
  <2>7. Vouching(n)'
    <3>1. Vouching(n)
      BY <2>1 DEF Sound
    <3>2. Forked(clone[n].head, remote, n, Len(clone[n].head)) =>
              Forked(clone[n].head, remote, n, Len(clone[n].head))'
      BY <1>5, <2>3
    <3> QED
      BY <1>5, <2>1, <2>2, <3>1, <3>2 DEF Vouching, Pushing, Goal, Cleared
  <2>8. Vouched(n)'
    BY <1>5, <2>1, <2>2 DEF Vouched, Sound
  <2>9. Indexed(n)'
    <3>1. Indexed(n) /\ replica[n] \subseteq Sessions
      BY <1>1, <2>1 DEF Sound, Typed
    <3>2. \A s \in replica[n] : Held(head, s)
      BY <1>8, <3>1 DEF Indexed
    <3> QED
      BY <1>2, <1>5, <3>1, <3>2 DEF Indexed, Held
  <2> QED
    BY <2>4, <2>5, <2>6, <2>7, <2>8, <2>9 DEF Sound
<1> QED
  BY <1>7, <1>9, <1>10 DEF Inv

(* A transcript is written, purged, or its session deleted.                *)
LEMMA WorldStep ==
  ASSUME Inv, NEW s \in Sessions, NEW version \in 0 .. Longest[s], NEW gone \in SUBSET Sessions,
         version > disk[s] => version = disk[s] + 1 /\ (disk[s] > 0 \/ s \notin known),
         version \in {0, disk[s], disk[s] + 1},
         World(s, version, gone)
  PROVE  Inv'
<1>1. /\ Typed /\ disk \in Trees /\ disk[s] \in Nat /\ version \in Nat
      /\ \A r \in Sessions : disk[r] \in Nat
  <2>1. Typed /\ disk \in Trees /\ Longest[s] \in Nat
    BY ArchiveAssumption DEF Inv, Typed
  <2> QED
    BY <2>1, TreesType
<1>2. /\ disk' = [disk EXCEPT ![s] = version] /\ tombs' = tombs \cup gone
      /\ known' = IF version > 0 THEN known \cup {s} ELSE known
      /\ changes < MaxChanges /\ changes' = changes + 1
      /\ UNCHANGED <<remote, clone, op, replica, shipped, buried, torn, faults>>
  BY DEF World, history
<1>3. disk' \in Trees /\ \A r \in Sessions : disk'[r] = IF r = s THEN version ELSE disk[r]
  <2>1. disk' \in Trees
    BY <1>1, <1>2, TreesType
  <2> QED
    BY <1>1, <1>2, <2>1 DEF Trees
<1>4. tombs' \subseteq Sessions /\ tombs \subseteq tombs' /\ known \subseteq known' /\ known' \subseteq Sessions
  BY <1>1, <1>2 DEF Typed
<1>5. Typed'
  <2>1. \A r \in Sessions : disk'[r] > 0 => r \in known'
    BY <1>1, <1>2, <1>3 DEF Typed
  <2>2. changes' \in 0 .. MaxChanges
    BY <1>1, <1>2, ArchiveAssumption DEF Typed
  <2> QED
    BY <1>1, <1>2, <1>3, <1>4, <2>1, <2>2 DEF Typed
<1>6. ASSUME NEW m \in Machines PROVE Sound(m)'
  <2>1. Sound(m) /\ Own(m) \subseteq Sessions
    BY DEF Inv, Own
  <2>2. Whole(m)'
    BY <1>2, <1>4, <2>1 DEF Whole, Sound
  <2>3. Branched(m)'
    BY <1>2, <2>1 DEF Branched, Sound
  <2>4. ASSUME NEW dirs \in SUBSET Trees, Copies(dirs, m) PROVE Copies(dirs, m)'
    <3> SUFFICES ASSUME NEW d \in dirs, NEW r \in Own(m)
                 PROVE  d[r] = 0 \/ (r \in known' /\ (disk'[r] = 0 \/ d[r] <= disk'[r]))
      BY DEF Copies
    <3>1. d[r] \in Nat /\ r \in Sessions
      BY <2>1, TreesType
    <3>2. d[r] = 0 \/ (r \in known /\ (disk[r] = 0 \/ d[r] <= disk[r]))
      BY <2>4 DEF Copies
    <3> QED
      BY <1>1, <1>3, <1>4, <3>1, <3>2
  <2>5. Grown(m)'
    <3>1. Grown(m)
      BY <2>1 DEF Sound
    <3>2. /\ Dirs(remote, m) \subseteq Trees /\ Dirs(clone[m].head, m) \subseteq Trees
          /\ {clone[m].work} \subseteq Trees
      BY <1>1, Parts
    <3>3. /\ Copies(Dirs(remote, m), m)' /\ Copies(Dirs(clone[m].head, m), m)'
          /\ Copies({clone[m].work}, m)'
      <4> DEFINE a == Dirs(remote, m)
                 b == Dirs(clone[m].head, m)
                 c == {clone[m].work}
      <4>1. a' = a /\ b' = b /\ c' = c
        BY <1>2
      <4>2. a \in SUBSET Trees /\ b \in SUBSET Trees /\ c \in SUBSET Trees
        BY <3>2
      <4>3. Copies(a, m) /\ Copies(b, m) /\ Copies(c, m)
        BY <3>1 DEF Grown
      <4> HIDE DEF a, b, c
      <4>4. Copies(a, m)' /\ Copies(b, m)' /\ Copies(c, m)'
        <5>1. PICK x \in SUBSET Trees, y \in SUBSET Trees, z \in SUBSET Trees :
                  x = a /\ y = b /\ z = c
          BY <4>2
        <5>2. Copies(x, m)' /\ Copies(y, m)' /\ Copies(z, m)'
          BY <2>4, <4>3, <5>1
        <5> QED
          BY <4>1, <5>1, <5>2 DEF Copies
      <4> QED
        BY <4>4 DEF a, b, c
    <3> QED
      BY <1>2, <1>4, <3>1, <3>3 DEF Grown, Tops
  <2>6. Vouching(m)'
    BY <1>2, <1>4, <2>1 DEF Vouching, Pushing, Goal, Cleared, Sound
  <2>7. Vouched(m)'
    BY <1>2, <1>4, <2>1 DEF Vouched, Sound
  <2>8. Indexed(m)'
    BY <1>2, <1>4, <2>1 DEF Indexed, Held, Sound
  <2> QED
    BY <2>2, <2>3, <2>5, <2>6, <2>7, <2>8 DEF Sound
<1> QED
  BY <1>5, <1>6 DEF Inv

LEMMA WorldSteps ==
  ASSUME Inv, NEW s \in Changing, Grow(s) \/ Purge(s) \/ Delete(s)
  PROVE  Inv'
<1>1. /\ s \in Sessions /\ disk \in Trees /\ disk[s] \in 0 .. Longest[s] /\ Longest[s] \in Nat
      /\ disk[s] \in Nat
  <2>1. s \in Sessions /\ disk \in Trees /\ Longest[s] \in Nat
    BY ArchiveAssumption DEF Inv, Typed
  <2> QED
    BY <2>1, TreesType
<1>2. CASE Grow(s)
  <2>1. /\ disk[s] + 1 \in 0 .. Longest[s] /\ {} \in SUBSET Sessions /\ World(s, disk[s] + 1, {})
        /\ (disk[s] > 0 \/ s \notin known)
    BY <1>1, <1>2 DEF Grow
  <2>2. PICK v \in 0 .. Longest[s] : v = disk[s] + 1
    BY <2>1
  <2> QED
    BY <1>1, <2>1, <2>2, WorldStep
<1>3. CASE Purge(s)
  <2>1. 0 \in 0 .. Longest[s] /\ {} \in SUBSET Sessions /\ World(s, 0, {}) /\ ~(0 > disk[s])
    BY <1>1, <1>3 DEF Purge
  <2> QED
    BY <1>1, <2>1, WorldStep
<1>4. CASE Delete(s)
  <2>1. PICK v \in {0, disk[s]} : World(s, v, {s})
    BY <1>4 DEF Delete
  <2>2. v \in 0 .. Longest[s] /\ {s} \in SUBSET Sessions /\ ~(v > disk[s])
    BY <1>1
  <2> QED
    BY <1>1, <2>1, <2>2, WorldStep
<1> QED
  BY <1>2, <1>3, <1>4

(* What is indexed is in the clone, or about to be.                        *)
LEMMA ShownHeld ==
  ASSUME Typed, NEW m \in Machines, Sound(m), clone[m].st = "done", At(m, "idle"),
         NEW shown \in Shown(m), NEW s \in shown
  PROVE  /\ s \in Foreign(m) /\ Held(remote, s)
         /\ m \notin torn => Held(clone[m].head, s)
<1>1. clone[m].head \in Seq(Commits) /\ remote \in Seq(Commits)
  BY Parts
<1>2. PICK k \in Nat : Forked(clone[m].head, remote, m, k)
  BY DEF Sound, Branched, CheckedOut
<1>3. /\ s \in Foreign(m) /\ (In(clone[m].head, s) > 0 \/ In(remote, s) > 0)
      /\ ~Rewritten(m) => In(clone[m].head, s) > 0
  BY DEF Shown
<1>4. s \in Sessions /\ Owner[s] \in Machines \ {m} /\ NoFiles[s] = 0
  BY <1>3, ArchiveAssumption DEF Foreign, Own, NoFiles
<1>5. ASSUME NEW b \in Seq(Commits), In(b, s) > 0 PROVE Held(b, s)
  <2>1. Tip(b, Owner[s]) \in Dirs(b, Owner[s])
    BY <1>4, <1>5, TipType DEF In
  <2> QED
    BY <1>5, <2>1 DEF Held, In
<1>6. Dirs(clone[m].head, Owner[s]) \subseteq Dirs(remote, Owner[s])
  BY <1>1, <1>2, <1>4, ForkBehind
<1>7. Held(clone[m].head, s) => Held(remote, s)
  BY <1>6 DEF Held
<1>8. m \notin torn => ~Rewritten(m)
  BY DEF Rewritten, At, Sound, Indexed
<1> QED
  BY <1>1, <1>3, <1>5, <1>7, <1>8

LEMMA IngestStep ==
  ASSUME Inv, NEW m \in Machines, Ingest(m)
  PROVE  Inv'
<1>1. /\ Typed /\ Sound(m) /\ clone[m].st = "done" /\ At(m, "idle") /\ replica[m] \subseteq Foreign(m)
  BY DEF Inv, Ingest, Quiescent, Sound, Whole
<1>2. PICK shown \in Shown(m) : replica' = [replica EXCEPT ![m] = Reconciled(m, shown)]
  BY DEF Ingest
<1>3. UNCHANGED <<disk, known, tombs, remote, clone, op, shipped, buried, torn, changes, faults>>
  BY DEF Ingest, world, history
<1>4. \A s \in shown : Held(remote, s) /\ (m \notin torn => Held(clone[m].head, s))
  BY <1>1, ShownHeld
<1>5. /\ Reconciled(m, shown) \subseteq Foreign(m) /\ Reconciled(m, shown) \subseteq shown \cup replica[m]
  BY DEF Reconciled
<1>6. /\ replica' \in [Machines -> SUBSET Sessions] /\ replica'[m] = Reconciled(m, shown)
      /\ \A n \in Machines \ {m} : replica'[n] = replica[n]
  <2>1. Reconciled(m, shown) \in SUBSET Sessions
    BY <1>5 DEF Foreign
  <2> HIDE DEF Reconciled
  <2> QED
    BY <1>1, <1>2, <2>1 DEF Typed
<1>7. Typed'
  BY <1>1, <1>3, <1>6 DEF Typed
<1>8. Apart(m)
  BY <1>3, <1>6 DEF Apart
<1>9. Whole(m)'
  BY <1>1, <1>3, <1>5, <1>6 DEF Whole, Sound
<1>10. Branched(m)' /\ Grown(m)' /\ Vouching(m)' /\ Vouched(m)'
  BY <1>1, <1>3 DEF Branched, Grown, Tops, Copies, Vouching, Pushing, Goal, Cleared, Vouched, Sound
<1>11. Indexed(m)'
  BY <1>1, <1>3, <1>4, <1>5, <1>6 DEF Indexed, Held, Sound
<1> QED
  BY <1>7, <1>8, <1>9, <1>10, <1>11, Alone DEF Sound

-----------------------------------------------------------------------------
(* The initial states: nothing, or the clone of an older build.            *)

LEMMA MinOfTwo ==
  ASSUME NEW i \in Nat, NEW j \in Nat
  PROVE  Min({i, j}) \in {i, j} /\ Min({i, j}) <= i /\ Min({i, j}) <= j
<1> DEFINE S == {i, j}
<1>1. \E x \in S : \A y \in S : x <= y
  <2>1. CASE i <= j
    BY <2>1
  <2>2. CASE j <= i
    BY <2>2
  <2> QED
    BY <2>1, <2>2
<1>2. Min(S) \in S /\ \A y \in S : Min(S) <= y
  BY <1>1 DEF Min
<1> QED
  BY <1>2

LEMMA OneCommit ==
  ASSUME NEW e \in Commits
  PROVE  /\ <<e>> \in Seq(Commits) /\ Len(<<e>>) = 1 /\ <<e>>[1] = e /\ DOMAIN <<e>> = 1 .. 1
         /\ SubSeq(<<e>>, 1, 0) = <<>> /\ SubSeq(<<e>>, 1, 1) = <<e>>
<1>1. <<e>> \in Seq(Commits) /\ Len(<<e>>) = 1 /\ <<e>>[1] = e /\ DOMAIN <<e>> = 1 .. 1
  OBVIOUS
<1>2. SubSeq(<<e>>, 1, 0) = <<>>
  BY SubSeqEmpty
<1>3. SubSeq(<<e>>, 1, 1) = <<e>>
  <2>1. SubSeq(<<e>>, 1, Len(<<e>>)) = <<e>>
    BY <1>1, SubSeqFull
  <2> QED
    BY <1>1, <2>1
<1> QED
  BY <1>1, <1>2, <1>3

LEMMA OldCloneIs ==
  ASSUME disk \in Trees, NEW m \in Machines, NEW c \in OldClones(m)
  PROVE  /\ c \in Clones /\ c.st = "done" /\ ~c.ok /\ c.mid = "no" /\ c.ref \in {0, 1}
         /\ \E e \in Commits :
               /\ c.head = <<e>> /\ e.by = m
               /\ \A s \in Own(m) : e.dir[s] <= c.work[s] /\ e.dir[s] <= disk[s] /\ c.work[s] <= disk[s]
<1> DEFINE upTo(i) == [s \in Sessions |-> IF s \in Own(m) THEN Min({i, disk[s]}) ELSE 0]
           e == Commit(m, upTo(1))
<1>1. PICK n \in {0, 1}, w \in {upTo(1), upTo(2)} :
          c = [NoClone EXCEPT !.st = "done", !.head = <<e>>, !.ref = n, !.work = w]
  BY DEF OldClones
<1>2. ASSUME NEW i \in Nat
      PROVE  /\ upTo(i) \in Trees
             /\ \A s \in Own(m) : upTo(i)[s] \in {i, disk[s]} /\ upTo(i)[s] <= i /\ upTo(i)[s] <= disk[s]
  <2>1. ASSUME NEW s \in Own(m)
        PROVE  /\ upTo(i)[s] \in {i, disk[s]} /\ upTo(i)[s] <= i /\ upTo(i)[s] <= disk[s]
    <3>1. s \in Sessions /\ disk[s] \in Nat
      BY TreesType DEF Own
    <3>2. upTo(i)[s] = Min({i, disk[s]})
      BY <3>1
    <3> QED
      BY <3>1, <3>2, MinOfTwo
  <2>2. ASSUME NEW s \in Sessions PROVE upTo(i)[s] \in 0 .. Longest[s]
    <3>0. s \notin Own(m) => upTo(i)[s] = 0
      OBVIOUS
    <3> HIDE DEF upTo
    <3>1. disk[s] \in 0 .. Longest[s] /\ NoFiles[s] \in 0 .. Longest[s] /\ NoFiles[s] = 0
      BY TreesType DEF NoFiles
    <3>2. Longest[s] \in Nat
      BY ArchiveAssumption
    <3>3. CASE s \in Own(m)
      BY <2>1, <3>1, <3>2, <3>3
    <3>4. CASE s \notin Own(m)
      BY <3>0, <3>1, <3>4
    <3> QED
      BY <3>3, <3>4
  <2>3. upTo(i) \in [Sessions -> UNION {0 .. Longest[s] : s \in Sessions}]
    BY <2>2
  <2>4. \A s \in Sessions : upTo(i)[s] <= Longest[s]
    BY <2>2, ArchiveAssumption
  <2> HIDE DEF upTo
  <2> QED
    BY <2>1, <2>3, <2>4 DEF Trees
<1>3. \A s \in Own(m) : upTo(1)[s] <= upTo(2)[s]
  <2> SUFFICES ASSUME NEW s \in Own(m) PROVE upTo(1)[s] <= upTo(2)[s]
    OBVIOUS
  <2>1. disk[s] \in Nat
    BY TreesType DEF Own
  <2>2. upTo(1)[s] \in {1, disk[s]} /\ upTo(1)[s] <= 1 /\ upTo(1)[s] <= disk[s]
    BY <1>2
  <2>3. upTo(2)[s] \in {2, disk[s]}
    BY <1>2
  <2> HIDE DEF upTo
  <2> QED
    BY <2>1, <2>2, <2>3
<1>4. upTo(1) \in Trees /\ w \in Trees
  <2>1. upTo(1) \in Trees /\ upTo(2) \in Trees
    BY <1>2
  <2> HIDE DEF upTo
  <2> QED
    BY <2>1
<1> HIDE DEF upTo
<1>5. e \in Commits /\ e.by = m /\ e.dir = upTo(1)
  BY <1>4 DEF Commit, Commits
<1> HIDE DEF e
<1>6. <<e>> \in Seq(Commits)
  BY <1>5
<1>7. /\ c \in Clones /\ c.st = "done" /\ ~c.ok /\ c.mid = "no" /\ c.ref = n
      /\ c.head = <<e>> /\ c.work = w
  <2> DEFINE h == <<e>>
             d == [NoClone EXCEPT !.st = "done", !.head = h, !.ref = n, !.work = w]
  <2>1. NoClone \in Clones /\ ~NoClone.ok /\ NoClone.mid = "no"
    BY EmptyTypes DEF NoClone
  <2>2. c = d /\ h \in Seq(Commits) /\ n \in Nat
    BY <1>1, <1>6
  <2> HIDE DEF h
  <2>3. /\ d \in Clones /\ d.st = "done" /\ d.ok = NoClone.ok /\ d.mid = NoClone.mid /\ d.ref = n
        /\ d.head = h /\ d.work = w
    BY <1>4, <2>1, <2>2 DEF Clones
  <2> HIDE DEF d
  <2> QED
    BY <2>1, <2>2, <2>3 DEF h
<1>8. \A s \in Own(m) : e.dir[s] <= c.work[s] /\ e.dir[s] <= disk[s] /\ c.work[s] <= disk[s]
  <2> SUFFICES ASSUME NEW s \in Own(m)
               PROVE  e.dir[s] <= c.work[s] /\ e.dir[s] <= disk[s] /\ c.work[s] <= disk[s]
    OBVIOUS
  <2>1. s \in Sessions /\ upTo(1)[s] \in Nat
    BY <1>4, TreesType DEF Own
  <2>2. upTo(1)[s] <= disk[s] /\ upTo(2)[s] <= disk[s]
    BY <1>2
  <2> QED
    BY <1>1, <1>3, <1>5, <1>7, <2>1, <2>2
<1> QED
  BY <1>5, <1>7, <1>8

LEMMA InitInv == Init => Inv
<1> SUFFICES ASSUME Init PROVE Inv
  OBVIOUS
<1>1. disk \in Trees /\ \A m \in Machines : clone[m] = NoClone \/ clone[m] \in OldClones(m)
  BY DEF Init
<1>2. \A m, n \in Machines : clone[m] # NoClone /\ clone[n] # NoClone => m = n
  <2>1. PICK some \in {{}} \cup {{m} : m \in Old} :
            clone \in [Machines -> {NoClone} \cup UNION {OldClones(m) : m \in some}]
    BY DEF Init
  <2>2. some \subseteq Machines
    BY ArchiveAssumption
  <2>3. ASSUME NEW m \in Machines, clone[m] # NoClone PROVE m \in some
    <3>1. PICK n \in some : clone[m] \in OldClones(n)
      BY <2>1, <2>3
    <3>2. clone[m] \in OldClones(m)
      BY <1>1, <2>3
    <3>3. PICK e : clone[m].head = <<e>> /\ e.by = m
      BY <1>1, <3>2, OldCloneIs
    <3>4. PICK f : clone[m].head = <<f>> /\ f.by = n
      BY <1>1, <2>2, <3>1, OldCloneIs
    <3> QED
      BY <3>1, <3>3, <3>4
  <2> QED
    BY <2>1, <2>3
<1>3. /\ remote \in {<<>>} \cup {SubSeq(clone[m].head, 1, clone[m].ref) : m \in Machines}
      /\ \A m \in Machines : clone[m].ref <= Len(remote)
      /\ op = [m \in Machines |-> NoOp] /\ replica = [m \in Machines |-> {}]
      /\ shipped = [m \in Machines |-> NoFiles] /\ buried = [m \in Machines |-> {}]
      /\ torn = {} /\ changes = 0 /\ faults = 0 /\ tombs = {}
      /\ known = {s \in Sessions : disk[s] > 0}
  BY DEF Init
<1>4. /\ NoClone \in Clones /\ NoClone.head = <<>> /\ NoClone.ref = 0 /\ NoClone.st = "none"
      /\ NoClone.work = NoFiles /\ NoClone.mid = "no" /\ ~NoClone.ok
  BY EmptyTypes DEF NoClone
(* The remote is empty, or has the one commit of the one clone there is.   *)
<1>5. /\ <<>> \in Seq(Commits) /\ Len(<<>>) = 0 /\ SubSeq(<<>>, 1, 0) = <<>>
      /\ \A e \in Commits : SubSeq(<<e>>, 1, 0) = <<>> /\ SubSeq(<<e>>, 1, 1) = <<e>> /\ Len(<<e>>) = 1
  BY EmptySeq, SubSeqEmpty, OneCommit
<1>6. \/ remote = <<>>
      \/ \E n \in Machines : clone[n] # NoClone /\ remote = clone[n].head
  <2>1. ASSUME NEW n \in Machines, remote = SubSeq(clone[n].head, 1, clone[n].ref)
        PROVE  remote = <<>> \/ (clone[n] # NoClone /\ remote = clone[n].head)
    <3>1. CASE clone[n] = NoClone
      BY <1>4, <1>5, <2>1, <3>1
    <3>2. CASE clone[n] # NoClone
      <4>1. PICK e \in Commits : clone[n].head = <<e>> /\ clone[n].ref \in {0, 1}
        BY <1>1, <3>2, OldCloneIs
      <4> QED
        BY <1>5, <2>1, <3>2, <4>1
    <3> QED
      BY <3>1, <3>2
  <2> QED
    BY <1>3, <2>1
<1>7. \A m \in Machines : clone[m] \in Clones /\ clone[m].head \in Seq(Commits)
  <2>1. \A m \in Machines : clone[m] \in Clones
    BY <1>1, <1>4, OldCloneIs
  <2> QED
    BY <2>1 DEF Clones
<1>8. Typed
  <2>1. remote \in Seq(Commits)
    BY <1>5, <1>6, <1>7
  <2>2. clone \in [Machines -> Clones]
    <3>1. PICK S : clone \in [Machines -> S]
      BY DEF Init
    <3> QED
      BY <1>7, <3>1
  <2>3. op \in [Machines -> Ops] /\ shipped \in [Machines -> Trees]
    BY <1>3, EmptyTypes, TreesType
  <2>4. changes \in 0 .. MaxChanges /\ faults \in 0 .. MaxFaults
    BY <1>3, ArchiveAssumption
  <2> QED
    BY <1>1, <1>3, <2>1, <2>2, <2>3, <2>4 DEF Typed
<1>9. ASSUME NEW m \in Machines PROVE Sound(m)
  <2>1. /\ NoOp.pc = "idle" /\ NoOp.try = 0 /\ NoOp.goal = NoFiles /\ NoOp.todo = {} /\ NoOp.tombs = {}
        /\ \A s \in Sessions : NoFiles[s] = 0
    BY DEF NoOp, NoFiles
  <2>2. op[m] = NoOp /\ shipped[m] = NoFiles /\ replica[m] = {} /\ buried[m] = {}
    BY <1>3
  <2>3. Vouching(m)
    BY <2>1, <2>2 DEF Vouching, Pushing, Working, Foreign
  <2>4. Vouched(m)
    <3>1. Tip(remote, m) \in Trees
      BY <1>8, TipType DEF Typed
    <3>2. \A s \in Sessions : Tip(remote, m)[s] \in Nat
      BY <3>1, TreesType
    <3> QED
      BY <2>1, <2>2, <3>2 DEF Vouched, Foreign, Own
  <2>5. Dirs(<<>>, m) = {}
    BY <1>5 DEF Dirs
  <2>6. CASE clone[m] = NoClone
    <3>1. \A i \in DOMAIN remote : remote[i].by # m
      <4>1. CASE remote = <<>>
        BY <1>5, <4>1
      <4>2. ASSUME NEW n \in Machines, clone[n] # NoClone, remote = clone[n].head
            PROVE  \A i \in DOMAIN remote : remote[i].by # m
        <5>1. PICK e : clone[n].head = <<e>> /\ e.by = n
          BY <1>1, <4>2, OldCloneIs
        <5> QED
          BY <2>6, <4>2, <5>1
      <4> QED
        BY <1>6, <4>1, <4>2
    <3>2. Dirs(remote, m) = {}
      BY <3>1 DEF Dirs
    <3>3. Grown(m)
      BY <1>4, <2>1, <2>5, <2>6, <3>2 DEF Grown, Tops, Copies, Own
    <3>4. Whole(m)
      BY <1>3, <1>4, <2>1, <2>2, <2>6, ArchiveAssumption DEF Whole, Working
    <3>5. Branched(m) /\ Indexed(m)
      BY <1>4, <2>2, <2>6 DEF Branched, Indexed, CheckedOut
    <3> QED
      BY <2>3, <2>4, <3>3, <3>4, <3>5 DEF Sound
  <2>7. CASE clone[m] # NoClone
    <3>1. clone[m].st = "done" /\ ~clone[m].ok /\ clone[m].mid = "no" /\ clone[m].work \in Trees
      BY <1>1, <1>7, <2>7, OldCloneIs DEF Clones
    <3>2. PICK e \in Commits :
              /\ clone[m].head = <<e>> /\ e.by = m
              /\ \A s \in Own(m) : /\ e.dir[s] <= clone[m].work[s] /\ e.dir[s] <= disk[s]
                                   /\ clone[m].work[s] <= disk[s]
      BY <1>1, <2>7, OldCloneIs
    <3>3. remote = <<>> \/ remote = <<e>>
      <4>1. ASSUME NEW n \in Machines, clone[n] # NoClone PROVE n = m
        BY <1>2, <2>7, <4>1
      <4> QED
        BY <1>6, <3>2, <4>1
    <3>4. Branched(m)
      <4>1. Forked(<<e>>, <<>>, m, 0) /\ Forked(<<e>>, <<e>>, m, 1)
        BY <1>5, <3>2 DEF Forked
      <4> QED
        BY <3>1, <3>2, <3>3, <4>1 DEF Branched, CheckedOut
    <3>5. Tip(<<e>>, m) = e.dir /\ Dirs(<<e>>, m) = {e.dir}
      <4>1. /\ <<e>> \in Seq(Commits) /\ 1 \in DOMAIN <<e>> /\ <<e>>[1].by = m
            /\ \A i \in DOMAIN <<e>> : <<e>>[i].by = m => i <= 1
        BY <3>2
      <4>2. Tip(<<e>>, m) = <<e>>[1].dir
        BY <4>1, TipLast
      <4>3. Dirs(<<e>>, m) = {e.dir}
        BY <3>2 DEF Dirs
      <4> QED
        BY <4>2, <4>3
    <3>6. Grown(m)
      <4>1. \A s \in Own(m) : /\ e.dir[s] \in Nat /\ clone[m].work[s] \in Nat /\ disk[s] \in Nat
                              /\ s \in Sessions
        BY <1>1, <3>1, TreesType DEF Own, Commits
      <4>2. \A s \in Own(m) : disk[s] > 0 => s \in known
        BY <1>3, <4>1
      <4>3. Copies({e.dir}, m) /\ Copies({clone[m].work}, m) /\ Copies({}, m)
        BY <3>2, <4>1, <4>2 DEF Copies
      <4>4. Tops(clone[m].work, {e.dir}, m) /\ Tops(e.dir, {e.dir}, m) /\ Tops(Tip(<<>>, m), {}, m)
        BY <3>2, <4>1 DEF Tops
      <4> QED
        BY <2>5, <3>2, <3>3, <3>5, <4>3, <4>4 DEF Grown
    <3>7. Whole(m) /\ Indexed(m)
      BY <1>3, <2>1, <2>2, <3>1, ArchiveAssumption DEF Whole, Working, Indexed
    <3> QED
      BY <2>3, <2>4, <3>4, <3>6, <3>7 DEF Sound
  <2> QED
    BY <2>6, <2>7
<1> QED
  BY <1>8, <1>9 DEF Inv

-----------------------------------------------------------------------------
(* The invariant, and what follows from it.                                *)

LEMMA NextInv == Inv /\ [Next]_vars => Inv'
<1> SUFFICES ASSUME Inv, [Next]_vars PROVE Inv'
  OBVIOUS
<1>1. CASE UNCHANGED vars
  <2>1. /\ UNCHANGED <<disk, known, tombs, remote, clone, op, replica, shipped, buried, torn,
                       changes, faults>>
    BY <1>1 DEF vars, world, history
  <2> QED
    BY <2>1 DEF Inv, Typed, Sound, Whole, Branched, Grown, Tops, Copies, Vouching, Pushing, Goal,
                Cleared, Vouched, Indexed, Held
<1>2. CASE \E s \in Changing : Grow(s) \/ Purge(s) \/ Delete(s)
  BY <1>2, WorldSteps
<1>3. ASSUME NEW m \in Machines,
             \/ Acquire(m, "push") \/ (m \in Readers /\ Acquire(m, "pull"))
             \/ Sync(m) \/ RebaseKilled(m) \/ Stop(m) \/ Reinit(m) \/ Ingest(m)
      PROVE  Inv'
  <2>1. CASE Acquire(m, "push") \/ Acquire(m, "pull")
    BY <2>1, AcquireStep
  <2>2. CASE Sync(m)
    <3>1. CASE AbortRebase(m)
      BY <3>1, AbortStep
    <3>2. CASE UseClone(m) \/ Sentinel(m)
      BY <3>2, UseSteps
    <3>3. CASE RefuseWipe(m) \/ RebaseRefused(m)
      BY <3>3, EndSteps
    <3>4. CASE Wipe(m)
      BY <3>4, WipeStep
    <3>5. CASE CloneRefs(m)
      BY <3>5, CloneRefsStep
    <3>6. CASE CloneFiles(m)
      BY <3>6, CloneFilesStep
    <3>7. CASE CopyFile(m)
      BY <3>7, CopyStep
    <3>8. CASE Stage(m)
      BY <3>8, StageStep
    <3>9. CASE CommitStaged(m)
      BY <3>9, CommitStep
    <3>10. CASE Land(m)
      BY <3>10, LandStep
    <3>11. CASE Track(m)
      BY <3>11, TrackStep
    <3>12. CASE Reject(m)
      BY <3>12, RejectStep
    <3>13. CASE Rebase(m)
      BY <3>13, RebaseStep
    <3> QED
      BY <2>2, <3>1, <3>2, <3>3, <3>4, <3>5, <3>6, <3>7, <3>8, <3>9, <3>10, <3>11, <3>12, <3>13
        DEF Sync
  <2>3. CASE RebaseKilled(m)
    BY <2>3, RebaseKilledStep
  <2>4. CASE Stop(m)
    BY <2>4, EndSteps
  <2>5. CASE Reinit(m)
    BY <2>5, ReinitStep
  <2>6. CASE Ingest(m)
    BY <2>6, IngestStep
  <2> QED
    BY <1>3, <2>1, <2>2, <2>3, <2>4, <2>5, <2>6
<1> QED
  BY <1>1, <1>2, <1>3 DEF Next

(* The invariant the others follow from.                                   *)
THEOREM ArchiveInvariant == Spec => []Inv
<1>1. Init => Inv
  BY InitInv
<1>2. Inv /\ [Next]_vars => Inv'
  BY NextInv
<1> QED
  BY <1>1, <1>2, PTL DEF Spec

(* The state of the archive, of every clone and of every operation is well *)
(* formed: files have versions that exist, a clone is never further than   *)
(* the remote, a machine indexes only what is not its own.                 *)
THEOREM ArchiveTypes == Spec => []TypeOK
<1>1. Inv => TypeOK
  <2> SUFFICES ASSUME Inv PROVE TypeOK
    OBVIOUS
  <2>1. Typed
    BY DEF Inv
  <2>2. \A i \in DOMAIN remote : remote[i].by \in Machines /\ remote[i].dir \in Trees
    BY <2>1, CommitAt DEF Typed
  <2>3. ASSUME NEW m \in Machines
        PROVE  /\ clone[m].st \in {"none", "fetching", "checkout", "done"}
               /\ clone[m].mid \in {"no", "rebase", "detached", "ff"}
               /\ clone[m].ref \in 0 .. Len(remote)
               /\ clone[m].work \in Trees
               /\ \A i \in DOMAIN clone[m].head : clone[m].head[i].dir \in Trees
               /\ op[m].kind \in {"none", "push", "pull", "init"}
               /\ op[m].try \in 0 .. MaxPushAttempts - 1
               /\ op[m].todo \subseteq Own(m)
               /\ replica[m] \subseteq Foreign(m)
               /\ shipped[m] \in Trees
               /\ buried[m] \subseteq tombs
    <3>1. /\ clone[m] \in Clones /\ op[m] \in Ops /\ clone[m].head \in Seq(Commits) /\ Whole(m)
          /\ remote \in Seq(Commits)
      BY <2>1, Parts DEF Inv, Sound
    <3>2. \A i \in DOMAIN clone[m].head : clone[m].head[i].dir \in Trees
      BY <3>1, CommitAt
    <3>3. /\ clone[m].st \in {"none", "fetching", "checkout", "done"}
          /\ clone[m].mid \in {"no", "rebase", "detached", "ff"}
          /\ clone[m].ref \in 0 .. Len(remote) /\ clone[m].work \in Trees
      BY <3>1, LenProperties DEF Clones, Whole
    <3>4. op[m].kind \in {"none", "push", "pull", "init"} /\ op[m].try \in 0 .. MaxPushAttempts - 1
      BY <3>1, ArchiveAssumption DEF Ops, Whole
    <3>5. shipped[m] \in Trees
      BY <2>1 DEF Typed
    <3> QED
      BY <3>1, <3>2, <3>3, <3>4, <3>5 DEF Whole
  <2> QED
    BY <2>1, <2>2, <2>3 DEF TypeOK, Typed
<1> QED
  BY <1>1, ArchiveInvariant, PTL

(* A push that was stamped shipped what it read: push.go:80.  It holds     *)
(* however many machines push at once, and whatever is cut off.            *)
THEOREM StampedIsShipped == Spec => []PushMeansShipped
<1>1. Inv => PushMeansShipped
  <2> SUFFICES ASSUME Inv, NEW m \in Machines, NEW s \in Sessions, s \notin tombs
               PROVE  In(remote, s) >= shipped[m][s]
    BY DEF PushMeansShipped
  <2>1. Vouched(m) /\ Typed /\ remote \in Seq(Commits) /\ Owner[s] \in Machines
    BY ArchiveAssumption DEF Inv, Sound, Typed
  <2>2. Tip(remote, Owner[s]) \in Trees /\ shipped[m] \in Trees
    BY <2>1, TipType DEF Typed
  <2>3. Tip(remote, Owner[s])[s] \in Nat /\ shipped[m][s] \in Nat
    BY <2>2, TreesType
  <2>4. CASE Owner[s] = m
    <3>1. shipped[m][s] <= Tip(remote, m)[s]
      BY <2>1, <2>4 DEF Vouched, Own
    <3> QED
      BY <2>3, <2>4, <3>1 DEF In
  <2>5. CASE Owner[s] # m
    <3>1. shipped[m][s] = 0
      BY <2>1, <2>5 DEF Vouched, Foreign, Own
    <3> QED
      BY <2>3, <3>1 DEF In
  <2> QED
    BY <2>4, <2>5
<1> QED
  BY <1>1, ArchiveInvariant, PTL

(* What a stamped push knew to be deleted is out of the archive, for good. *)
THEOREM DeletedIsOut == Spec => []DeletedStaysOut
<1>1. Inv => DeletedStaysOut
  <2> SUFFICES ASSUME Inv, NEW m \in Machines, NEW s \in buried[m] \cap Own(m) PROVE In(remote, s) = 0
    BY DEF DeletedStaysOut
  <2>1. Vouched(m) /\ Owner[s] = m
    BY DEF Inv, Sound, Own
  <2> QED
    BY <2>1 DEF Vouched, In
<1> QED
  BY <1>1, ArchiveInvariant, PTL

(* No step takes what is not deleted out of the archive, or makes it older.*)
THEOREM ArchiveOnlyGrows == Spec => NothingLeavesArchive
<1>1. Inv /\ [Next]_vars =>
          [\A s \in Sessions : In(remote', s) >= In(remote, s) \/ s \in tombs]_vars
  <2> SUFFICES ASSUME Inv, Next, NEW s \in Sessions, s \notin tombs
               PROVE  In(remote', s) >= In(remote, s)
    BY DEF vars
  <2>1. Typed /\ remote \in Seq(Commits) /\ Owner[s] \in Machines
    BY ArchiveAssumption DEF Inv, Typed
  <2>2. Tip(remote, Owner[s]) \in Trees /\ Tip(remote, Owner[s])[s] \in Nat /\ NoFiles[s] = 0
    BY <2>1, TipType, TreesType DEF NoFiles
  <2>3. CASE remote' = remote
    BY <2>2, <2>3 DEF In
  <2>4. ASSUME NEW m \in Machines, Land(m) PROVE In(remote', s) >= In(remote, s)
    <3>1. Sound(m)
      BY DEF Inv
    <3>2. /\ clone[m].head \in Seq(Commits) /\ remote' = clone[m].head
          /\ Dirs(remote, m) \subseteq Dirs(clone[m].head, m)
          /\ \A n \in Machines \ {m} : Tip(clone[m].head, n) = Tip(remote, n)
      BY <2>1, <2>4, <3>1, LandFork
    <3>3. CASE Owner[s] = m
      <4>1. Tip(remote, m) = NoFiles \/ Tip(remote, m) \in Dirs(clone[m].head, m)
        BY <2>1, <3>2, TipType
      <4>2. Tip(clone[m].head, m) \in Trees /\ Tip(clone[m].head, m)[s] \in Nat
        BY <3>2, TipType, TreesType
      <4>3. Tip(remote, m)[s] <= Tip(clone[m].head, m)[s]
        BY <2>2, <3>1, <3>3, <4>1, <4>2 DEF Sound, Grown, Tops, Own
      <4> QED
        BY <2>2, <3>2, <3>3, <4>2, <4>3 DEF In
    <3>4. CASE Owner[s] # m
      BY <2>1, <2>2, <3>2, <3>4 DEF In
    <3> QED
      BY <3>3, <3>4
  <2>5. remote' = remote \/ \E m \in Machines : Land(m)
    BY ZenonT(30) DEF Next, Grow, Purge, Delete, World, Acquire, Sync, RebaseKilled, Stop, Reinit, Ingest,
           AbortRebase, UseClone, RefuseWipe, Wipe, CloneRefs, CloneFiles, Sentinel, CopyFile, Stage,
           CommitStaged, Track, Reject, Rebase, RebaseRefused, Local
  <2> QED
    BY <2>3, <2>4, <2>5
<1> QED
  BY <1>1, ArchiveInvariant, PTL DEF Spec, NothingLeavesArchive

-----------------------------------------------------------------------------
(* What a machine commits of a session only grows, commit by commit: so a  *)
(* branch has at its tip what it ever had, unless it was deleted, also of  *)
(* the machines whose later commits it lacks.                              *)

Climbs(b, m) ==
    \A i, j \in DOMAIN b :
        i <= j /\ b[i].by = m /\ b[j].by = m =>
            \A s \in Own(m) \ tombs : b[i].dir[s] <= b[j].dir[s]

Climbing == \A m \in Machines : Climbs(remote, m) /\ Climbs(clone[m].head, m)

LEMMA ClimbTop ==
  ASSUME NEW b \in Seq(Commits), NEW m \in Machines, Climbs(b, m), NEW d \in Dirs(b, m),
         NEW s \in Own(m) \ tombs
  PROVE  d[s] <= Tip(b, m)[s]
<1>1. PICK i \in DOMAIN b : b[i].by = m /\ b[i].dir = d
  BY DEF Dirs
<1>2. PICK k \in DOMAIN b : b[k].by = m /\ \A j \in DOMAIN b : b[j].by = m => j <= k
  BY <1>1, LastOf
<1>3. Tip(b, m) = b[k].dir
  BY <1>2, TipLast
<1>4. i <= k
  BY <1>1, <1>2
<1> QED
  BY <1>1, <1>2, <1>3, <1>4 DEF Climbs

LEMMA ClimbAppend ==
  ASSUME NEW b \in Seq(Commits), NEW m \in Machines, NEW e \in Commits, e.by = m,
         Climbs(b, m), Tops(e.dir, Dirs(b, m), m)
  PROVE  Climbs(Append(b, e), m)
<1> DEFINE a == Append(b, e)
<1>0. Len(b) \in Nat /\ DOMAIN b = 1 .. Len(b)
  BY LenProperties
<1>1. /\ a \in Seq(Commits) /\ Len(a) = Len(b) + 1 /\ a[Len(b) + 1] = e
      /\ \A i \in 1 .. Len(b) : a[i] = b[i]
  BY AppendProperties
<1>2. DOMAIN a = 1 .. Len(b) + 1
  BY <1>1, LenProperties
<1> HIDE DEF a
<1>3. ASSUME NEW i \in DOMAIN a, NEW j \in DOMAIN a, i <= j, a[i].by = m, a[j].by = m,
             NEW s \in Own(m) \ tombs
      PROVE  a[i].dir[s] <= a[j].dir[s]
  <2>1. CASE j <= Len(b)
    <3>1. i \in DOMAIN b /\ j \in DOMAIN b /\ a[i] = b[i] /\ a[j] = b[j]
      BY <1>0, <1>1, <1>2, <1>3, <2>1
    <3> QED
      BY <1>3, <3>1 DEF Climbs
  <2>2. CASE j = Len(b) + 1 /\ i <= Len(b)
    <3>1. i \in DOMAIN b /\ a[i] = b[i] /\ a[j] = e
      BY <1>0, <1>1, <1>2, <2>2
    <3>2. b[i].dir \in Dirs(b, m)
      BY <1>3, <3>1 DEF Dirs
    <3> QED
      BY <3>1, <3>2 DEF Tops
  <2>3. CASE i = Len(b) + 1 /\ j = Len(b) + 1
    <3>1. s \in Sessions /\ a[i].dir \in Trees
      BY <1>1, CommitAt DEF Own
    <3>2. a[i].dir[s] \in Nat
      BY <3>1, TreesType
    <3> QED
      BY <2>3, <3>2
  <2> QED
    BY <1>0, <1>2, <1>3, <2>1, <2>2, <2>3
<1> QED
  BY <1>3 DEF Climbs, a

LEMMA ClimbRebase ==
  ASSUME NEW b \in Seq(Commits), NEW c \in Seq(Commits), NEW m \in Machines, NEW k, Forked(b, c, m, k),
         Climbs(b, m)
  PROVE  Climbs(c \o Beyond(b, c), m)
<1> DEFINE p == Beyond(b, c)
           a == c \o p
           back(i) == IF i <= k THEN i ELSE k + (i - Len(c))
<1>0. /\ Len(b) \in Nat /\ Len(c) \in Nat /\ k \in Nat /\ k <= Len(b) /\ k <= Len(c)
      /\ DOMAIN b = 1 .. Len(b)
  BY LenProperties DEF Forked
<1>1. p \in Seq(Commits) /\ Len(p) = Len(b) - k /\ \A i \in 1 .. Len(b) - k : p[i] = b[k + i]
  BY ForkCommon
<1>2. /\ a \in Seq(Commits) /\ Len(a) = Len(c) + Len(p)
      /\ \A i \in 1 .. Len(c) + Len(p) : a[i] = IF i <= Len(c) THEN c[i] ELSE p[i - Len(c)]
  BY <1>1, ConcatProperties
<1>3. DOMAIN a = 1 .. Len(a)
  BY <1>2, LenProperties
<1> HIDE DEF a, p
<1>4. ASSUME NEW i \in DOMAIN a, a[i].by = m
      PROVE  /\ back(i) \in DOMAIN b /\ a[i] = b[back(i)]
             /\ i <= k \/ i > Len(c)
  <2>1. CASE i <= k
    <3>1. i \in 1 .. k /\ i \in 1 .. Len(c) + Len(p) /\ i <= Len(c)
      BY <1>0, <1>1, <1>2, <1>3, <2>1
    <3>2. a[i] = c[i] /\ b[i] = c[i]
      BY <1>2, <3>1 DEF Forked
    <3> QED
      BY <1>0, <2>1, <3>1, <3>2
  <2>2. CASE k < i /\ i <= Len(c)
    <3>1. i \in k + 1 .. Len(c) /\ i \in 1 .. Len(c) + Len(p)
      BY <1>0, <1>1, <1>2, <1>3, <2>2
    <3>2. a[i] = c[i] /\ c[i].by # m
      BY <1>2, <2>2, <3>1 DEF Forked
    <3> QED
      BY <1>4, <3>2
  <2>3. CASE i > Len(c)
    <3>1. /\ i \in 1 .. Len(c) + Len(p) /\ ~(i <= Len(c)) /\ i - Len(c) \in 1 .. Len(b) - k
          /\ back(i) = k + (i - Len(c)) /\ back(i) \in 1 .. Len(b)
      BY <1>0, <1>1, <1>2, <1>3, <2>3
    <3> QED
      BY <1>0, <1>1, <1>2, <2>3, <3>1
  <2> QED
    BY <1>0, <1>2, <1>3, <2>1, <2>2, <2>3
<1>5. ASSUME NEW i \in DOMAIN a, NEW j \in DOMAIN a, i <= j, a[i].by = m, a[j].by = m,
             NEW s \in Own(m) \ tombs
      PROVE  a[i].dir[s] <= a[j].dir[s]
  <2>1. /\ back(i) \in DOMAIN b /\ a[i] = b[back(i)] /\ (i <= k \/ i > Len(c))
        /\ back(j) \in DOMAIN b /\ a[j] = b[back(j)] /\ (j <= k \/ j > Len(c))
    BY <1>4, <1>5
  <2>2. back(i) <= back(j)
    <3>1. i \in Nat /\ j \in Nat
      BY <1>2, <1>3, <1>0, <1>1
    <3> QED
      BY <1>0, <1>5, <2>1, <3>1
  <2> HIDE DEF back
  <2> QED
    BY <1>5, <2>1, <2>2 DEF Climbs
<1> QED
  BY <1>5 DEF Climbs, a, p

LEMMA ClimbForeign ==
  ASSUME NEW b \in Seq(Commits), NEW c \in Seq(Commits), NEW m \in Machines, NEW k, Forked(b, c, m, k),
         NEW n \in Machines \ {m}, Climbs(c, n)
  PROVE  Climbs(b, n)
<1>0. /\ Len(b) \in Nat /\ Len(c) \in Nat /\ k \in Nat /\ k <= Len(c)
      /\ DOMAIN b = 1 .. Len(b) /\ DOMAIN c = 1 .. Len(c)
  BY LenProperties DEF Forked
<1>1. \A i \in DOMAIN b : b[i].by = n => i \in DOMAIN c /\ b[i] = c[i]
  BY <1>0 DEF Forked
<1> QED
  BY <1>1 DEF Climbs

(* Fewer than two commits have nothing to climb.                           *)
LEMMA ClimbShort ==
  ASSUME NEW b \in Seq(Commits), NEW m \in Machines, Len(b) <= 1
  PROVE  Climbs(b, m)
<1> SUFFICES ASSUME NEW i \in DOMAIN b, NEW j \in DOMAIN b, NEW s \in Own(m) \ tombs
             PROVE  b[i].dir[s] <= b[j].dir[s]
  BY DEF Climbs
<1>1. Len(b) \in Nat /\ DOMAIN b = 1 .. Len(b) /\ b[i].dir \in Trees /\ s \in Sessions
  BY CommitAt DEF Own
<1>2. i = j
  BY <1>1
<1>3. b[i].dir[s] \in Nat
  BY <1>1, TreesType
<1> QED
  BY <1>2, <1>3

(* What a step does to the branches.                                       *)
LEMMA BranchSteps ==
  ASSUME Inv, [Next]_vars
  PROVE  /\ tombs \subseteq tombs'
         /\ \/ UNCHANGED remote /\ \A n \in Machines : clone'[n].head = clone[n].head
            \/ \E m \in Machines :
                  /\ \A n \in Machines \ {m} : clone'[n].head = clone[n].head
                  /\ \/ UNCHANGED remote /\ clone'[m].head = <<>> /\ ~Stranded(m)
                     \/ UNCHANGED remote /\ clone'[m].head = remote /\ CloneRefs(m)
                     \/ UNCHANGED remote /\ clone'[m].head = Rebased(m) /\ Rebase(m)
                     \/ /\ UNCHANGED remote /\ CommitStaged(m)
                        /\ clone'[m].head = Append(clone[m].head, [Commit(m, clone[m].work) EXCEPT !.drops = Dropped(m)])
                     \/ clone'[m].head = clone[m].head /\ Land(m)
<1> DEFINE Same == UNCHANGED remote /\ \A n \in Machines : clone'[n].head = clone[n].head
           Goes(m) == /\ \A n \in Machines \ {m} : clone'[n].head = clone[n].head
                      /\ \/ UNCHANGED remote /\ clone'[m].head = <<>> /\ ~Stranded(m)
                         \/ UNCHANGED remote /\ clone'[m].head = remote /\ CloneRefs(m)
                         \/ UNCHANGED remote /\ clone'[m].head = Rebased(m) /\ Rebase(m)
                         \/ /\ UNCHANGED remote /\ CommitStaged(m)
                            /\ clone'[m].head = Append(clone[m].head, [Commit(m, clone[m].work) EXCEPT !.drops = Dropped(m)])
                         \/ clone'[m].head = clone[m].head /\ Land(m)
<1>1. clone \in [Machines -> Clones] /\ \A m \in Machines : clone[m] \in Clones
  BY DEF Inv, Typed
<1>2. ASSUME UNCHANGED vars PROVE Same /\ tombs' = tombs
  BY <1>2 DEF vars, world
<1>3. ASSUME NEW s \in Changing, Grow(s) \/ Purge(s) \/ Delete(s) PROVE Same /\ tombs \subseteq tombs'
  BY <1>3 DEF Grow, Purge, Delete, World
<1>4. ASSUME NEW m \in Machines,
             \/ Acquire(m, "push") \/ Acquire(m, "pull") \/ RefuseWipe(m) \/ RebaseRefused(m)
             \/ Stop(m) \/ Reject(m) \/ Ingest(m)
      PROVE  Same /\ tombs' = tombs
  BY <1>4 DEF Acquire, RefuseWipe, RebaseRefused, Stop, Reject, Ingest, Local, world
<1>5. ASSUME NEW m \in Machines, \/ AbortRebase(m) \/ UseClone(m) \/ CloneFiles(m) \/ Sentinel(m)
                                 \/ Track(m) \/ Stage(m) \/ CopyFile(m) \/ RebaseKilled(m)
      PROVE  Same /\ tombs' = tombs
  <2>1. remote' = remote /\ tombs' = tombs
    BY <1>5 DEF AbortRebase, UseClone, CloneFiles, Sentinel, Track, Stage, CopyFile, RebaseKilled,
               Local, world
  <2>2. \A n \in Machines : clone'[n].head = clone[n].head
    <3>1. CASE AbortRebase(m)
      BY <1>1, <3>1 DEF AbortRebase, Clones
    <3>2. CASE UseClone(m)
      BY <1>1, <3>2 DEF UseClone, Clones
    <3>3. CASE CloneFiles(m)
      BY <1>1, <3>3 DEF CloneFiles, Clones
    <3>4. CASE Sentinel(m)
      BY <1>1, <3>4 DEF Sentinel, Clones
    <3>5. CASE Track(m)
      BY <1>1, <3>5 DEF Track, Clones
    <3>6. CASE Stage(m)
      BY <1>1, <3>6 DEF Stage, Clones
    <3>7. CASE CopyFile(m)
      BY <1>1, <3>7 DEF CopyFile, Clones
    <3>8. CASE RebaseKilled(m)
      BY <1>1, <3>8 DEF RebaseKilled, Clones
    <3> QED
      BY <1>5, <3>1, <3>2, <3>3, <3>4, <3>5, <3>6, <3>7, <3>8
  <2> QED
    BY <2>1, <2>2
<1>6. ASSUME NEW m \in Machines, Wipe(m) \/ Reinit(m) PROVE Goes(m) /\ tombs' = tombs
  <2>1. remote' = remote /\ tombs' = tombs /\ ~Stranded(m)
    BY <1>6 DEF Wipe, Reinit, Local, world
  <2>2. clone' = [clone EXCEPT ![m] = [NoClone EXCEPT !.st = "fetching"]]
    BY <1>6 DEF Wipe, Reinit
  <2>3. clone'[m].head = <<>> /\ \A n \in Machines \ {m} : clone'[n].head = clone[n].head
    BY <1>1, <2>2 DEF NoClone
  <2> QED
    BY <2>1, <2>3
<1>7. ASSUME NEW m \in Machines, CloneRefs(m) PROVE Goes(m) /\ tombs' = tombs
  <2>1. remote' = remote /\ tombs' = tombs
    BY <1>7 DEF CloneRefs, world
  <2>2. clone'[m].head = remote /\ \A n \in Machines \ {m} : clone'[n].head = clone[n].head
    BY <1>1, <1>7 DEF CloneRefs, Clones
  <2> QED
    BY <1>7, <2>1, <2>2
<1>8. ASSUME NEW m \in Machines, Rebase(m) PROVE Goes(m) /\ tombs' = tombs
  <2>1. remote' = remote /\ tombs' = tombs
    BY <1>8 DEF Rebase, world
  <2>2. clone'[m].head = Rebased(m) /\ \A n \in Machines \ {m} : clone'[n].head = clone[n].head
    BY <1>1, <1>8 DEF Rebase, Clones
  <2> QED
    BY <1>8, <2>1, <2>2
<1>9. ASSUME NEW m \in Machines, CommitStaged(m) PROVE Goes(m) /\ tombs' = tombs
  <2>1. remote' = remote /\ tombs' = tombs
    BY <1>9 DEF CommitStaged, Local, world
  <2>2. /\ clone'[m].head = Append(clone[m].head, [Commit(m, clone[m].work) EXCEPT !.drops = Dropped(m)])
        /\ \A n \in Machines \ {m} : clone'[n].head = clone[n].head
    BY <1>1, <1>9 DEF CommitStaged, Clones
  <2> QED
    BY <1>9, <2>1, <2>2
<1>10. ASSUME NEW m \in Machines, Land(m) PROVE Goes(m) /\ tombs' = tombs
  BY <1>10 DEF Land, world
<1> HIDE DEF Same, Goes
<1>11. /\ tombs \subseteq tombs'
       /\ Same \/ \E m \in Machines : Goes(m)
  <2>1. CASE UNCHANGED vars
    BY <1>2, <2>1
  <2>2. CASE \E s \in Changing : Grow(s) \/ Purge(s) \/ Delete(s)
    BY <1>3, <2>2
  <2>3. ASSUME NEW m \in Machines,
               \/ Acquire(m, "push") \/ (m \in Readers /\ Acquire(m, "pull"))
               \/ Sync(m) \/ RebaseKilled(m) \/ Stop(m) \/ Reinit(m) \/ Ingest(m)
        PROVE  tombs' = tombs /\ (Same \/ Goes(m))
    BY <1>4, <1>5, <1>6, <1>7, <1>8, <1>9, <1>10, <2>3 DEF Sync
  <2> QED
    BY <2>1, <2>2, <2>3 DEF Next
<1> QED
  BY <1>11 DEF Same, Goes

LEMMA ClimbingStep == Inv /\ Climbing /\ [Next]_vars => Climbing'
<1> SUFFICES ASSUME Inv, Climbing, [Next]_vars, NEW n \in Machines
             PROVE  Climbs(remote, n)' /\ Climbs(clone[n].head, n)'
  BY DEF Climbing
<1>1. /\ Typed /\ remote \in Seq(Commits) /\ tombs \subseteq tombs'
      /\ \A m \in Machines : /\ Sound(m) /\ clone[m].head \in Seq(Commits)
                             /\ clone[m].work \in Trees /\ clone[m] \in Clones
  BY Parts, BranchSteps DEF Inv
<1>2. Climbs(remote, n) /\ Climbs(clone[n].head, n)
  BY DEF Climbing
<1>3. \A b : Climbs(b, n) /\ remote' = b => Climbs(remote, n)'
  BY <1>1 DEF Climbs
<1>4. \A b : Climbs(b, n) /\ clone'[n].head = b => Climbs(clone[n].head, n)'
  BY <1>1 DEF Climbs
<1>5. CASE UNCHANGED remote /\ clone'[n].head = clone[n].head
  BY <1>2, <1>3, <1>4, <1>5
<1>6. ASSUME UNCHANGED remote, Climbs(clone'[n].head, n) PROVE Climbs(remote, n)' /\ Climbs(clone[n].head, n)'
  BY <1>2, <1>3, <1>4, <1>6
<1>7. CASE UNCHANGED remote /\ clone'[n].head = <<>>
  <2>1. Climbs(<<>>, n)
    BY EmptySeq DEF Climbs
  <2> QED
    BY <1>6, <1>7, <2>1
<1>8. CASE UNCHANGED remote /\ clone'[n].head = remote
  BY <1>2, <1>6, <1>8
<1>9. CASE UNCHANGED remote /\ clone'[n].head = Rebased(n) /\ Rebase(n)
  <2>1. clone[n].st = "done"
    BY <1>1, <1>9 DEF Rebase, At, Sound, Whole, Working
  <2>2. PICK k \in Nat : Forked(clone[n].head, remote, n, k)
    BY <1>1, <2>1 DEF Sound, Branched, CheckedOut
  <2>3. Climbs(Rebased(n), n)
    BY <1>1, <1>2, <2>2, ClimbRebase DEF Rebased
  <2> QED
    BY <1>6, <1>9, <2>3
<1>10. CASE /\ UNCHANGED remote /\ CommitStaged(n)
            /\ clone'[n].head = Append(clone[n].head, [Commit(n, clone[n].work) EXCEPT !.drops = Dropped(n)])
  <2> DEFINE e == [Commit(n, clone[n].work) EXCEPT !.drops = Dropped(n)]
  <2>1. clone[n].st = "done"
    BY <1>1, <1>10 DEF CommitStaged, At, Sound, Whole, Working
  <2>2. e \in Commits /\ e.by = n /\ e.dir = clone[n].work
    BY <1>1, <2>1 DEF Commit, Dropped, Commits
  <2>3. Tops(clone[n].work, Dirs(clone[n].head, n), n)
    BY <1>1, <2>1 DEF Sound, Grown
  <2> HIDE DEF e
  <2>4. Climbs(Append(clone[n].head, e), n)
    BY <1>1, <1>2, <2>2, <2>3, ClimbAppend
  <2> QED
    BY <1>6, <1>10, <2>4 DEF e
<1>11. ASSUME NEW m \in Machines, Land(m), clone'[n].head = clone[n].head
       PROVE  Climbs(remote, n)' /\ Climbs(clone[n].head, n)'
  <2>1. remote' = clone[m].head /\ Forked(clone[m].head, remote, m, Len(remote))
    BY <1>1, <1>11, LandFork
  <2>2. Climbs(clone[m].head, n)
    <3>1. CASE n = m
      BY <1>2, <3>1
    <3>2. CASE n # m
      BY <1>1, <1>2, <2>1, <3>2, ClimbForeign
    <3> QED
      BY <3>1, <3>2
  <2> QED
    BY <1>2, <1>3, <1>4, <1>11, <2>1, <2>2
<1> QED
  BY <1>5, <1>7, <1>8, <1>9, <1>10, <1>11, BranchSteps

LEMMA InitClimbing == Init => Climbing
<1> SUFFICES ASSUME Init, NEW m \in Machines PROVE Climbs(remote, m) /\ Climbs(clone[m].head, m)
  BY DEF Climbing
<1>1. disk \in Trees /\ \A n \in Machines : clone[n] = NoClone \/ clone[n] \in OldClones(n)
  BY DEF Init
<1>2. Len(<<>>) = 0 /\ <<>> \in Seq(Commits)
  BY EmptySeq
<1>3. \A n \in Machines : /\ clone[n].head \in Seq(Commits) /\ Len(clone[n].head) <= 1
                         /\ clone[n].ref \in {0, 1} /\ clone[n].ref <= Len(clone[n].head)
  <2> SUFFICES ASSUME NEW n \in Machines
               PROVE  /\ clone[n].head \in Seq(Commits) /\ Len(clone[n].head) <= 1
                      /\ clone[n].ref \in {0, 1} /\ clone[n].ref <= Len(clone[n].head)
    OBVIOUS
  <2>1. CASE clone[n] = NoClone
    BY <1>2, <2>1 DEF NoClone
  <2>2. CASE clone[n] \in OldClones(n)
    <3>1. PICK e \in Commits : clone[n].head = <<e>> /\ clone[n].ref \in {0, 1}
      BY <1>1, <2>2, OldCloneIs
    <3> QED
      BY <3>1, OneCommit
  <2> QED
    BY <1>1, <2>1, <2>2
<1>4. remote \in Seq(Commits) /\ Len(remote) <= 1
  <2>1. ASSUME NEW n \in Machines, remote = SubSeq(clone[n].head, 1, clone[n].ref)
        PROVE  remote \in Seq(Commits) /\ Len(remote) <= 1
    <3>1. /\ clone[n].ref \in Int /\ clone[n].ref <= 1
          /\ \A i \in 1 .. clone[n].ref : clone[n].head[i] \in Commits
      BY <1>3, CommitAt
    <3>2. /\ remote \in Seq(Commits)
          /\ Len(remote) = IF 1 <= clone[n].ref THEN clone[n].ref - 1 + 1 ELSE 0
      BY <2>1, <3>1, SubSeqProperties
    <3> QED
      BY <3>1, <3>2
  <2>2. remote \in {<<>>} \cup {SubSeq(clone[n].head, 1, clone[n].ref) : n \in Machines}
    BY DEF Init
  <2>3. CASE remote = <<>>
    BY <1>2, <2>3
  <2>4. CASE remote # <<>>
    BY <2>1, <2>2, <2>4
  <2> QED
    BY <2>3, <2>4
<1> QED
  BY <1>3, <1>4, ClimbShort

(* A machine's index loses a session only because it was deleted, or after *)
(* a rewrite of the clone was cut off.                                     *)
THEOREM IndexKeepsUp == Spec => ReplicaKeepsUp
<1>1. Inv /\ Climbing /\ [Next]_vars =>
          [\A m \in Machines : \A s \in replica[m] \ replica'[m] : s \in tombs \/ m \in torn]_vars
  <2> SUFFICES ASSUME Inv, Climbing, Next, NEW m \in Machines, NEW s \in replica[m] \ replica'[m],
                      s \notin tombs, m \notin torn
               PROVE  FALSE
    BY DEF vars
  <2>1. /\ Typed /\ Sound(m) /\ clone[m].head \in Seq(Commits) /\ remote \in Seq(Commits)
        /\ s \in Foreign(m)
    BY Parts DEF Inv, Sound, Whole
  <2>2. replica' = replica \/ \E n \in Machines : Ingest(n)
    BY ZenonT(30) DEF Next, Grow, Purge, Delete, World, Acquire, Sync, RebaseKilled, Stop, Reinit,
           AbortRebase, UseClone, RefuseWipe, Wipe, CloneRefs, CloneFiles, Sentinel, CopyFile, Stage,
           CommitStaged, Land, Track, Reject, Rebase, RebaseRefused, Local
  <2>3. PICK n \in Machines : Ingest(n)
    BY <2>2
  <2>4. PICK shown \in Shown(n) : replica' = [replica EXCEPT ![n] = Reconciled(n, shown)]
    BY <2>3 DEF Ingest
  <2>5. n = m /\ s \notin Reconciled(m, shown)
    <3>1. replica \in [Machines -> SUBSET Sessions] /\ replica'[m] # replica[m]
      BY <2>1 DEF Typed
    <3> QED
      BY <2>4, <3>1
  <2>6. s \notin shown
    BY <2>1, <2>5 DEF Reconciled
  <2>7. clone[m].st = "done" /\ clone[m].mid = "no" /\ At(m, "idle")
    BY <2>1, <2>3, <2>5 DEF Ingest, Quiescent, Sound, Whole, Indexed
  <2>8. shown = {r \in Foreign(m) : In(clone[m].head, r) > 0}
    BY <2>4, <2>5, <2>7 DEF Shown, Rewritten, At
  <2>9. PICK d \in Dirs(clone[m].head, Owner[s]) : d[s] > 0
    BY <2>1, <2>7 DEF Sound, Indexed, Held, CheckedOut
  <2>10. Owner[s] \in Machines \ {m} /\ s \in Own(Owner[s]) \ tombs
    BY <2>1, ArchiveAssumption DEF Foreign, Own
  <2>11. Climbs(clone[m].head, Owner[s])
    <3>1. PICK k \in Nat : Forked(clone[m].head, remote, m, k)
      BY <2>1, <2>7 DEF Sound, Branched, CheckedOut
    <3> QED
      BY <2>1, <2>10, <3>1, ClimbForeign DEF Climbing
  <2>12. d[s] <= In(clone[m].head, s)
    BY <2>1, <2>9, <2>10, <2>11, ClimbTop DEF In
  <2>13. In(clone[m].head, s) \in Nat /\ d[s] \in Nat
    <3>1. s \in Sessions /\ d \in Trees /\ Tip(clone[m].head, Owner[s]) \in Trees
      BY <2>1, <2>9, <2>10, TipType DEF Own
    <3> QED
      BY <3>1, TreesType DEF In
  <2> QED
    BY <2>1, <2>6, <2>8, <2>9, <2>12, <2>13
<1>2. Spec => []Climbing
  <2>1. Init => Climbing
    BY InitClimbing
  <2>2. Inv /\ Climbing /\ [Next]_vars => Climbing'
    BY ClimbingStep
  <2> QED
    BY <2>1, <2>2, ArchiveInvariant, PTL DEF Spec
<1> QED
  BY <1>1, <1>2, ArchiveInvariant, PTL DEF Spec, ReplicaKeepsUp

-----------------------------------------------------------------------------
(* The machines share one log.                                             *)

(* What a machine has committed and not shipped, and how much of the log   *)
(* it has, as the shared log sees them.                                    *)
Pending(n) == Beyond(clone[n].head, remote)
Seen(n) == Common(clone[n].head, remote)

LEMMA PendingIs ==
  ASSUME Typed, NEW m \in Machines, Sound(m)
  PROVE  /\ Pending(m) \in Seq(Commits) /\ Pending(m) \in Seq(Shared!CommitsOf(m))
         /\ Seen(m) \in Nat /\ Seen(m) <= Len(remote)
         /\ ~Stranded(m) => Pending(m) = <<>>
         /\ \/ Forked(clone[m].head, remote, m, Seen(m))
            \/ clone[m].head = <<>> /\ Pending(m) = <<>> /\ Seen(m) = 0
<1>1. clone[m].head \in Seq(Commits) /\ remote \in Seq(Commits) /\ Len(remote) \in Nat
  BY Parts, LenProperties
<1>2. ASSUME NEW k, Forked(clone[m].head, remote, m, k)
      PROVE  /\ Pending(m) \in Seq(Commits) /\ Pending(m) \in Seq(Shared!CommitsOf(m))
             /\ Seen(m) = k /\ k <= Len(remote)
             /\ ~Stranded(m) => Pending(m) = <<>>
  <2>1. /\ Seen(m) = k /\ Pending(m) \in Seq(Commits)
        /\ Len(Pending(m)) = Len(clone[m].head) - k
        /\ \A i \in 1 .. Len(clone[m].head) - k :
               Pending(m)[i] = clone[m].head[k + i] /\ clone[m].head[k + i].by = m
    <3> DEFINE b == clone[m].head
               c == remote
               p == Beyond(b, c)
    <3>1. b \in Seq(Commits) /\ c \in Seq(Commits) /\ Forked(b, c, m, k)
      BY <1>1, <1>2
    <3> HIDE DEF b, c
    <3> HIDE DEF p
    <3>2. Common(b, c) = k /\ p \in Seq(Commits) /\ Len(p) = Len(b) - k
      BY <3>1, ForkCommon DEF p
    <3>3. \A i \in 1 .. Len(b) - k : p[i] = b[k + i] /\ b[k + i].by = m
      BY <3>1, ForkCommon DEF p
    <3> QED
      BY <3>2, <3>3 DEF Pending, Seen, b, c, p
  <2>2. \A i \in 1 .. Len(Pending(m)) : Pending(m)[i] \in Commits /\ Pending(m)[i].by = m
    BY <2>1, CommitAt
  <2>3. \A i \in 1 .. Len(Pending(m)) : Pending(m)[i] \in Shared!CommitsOf(m)
    BY <2>2 DEF Commits, Shared!CommitsOf
  <2>4. Pending(m) \in Seq(Shared!CommitsOf(m))
    BY <2>1, <2>3, SeqDef, LenProperties
  <2>5. ASSUME ~Stranded(m) PROVE Pending(m) = <<>>
    <3>1. /\ Beyond(clone[m].head, SubSeq(remote, 1, clone[m].ref)) = <<>>
          /\ clone[m].ref \in Nat /\ clone[m].ref <= Len(remote)
      BY <2>5, Parts DEF Stranded, Fetched, Sound, Whole
    <3>2. k = Len(clone[m].head)
      BY <1>1, <1>2, <3>1, NothingBeyond
    <3> QED
      BY <1>1, <1>2, <3>2, ForkBehind DEF Pending
  <2> QED
    BY <1>2, <2>1, <2>4, <2>5 DEF Forked
<1>3. CASE clone[m].st \in CheckedOut
  <2>1. PICK k \in Nat : Forked(clone[m].head, remote, m, k)
    BY <1>3 DEF Sound, Branched
  <2> QED
    BY <1>2, <2>1
<1>4. CASE clone[m].st \notin CheckedOut
  <2>1. clone[m].head = <<>>
    BY <1>4 DEF Sound, Branched
  <2>2. Pending(m) = <<>> /\ Seen(m) = 0
    BY <1>1, <2>1, EmptyBranch DEF Pending, Seen
  <2>3. <<>> \in Seq(Commits) /\ <<>> \in Seq(Shared!CommitsOf(m))
    BY EmptySeq
  <2> QED
    BY <1>1, <2>1, <2>2, <2>3
<1> QED
  BY <1>3, <1>4

LEMMA SharedInit == Init => Shared!Init
<1> SUFFICES ASSUME Init PROVE Shared!Init
  OBVIOUS
<1>1. Typed /\ \A m \in Machines : Sound(m)
  BY InitInv DEF Inv
<1>2. Commits = Shared!Commits
  <2>1. ASSUME NEW c \in Commits PROVE c \in Shared!Commits
    <3>1. c.by \in Machines /\ c \in Shared!CommitsOf(c.by)
      BY DEF Commits, Shared!CommitsOf
    <3> QED
      BY <3>1 DEF Shared!Commits
  <2>2. ASSUME NEW n \in Machines, NEW c \in Shared!CommitsOf(n) PROVE c \in Commits
    BY DEF Commits, Shared!CommitsOf
  <2> QED
    BY <2>1, <2>2 DEF Shared!Commits
<1>3. \A m \in Machines : /\ Pending(m) \in Seq(Shared!Commits) /\ Pending(m) \in Seq(Shared!CommitsOf(m))
                         /\ Seen(m) \in 0 .. Len(remote)
  <2>1. Len(remote) \in Nat
    BY <1>1, LenProperties DEF Typed
  <2> QED
    BY <1>1, <1>2, <2>1, PendingIs
<1>4. remote \in Seq(Shared!Commits)
  BY <1>1, <1>2 DEF Typed
<1> QED
  BY <1>3, <1>4 DEF Shared!Init, Pending, Seen

(* The pending commits and the place in the log of one machine change, or  *)
(* nobody's.                                                               *)
LEMMA OnePending ==
  ASSUME NEW m \in Machines, \A n \in Machines \ {m} : Pending(n)' = Pending(n) /\ Seen(n)' = Seen(n)
  PROVE  /\ [n \in Machines |-> Pending(n)]' = [[n \in Machines |-> Pending(n)] EXCEPT ![m] = Pending(m)']
         /\ [n \in Machines |-> Seen(n)]' = [[n \in Machines |-> Seen(n)] EXCEPT ![m] = Seen(m)']
  OBVIOUS

LEMMA SharedStep == Inv /\ Inv' /\ [Next]_vars => [Shared!Next]_(Shared!vars)
<1> SUFFICES ASSUME Inv, Inv', [Next]_vars PROVE [Shared!Next]_(Shared!vars)
  OBVIOUS
<1> DEFINE pend == [n \in Machines |-> Pending(n)]
           seen == [n \in Machines |-> Seen(n)]
<1>1. /\ Typed /\ remote \in Seq(Commits) /\ Len(remote) \in Nat
      /\ \A m \in Machines : Sound(m) /\ clone[m].head \in Seq(Commits)
  <2>1. Typed /\ \A m \in Machines : Sound(m)
    BY DEF Inv
  <2>2. ASSUME NEW m \in Machines PROVE clone[m].head \in Seq(Commits)
    BY <2>1, Parts
  <2>3. remote \in Seq(Commits)
    BY <2>1 DEF Typed
  <2>4. Len(remote) \in Nat
    BY <2>3, LenProperties
  <2> QED
    BY <2>1, <2>2, <2>3, <2>4
<1>2. CASE UNCHANGED remote /\ \A n \in Machines : clone'[n].head = clone[n].head
  BY <1>2 DEF Shared!vars
<1>3. ASSUME NEW m \in Machines, UNCHANGED remote,
             \A n \in Machines \ {m} : clone'[n].head = clone[n].head
      PROVE  /\ pend' = [pend EXCEPT ![m] = Pending(m)'] /\ seen' = [seen EXCEPT ![m] = Seen(m)']
             /\ pend[m] = Pending(m) /\ seen[m] = Seen(m)
  <2>1. \A n \in Machines \ {m} : Pending(n)' = Pending(n) /\ Seen(n)' = Seen(n)
    BY <1>3 DEF Pending, Seen
  <2> QED
    BY <2>1, OnePending
<1>4. \A m \in Machines : /\ Shared!See(m) <=> /\ UNCHANGED remote /\ pend' = pend
                                               /\ \E i \in seen[m] .. Len(remote) : seen' = [seen EXCEPT ![m] = i]
                          /\ Shared!Forget(m) <=> /\ pend[m] = <<>> /\ seen' = [seen EXCEPT ![m] = 0]
                                                  /\ UNCHANGED remote /\ pend' = pend
                          /\ Shared!Commit(m) <=> /\ UNCHANGED remote /\ seen' = seen
                                                  /\ \E c \in Shared!CommitsOf(m) :
                                                        pend' = [pend EXCEPT ![m] = Append(pend[m], c)]
                          /\ Shared!Publish(m) <=> /\ seen[m] = Len(remote) /\ pend[m] # <<>>
                                                   /\ remote' = remote \o pend[m]
                                                   /\ pend' = [pend EXCEPT ![m] = <<>>]
                                                   /\ seen' = [seen EXCEPT ![m] = Len(remote')]
  BY DEF Shared!See, Shared!Forget, Shared!Commit, Shared!Publish, Pending, Seen
<1>5. Shared!vars' = Shared!vars <=> remote' = remote /\ pend' = pend /\ seen' = seen
  BY DEF Shared!vars, Pending, Seen
<1> HIDE DEF pend, seen
<1>6. \A m \in Machines : Shared!See(m) \/ Shared!Forget(m) \/ Shared!Commit(m) \/ Shared!Publish(m) =>
          Shared!Next
  BY DEF Shared!Next
<1>7. ASSUME NEW m \in Machines, UNCHANGED remote, clone'[m].head = <<>>, ~Stranded(m),
             \A n \in Machines \ {m} : clone'[n].head = clone[n].head
      PROVE  Shared!Next
  <2>1. Pending(m) = <<>>
    BY <1>1, <1>7, PendingIs
  <2>2. Pending(m)' = <<>> /\ Seen(m)' = 0
    BY <1>1, <1>7, EmptyBranch DEF Pending, Seen
  <2>3. pend' = pend /\ seen' = [seen EXCEPT ![m] = 0] /\ pend[m] = <<>>
    BY <1>3, <1>7, <2>1, <2>2 DEF pend
  <2> QED
    BY <1>4, <1>6, <1>7, <2>3
<1>8. ASSUME NEW m \in Machines, UNCHANGED remote, CloneRefs(m), clone'[m].head = remote,
             \A n \in Machines \ {m} : clone'[n].head = clone[n].head
      PROVE  Shared!Next
  <2>1. clone[m].head = <<>>
    BY <1>1, <1>8 DEF CloneRefs, Sound, Branched, CheckedOut
  <2>2. Pending(m) = <<>> /\ Seen(m) = 0
    BY <1>1, <2>1, EmptyBranch DEF Pending, Seen
  <2>3. Pending(m)' = <<>> /\ Seen(m)' = Len(remote)
    BY <1>1, <1>8, ForkSelf DEF Pending, Seen
  <2>4. pend' = pend /\ seen' = [seen EXCEPT ![m] = Len(remote)] /\ seen[m] = 0
    BY <1>3, <1>8, <2>2, <2>3 DEF pend
  <2>5. Len(remote) \in seen[m] .. Len(remote)
    BY <1>1, <2>4
  <2>6. Shared!See(m)
    BY <1>4, <1>8, <2>4, <2>5
  <2> QED
    BY <1>6, <2>6
<1>9. ASSUME NEW m \in Machines, UNCHANGED remote, Rebase(m), clone'[m].head = Rebased(m),
             \A n \in Machines \ {m} : clone'[n].head = clone[n].head
      PROVE  Shared!Next
  <2>1. clone[m].st = "done"
    BY <1>1, <1>9 DEF Rebase, At, Sound, Whole, Working
  <2>2. PICK k \in Nat : Forked(clone[m].head, remote, m, k)
    BY <1>1, <2>1 DEF Sound, Branched, CheckedOut
  <2>3. /\ Rebased(m) \in Seq(Commits) /\ Forked(Rebased(m), remote, m, Len(remote))
        /\ Beyond(Rebased(m), remote) = Beyond(clone[m].head, remote)
    BY <1>1, <2>2, ForkRebase DEF Rebased
  <2>4. Common(Rebased(m), remote) = Len(remote)
    BY <1>1, <2>3, ForkCommon
  <2>5. Pending(m)' = Pending(m) /\ Seen(m)' = Len(remote)
    BY <1>9, <2>3, <2>4 DEF Pending, Seen
  <2>6. Seen(m) \in Nat /\ Seen(m) <= Len(remote)
    BY <1>1, PendingIs
  <2>7. pend' = pend /\ seen' = [seen EXCEPT ![m] = Len(remote)] /\ seen[m] = Seen(m)
    BY <1>3, <1>9, <2>5 DEF pend
  <2>8. Len(remote) \in seen[m] .. Len(remote)
    BY <1>1, <2>6, <2>7
  <2>9. Shared!See(m)
    BY <1>4, <1>9, <2>7, <2>8
  <2> QED
    BY <1>6, <2>9
<1>10. ASSUME NEW m \in Machines, UNCHANGED remote, CommitStaged(m),
              clone'[m].head = Append(clone[m].head, [Commit(m, clone[m].work) EXCEPT !.drops = Dropped(m)]),
              \A n \in Machines \ {m} : clone'[n].head = clone[n].head
       PROVE  Shared!Next
  <2> DEFINE e == [Commit(m, clone[m].work) EXCEPT !.drops = Dropped(m)]
  <2>1. clone[m].st = "done" /\ clone[m].work \in Trees
    BY <1>1, <1>10, Parts DEF CommitStaged, At, Sound, Whole, Working
  <2>2. e \in Commits /\ e.by = m
    BY <2>1 DEF Commit, Dropped, Commits
  <2>3. e \in Shared!CommitsOf(m)
    BY <2>1 DEF Commit, Dropped, Shared!CommitsOf
  <2> HIDE DEF e
  <2>4. PICK k \in Nat : Forked(clone[m].head, remote, m, k)
    BY <1>1, <2>1 DEF Sound, Branched, CheckedOut
  <2>5. /\ Append(clone[m].head, e) \in Seq(Commits)
        /\ Forked(Append(clone[m].head, e), remote, m, k)
        /\ Beyond(Append(clone[m].head, e), remote) = Append(Beyond(clone[m].head, remote), e)
    BY <1>1, <2>2, <2>4, ForkAppend
  <2>6. Common(Append(clone[m].head, e), remote) = k /\ Common(clone[m].head, remote) = k
    <3> DEFINE b == clone[m].head
               c == remote
               a == Append(b, e)
    <3>1. /\ a \in Seq(Commits) /\ b \in Seq(Commits) /\ c \in Seq(Commits)
          /\ Forked(a, c, m, k) /\ Forked(b, c, m, k)
      BY <1>1, <2>4, <2>5
    <3> HIDE DEF a, b, c
    <3>2. Common(a, c) = k /\ Common(b, c) = k
      BY <3>1, ForkCommon
    <3> QED
      BY <3>2 DEF a, b, c
  <2>7. Pending(m)' = Append(Pending(m), e) /\ Seen(m)' = Seen(m)
    BY <1>10, <2>5, <2>6 DEF Pending, Seen, e
  <2>8. pend' = [pend EXCEPT ![m] = Append(pend[m], e)] /\ seen' = seen
    BY <1>3, <1>10, <2>7 DEF seen
  <2> QED
    BY <1>4, <1>6, <1>10, <2>3, <2>8
<1>11. ASSUME NEW m \in Machines, Land(m), clone'[m].head = clone[m].head,
              \A n \in Machines \ {m} : clone'[n].head = clone[n].head
       PROVE  Shared!Next \/ Shared!vars' = Shared!vars
  <2>1. /\ remote' = clone[m].head /\ Forked(clone[m].head, remote, m, Len(remote))
        /\ clone[m].head \in Seq(Commits)
    BY <1>1, <1>11, LandFork
  <2>2. remote' = remote \o Pending(m) /\ Seen(m) = Len(remote)
    <3> DEFINE b == clone[m].head
               c == remote
    <3>1. b \in Seq(Commits) /\ c \in Seq(Commits) /\ Forked(b, c, m, Len(c))
      BY <1>1, <2>1
    <3> HIDE DEF b, c
    <3>2. Common(b, c) = Len(c)
      BY <3>1, ForkCommon
    <3>3. c \o Beyond(b, c) = b
      BY <3>1, ForkRebase
    <3> QED
      BY <2>1, <3>2, <3>3 DEF Pending, Seen, b, c
  <2>3. Pending(m)' = <<>> /\ Seen(m)' = Len(remote')
    BY <1>11, <2>1, ForkSelf DEF Pending, Seen
  <2>4. ASSUME NEW n \in Machines \ {m} PROVE Pending(n)' = Pending(n) /\ Seen(n)' = Seen(n)
    <3>1. /\ clone[n].head \in Seq(Commits)
          /\ \/ Forked(clone[n].head, remote, n, Seen(n))
             \/ clone[n].head = <<>> /\ Pending(n) = <<>> /\ Seen(n) = 0
      BY <1>1, PendingIs
    <3>2. CASE Forked(clone[n].head, remote, n, Seen(n))
      <4>1. /\ Forked(clone[n].head, remote', n, Seen(n))
            /\ Beyond(clone[n].head, remote') = Beyond(clone[n].head, remote)
        BY <1>1, <2>1, <3>1, <3>2, ForkLand
      <4>2. Common(clone[n].head, remote') = Seen(n)
        BY <2>1, <3>1, <4>1, ForkCommon
      <4> QED
        BY <1>11, <4>1, <4>2 DEF Pending, Seen
    <3>3. CASE clone[n].head = <<>> /\ Pending(n) = <<>> /\ Seen(n) = 0
      <4>1. Beyond(<<>>, remote') = <<>> /\ Common(<<>>, remote') = 0
        BY <2>1, EmptyBranch
      <4> QED
        BY <1>11, <3>3, <4>1 DEF Pending, Seen
    <3> QED
      BY <3>1, <3>2, <3>3
  <2>5. /\ pend' = [pend EXCEPT ![m] = <<>>] /\ seen' = [seen EXCEPT ![m] = Len(remote')]
        /\ pend[m] = Pending(m) /\ seen[m] = Seen(m)
    <3>1. /\ pend' = [pend EXCEPT ![m] = Pending(m)'] /\ seen' = [seen EXCEPT ![m] = Seen(m)']
      BY <2>4, OnePending DEF pend, seen
    <3> QED
      BY <2>3, <3>1 DEF pend, seen
  <2>6. CASE Pending(m) # <<>>
    <3>1. Shared!Publish(m)
      BY <1>4, <2>2, <2>5, <2>6
    <3> QED
      BY <1>6, <3>1
  <2>7. CASE Pending(m) = <<>>
    <3>1. remote' = remote
      BY <1>1, <2>2, <2>7, ConcatEmptySeq
    <3>2. pend' = pend /\ seen' = seen
      BY <2>2, <2>5, <2>7, <3>1 DEF pend, seen
    <3> QED
      BY <1>5, <3>1, <3>2
  <2> QED
    BY <2>6, <2>7
<1> QED
  <2> DEFINE Implements == Shared!Next \/ Shared!vars' = Shared!vars
  <2>1. Implements
    BY <1>2, <1>7, <1>8, <1>9, <1>10, <1>11, BranchSteps
  <2> QED
    BY <2>1

(* The archive implements the shared log: each commit enters it once, in   *)
(* its author's order, and none is lost on the way.                        *)
THEOREM ArchiveIsShared == Spec => ImplementsShared
<1>1. Init => Shared!Init
  BY SharedInit
<1>2. Inv /\ Inv' /\ [Next]_vars => [Shared!Next]_(Shared!vars)
  BY SharedStep
<1> QED
  BY <1>1, <1>2, ArchiveInvariant, PTL DEF Spec, ImplementsShared, Shared!Spec
=============================================================================
