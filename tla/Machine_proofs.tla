--------------------------- MODULE Machine_proofs ---------------------------
(***************************************************************************)
(* What the parts of a machine promise holds of the machine, for any        *)
(* parameters: a step of the machine is a step of one part, and leaves the  *)
(* others alone.                                                            *)
(***************************************************************************)
EXTENDS Machine, FiniteFacts

(* Every behaviour of the machine is one of its tag exchange, one of its    *)
(* tagging, and one of its deletes.                                         *)
LEMMA TagsRun == Spec => Tags!Spec
<1>1. Init => Tags!Init
  BY DEF Init
<1>2. [Next]_vars => [Tags!Next]_(Tags!vars)
  <2>1. UNCHANGED tags => UNCHANGED Tags!vars
    BY DEF tags, Tags!vars, Tags!index, Tags!archive, Tags!excuses
  <2>2. UNCHANGED vars => UNCHANGED tags
    BY DEF vars
  <2>3. Next => Tags!Next \/ UNCHANGED tags
    BY DEF Next, TagsStep, TaggingStep, SubstringsStep, SetupStep, UpgradesStep, VectorsStep,
         SearchesStep, DeletesStep, IngestsStep
  <2> QED
    BY <2>1, <2>2, <2>3
<1> QED
  BY <1>1, <1>2, PTL DEF Spec, Tags!Spec

LEMMA TaggingRuns == Spec => Tagging!Spec
<1>1. Init => Tagging!Init
  BY DEF Init
<1>2. [Next]_vars => [Tagging!Next]_(Tagging!vars)
  <2>1. UNCHANGED tagging => UNCHANGED Tagging!vars
    BY DEF tagging, Tagging!vars, Tagging!tags, Tagging!locks, Tagging!cache
  <2>2. UNCHANGED vars => UNCHANGED tagging
    BY DEF vars
  <2>3. Next => Tagging!Next \/ UNCHANGED tagging
    BY DEF Next, TagsStep, TaggingStep, SubstringsStep, SetupStep, UpgradesStep, VectorsStep,
         SearchesStep, DeletesStep, IngestsStep
  <2> QED
    BY <2>1, <2>2, <2>3
<1> QED
  BY <1>1, <1>2, PTL DEF Spec, Tagging!Spec

LEMMA DeletesRun == Spec => Deletes!Spec
<1>1. Init => Deletes!Init
  BY DEF Init
<1>2. [Next]_vars => [Deletes!Next]_(Deletes!vars)
  <2>1. UNCHANGED commands => UNCHANGED Deletes!vars
    BY DEF commands, Deletes!vars, Deletes!index, Deletes!history, Deletes!bounds
  <2>2. UNCHANGED vars => UNCHANGED commands
    BY DEF vars
  <2>3. Next => Deletes!Next \/ UNCHANGED commands
    BY DEF Next, TagsStep, TaggingStep, SubstringsStep, SetupStep, UpgradesStep, VectorsStep,
         SearchesStep, DeletesStep, IngestsStep
  <2> QED
    BY <2>1, <2>2, <2>3
<1> QED
  BY <1>1, <1>2, PTL DEF Spec, Deletes!Spec

(* Once the children of the tag-writes are done, the store shows the latest *)
(* tagging of a session.                                                    *)
THEOREM TaggingsAreShown == Spec => []StoreShowsLatest
BY TagsRun, PartsAssumption, Tags!ShowsLatest, PTL DEF StoreShowsLatest

(* Once nothing is left to do, every machine shows the latest tagging of a  *)
(* session whose transcript is on the machine of the highest id.            *)
THEOREM TaggingsAllArrive == Spec => []TaggingsArrive
BY TagsRun, PartsAssumption, Tags!Arrive, PTL DEF TaggingsArrive

(* However closeouts claim, reclaim and release, one worker tags at a time, *)
(* unless a fresh lock was taken for the stale one it replaced.             *)
THEOREM OneTagsAtOnce == Spec => []OneWorker
BY TaggingRuns, PartsAssumption, Tagging!OneTagsAtOnce, PTL DEF OneWorker

(* No message is ever in two segments, whatever dumps the taggers saw.      *)
THEOREM NoMessageTwice == Spec => []SegmentsDisjoint
BY TaggingRuns, PartsAssumption, Tagging!NoMessageTwice, PTL DEF SegmentsDisjoint

(* A worker that ends well leaves nothing untagged, unless the cache's      *)
(* fingerprint was that of another transcript than its dump's.              *)
THEOREM NothingUntagged == Spec => []DoneMeansTagged
BY TaggingRuns, PartsAssumption, Tagging!NothingUntagged, PTL DEF DoneMeansTagged

(* Once an index pass that began after the receipt is over, nothing of a    *)
(* session the receipt named is left, unless an agent wrote it again.       *)
THEOREM ReceiptsHold == Spec => []ReceiptHolds
BY DeletesRun, PartsAssumption, Deletes!NothingLeft, PTL DEF ReceiptHolds

(* A transcript is removed only when the plan the user agreed to had it.    *)
THEOREM DeletesAreAgreed == Spec => []OnlyWhatWasAgreed
BY DeletesRun, PartsAssumption, Deletes!NothingUnasked, PTL DEF OnlyWhatWasAgreed

----------------------------------------------------------------------------
(* The upgrade: who swaps the binary has the swap to itself, for an older   *)
(* binary than the one it brings, until a swap crosses another.             *)

File == [ver: Nat, whole: BOOLEAN, there: BOOLEAN]
UpgradeSteps == {"none", "lookup", "fetch", "verify", "write", "clear", "aside", "swap", "restore",
                 "drop", "ended", "broken", "cut"}
UpgradeRun == [pc: UpgradeSteps, from: Nat, tag: Nat, force: BOOLEAN, archive: File, bin: File]

Swapping == {"clear", "aside", "swap", "restore", "drop"}

Good(f) == f.whole /\ f.ver >= best

UpgradeTyped ==
  /\ target \in File /\ new \in File /\ old \in File
  /\ latest \in Nat \ {0} /\ best \in Nat /\ crossedSwap \in BOOLEAN
  /\ upgrade \in [Upgrades!Runs -> UpgradeRun]

(* A command past the comparison brings a later version, all of it once it  *)
(* was verified.                                                            *)
Brings ==
  \A r \in Upgrades!Runs :
    /\ upgrade[r].pc \in {"fetch", "verify", "write"} \cup Swapping => upgrade[r].from < upgrade[r].tag
    /\ upgrade[r].pc = "verify" /\ upgrade[r].archive.whole =>
         upgrade[r].archive = Upgrades!Binary(upgrade[r].tag)
    /\ upgrade[r].pc \in {"write"} \cup Swapping => upgrade[r].bin = Upgrades!Binary(upgrade[r].tag)

Alone == \A r, q \in Upgrades!Runs :
           upgrade[r].pc \in Swapping /\ upgrade[q].pc \in Swapping => r = q

(* What a swap finds at its steps.                                          *)
Placed(r) ==
  /\ upgrade[r].pc \in {"clear", "aside"} =>
       target = Upgrades!Binary(upgrade[r].from) /\ new = upgrade[r].bin
  /\ upgrade[r].pc \in {"swap", "restore"} =>
       target = Upgrades!NoFile /\ new = upgrade[r].bin /\ old = Upgrades!Binary(upgrade[r].from)
  /\ upgrade[r].pc = "drop" => Good(target)

Saved == \/ Good(target)
         \/ /\ target = Upgrades!NoFile /\ Good(old)
            /\ \E r \in Upgrades!Runs : upgrade[r].pc \in {"swap", "restore", "cut", "broken"}

UpgradeInv ==
  /\ UpgradeTyped /\ Brings
  /\ ~crossedSwap => Alone /\ Saved /\ \A r \in Upgrades!Runs : Placed(r)

LEMMA UpgradeFiles ==
  /\ Upgrades!NoFile \in File /\ ~Upgrades!NoFile.whole /\ ~Upgrades!NoFile.there
  /\ \A v \in Nat : /\ Upgrades!Binary(v) \in File /\ Upgrades!Partial(v) \in File
                    /\ Upgrades!Binary(v).whole /\ Upgrades!Binary(v).there /\ Upgrades!Binary(v).ver = v
                    /\ ~Upgrades!Partial(v).whole
  /\ \A v \in Nat : Upgrades!Binary(v) # Upgrades!NoFile
BY DEF Upgrades!NoFile, Upgrades!Binary, Upgrades!Partial, File

LEMMA UpgradeBegins == Upgrades!Init => UpgradeInv
<1> SUFFICES ASSUME Upgrades!Init PROVE UpgradeInv
  OBVIOUS
<1>1. PICK v \in Nat : target = Upgrades!Binary(v) /\ best = v
  BY DEF Upgrades!Init, Upgrades!Versions
<1>2. \A r \in Upgrades!Runs : upgrade[r] = Upgrades!NotStarted
  BY DEF Upgrades!Init
<1>3. Upgrades!NotStarted \in UpgradeRun /\ Upgrades!NotStarted.pc = "none"
  BY UpgradeFiles DEF UpgradeRun, UpgradeSteps, Upgrades!NotStarted
<1>4. upgrade \in [Upgrades!Runs -> UpgradeRun]
  BY <1>2, <1>3 DEF Upgrades!Init
<1>5. latest \in Nat \ {0}
  BY ReleaseAssumption DEF Upgrades!Init, Upgrades!Versions
<1>6. new \in File /\ old \in File
  BY UpgradeFiles DEF Upgrades!Init
<1>7. Good(target)
  BY <1>1, UpgradeFiles DEF Good
<1>8. UpgradeTyped
  BY <1>1, <1>4, <1>5, <1>6, UpgradeFiles DEF UpgradeTyped, Upgrades!Init
<1>9. \A r \in Upgrades!Runs : upgrade[r].pc = "none"
  BY <1>2, <1>3
<1>10. Brings /\ Alone /\ \A r \in Upgrades!Runs : Placed(r)
  BY <1>9 DEF Brings, Alone, Placed, Swapping
<1> QED
  BY <1>7, <1>8, <1>10 DEF UpgradeInv, Saved

(* The command r goes on as x, and the others stay where they are.          *)
Moves(r, x) ==
  /\ x \in UpgradeRun /\ upgrade' = [upgrade EXCEPT ![r] = x]
  /\ x.pc \in {"fetch", "verify", "write"} \cup Swapping => x.from < x.tag
  /\ x.pc = "verify" /\ x.archive.whole => x.archive = Upgrades!Binary(x.tag)
  /\ x.pc \in {"write"} \cup Swapping => x.bin = Upgrades!Binary(x.tag)

LEMMA UpgradeMoves ==
  ASSUME UpgradeTyped, Brings, NEW r \in Upgrades!Runs, NEW x, Moves(r, x)
  PROVE  /\ upgrade' \in [Upgrades!Runs -> UpgradeRun] /\ Brings'
         /\ upgrade'[r] = x /\ \A q \in Upgrades!Runs \ {r} : upgrade'[q] = upgrade[q]
<1>1. upgrade \in [Upgrades!Runs -> UpgradeRun]
  BY DEF UpgradeTyped
<1>2. /\ upgrade' \in [Upgrades!Runs -> UpgradeRun]
      /\ upgrade'[r] = x /\ \A q \in Upgrades!Runs \ {r} : upgrade'[q] = upgrade[q]
  BY <1>1 DEF Moves
<1>3. Brings'
  BY <1>2 DEF Brings, Moves
<1> QED
  BY <1>2, <1>3

(* A step outside the swap leaves what is in place as it was.               *)
LEMMA OutsideSwap ==
  ASSUME UpgradeInv, NEW r \in Upgrades!Runs, NEW x, Moves(r, x),
         upgrade[r].pc \notin Swapping \cup {"cut", "broken"}, x.pc \notin Swapping,
         target' = target, old' = old, best' = best, crossedSwap' \in BOOLEAN,
         crossedSwap => crossedSwap',
         \/ new' = new
         \/ new' \in File /\ (~crossedSwap' => \A q \in Upgrades!Runs \ {r} : upgrade[q].pc \notin Swapping),
         latest' = latest
  PROVE  UpgradeInv'
<1>1. /\ upgrade' \in [Upgrades!Runs -> UpgradeRun] /\ Brings'
      /\ upgrade'[r] = x /\ \A q \in Upgrades!Runs \ {r} : upgrade'[q] = upgrade[q]
  BY UpgradeMoves DEF UpgradeInv
<1>2. UpgradeTyped'
  BY <1>1 DEF UpgradeInv, UpgradeTyped
<1>3. ASSUME ~crossedSwap' PROVE Alone' /\ Saved' /\ \A q \in Upgrades!Runs : Placed(q)'
  <2>1. Alone /\ Saved /\ \A q \in Upgrades!Runs : Placed(q)
    BY <1>3 DEF UpgradeInv
  <2>2. Alone'
    BY <1>1, <2>1 DEF Alone
  <2>3. Saved'
    <3>1. CASE Good(target)
      BY <3>1 DEF Saved, Good
    <3>2. CASE ~Good(target)
      <4>1. PICK q \in Upgrades!Runs : upgrade[q].pc \in {"swap", "restore", "cut", "broken"}
        BY <2>1, <3>2 DEF Saved
      <4>2. upgrade'[q] = upgrade[q]
        BY <1>1, <4>1 DEF Swapping
      <4> QED
        BY <2>1, <3>2, <4>1, <4>2 DEF Saved, Good
    <3> QED
      BY <3>1, <3>2
  <2>4. ASSUME NEW q \in Upgrades!Runs PROVE Placed(q)'
    <3>1. CASE q = r
      BY <1>1, <3>1 DEF Placed, Swapping
    <3>2. CASE q # r /\ new' = new
      BY <1>1, <2>1, <3>2 DEF Placed, Good
    <3>3. CASE q # r /\ new' # new
      BY <1>1, <1>3, <3>3 DEF Placed, Swapping
    <3> QED
      BY <3>1, <3>2, <3>3
  <2> QED
    BY <2>2, <2>3, <2>4
<1> QED
  BY <1>1, <1>2, <1>3 DEF UpgradeInv

(* A step of the one command that swaps.                                    *)
LEMMA InsideSwap ==
  ASSUME UpgradeInv, NEW r \in Upgrades!Runs, NEW x, Moves(r, x),
         upgrade[r].pc \in Swapping \/ (~crossedSwap' => \A q \in Upgrades!Runs \ {r} : upgrade[q].pc \notin Swapping),
         target' \in File, new' \in File, old' \in File, best' \in Nat, latest' = latest,
         crossedSwap' \in BOOLEAN, crossedSwap => crossedSwap',
         ~crossedSwap' => Saved' /\ Placed(r)'
  PROVE  UpgradeInv'
<1>1. /\ upgrade' \in [Upgrades!Runs -> UpgradeRun] /\ Brings'
      /\ upgrade'[r] = x /\ \A q \in Upgrades!Runs \ {r} : upgrade'[q] = upgrade[q]
  BY UpgradeMoves DEF UpgradeInv
<1>2. UpgradeTyped'
  BY <1>1 DEF UpgradeInv, UpgradeTyped
<1>3. ASSUME ~crossedSwap' PROVE Alone' /\ \A q \in Upgrades!Runs : Placed(q)'
  <2>1. \A q \in Upgrades!Runs \ {r} : upgrade[q].pc \notin Swapping
    BY <1>3 DEF UpgradeInv, Alone
  <2>2. \A q \in Upgrades!Runs \ {r} : upgrade'[q].pc \notin Swapping
    BY <1>1, <2>1
  <2>3. Alone'
    BY <2>2 DEF Alone
  <2>4. ASSUME NEW q \in Upgrades!Runs PROVE Placed(q)'
    <3>1. CASE q = r
      BY <1>3, <3>1
    <3>2. CASE q # r
      BY <2>2, <3>2 DEF Placed, Swapping
    <3> QED
      BY <3>1, <3>2
  <2> QED
    BY <2>3, <2>4
<1> QED
  BY <1>1, <1>2, <1>3 DEF UpgradeInv

LEMMA UpgradeContinues == UpgradeInv /\ [Upgrades!Next]_(Upgrades!vars) => UpgradeInv'
<1> SUFFICES ASSUME UpgradeInv, [Upgrades!Next]_(Upgrades!vars) PROVE UpgradeInv'
  OBVIOUS
<1>0. UpgradeTyped /\ Brings
  BY DEF UpgradeInv
<1>1. CASE UNCHANGED Upgrades!vars
  BY <1>1 DEF Upgrades!vars, Upgrades!files, Upgrades!history, UpgradeInv, UpgradeTyped, Brings,
     Alone, Saved, Placed, Good
<1>2. ASSUME NEW v \in Upgrades!Versions \ {0}, Upgrades!Release(v) PROVE UpgradeInv'
  <2>1. v \in Nat \ {0}
    BY ReleaseAssumption DEF Upgrades!Versions
  <2> QED
    BY <1>2, <2>1 DEF Upgrades!Release, Upgrades!files, Upgrades!history, UpgradeInv, UpgradeTyped,
       Brings, Alone, Saved, Placed, Good
<1>3. ASSUME NEW r \in Upgrades!Runs PROVE
        /\ \A force \in BOOLEAN : Upgrades!Start(r, force) => UpgradeInv'
        /\ Upgrades!latestReleaseTag(r) \/ Upgrades!LookupFails(r) \/ Upgrades!FetchArchive(r)
           \/ Upgrades!VerifyDownload(r) => UpgradeInv'
  <2> DEFINE me == upgrade[r]
  <2>0. me \in UpgradeRun /\ target \in File /\ new \in File /\ old \in File /\ latest \in Nat \ {0}
    BY <1>0 DEF UpgradeTyped
  <2>1. ASSUME NEW force \in BOOLEAN, Upgrades!Start(r, force) PROVE UpgradeInv'
    <3> DEFINE x == [me EXCEPT !.pc = "lookup", !.from = target.ver, !.force = force]
    <3>1. x \in UpgradeRun /\ x.pc = "lookup" /\ upgrade' = [upgrade EXCEPT ![r] = x]
      BY <2>0, <2>1 DEF Upgrades!Start, UpgradeRun, UpgradeSteps, File
    <3>2. me.pc = "none"
      BY <2>1 DEF Upgrades!Start, Upgrades!NotStarted
    <3> HIDE DEF x
    <3>3. Moves(r, x)
      BY <3>1 DEF Moves, Swapping
    <3> QED
      BY <1>0, <2>1, <3>1, <3>2, <3>3, OutsideSwap
         DEF Upgrades!Start, Upgrades!files, Upgrades!history, Swapping, UpgradeTyped
  <2>2. ASSUME Upgrades!latestReleaseTag(r) PROVE UpgradeInv'
    <3> DEFINE go == Upgrades!updateAvailable(me.from, latest) /\ (Upgrades!isDev(me.from) => me.force)
               x == [me EXCEPT !.tag = latest, !.pc = IF go THEN "fetch" ELSE "ended"]
    <3>1. x \in UpgradeRun /\ x.from = me.from /\ x.tag = latest /\ x.pc \in {"fetch", "ended"}
          /\ (x.pc = "fetch" => go) /\ upgrade' = [upgrade EXCEPT ![r] = x]
      BY <2>0, <2>2 DEF Upgrades!latestReleaseTag, UpgradeRun, UpgradeSteps
    <3>2. go => me.from < latest
      BY <2>0 DEF Upgrades!updateAvailable, Upgrades!isDev, UpgradeRun, UpgradeSteps
    <3>3. me.pc = "lookup"
      BY <2>2 DEF Upgrades!latestReleaseTag, Upgrades!At
    <3> HIDE DEF x, go
    <3>4. Moves(r, x)
      BY <3>1, <3>2 DEF Moves, Swapping
    <3> QED
      BY <1>0, <2>2, <3>1, <3>3, <3>4, OutsideSwap
         DEF Upgrades!latestReleaseTag, Upgrades!files, Upgrades!history, Swapping, UpgradeTyped
  <2>3. ASSUME NEW pc \in {"ended"}, me.pc \in {"lookup", "fetch", "verify"}, Upgrades!Go(r, pc),
               UNCHANGED <<target, new, old, latest, best, crossedSwap>>
        PROVE  UpgradeInv'
    <3> DEFINE x == [me EXCEPT !.pc = pc]
    <3>1. x \in UpgradeRun /\ x.pc = "ended" /\ upgrade' = [upgrade EXCEPT ![r] = x]
      BY <2>0, <2>3 DEF Upgrades!Go, UpgradeRun, UpgradeSteps
    <3> HIDE DEF x
    <3>2. Moves(r, x)
      BY <3>1 DEF Moves, Swapping
    <3> QED
      BY <1>0, <2>3, <3>1, <3>2, OutsideSwap DEF Swapping, UpgradeTyped
  <2>4. ASSUME Upgrades!LookupFails(r) PROVE UpgradeInv'
    BY <2>3, <2>4 DEF Upgrades!LookupFails, Upgrades!At, Upgrades!files, Upgrades!history
  <2>5. ASSUME Upgrades!FetchArchive(r) PROVE UpgradeInv'
    <3>0. me.pc = "fetch" /\ UNCHANGED <<target, new, old, latest, best, crossedSwap>>
      BY <2>5 DEF Upgrades!FetchArchive, Upgrades!At, Upgrades!files, Upgrades!history
    <3>1. ASSUME NEW a \in {Upgrades!Binary(me.tag), Upgrades!Partial(me.tag)},
                 upgrade' = [upgrade EXCEPT ![r] = [@ EXCEPT !.pc = "verify", !.archive = a]]
          PROVE  UpgradeInv'
      <4> DEFINE x == [me EXCEPT !.pc = "verify", !.archive = a]
      <4>1. a \in File /\ (a.whole => a = Upgrades!Binary(me.tag))
        BY <2>0, UpgradeFiles DEF UpgradeRun, UpgradeSteps
      <4>2. x \in UpgradeRun /\ x.pc = "verify" /\ x.archive = a /\ x.tag = me.tag /\ x.from = me.from
            /\ upgrade' = [upgrade EXCEPT ![r] = x]
        BY <2>0, <3>1, <4>1 DEF UpgradeRun, UpgradeSteps
      <4> HIDE DEF x
      <4>3. Moves(r, x)
        BY <1>0, <3>0, <4>1, <4>2 DEF Moves, Brings, Swapping
      <4> QED
        BY <1>0, <3>0, <4>2, <4>3, OutsideSwap DEF Swapping, UpgradeTyped
    <3>2. CASE Upgrades!Go(r, "ended")
      BY <2>3, <3>0, <3>2
    <3> QED
      BY <2>5, <3>1, <3>2 DEF Upgrades!FetchArchive
  <2>6. ASSUME Upgrades!VerifyDownload(r) PROVE UpgradeInv'
    <3>0. me.pc = "verify" /\ UNCHANGED <<target, new, old, latest, best, crossedSwap>>
      BY <2>6 DEF Upgrades!VerifyDownload, Upgrades!At, Upgrades!files, Upgrades!history
    <3>1. CASE me.archive.whole /\ upgrade' = [upgrade EXCEPT ![r] = [@ EXCEPT !.pc = "write", !.bin = me.archive]]
      <4> DEFINE x == [me EXCEPT !.pc = "write", !.bin = me.archive]
      <4>2. x \in UpgradeRun /\ x.pc = "write" /\ x.bin = me.archive /\ x.tag = me.tag /\ x.from = me.from
            /\ upgrade' = [upgrade EXCEPT ![r] = x]
        BY <2>0, <3>1 DEF UpgradeRun, UpgradeSteps
      <4> HIDE DEF x
      <4>3. Moves(r, x)
        BY <1>0, <3>0, <3>1, <4>2 DEF Moves, Brings, Swapping
      <4> QED
        BY <1>0, <3>0, <4>2, <4>3, OutsideSwap DEF Swapping, UpgradeTyped
    <3>2. CASE Upgrades!Go(r, "ended")
      BY <2>3, <3>0, <3>2
    <3> QED
      BY <2>6, <3>1, <3>2 DEF Upgrades!VerifyDownload, Upgrades!verifyChecksum, Upgrades!Go
  <2> QED
    BY <2>1, <2>2, <2>4, <2>5, <2>6
<1>4. ASSUME NEW r \in Upgrades!Runs PROVE
        Upgrades!WriteNew(r) \/ Upgrades!RemoveOld(r) \/ Upgrades!MoveAside(r) \/ Upgrades!SwapIn(r)
        \/ Upgrades!RollBack(r) \/ Upgrades!DropOld(r) \/ Upgrades!Kill(r) => UpgradeInv'
  <2> DEFINE me == upgrade[r]
  <2>0. me \in UpgradeRun /\ target \in File /\ new \in File /\ old \in File /\ latest \in Nat \ {0}
        /\ me.from \in Nat /\ me.tag \in Nat /\ best \in Nat /\ crossedSwap \in BOOLEAN
    BY <1>0 DEF UpgradeTyped, UpgradeRun, UpgradeSteps
  <2>1. ASSUME NEW pc \in Swapping \cup {"ended", "broken", "cut"}, Upgrades!Go(r, pc),
               pc \in Swapping => me.pc \in Swapping \cup {"write"}
        PROVE  \E x : Moves(r, x) /\ x.pc = pc /\ x.from = me.from /\ x.tag = me.tag /\ x.bin = me.bin
    <3> DEFINE x == [me EXCEPT !.pc = pc]
    <3>1. x \in UpgradeRun /\ x.pc = pc /\ x.from = me.from /\ x.tag = me.tag /\ x.bin = me.bin
          /\ upgrade' = [upgrade EXCEPT ![r] = x]
      BY <2>0, <2>1 DEF Upgrades!Go, UpgradeRun, UpgradeSteps, Swapping
    <3>2. pc \in Swapping => me.from < me.tag /\ me.bin = Upgrades!Binary(me.tag)
      BY <1>0, <2>1 DEF Brings
    <3> HIDE DEF x
    <3>3. Moves(r, x)
      BY <3>1, <3>2 DEF Moves, Swapping
    <3> QED
      BY <3>1, <3>3
  <2>2. ~crossedSwap => Alone /\ Saved /\ Placed(r)
    BY DEF UpgradeInv
  <2>3. \A v \in Nat : target = Upgrades!Binary(v) /\ Saved => Good(target) /\ v >= best
    BY UpgradeFiles DEF Saved, Good
  <2>4. ASSUME NEW x, Moves(r, x) PROVE upgrade'[r] = x /\ \A q \in Upgrades!Runs \ {r} : upgrade'[q] = upgrade[q]
    BY <1>0, <2>4, UpgradeMoves
  <2>5. Upgrades!Crosses(r) <=>
          \/ target # Upgrades!Binary(me.from)
          \/ \E q \in Upgrades!Runs \ {r} : upgrade[q].pc \in Swapping
    BY DEF Upgrades!Crosses, Swapping
  <2>6. ASSUME Upgrades!At(r, "write"), new' = Upgrades!Partial(me.tag), Upgrades!Go(r, "ended"),
               crossedSwap' = (crossedSwap \/ Upgrades!Crosses(r)),
               UNCHANGED <<target, old, latest, best>>
        PROVE  UpgradeInv'
    <3>1. PICK x : Moves(r, x) /\ x.pc = "ended"
      BY <2>1, <2>6 DEF Swapping
    <3>2. crossedSwap' \in BOOLEAN /\ (crossedSwap => crossedSwap')
          /\ (~crossedSwap' => \A q \in Upgrades!Runs \ {r} : upgrade[q].pc \notin Swapping)
      BY <2>0, <2>5, <2>6
    <3>3. new' \in File
      BY <2>0, <2>6, UpgradeFiles
    <3> QED
      BY <2>6, <3>1, <3>2, <3>3, OutsideSwap DEF Upgrades!At, Swapping
  <2>7. ASSUME Upgrades!WriteNew(r) PROVE UpgradeInv'
    <3>1. CASE new' = me.bin /\ Upgrades!Go(r, "clear")
      <4>1. PICK x : Moves(r, x) /\ x.pc = "clear" /\ x.from = me.from /\ x.bin = me.bin
        BY <2>1, <2>7, <3>1 DEF Swapping, Upgrades!WriteNew, Upgrades!At
      <4>2. crossedSwap' = (crossedSwap \/ Upgrades!Crosses(r)) /\ UNCHANGED <<target, old, latest, best>>
        BY <2>7 DEF Upgrades!WriteNew
      <4>3. me.bin \in File
        BY <2>0 DEF UpgradeRun, UpgradeSteps
      <4>4. ASSUME ~crossedSwap' PROVE Saved' /\ Placed(r)'
        <5>1. target = Upgrades!Binary(me.from) /\ Good(target)
          BY <2>0, <2>2, <2>3, <2>5, <4>2, <4>4
        <5>2. Placed(r)'
          BY <2>4, <3>1, <4>1, <4>2, <5>1 DEF Placed
        <5>3. Saved'
          BY <4>2, <5>1 DEF Saved, Good
        <5> QED
          BY <5>2, <5>3
      <4>5. ~crossedSwap' => \A q \in Upgrades!Runs \ {r} : upgrade[q].pc \notin Swapping
        BY <2>5, <4>2
      <4>6. crossedSwap' \in BOOLEAN /\ (crossedSwap => crossedSwap')
        BY <2>0, <2>5, <4>2
      <4> QED
        BY <2>0, <3>1, <4>1, <4>2, <4>3, <4>4, <4>5, <4>6, InsideSwap
    <3>2. CASE new' = Upgrades!Partial(me.tag) /\ Upgrades!Go(r, "ended")
      BY <2>6, <2>7, <3>2 DEF Upgrades!WriteNew
    <3> QED
      BY <2>7, <3>1, <3>2 DEF Upgrades!WriteNew
  <2>8. ASSUME Upgrades!RemoveOld(r) PROVE UpgradeInv'
    <3>0. me.pc = "clear" /\ UNCHANGED <<target, new, latest, best, crossedSwap>> /\ old' = Upgrades!NoFile
      BY <2>8 DEF Upgrades!RemoveOld, Upgrades!At, Upgrades!history
    <3>1. PICK x : Moves(r, x) /\ x.pc = "aside" /\ x.from = me.from /\ x.bin = me.bin
      BY <2>1, <2>8, <3>0 DEF Swapping, Upgrades!RemoveOld
    <3>2. ASSUME ~crossedSwap' PROVE Saved' /\ Placed(r)'
      <4>1. target = Upgrades!Binary(me.from) /\ new = me.bin /\ Good(target)
        BY <2>0, <2>2, <2>3, <3>0, <3>2 DEF Placed
      <4>2. Placed(r)'
        BY <2>4, <3>0, <3>1, <4>1 DEF Placed
      <4> QED
        BY <3>0, <4>1, <4>2 DEF Saved, Good
    <3> QED
      BY <2>0, <3>0, <3>1, <3>2, InsideSwap, UpgradeFiles DEF Swapping
  <2>9. ASSUME Upgrades!MoveAside(r) PROVE UpgradeInv'
    <3>0. me.pc = "aside" /\ UNCHANGED <<latest, best, crossedSwap>>
      BY <2>9 DEF Upgrades!MoveAside, Upgrades!At, Upgrades!history
    <3>1. ~crossedSwap => target = Upgrades!Binary(me.from) /\ new = me.bin /\ Good(target)
      BY <2>0, <2>2, <2>3, <3>0 DEF Placed
    <3>2. CASE old' = target /\ target' = Upgrades!NoFile /\ new' = new /\ Upgrades!Go(r, "swap")
      <4>1. PICK x : Moves(r, x) /\ x.pc = "swap" /\ x.from = me.from /\ x.bin = me.bin
        BY <2>1, <3>0, <3>2 DEF Swapping
      <4>2. ASSUME ~crossedSwap' PROVE Saved' /\ Placed(r)'
        <5>1. Placed(r)'
          BY <2>4, <3>0, <3>1, <3>2, <4>1, <4>2 DEF Placed
        <5>2. Saved'
          BY <2>4, <3>0, <3>1, <3>2, <4>1, <4>2 DEF Saved, Good
        <5> QED
          BY <5>1, <5>2
      <4> QED
        BY <2>0, <3>0, <3>2, <4>1, <4>2, InsideSwap, UpgradeFiles DEF Swapping
    <3>3. CASE new' = Upgrades!NoFile /\ target' = target /\ old' = old /\ Upgrades!Go(r, "ended")
      <4>1. PICK x : Moves(r, x) /\ x.pc = "ended"
        BY <2>1, <3>0, <3>3 DEF Swapping
      <4>2. ASSUME ~crossedSwap' PROVE Saved' /\ Placed(r)'
        <5>1. Placed(r)'
          BY <2>4, <4>1 DEF Placed
        <5>2. Saved'
          BY <3>0, <3>1, <3>3, <4>2 DEF Saved, Good
        <5> QED
          BY <5>1, <5>2
      <4> QED
        BY <2>0, <3>0, <3>3, <4>1, <4>2, InsideSwap, UpgradeFiles DEF Swapping
    <3> QED
      BY <2>9, <3>2, <3>3 DEF Upgrades!MoveAside
  <2>10. me.pc \in {"swap", "restore"} /\ ~crossedSwap =>
           /\ target = Upgrades!NoFile /\ new = Upgrades!Binary(me.tag) /\ new = me.bin
           /\ old = Upgrades!Binary(me.from) /\ Good(old) /\ me.from >= best /\ me.from < me.tag
    <3>1. me.pc \in {"swap", "restore"} => me.from < me.tag /\ me.bin = Upgrades!Binary(me.tag)
      BY <1>0 DEF Brings, Swapping
    <3>2. me.pc \in {"swap", "restore"} /\ ~crossedSwap =>
            target = Upgrades!NoFile /\ new = me.bin /\ old = Upgrades!Binary(me.from) /\ Saved
      BY <2>2 DEF Placed
    <3> QED
      BY <2>0, <3>1, <3>2, UpgradeFiles DEF Saved, Good
  <2>11. ASSUME Upgrades!SwapIn(r) PROVE UpgradeInv'
    <3>0. me.pc = "swap" /\ UNCHANGED <<old, latest, crossedSwap>>
      BY <2>11 DEF Upgrades!SwapIn, Upgrades!At
    <3>1. CASE /\ target' = new /\ new' = Upgrades!NoFile /\ Upgrades!Go(r, "drop")
               /\ best' = IF new.whole /\ new.ver > best THEN new.ver ELSE best
      <4>1. PICK x : Moves(r, x) /\ x.pc = "drop"
        BY <2>1, <3>0, <3>1 DEF Swapping
      <4>2. ASSUME ~crossedSwap' PROVE Saved' /\ Placed(r)'
        <5>1. new.whole /\ new.ver = me.tag /\ me.tag > best
          BY <2>0, <2>10, <3>0, <4>2, UpgradeFiles
        <5>2. Good(target)'
          BY <2>0, <3>1, <5>1 DEF Good
        <5> QED
          BY <2>4, <4>1, <5>2 DEF Saved, Placed
      <4>3. best' \in Nat
        BY <2>0, <3>1 DEF File
      <4> QED
        BY <2>0, <3>0, <3>1, <4>1, <4>2, <4>3, InsideSwap, UpgradeFiles DEF Swapping
    <3>2. CASE UNCHANGED <<target, new, best>> /\ Upgrades!Go(r, "restore")
      <4>1. PICK x : Moves(r, x) /\ x.pc = "restore" /\ x.from = me.from /\ x.bin = me.bin
        BY <2>1, <3>0, <3>2 DEF Swapping
      <4>2. ASSUME ~crossedSwap' PROVE Saved' /\ Placed(r)'
        <5>1. Placed(r)'
          BY <2>4, <2>10, <3>0, <3>2, <4>1, <4>2 DEF Placed
        <5>2. Saved'
          BY <2>4, <2>10, <3>0, <3>2, <4>1, <4>2 DEF Saved, Good
        <5> QED
          BY <5>1, <5>2
      <4> QED
        BY <2>0, <3>0, <3>2, <4>1, <4>2, InsideSwap DEF Swapping
    <3> QED
      BY <2>11, <3>1, <3>2 DEF Upgrades!SwapIn
  <2>12. ASSUME Upgrades!RollBack(r) PROVE UpgradeInv'
    <3>0. me.pc = "restore" /\ UNCHANGED <<latest, best, crossedSwap>>
      BY <2>12 DEF Upgrades!RollBack, Upgrades!At, Upgrades!history
    <3>1. CASE target' = old /\ old' = Upgrades!NoFile /\ new' = Upgrades!NoFile /\ Upgrades!Go(r, "ended")
      <4>1. PICK x : Moves(r, x) /\ x.pc = "ended"
        BY <2>1, <3>0, <3>1 DEF Swapping
      <4>2. ASSUME ~crossedSwap' PROVE Saved' /\ Placed(r)'
        <5>1. Placed(r)'
          BY <2>4, <4>1 DEF Placed
        <5>2. Saved'
          BY <2>10, <3>0, <3>1, <4>2 DEF Saved, Good
        <5> QED
          BY <5>1, <5>2
      <4> QED
        BY <2>0, <3>0, <3>1, <4>1, <4>2, InsideSwap, UpgradeFiles DEF Swapping
    <3>2. CASE UNCHANGED <<target, new, old>> /\ Upgrades!Go(r, "broken")
      <4>1. PICK x : Moves(r, x) /\ x.pc = "broken"
        BY <2>1, <3>0, <3>2 DEF Swapping
      <4>2. ASSUME ~crossedSwap' PROVE Saved' /\ Placed(r)'
        <5>1. Placed(r)'
          BY <2>4, <4>1 DEF Placed
        <5>2. Saved'
          BY <2>4, <2>10, <3>0, <3>2, <4>1, <4>2 DEF Saved, Good
        <5> QED
          BY <5>1, <5>2
      <4> QED
        BY <2>0, <3>0, <3>2, <4>1, <4>2, InsideSwap DEF Swapping
    <3> QED
      BY <2>12, <3>1, <3>2 DEF Upgrades!RollBack, Upgrades!files
  <2>13. ASSUME Upgrades!DropOld(r) PROVE UpgradeInv'
    <3>0. me.pc = "drop" /\ UNCHANGED <<target, new, latest, best, crossedSwap>> /\ old' = Upgrades!NoFile
      BY <2>13 DEF Upgrades!DropOld, Upgrades!At, Upgrades!history
    <3>1. PICK x : Moves(r, x) /\ x.pc = "ended"
      BY <2>1, <2>13 DEF Swapping, Upgrades!DropOld
    <3>2. ASSUME ~crossedSwap' PROVE Saved' /\ Placed(r)'
      <4>1. Good(target)
        BY <2>2, <3>0, <3>2 DEF Placed
      <4> QED
        BY <2>4, <3>0, <3>1, <4>1 DEF Saved, Placed, Good
    <3> QED
      BY <2>0, <3>0, <3>1, <3>2, InsideSwap, UpgradeFiles DEF Swapping
  <2>14. ASSUME Upgrades!Kill(r) PROVE UpgradeInv'
    <3>0. me.pc \notin {"none", "ended", "broken", "cut"} /\ UNCHANGED <<target, old, latest, best>>
      BY <2>14 DEF Upgrades!Kill
    <3>1. CASE /\ UNCHANGED <<new, crossedSwap>>
               /\ Upgrades!Go(r, IF me.pc \in {"swap", "restore"} THEN "cut" ELSE "ended")
      <4> DEFINE pc == IF me.pc \in {"swap", "restore"} THEN "cut" ELSE "ended"
      <4>1. PICK x : Moves(r, x) /\ x.pc = pc
        BY <2>1, <3>1 DEF Swapping
      <4>2. CASE me.pc \in Swapping
        <5>1. ASSUME ~crossedSwap' PROVE Saved' /\ Placed(r)'
          <6>1. Placed(r)'
            BY <2>4, <4>1 DEF Placed
          <6>2. Saved
            BY <2>2, <3>1, <5>1
          <6>3. CASE Good(target)
            BY <3>0, <6>1, <6>3 DEF Saved, Good
          <6>4. CASE ~Good(target)
            <7>1. PICK q \in Upgrades!Runs : upgrade[q].pc \in {"swap", "restore", "cut", "broken"}
              BY <6>2, <6>4 DEF Saved
            <7>2. upgrade'[q].pc \in {"swap", "restore", "cut", "broken"}
              BY <2>4, <3>0, <4>1, <4>2, <7>1 DEF Swapping
            <7>3. Saved'
              BY <3>0, <6>2, <6>4, <7>2 DEF Saved, Good
            <7> QED
              BY <6>1, <7>3
          <6> QED
            BY <6>1, <6>3, <6>4
        <5> QED
          BY <2>0, <3>0, <3>1, <4>1, <4>2, <5>1, InsideSwap
      <4>3. CASE me.pc \notin Swapping
        <5>1. x.pc = "ended"
          BY <4>1, <4>3 DEF Swapping
        <5> QED
          BY <2>0, <3>0, <3>1, <4>1, <4>3, <5>1, OutsideSwap DEF Swapping
      <4> QED
        BY <4>2, <4>3
    <3>2. CASE /\ Upgrades!At(r, "write") /\ Upgrades!Go(r, "ended") /\ new' = Upgrades!Partial(me.tag)
               /\ crossedSwap' = (crossedSwap \/ Upgrades!Crosses(r))
      BY <2>6, <3>0, <3>2
    <3> QED
      BY <2>14, <3>1, <3>2 DEF Upgrades!Kill
  <2> QED
    BY <2>7, <2>8, <2>9, <2>11, <2>12, <2>13, <2>14
<1> QED
  BY <1>1, <1>2, <1>3, <1>4 DEF Upgrades!Next

LEMMA UpgradesRun == Spec => Upgrades!Spec
<1>1. Init => Upgrades!Init
  BY DEF Init
<1>2. [Next]_vars => [Upgrades!Next]_(Upgrades!vars)
  <2>1. UNCHANGED upgrades => UNCHANGED Upgrades!vars
    BY DEF upgrades, Upgrades!vars, Upgrades!files, Upgrades!history
  <2>2. UNCHANGED vars => UNCHANGED upgrades
    BY DEF vars
  <2>3. Next => Upgrades!Next \/ UNCHANGED upgrades
    BY DEF Next, TagsStep, TaggingStep, SubstringsStep, SetupStep, UpgradesStep, VectorsStep,
         SearchesStep, DeletesStep, IngestsStep
  <2> QED
    BY <2>1, <2>2, <2>3
<1> QED
  BY <1>1, <1>2, PTL DEF Spec, Upgrades!Spec

(* A whole binary, no older than any ever installed, is in place, or aside  *)
(* where the user is told or a killed swap left it, until two swaps cross.  *)
THEOREM BinaryStays == Spec => []UpgradeKeepsBinary
<1>1. UpgradeInv => UpgradeKeepsBinary
  BY DEF UpgradeInv, UpgradeKeepsBinary, Upgrades!UpgradeKeepsBinary, Saved, Good
<1> QED
  BY <1>1, UpgradeBegins, UpgradeContinues, UpgradesRun, PTL DEF Upgrades!Spec

----------------------------------------------------------------------------
(* The substring index: what its marks say, and what an opener that read    *)
(* them since the last rebuild by an old build may rely on.                 *)

Entry == [id: Nat, text: Nat]
Attached == {"done?", "resume", "reset", "bound", "fill", "stamp", "drop"}
OpenerStep == {"idle", "clear", "create", "triggers"} \cup Attached
Opening == [pc: OpenerStep, at: Nat, bound: Nat, orphan: BOOLEAN]

SubstringsTyped ==
  /\ messages \subseteq Entry /\ trigram \subseteq Entry /\ lastId \in Nat /\ made \in Nat
  /\ table \in BOOLEAN /\ triggers \in BOOLEAN /\ done \in BOOLEAN /\ crossedFill \in BOOLEAN
  /\ backfillAt \in Nat /\ opener \in [Openers -> Opening]
  /\ \A m \in messages : 1 <= m.id /\ m.id <= lastId
  /\ \A m, n \in messages : m.id = n.id => m = n

UpTo(at) == trigram \subseteq messages /\ \A m \in messages : m.id <= at => m \in trigram

Unmarked == ~done /\ backfillAt = Substrings!NoPoint

Marked ==
  /\ ~table => ~triggers /\ Unmarked
  /\ triggers /\ ~crossedFill =>
       /\ done => trigram = messages
       /\ backfillAt # Substrings!NoPoint => UpTo(backfillAt)

(* What an opener at x may rely on.                                         *)
Relies(x) ==
  /\ ~table => x.pc \in {"idle", "create"}
  /\ ~x.orphan /\ x.pc \in Attached => triggers
  /\ ~x.orphan /\ ~crossedFill =>
       /\ x.pc \in {"create", "triggers"} /\ ~triggers => Unmarked
       /\ x.pc \in {"bound", "fill"} => UpTo(x.at)
       /\ x.pc = "stamp" => trigram = messages

SubstringsInv == SubstringsTyped /\ Marked /\ \A o \in Openers : Relies(opener[o])

LEMMA SubstringsBegin == Substrings!Init => SubstringsInv
<1> SUFFICES ASSUME Substrings!Init PROVE SubstringsInv
  OBVIOUS
<1>1. PICK n \in 0 .. MaxMade : messages = {[id |-> i, text |-> i] : i \in 1 .. n} /\ lastId = n
  BY DEF Substrings!Init
<1>2. n \in Nat /\ Substrings!NoPoint \in Nat
  BY BatchAssumption DEF Substrings!NoPoint
<1>3. messages \subseteq Entry /\ \A m \in messages : m.id \in 1 .. n /\ m.text = m.id
  BY <1>1 DEF Entry
<1>4. \A m, k \in messages : m.id = k.id => m = k
  BY <1>1
<1>5. \A m \in messages : 1 <= m.id /\ m.id <= lastId
  BY <1>1, <1>2, <1>3
<1>6. Substrings!Idle \in Opening /\ Substrings!Idle.pc = "idle"
  BY DEF Substrings!Idle, Opening, OpenerStep
<1>7. opener \in [Openers -> Opening] /\ \A o \in Openers : opener[o].pc = "idle"
  BY <1>6 DEF Substrings!Init
<1>8. SubstringsTyped
  BY <1>1, <1>2, <1>3, <1>4, <1>5, <1>7 DEF SubstringsTyped, Substrings!Init
<1>9. Marked
  BY DEF Substrings!Init, Marked, Unmarked
<1>10. \A o \in Openers : Relies(opener[o])
  BY <1>7 DEF Relies, Attached
<1> QED
  BY <1>8, <1>9, <1>10 DEF SubstringsInv

(* A step of one opener: what it may rely on, and what the others may.      *)
LEMMA OneOpens ==
  ASSUME SubstringsInv, NEW o \in Openers, NEW x \in Opening,
         opener' = [opener EXCEPT ![o] = x], Relies(x)',
         \A p \in Openers \ {o} : Relies(opener[p])'
  PROVE  opener' \in [Openers -> Opening] /\ \A p \in Openers : Relies(opener[p])'
<1>1. opener \in [Openers -> Opening]
  BY DEF SubstringsInv, SubstringsTyped
<1>2. opener'[o] = x /\ \A p \in Openers \ {o} : opener'[p] = opener[p]
  BY <1>1
<1> QED
  BY <1>1, <1>2 DEF Relies

(* An opener that only reads.                                               *)
LEMMA OneReads ==
  ASSUME SubstringsInv, NEW o \in Openers, NEW x \in Opening, Relies(x),
         opener' = [opener EXCEPT ![o] = x],
         UNCHANGED <<messages, trigram, lastId, made, table, triggers, done, backfillAt, crossedFill>>
  PROVE  SubstringsInv'
<1>1. Relies(x)' /\ Marked'
  BY DEF Relies, Marked, Unmarked, UpTo, SubstringsInv
<1>2. \A p \in Openers \ {o} : Relies(opener[p])'
  <2>1. opener \in [Openers -> Opening] /\ \A p \in Openers : Relies(opener[p])
    BY DEF SubstringsInv, SubstringsTyped
  <2>2. \A p \in Openers \ {o} : opener'[p] = opener[p]
    BY <2>1
  <2> QED
    BY <2>1, <2>2 DEF Relies, UpTo, Unmarked
<1>3. opener' \in [Openers -> Opening] /\ \A p \in Openers : Relies(opener[p])'
  BY <1>1, <1>2, OneOpens
<1>4. SubstringsTyped'
  BY <1>3 DEF SubstringsInv, SubstringsTyped
<1> QED
  BY <1>1, <1>3, <1>4 DEF SubstringsInv

LEMMA InsertKeeps == SubstringsInv /\ Substrings!Insert => SubstringsInv'
<1> SUFFICES ASSUME SubstringsInv, Substrings!Insert PROVE SubstringsInv'
  OBVIOUS
<1>0. SubstringsTyped /\ Marked /\ \A o \in Openers : Relies(opener[o])
  BY DEF SubstringsInv
<1>1. PICK n : n = [id |-> lastId + 1, text |-> made + 1]
  OBVIOUS
<1>2. n \in Entry /\ n.id = lastId + 1
  BY <1>0, <1>1 DEF Entry, SubstringsTyped
<1>3. /\ messages' = messages \cup {n}
      /\ trigram' = IF triggers THEN trigram \cup {n} ELSE trigram
      /\ lastId' = lastId + 1 /\ made' = made + 1
      /\ UNCHANGED <<table, triggers, done, backfillAt, opener, crossedFill>>
  BY <1>1 DEF Substrings!Insert, Substrings!marks
<1>4. SubstringsTyped'
  <2>1. \A m \in messages : m.id \in Nat /\ m.id <= lastId
    BY <1>0 DEF SubstringsTyped, Entry
  <2>2. \A m \in messages' : 1 <= m.id /\ m.id <= lastId'
    BY <1>0, <1>2, <1>3, <2>1 DEF SubstringsTyped
  <2>3. \A m, k \in messages' : m.id = k.id => m = k
    BY <1>0, <1>2, <1>3, <2>1 DEF SubstringsTyped
  <2>4. messages' \subseteq Entry /\ trigram' \subseteq Entry /\ lastId' \in Nat /\ made' \in Nat
    BY <1>0, <1>2, <1>3 DEF SubstringsTyped
  <2> QED
    BY <1>0, <1>3, <2>2, <2>3, <2>4 DEF SubstringsTyped
<1>5. \A at : triggers /\ UpTo(at) => UpTo(at)'
  BY <1>3 DEF UpTo
<1>6. triggers /\ trigram = messages => (trigram = messages)'
  BY <1>3
<1>7. Marked'
  BY <1>0, <1>3, <1>5, <1>6 DEF Marked, Unmarked
<1>8. ASSUME NEW o \in Openers PROVE Relies(opener[o])'
  <2>1. Relies(opener[o]) /\ opener' = opener
    BY <1>0, <1>3
  <2> QED
    BY <1>3, <1>5, <1>6, <2>1 DEF Relies, Unmarked, Attached
<1> QED
  BY <1>4, <1>7, <1>8 DEF SubstringsInv

LEMMA DeleteKeeps ==
  ASSUME SubstringsInv, NEW d \in messages, Substrings!Delete(d)
  PROVE  SubstringsInv'
<1>0. SubstringsTyped /\ Marked /\ \A o \in Openers : Relies(opener[o])
  BY DEF SubstringsInv
<1>3. /\ messages' = messages \ {d}
      /\ trigram' = IF triggers THEN {e \in trigram : e.id # d.id} ELSE trigram
      /\ UNCHANGED <<lastId, made, table, triggers, done, backfillAt, opener, crossedFill>>
  BY DEF Substrings!Delete, Substrings!marks
<1>4. SubstringsTyped'
  BY <1>0, <1>3 DEF SubstringsTyped
<1>5. \A m \in messages : m.id = d.id => m = d
  BY <1>0 DEF SubstringsTyped
<1>6. \A at : triggers /\ UpTo(at) => UpTo(at)'
  BY <1>3, <1>5 DEF UpTo
<1>7. triggers /\ trigram = messages => (trigram = messages)'
  BY <1>3, <1>5
<1>8. Marked'
  BY <1>0, <1>3, <1>6, <1>7 DEF Marked, Unmarked
<1>9. ASSUME NEW o \in Openers PROVE Relies(opener[o])'
  <2>1. Relies(opener[o]) /\ opener' = opener
    BY <1>0, <1>3
  <2> QED
    BY <1>3, <1>6, <1>7, <2>1 DEF Relies, Unmarked, Attached
<1> QED
  BY <1>4, <1>8, <1>9 DEF SubstringsInv

LEMMA OldRebuildKeeps == SubstringsInv /\ Substrings!OldRebuild => SubstringsInv'
<1> SUFFICES ASSUME SubstringsInv, Substrings!OldRebuild PROVE SubstringsInv'
  OBVIOUS
<1>0. SubstringsTyped /\ Marked /\ \A o \in Openers : Relies(opener[o])
  BY DEF SubstringsInv
<1>1. /\ messages' = {} /\ lastId' = 0 /\ triggers' = FALSE
      /\ opener' = [o \in Openers |-> [opener[o] EXCEPT !.orphan = TRUE]]
      /\ UNCHANGED <<made, trigram, table, done, backfillAt, crossedFill>>
  BY DEF Substrings!OldRebuild, Substrings!marks
<1>2. ASSUME NEW o \in Openers
      PROVE  opener'[o] \in Opening /\ opener'[o].orphan = TRUE /\ opener'[o].pc = opener[o].pc
  <2>1. opener[o] \in Opening
    BY <1>0 DEF SubstringsTyped
  <2>2. opener'[o] = [opener[o] EXCEPT !.orphan = TRUE]
    BY <1>1
  <2> QED
    BY <2>1, <2>2 DEF Opening
<1>3. SubstringsTyped'
  BY <1>0, <1>1, <1>2 DEF SubstringsTyped
<1>4. Marked'
  BY <1>0, <1>1 DEF Marked, Unmarked
<1>5. ASSUME NEW o \in Openers PROVE Relies(opener[o])'
  <2>1. Relies(opener[o])
    BY <1>0
  <2> QED
    BY <1>1, <1>2, <2>1 DEF Relies
<1> QED
  BY <1>3, <1>4, <1>5 DEF SubstringsInv

LEMMA RebuildKeeps ==
  ASSUME SubstringsInv, NEW o \in Openers, Substrings!Rebuild(o)
  PROVE  SubstringsInv'
<1>0. SubstringsTyped /\ Marked /\ \A p \in Openers : Relies(opener[p])
  BY DEF SubstringsInv
<1>1. PICK x : x = [Substrings!Idle EXCEPT !.pc = "create"]
  OBVIOUS
<1>2. x \in Opening /\ x.pc = "create"
  BY <1>1 DEF Substrings!Idle, Opening, OpenerStep
<1>3. /\ messages' = {} /\ lastId' = 0 /\ trigram' = {} /\ table' = TRUE /\ triggers' = TRUE
      /\ opener' = [opener EXCEPT ![o] = x]
      /\ UNCHANGED <<made, done, backfillAt, crossedFill>>
  BY <1>1 DEF Substrings!Rebuild, Substrings!marks
<1>5. opener \in [Openers -> Opening] /\ opener' \in [Openers -> Opening]
  BY <1>0, <1>2, <1>3 DEF SubstringsTyped
<1>6. \A p \in Openers : Relies(opener[p])'
  BY <1>3 DEF Relies, UpTo
<1>7. SubstringsTyped' /\ Marked'
  BY <1>0, <1>3, <1>5 DEF SubstringsTyped, Marked, UpTo
<1> QED
  BY <1>6, <1>7 DEF SubstringsInv

(* The steps of opening.  Each is the opener at o moving to a new place x.  *)
Substance == <<messages, trigram, lastId, made, table, triggers, done, backfillAt, crossedFill>>

LEMMA ReadingKeeps ==
  ASSUME SubstringsInv, NEW o \in Openers,
         \/ Substrings!EnsureCurrent(o) \/ Substrings!ReadDone(o)
         \/ Substrings!ReadResumePoint(o) \/ Substrings!Kill(o)
  PROVE  SubstringsInv'
<1>0. SubstringsTyped /\ Marked /\ opener[o] \in Opening /\ Relies(opener[o])
  BY DEF SubstringsInv, SubstringsTyped
<1> DEFINE me == opener[o]
           Reads(x) == x \in Opening /\ Relies(x) /\ opener' = [opener EXCEPT ![o] = x]
<1>1. UNCHANGED Substance /\ \E x : Reads(x)
  <2>1. Substrings!Idle \in Opening /\ Relies(Substrings!Idle)
    BY DEF Substrings!Idle, Opening, OpenerStep, Relies, Attached
  <2>2. CASE Substrings!EnsureCurrent(o)
    <3>1. PICK x : x = [Substrings!Idle EXCEPT !.pc = IF Substrings!Orphaned THEN "clear" ELSE "create"]
      OBVIOUS
    <3>2. x \in Opening /\ x.pc = IF Substrings!Orphaned THEN "clear" ELSE "create"
      BY <3>1 DEF Substrings!Idle, Opening, OpenerStep
    <3>3. Relies(x)
      BY <1>0, <3>2 DEF Relies, Attached, Marked, Unmarked, Substrings!Orphaned
    <3>4. opener' = [opener EXCEPT ![o] = x] /\ UNCHANGED Substance
      BY <2>2, <3>1 DEF Substrings!EnsureCurrent, Substrings!corpus, Substrings!index,
                        Substrings!marks, Substance
    <3> QED
      BY <3>2, <3>3, <3>4
  <2>3. CASE Substrings!ReadDone(o)
    <3>1. PICK x : x = IF done THEN Substrings!Idle ELSE [me EXCEPT !.pc = "resume"]
      OBVIOUS
    <3>2. me.pc = "done?"
      BY <2>3 DEF Substrings!ReadDone, Substrings!At
    <3>3. x \in Opening /\ Relies(x)
      <4>1. CASE done
        BY <2>1, <3>1, <4>1
      <4>2. CASE ~done
        <5>1. x \in Opening /\ x.pc = "resume" /\ x.orphan = me.orphan
          BY <1>0, <3>1, <4>2 DEF Opening, OpenerStep, Attached
        <5> QED
          BY <1>0, <3>2, <5>1 DEF Relies, Attached
      <4> QED
        BY <4>1, <4>2
    <3>4. opener' = [opener EXCEPT ![o] = x] /\ UNCHANGED Substance
      BY <2>3, <3>1 DEF Substrings!ReadDone, Substrings!corpus, Substrings!index,
                        Substrings!marks, Substance
    <3> QED
      BY <3>3, <3>4
  <2>4. CASE Substrings!ReadResumePoint(o)
    <3>1. PICK x : x = IF backfillAt = Substrings!NoPoint THEN [me EXCEPT !.pc = "reset"]
                       ELSE [me EXCEPT !.pc = "bound", !.at = backfillAt]
      OBVIOUS
    <3>2. me.pc = "resume"
      BY <2>4 DEF Substrings!ReadResumePoint, Substrings!At
    <3>3. x \in Opening /\ Relies(x)
      <4>1. CASE backfillAt = Substrings!NoPoint
        <5>1. x \in Opening /\ x.pc = "reset" /\ x.orphan = me.orphan
          BY <1>0, <3>1, <4>1 DEF Opening, OpenerStep, Attached
        <5> QED
          BY <1>0, <3>2, <5>1 DEF Relies, Attached
      <4>2. CASE backfillAt # Substrings!NoPoint
        <5>1. x \in Opening /\ x.pc = "bound" /\ x.orphan = me.orphan /\ x.at = backfillAt
          BY <1>0, <3>1, <4>2 DEF Opening, OpenerStep, Attached, SubstringsTyped
        <5> QED
          BY <1>0, <3>2, <4>2, <5>1 DEF Relies, Attached, Marked
      <4> QED
        BY <4>1, <4>2
    <3>4. opener' = [opener EXCEPT ![o] = x] /\ UNCHANGED Substance
      BY <2>4, <3>1 DEF Substrings!ReadResumePoint, Substrings!corpus, Substrings!index,
                        Substrings!marks, Substance
    <3> QED
      BY <3>3, <3>4
  <2>5. CASE Substrings!Kill(o)
    <3>1. opener' = [opener EXCEPT ![o] = Substrings!Idle] /\ UNCHANGED Substance
      BY <2>5 DEF Substrings!Kill, Substrings!corpus, Substrings!index, Substrings!marks, Substance
    <3> QED
      BY <2>1, <3>1
  <2> QED
    BY <2>2, <2>3, <2>4, <2>5
<1>2. PICK x : Reads(x)
  BY <1>1
<1> QED
  BY <1>1, <1>2, OneReads DEF Substance

LEMMA OneCounts == ASSUME NEW x PROVE Substrings!Cardinality({x}) = 1
<1> DEFINE S == {x}
<1>1. Cardinality(S) = 1
  BY FS_Singleton
<1> HIDE DEF S
<1>2. Substrings!Cardinality(S) = Cardinality(S)
  BY DEF Substrings!Cardinality, Cardinality
<1> QED
  BY <1>1, <1>2 DEF S

(* What the two searches for a batch find: none left, or one to copy up to. *)
LEMMA BatchKeeps ==
  ASSUME SubstringsInv, NEW o \in Openers, Substrings!ReadBatchBound(o)
  PROVE  SubstringsInv'
<1>0. /\ SubstringsTyped /\ Marked /\ opener[o] \in Opening /\ Relies(opener[o])
      /\ opener[o].pc = "bound" /\ opener[o].at \in Nat
  BY DEF SubstringsInv, SubstringsTyped, Opening, Substrings!ReadBatchBound, Substrings!At
<1> DEFINE me == opener[o]
           above == Substrings!Above(me.at)
           batch == {i \in above : Substrings!Cardinality({j \in above : j <= i}) <= TrigramBatch}
<1>1. above \in SUBSET (1 .. lastId) /\ \A m \in messages : m.id > me.at => m.id \in above
  BY <1>0 DEF Substrings!Above, SubstringsTyped, Entry
<1>2. lastId \in Nat
  BY <1>0 DEF SubstringsTyped
<1>3. ASSUME above # {} PROVE batch # {}
  <2> HIDE DEF above
  <2>1. PICK i \in above : \A j \in above : i <= j
    BY <1>1, <1>2, <1>3, FirstPlace
  <2>2. {j \in above : j <= i} = {i}
    <3>1. \A j \in above : j \in Nat /\ i <= j
      BY <1>1, <1>2, <2>1
    <3>2. \A j \in above : j <= i => j = i
      BY <2>1, <3>1
    <3>3. i \in above /\ i <= i
      BY <2>1, <3>1
    <3> QED
      BY <3>2, <3>3
  <2>3. Substrings!Cardinality({i}) = 1
    BY OneCounts
  <2>4. 1 <= TrigramBatch
    BY BatchAssumption
  <2> QED
    BY <2>1, <2>2, <2>3, <2>4
<1>4. batch \in SUBSET (1 .. lastId)
  BY <1>1
<1>5. opener' = [opener EXCEPT ![o] = IF batch = {} THEN [me EXCEPT !.pc = "stamp"]
                                      ELSE [me EXCEPT !.pc = "fill", !.bound = Substrings!Max(batch)]]
      /\ UNCHANGED <<messages, trigram, lastId, made, table, triggers, done, backfillAt, crossedFill>>
  BY DEF Substrings!ReadBatchBound, Substrings!corpus, Substrings!index, Substrings!marks
<1>6. CASE batch = {}
  <2>1. PICK x : x = [me EXCEPT !.pc = "stamp"]
    OBVIOUS
  <2>2. x \in Opening /\ x.pc = "stamp" /\ x.orphan = me.orphan
    BY <1>0, <2>1 DEF Opening, OpenerStep, Attached
  <2>3. \A m \in messages : ~(m.id > me.at)
    BY <1>1, <1>3, <1>6
  <2>4. UpTo(me.at) => trigram = messages
    <3>1. \A m \in messages : m.id \in Nat
      BY <1>0 DEF SubstringsTyped, Entry
    <3> QED
      BY <1>0, <2>3, <3>1 DEF UpTo
  <2>5. Relies(x)
    BY <1>0, <2>2, <2>4 DEF Relies, Attached
  <2>6. opener' = [opener EXCEPT ![o] = x]
    BY <1>5, <1>6, <2>1
  <2> QED
    BY <1>5, <2>2, <2>5, <2>6, OneReads
<1>7. CASE batch # {}
  <2>1. PICK b : b = Substrings!Max(batch)
    OBVIOUS
  <2>2. b \in Nat
    <3> HIDE DEF batch
    <3>1. \E i \in batch : \A j \in batch : j <= i
      BY <1>2, <1>4, <1>7, LastPlace
    <3>2. \E i \in batch : \A j \in batch : i >= j
      BY <1>2, <1>4, <3>1
    <3>3. b \in batch
      BY <2>1, <3>2 DEF Substrings!Max
    <3> QED
      BY <1>2, <1>4, <3>3
  <2>3. PICK x : x = [me EXCEPT !.pc = "fill", !.bound = b]
    OBVIOUS
  <2>4. x \in Opening /\ x.pc = "fill" /\ x.orphan = me.orphan /\ x.at = me.at
    <3> HIDE DEF batch
    <3> QED
      BY <1>0, <2>2, <2>3 DEF Opening, OpenerStep, Attached
  <2>5. Relies(x)
    BY <1>0, <2>4 DEF Relies, Attached
  <2>6. opener' = [opener EXCEPT ![o] = x]
    BY <1>5, <1>7, <2>1, <2>3
  <2> QED
    BY <1>5, <2>4, <2>5, <2>6, OneReads
<1> QED
  BY <1>6, <1>7

LEMMA MarksKeep ==
  ASSUME SubstringsInv, NEW o \in Openers,
         \/ Substrings!ClearOrphanedMarker(o) \/ Substrings!CreateTable(o)
         \/ Substrings!CreateTriggers(o) \/ Substrings!StampDone(o)
         \/ Substrings!DropResumePoint(o)
  PROVE  SubstringsInv'
<1>0. SubstringsTyped /\ Marked /\ \A p \in Openers : opener[p] \in Opening /\ Relies(opener[p])
  BY DEF SubstringsInv, SubstringsTyped
<1> DEFINE me == opener[o]
           Steps(x) == x \in Opening /\ Relies(x)' /\ opener' = [opener EXCEPT ![o] = x]
<1>1. Substrings!NoPoint \in Nat
  BY BatchAssumption DEF Substrings!NoPoint
<1>2. /\ UNCHANGED <<messages, trigram, lastId, made>>
      /\ table' \in BOOLEAN /\ triggers' \in BOOLEAN /\ done' \in BOOLEAN
      /\ crossedFill' \in BOOLEAN /\ backfillAt' \in Nat
      /\ Marked' /\ \E x : Steps(x)
      /\ \A p \in Openers \ {o} : Relies(opener[p])'
  <2>0. \A x : opener' = [opener EXCEPT ![o] = x] => \A p \in Openers \ {o} : opener'[p] = opener[p]
    BY <1>0 DEF SubstringsTyped
  <2>1. CASE Substrings!ClearOrphanedMarker(o)
    <3>1. PICK x : x = [me EXCEPT !.pc = "create", !.orphan = FALSE]
      OBVIOUS
    <3>2. x \in Opening /\ x.pc = "create"
      BY <1>0, <3>1 DEF Opening, OpenerStep, Attached
    <3>3. /\ UNCHANGED <<messages, trigram, lastId, made, table, triggers, crossedFill>>
          /\ done' = FALSE /\ backfillAt' = Substrings!NoPoint
          /\ opener' = [opener EXCEPT ![o] = x]
      BY <2>1, <3>1 DEF Substrings!ClearOrphanedMarker, Substrings!corpus, Substrings!index
    <3>4. Unmarked'
      BY <3>3 DEF Unmarked, Substrings!NoPoint
    <3>5. Marked'
      BY <1>0, <3>3, <3>4 DEF Marked, Unmarked
    <3>6. Relies(x)'
      BY <3>2, <3>4 DEF Relies, Attached
    <3>7. \A p \in Openers \ {o} : Relies(opener[p])'
      BY <1>0, <2>0, <3>3, <3>4 DEF Relies, UpTo
    <3> QED
      BY <1>0, <1>1, <3>2, <3>3, <3>5, <3>6, <3>7 DEF SubstringsTyped
  <2>2. CASE Substrings!CreateTable(o)
    <3>1. PICK x : x = [me EXCEPT !.pc = "triggers"]
      OBVIOUS
    <3>2. x \in Opening /\ x.pc = "triggers" /\ x.orphan = me.orphan
      BY <1>0, <3>1 DEF Opening, OpenerStep, Attached
    <3>3. /\ UNCHANGED <<messages, trigram, lastId, made, triggers, crossedFill, done, backfillAt>>
          /\ table' = TRUE /\ opener' = [opener EXCEPT ![o] = x] /\ me.pc = "create"
      BY <2>2, <3>1 DEF Substrings!CreateTable, Substrings!corpus, Substrings!marks,
                        Substrings!At, Substrings!Go
    <3>4. Marked'
      BY <1>0, <3>3 DEF Marked, UpTo
    <3>5. Relies(x)'
      BY <1>0, <3>2, <3>3 DEF Relies, Attached, Unmarked
    <3>6. \A p \in Openers \ {o} : Relies(opener[p])'
      BY <1>0, <2>0, <3>3 DEF Relies, UpTo, Unmarked
    <3> QED
      BY <1>0, <3>2, <3>3, <3>4, <3>5, <3>6 DEF SubstringsTyped
  <2>3. CASE Substrings!CreateTriggers(o)
    <3>1. PICK x : x = [me EXCEPT !.pc = "done?"]
      OBVIOUS
    <3>2. x \in Opening /\ x.pc = "done?" /\ x.orphan = me.orphan
      BY <1>0, <3>1 DEF Opening, OpenerStep, Attached
    <3>3. /\ UNCHANGED <<messages, trigram, lastId, made, table, done, backfillAt>>
          /\ triggers' = TRUE /\ opener' = [opener EXCEPT ![o] = x] /\ me.pc = "triggers"
          /\ crossedFill' = (crossedFill \/ me.orphan)
      BY <2>3, <3>1 DEF Substrings!CreateTriggers, Substrings!corpus, Substrings!marks,
                        Substrings!At, Substrings!Go
    <3>4. table
      BY <1>0, <3>3 DEF Relies
    <3>5. ~crossedFill' /\ ~triggers => Unmarked
      BY <1>0, <3>3 DEF Relies
    <3>6. Marked'
      BY <1>0, <3>3, <3>4, <3>5 DEF Marked, UpTo, Unmarked
    <3>7. Relies(x)'
      BY <3>2, <3>3, <3>4 DEF Relies, Attached
    <3>8. \A p \in Openers \ {o} : Relies(opener[p])'
      BY <1>0, <2>0, <3>3 DEF Relies, UpTo
    <3>9. crossedFill' \in BOOLEAN
      BY <1>0, <3>3 DEF SubstringsTyped, Opening
    <3> QED
      BY <1>0, <3>2, <3>3, <3>6, <3>7, <3>8, <3>9 DEF SubstringsTyped
  <2>4. CASE Substrings!StampDone(o)
    <3>1. PICK x : x = [me EXCEPT !.pc = "drop"]
      OBVIOUS
    <3>2. x \in Opening /\ x.pc = "drop" /\ x.orphan = me.orphan
      BY <1>0, <3>1 DEF Opening, OpenerStep, Attached
    <3>3. /\ UNCHANGED <<messages, trigram, lastId, made, table, triggers, backfillAt>>
          /\ done' = TRUE /\ opener' = [opener EXCEPT ![o] = x] /\ me.pc = "stamp"
          /\ crossedFill' = (crossedFill \/ me.orphan)
      BY <2>4, <3>1 DEF Substrings!StampDone, Substrings!corpus, Substrings!index,
                        Substrings!At, Substrings!Go
    <3>4. table
      BY <1>0, <3>3 DEF Relies
    <3>5. ~crossedFill' => triggers /\ trigram = messages
      BY <1>0, <3>3 DEF Relies, Attached
    <3>6. Marked'
      BY <1>0, <3>3, <3>4, <3>5 DEF Marked, UpTo
    <3>7. Relies(x)'
      BY <1>0, <3>2, <3>3, <3>4 DEF Relies, Attached
    <3>8. \A p \in Openers \ {o} : Relies(opener[p])'
      BY <1>0, <2>0, <3>3, <3>5 DEF Relies, UpTo
    <3>9. crossedFill' \in BOOLEAN
      BY <1>0, <3>3 DEF SubstringsTyped, Opening
    <3> QED
      BY <1>0, <3>2, <3>3, <3>6, <3>7, <3>8, <3>9 DEF SubstringsTyped
  <2>5. CASE Substrings!DropResumePoint(o)
    <3>1. PICK x : x = Substrings!Idle
      OBVIOUS
    <3>2. x \in Opening /\ x.pc = "idle"
      BY <3>1 DEF Substrings!Idle, Opening, OpenerStep
    <3>3. /\ UNCHANGED <<messages, trigram, lastId, made, table, triggers, done, crossedFill>>
          /\ backfillAt' = Substrings!NoPoint /\ opener' = [opener EXCEPT ![o] = x]
      BY <2>5, <3>1 DEF Substrings!DropResumePoint, Substrings!corpus, Substrings!index
    <3>4. Unmarked => Unmarked'
      BY <3>3 DEF Unmarked, Substrings!NoPoint
    <3>5. Marked'
      BY <1>0, <3>3, <3>4 DEF Marked, UpTo, Substrings!NoPoint
    <3>6. Relies(x)'
      BY <3>2 DEF Relies, Attached
    <3>7. \A p \in Openers \ {o} : Relies(opener[p])'
      BY <1>0, <2>0, <3>3, <3>4 DEF Relies, UpTo
    <3> QED
      BY <1>0, <1>1, <3>2, <3>3, <3>5, <3>6, <3>7 DEF SubstringsTyped
  <2> QED
    BY <2>1, <2>2, <2>3, <2>4, <2>5
<1>3. PICK x : Steps(x)
  BY <1>2
<1>4. opener' \in [Openers -> Opening] /\ \A p \in Openers : Relies(opener[p])'
  BY <1>2, <1>3, OneOpens
<1>5. SubstringsTyped'
  BY <1>0, <1>2, <1>4 DEF SubstringsTyped
<1> QED
  BY <1>2, <1>4, <1>5 DEF SubstringsInv

(* Copying: the index never holds a row that is gone, so a batch only adds. *)
LEMMA FillKeeps ==
  ASSUME SubstringsInv, NEW o \in Openers,
         Substrings!ResetTrigram(o) \/ Substrings!FillBatch(o)
  PROVE  SubstringsInv'
<1>0. SubstringsTyped /\ Marked /\ \A p \in Openers : opener[p] \in Opening /\ Relies(opener[p])
  BY DEF SubstringsInv, SubstringsTyped
<1>1. \A m \in messages : m.id \in Nat /\ 1 <= m.id
  BY <1>0 DEF SubstringsTyped, Entry
<1> DEFINE me == opener[o]
<1>2. \A x : opener' = [opener EXCEPT ![o] = x] => \A p \in Openers \ {o} : opener'[p] = opener[p]
  BY <1>0 DEF SubstringsTyped
<1>3. CASE Substrings!ResetTrigram(o)
  <2>1. PICK x : x = [me EXCEPT !.pc = "bound", !.at = 0]
    OBVIOUS
  <2>2. x \in Opening /\ x.pc = "bound" /\ x.at = 0 /\ x.orphan = me.orphan
    BY <1>0, <2>1 DEF Opening, OpenerStep, Attached
  <2>3. /\ UNCHANGED <<messages, lastId, made, table, triggers, done, backfillAt>>
        /\ trigram' = {} /\ opener' = [opener EXCEPT ![o] = x] /\ me.pc = "reset"
        /\ crossedFill' = (crossedFill \/ done \/ backfillAt # Substrings!NoPoint \/ me.orphan
                     \/ \E p \in Openers : opener[p].pc \in {"bound", "fill", "stamp"})
    BY <1>3, <2>1 DEF Substrings!ResetTrigram, Substrings!corpus, Substrings!marks, Substrings!At
  <2>4. table
    BY <1>0, <2>3 DEF Relies
  <2>5. Marked'
    BY <1>0, <2>3, <2>4 DEF Marked, Substrings!NoPoint
  <2>6. UpTo(0)'
    BY <1>1, <2>3 DEF UpTo
  <2>7. Relies(x)'
    BY <1>0, <2>2, <2>3, <2>4, <2>6 DEF Relies, Attached
  <2>8. \A p \in Openers \ {o} : Relies(opener[p])'
    BY <1>0, <1>2, <2>3 DEF Relies, Unmarked, Substrings!NoPoint
  <2>9. opener' \in [Openers -> Opening] /\ \A p \in Openers : Relies(opener[p])'
    BY <2>2, <2>3, <2>7, <2>8, OneOpens
  <2>10. SubstringsTyped'
    BY <1>0, <2>3, <2>9 DEF SubstringsTyped, Opening
  <2> QED
    BY <2>5, <2>9, <2>10 DEF SubstringsInv
<1>4. CASE Substrings!FillBatch(o)
  <2>0. PICK from, to : from = me.at /\ to = me.bound
    OBVIOUS
  <2>1. PICK x : x = [me EXCEPT !.pc = "bound", !.at = me.bound, !.bound = 0]
    OBVIOUS
  <2>2. x \in Opening /\ x.pc = "bound" /\ x.at = to /\ x.orphan = me.orphan
        /\ from \in Nat /\ to \in Nat
    BY <1>0, <2>0, <2>1 DEF Opening, OpenerStep, Attached
  <2>3. /\ UNCHANGED <<messages, lastId, made, table, triggers, done>>
        /\ trigram' = Substrings!Filled(from, to) /\ backfillAt' = to
        /\ opener' = [opener EXCEPT ![o] = x] /\ me.pc = "fill"
        /\ crossedFill' = (crossedFill \/ me.orphan)
    BY <1>4, <2>0, <2>1 DEF Substrings!FillBatch, Substrings!corpus, Substrings!At
  <2>4. table
    BY <1>0, <2>3 DEF Relies
  <2>5. ~crossedFill' => triggers /\ ~crossedFill /\ UpTo(from)
    BY <1>0, <2>0, <2>3 DEF Relies, Attached
  <2>6. trigram' \subseteq trigram \cup messages
    BY <2>3 DEF Substrings!Filled
  <2>7. UpTo(from) => trigram' = trigram \cup {m \in messages : m.id > from /\ m.id <= to}
    BY <1>0, <2>3 DEF Substrings!Filled, UpTo, SubstringsTyped
  <2>8. ~crossedFill' => UpTo(to)'
    BY <1>1, <2>2, <2>3, <2>5, <2>7 DEF UpTo
  <2>9. \A at : UpTo(from) /\ UpTo(at) => UpTo(at)'
    BY <2>3, <2>7 DEF UpTo
  <2>10. UpTo(from) /\ trigram = messages => (trigram = messages)'
    BY <2>3, <2>7
  <2>11. Marked'
    BY <1>0, <2>3, <2>4, <2>5, <2>8, <2>10 DEF Marked
  <2>12. Relies(x)'
    BY <1>0, <2>2, <2>3, <2>4, <2>5, <2>8 DEF Relies, Attached
  <2>13. ASSUME NEW p \in Openers \ {o} PROVE Relies(opener[p])'
    <3>1. opener'[p] = opener[p] /\ Relies(opener[p])
      BY <1>0, <1>2, <2>3
    <3> QED
      BY <2>3, <2>4, <2>5, <2>9, <2>10, <3>1 DEF Relies
  <2>14. opener' \in [Openers -> Opening] /\ \A p \in Openers : Relies(opener[p])'
    BY <2>2, <2>3, <2>12, <2>13, OneOpens
  <2>15. SubstringsTyped'
    BY <1>0, <2>2, <2>3, <2>6, <2>14 DEF SubstringsTyped, Opening
  <2> QED
    BY <2>11, <2>14, <2>15 DEF SubstringsInv
<1> QED
  BY <1>3, <1>4

LEMMA SubstringsContinue ==
  SubstringsInv /\ [Substrings!Next]_(Substrings!vars) => SubstringsInv'
<1> SUFFICES ASSUME SubstringsInv, [Substrings!Next]_(Substrings!vars) PROVE SubstringsInv'
  OBVIOUS
<1>1. ASSUME UNCHANGED Substrings!vars PROVE SubstringsInv'
  BY <1>1 DEF Substrings!vars, Substrings!corpus, Substrings!index, Substrings!marks,
              SubstringsInv, SubstringsTyped, Marked, Unmarked, UpTo, Relies
<1>2. ASSUME NEW m \in messages, Substrings!Delete(m) PROVE SubstringsInv'
  BY <1>2, DeleteKeeps
<1>3. ASSUME NEW o \in Openers,
             \/ Substrings!Rebuild(o) \/ Substrings!EnsureCurrent(o)
             \/ Substrings!ClearOrphanedMarker(o) \/ Substrings!CreateTable(o)
             \/ Substrings!CreateTriggers(o) \/ Substrings!ReadDone(o)
             \/ Substrings!ReadResumePoint(o) \/ Substrings!ResetTrigram(o)
             \/ Substrings!ReadBatchBound(o) \/ Substrings!FillBatch(o)
             \/ Substrings!StampDone(o) \/ Substrings!DropResumePoint(o) \/ Substrings!Kill(o)
      PROVE  SubstringsInv'
  BY <1>3, RebuildKeeps, ReadingKeeps, BatchKeeps, MarksKeep, FillKeeps
<1> QED
  BY <1>1, <1>2, <1>3, InsertKeeps, OldRebuildKeeps DEF Substrings!Next

LEMMA SubstringsRun == Spec => Substrings!Spec
<1>1. Init => Substrings!Init
  BY DEF Init
<1>2. [Next]_vars => [Substrings!Next]_(Substrings!vars)
  <2>1. UNCHANGED substrings => UNCHANGED Substrings!vars
    BY DEF substrings, Substrings!vars, Substrings!corpus, Substrings!index, Substrings!marks,
           Substrings!faults
  <2>2. UNCHANGED vars => UNCHANGED substrings
    BY DEF vars
  <2>3. Next => Substrings!Next \/ UNCHANGED substrings
    BY DEF Next, TagsStep, TaggingStep, SubstringsStep, SetupStep, UpgradesStep, VectorsStep,
         SearchesStep, DeletesStep, IngestsStep
  <2> QED
    BY <2>1, <2>2, <2>3
<1> QED
  BY <1>1, <1>2, PTL DEF Spec, Substrings!Spec

(* With its triggers in place, the substring index has exactly the messages *)
(* once it is marked done, and misses none below its resume point.          *)
THEOREM SubstringsFound == Spec => []SubstringFindsAll
<1>1. SubstringsInv => SubstringFindsAll
  BY DEF SubstringsInv, Marked, UpTo, SubstringFindsAll, Substrings!SubstringFindsAll
<1> QED
  BY <1>1, SubstringsBegin, SubstringsContinue, SubstringsRun, PTL DEF Substrings!Spec

----------------------------------------------------------------------------
(* The vectors: which of them name a message of theirs, and what a pass     *)
(* that read the messages since the ids last started over has still to do.  *)

NoVector == Vectors!NoVector
NewPass == [pc: {"idle", "scan", "load", "prune", "walk", "embed"},
            current: [Keys -> Nat], have: [Keys -> Nat], todo: SUBSET Keys,
            toEmbed: SUBSET Keys, full: BOOLEAN, stale: BOOLEAN]

VectorsTyped ==
  /\ rows \subseteq [id: Nat, key: Keys] /\ seq \in Nat
  /\ \A r \in rows : 1 <= r.id /\ r.id <= seq
  /\ \A q, r \in rows : q.id = r.id => q = r
  /\ vectors \in [Keys -> Nat] /\ reused \in BOOLEAN
  /\ pass \in [Vectors!Passes -> NewPass]

(* No message of another key has the id, or will have.                      *)
Fits(k, i) == i = NoVector \/ (i <= seq /\ \A r \in rows : r.id = i => r.key = k)

Loaded(x) == x.pc \in {"prune", "walk", "embed"}

(* A vector that does not fit is one the pass has still to see to.          *)
Covers(x, v) ==
  \A k \in Keys :
     \/ Fits(k, v[k])
     \/ x.pc = "prune" /\ (k \in x.todo \/ (x.current[k] # NoVector /\ x.have[k] = v[k]))
     \/ x.pc = "walk" /\ k \in x.todo /\ x.have[k] = v[k]

(* What the pass read is good, unless it read it before a rebuild.          *)
Reads(x) == ~x.stale /\ x.pc \notin {"idle", "scan"} => \A k \in Keys : Fits(k, x.current[k])
Sees(x, v) == ~x.stale /\ Loaded(x) /\ ~x.full => Covers(x, v)

NoneStale == \A q \in Vectors!Passes : ~pass[q].stale

VectorsInv ==
  /\ VectorsTyped
  /\ \A p \in Vectors!Passes :
       /\ pass[p].pc # "embed" => ~pass[p].full
       /\ Reads(pass[p]) /\ Sees(pass[p], vectors)
       /\ Loaded(pass[p]) /\ ~pass[p].stale => NoneStale
  /\ ~reused => NoneStale /\ \A k \in Keys : Fits(k, vectors[k])

LEMMA VectorsBegin == Vectors!Init => VectorsInv
<1> SUFFICES ASSUME Vectors!Init PROVE VectorsInv
  OBVIOUS
<1>1. PICK n \in 0 .. MaxIds : \E key \in [1 .. n -> Keys] :
         rows = {[id |-> i, key |-> key[i]] : i \in 1 .. n} /\ seq = n
  BY DEF Vectors!Init
<1>2. n \in Nat
  OBVIOUS
<1>3. rows \subseteq [id: Nat, key: Keys] /\ \A r \in rows : 1 <= r.id /\ r.id <= n
  BY <1>1, <1>2
<1>4. \A q, r \in rows : q.id = r.id => q = r
  BY <1>1
<1>5. Vectors!Idle \in NewPass /\ Vectors!Idle.pc = "idle"
      /\ ~Vectors!Idle.stale /\ ~Vectors!Idle.full
  BY DEF NewPass, Vectors!Idle, Vectors!Nowhere, Vectors!NoVector
<1>6. pass \in [Vectors!Passes -> NewPass] /\ \A p \in Vectors!Passes : pass[p] = Vectors!Idle
  BY <1>5 DEF Vectors!Init
<1>7. vectors \in [Keys -> Nat] /\ \A k \in Keys : vectors[k] = NoVector
  BY DEF Vectors!Init, Vectors!Nowhere, Vectors!NoVector, NoVector
<1>8. VectorsTyped
  BY <1>1, <1>2, <1>3, <1>4, <1>6, <1>7 DEF VectorsTyped, Vectors!Init
<1>9. NoneStale /\ \A k \in Keys : Fits(k, vectors[k])
  BY <1>5, <1>6, <1>7 DEF NoneStale, Fits
<1>10. \A p \in Vectors!Passes : /\ pass[p].pc # "embed" => ~pass[p].full
                                 /\ Reads(pass[p]) /\ Sees(pass[p], vectors)
  BY <1>5, <1>6 DEF Reads, Sees, Loaded
<1> QED
  BY <1>8, <1>9, <1>10 DEF VectorsInv

(* A step of one pass: it writes what fits, or read before a rebuild; and   *)
(* then there is no pass that need mind.                                    *)
LEMMA OneWrites ==
  ASSUME VectorsInv, NEW p \in Vectors!Passes, NEW x \in NewPass, NEW w \in [Keys -> Nat],
         pass' = [pass EXCEPT ![p] = x], vectors' = w, UNCHANGED <<rows, seq, reused>>,
         NoneStale => ~x.stale,
         Loaded(x) /\ ~x.stale => NoneStale,
         pass[p].stale \/ \A k \in Keys : w[k] = vectors[k] \/ Fits(k, w[k]),
         x.pc # "embed" => ~x.full, Reads(x), Sees(x, w)
  PROVE  VectorsInv'
<1>1. pass \in [Vectors!Passes -> NewPass]
  BY DEF VectorsInv, VectorsTyped
<1>2. pass'[p] = x /\ \A q \in Vectors!Passes \ {p} : pass'[q] = pass[q]
  BY <1>1
<1>3. VectorsTyped'
  BY <1>1 DEF VectorsInv, VectorsTyped
<1>4. \A k, i : Fits(k, i)' <=> Fits(k, i)
  BY DEF Fits
<1>5. NoneStale => NoneStale'
  BY <1>2 DEF NoneStale
<1>6. NoneStale => \A k \in Keys : w[k] = vectors[k] \/ Fits(k, w[k])
  BY DEF NoneStale
<1>7. ~reused' => NoneStale' /\ \A k \in Keys : Fits(k, vectors[k])'
  <2>1. SUFFICES ASSUME ~reused PROVE NoneStale' /\ \A k \in Keys : Fits(k, w[k])
    BY <1>4 DEF Fits
  <2>2. NoneStale /\ \A k \in Keys : Fits(k, vectors[k])
    BY <2>1 DEF VectorsInv
  <2> QED
    BY <1>5, <1>6, <2>2
<1>8. ASSUME NEW q \in Vectors!Passes
      PROVE  /\ pass'[q].pc # "embed" => ~pass'[q].full
             /\ Reads(pass[q])' /\ Sees(pass[q], vectors)'
             /\ Loaded(pass[q])' /\ ~pass'[q].stale => NoneStale'
  <2>1. PICK y : y = pass'[q]
    OBVIOUS
  <2>2. /\ y.pc # "embed" => ~y.full
        /\ Reads(y) /\ Sees(y, w) /\ (Loaded(y) /\ ~y.stale => NoneStale)
    <3>1. CASE q = p
      BY <1>2, <2>1, <3>1
    <3>2. CASE q # p
      <4>1. y = pass[q]
        BY <1>2, <2>1, <3>2
      <4>2. /\ y.pc # "embed" => ~y.full
            /\ Reads(y) /\ Sees(y, vectors) /\ (Loaded(y) /\ ~y.stale => NoneStale)
        BY <4>1 DEF VectorsInv
      <4>3. Sees(y, w)
        BY <1>6, <4>2 DEF Sees, Covers
      <4> QED
        BY <4>2, <4>3
    <3> QED
      BY <3>1, <3>2
  <2>3. Reads(pass[q])' /\ Sees(pass[q], vectors)'
    BY <1>4, <2>1, <2>2 DEF Reads, Sees, Covers, Loaded
  <2>4. Loaded(pass[q])' <=> Loaded(y)
    BY <2>1 DEF Loaded
  <2> QED
    BY <1>5, <2>1, <2>2, <2>3, <2>4
<1> QED
  BY <1>3, <1>7, <1>8 DEF VectorsInv

(* The messages: what fits goes on fitting, as ids are not given out twice. *)
LEMMA RowsChange ==
  ASSUME VectorsInv, NEW k \in Keys, Vectors!Insert(k) \/ \E r \in rows : Vectors!Delete(r)
  PROVE  VectorsInv'
<1>0. VectorsTyped
  BY DEF VectorsInv
<1>1. UNCHANGED <<vectors, pass, reused>>
  BY DEF Vectors!Insert, Vectors!Delete
<1>2. VectorsTyped' /\ \A j : \A i \in Nat : Fits(j, i) => Fits(j, i)'
  <2>1. CASE Vectors!Insert(k)
    <3>1. PICK n : n = [id |-> seq + 1, key |-> k]
      OBVIOUS
    <3>2. n \in [id: Nat, key: Keys] /\ n.id = seq + 1
      BY <1>0, <3>1 DEF VectorsTyped
    <3>3. rows' = rows \cup {n} /\ seq' = seq + 1
      BY <2>1, <3>1 DEF Vectors!Insert
    <3>4. \A r \in rows : r.id \in Nat /\ 1 <= r.id /\ r.id <= seq
      BY <1>0 DEF VectorsTyped
    <3>5. seq \in Nat
      BY <1>0 DEF VectorsTyped
    <3>6. \A r \in rows' : 1 <= r.id /\ r.id <= seq'
      BY <3>2, <3>3, <3>4, <3>5
    <3>7. \A q, r \in rows' : q.id = r.id => q = r
      BY <1>0, <3>2, <3>3, <3>4, <3>5 DEF VectorsTyped
    <3>8. VectorsTyped'
      BY <1>0, <1>1, <3>2, <3>3, <3>6, <3>7 DEF VectorsTyped
    <3>9. ASSUME NEW j, NEW i \in Nat, Fits(j, i) PROVE Fits(j, i)'
      <4>1. CASE i = NoVector
        BY <4>1 DEF Fits, NoVector, Vectors!NoVector
      <4>2. CASE i # NoVector
        <5>1. i <= seq /\ \A r \in rows : r.id = i => r.key = j
          BY <3>9, <4>2 DEF Fits
        <5>2. \A r \in rows' : r.id = i => r.key = j
          <6>1. n.id # i
            BY <3>2, <3>5, <5>1
          <6> QED
            BY <3>3, <5>1, <6>1
        <5>3. i <= seq'
          BY <3>3, <3>5, <5>1
        <5> QED
          BY <5>2, <5>3 DEF Fits
      <4> QED
        BY <4>1, <4>2
    <3> QED
      BY <3>8, <3>9
  <2>2. CASE \E r \in rows : Vectors!Delete(r)
    <3>1. rows' \subseteq rows /\ seq' = seq
      BY <2>2 DEF Vectors!Delete
    <3>2. VectorsTyped'
      BY <1>0, <1>1, <3>1 DEF VectorsTyped
    <3>3. \A j : \A i \in Nat : Fits(j, i) => Fits(j, i)'
      BY <3>1 DEF Fits, NoVector, Vectors!NoVector
    <3> QED
      BY <3>2, <3>3
  <2> QED
    BY <2>1, <2>2
<1>3. NoneStale <=> NoneStale'
  BY <1>1 DEF NoneStale
<1>4. ASSUME NEW p \in Vectors!Passes
      PROVE  /\ pass'[p].pc # "embed" => ~pass'[p].full
             /\ Reads(pass[p])' /\ Sees(pass[p], vectors)'
             /\ Loaded(pass[p])' /\ ~pass'[p].stale => NoneStale'
  <2>1. /\ pass[p].pc # "embed" => ~pass[p].full
        /\ Reads(pass[p]) /\ Sees(pass[p], vectors)
        /\ Loaded(pass[p]) /\ ~pass[p].stale => NoneStale
    BY DEF VectorsInv
  <2>2. \A j \in Keys : vectors[j] \in Nat /\ pass[p].current[j] \in Nat
    BY <1>0 DEF VectorsTyped, NewPass
  <2>3. Reads(pass[p])'
    BY <1>1, <1>2, <2>1, <2>2 DEF Reads
  <2>4. Sees(pass[p], vectors)'
    BY <1>1, <1>2, <2>1, <2>2 DEF Sees, Covers, Loaded, NoVector, Vectors!NoVector
  <2> QED
    BY <1>1, <1>3, <2>1, <2>3, <2>4 DEF Loaded
<1>6. ~reused' => NoneStale' /\ \A j \in Keys : Fits(j, vectors[j])'
  <2>1. \A j \in Keys : vectors[j] \in Nat
    BY <1>0 DEF VectorsTyped
  <2> QED
    BY <1>1, <1>2, <1>3, <2>1 DEF VectorsInv
<1> QED
  BY <1>2, <1>4, <1>6 DEF VectorsInv

LEMMA RebuildStales == VectorsInv /\ Vectors!Rebuild => VectorsInv'
<1> SUFFICES ASSUME VectorsInv, Vectors!Rebuild PROVE VectorsInv'
  OBVIOUS
<1>1. /\ rows' = {} /\ seq' = 0 /\ reused' = TRUE /\ vectors' = vectors
      /\ pass' = [p \in Vectors!Passes |->
                    [pass[p] EXCEPT !.stale = pass[p].pc \notin {"idle", "scan"}]]
  BY DEF Vectors!Rebuild
<1>2. pass \in [Vectors!Passes -> NewPass]
  BY DEF VectorsInv, VectorsTyped
<1>3. ASSUME NEW p \in Vectors!Passes
      PROVE  /\ pass'[p] \in NewPass
             /\ pass'[p].pc = pass[p].pc /\ pass'[p].full = pass[p].full
             /\ pass'[p].stale = (pass[p].pc \notin {"idle", "scan"})
  <2>1. PICK y : y = pass[p]
    OBVIOUS
  <2>2. y \in NewPass
    BY <1>2, <2>1
  <2>3. pass'[p] = [y EXCEPT !.stale = y.pc \notin {"idle", "scan"}]
    BY <1>1, <2>1
  <2>4. (y.pc \notin {"idle", "scan"}) \in BOOLEAN
    OBVIOUS
  <2> QED
    BY <2>1, <2>2, <2>3, <2>4 DEF NewPass
<1>4. pass' \in [Vectors!Passes -> NewPass]
  BY <1>1, <1>3
<1>5. VectorsTyped'
  BY <1>1, <1>4 DEF VectorsInv, VectorsTyped
<1>6. ASSUME NEW p \in Vectors!Passes
      PROVE  /\ pass'[p].pc # "embed" => ~pass'[p].full
             /\ Reads(pass[p])' /\ Sees(pass[p], vectors)'
             /\ Loaded(pass[p])' /\ ~pass'[p].stale => NoneStale'
  <2>1. pass[p].pc # "embed" => ~pass[p].full
    BY DEF VectorsInv
  <2> QED
    BY <1>3, <2>1 DEF Reads, Sees, Loaded
<1> QED
  BY <1>1, <1>5, <1>6 DEF VectorsInv

(* The scan: the greatest id of a key's messages is one of theirs.          *)
LEMMA CurrentFits ==
  ASSUME VectorsTyped
  PROVE  Vectors!Current \in [Keys -> Nat] /\ \A k \in Keys : Fits(k, Vectors!Current[k])
<1>1. SUFFICES ASSUME NEW k \in Keys
               PROVE  Vectors!Current[k] \in Nat /\ Fits(k, Vectors!Current[k])
  BY DEF Vectors!Current
<1> DEFINE at == {r.id : r \in {x \in rows : x.key = k}}
<1>2. Vectors!Current[k] = IF at = {} THEN NoVector ELSE Vectors!Max(at)
  BY DEF Vectors!Current, NoVector
<1>3. at \in SUBSET (1 .. seq) /\ \A i \in at : \E r \in rows : r.id = i /\ r.key = k
  BY DEF VectorsTyped
<1>4. seq \in Nat
  BY DEF VectorsTyped
<1> HIDE DEF at
<1>5. CASE at = {}
  BY <1>2, <1>5 DEF Fits, NoVector, Vectors!NoVector
<1>6. CASE at # {}
  <2>1. \E i \in at : \A j \in at : j <= i
    BY <1>3, <1>4, <1>6, LastPlace
  <2>2. \E i \in at : \A j \in at : i >= j
    BY <1>3, <1>4, <2>1
  <2>3. PICK i : i = Vectors!Max(at)
    OBVIOUS
  <2>4. i \in at
    BY <2>2, <2>3 DEF Vectors!Max
  <2>5. PICK r \in rows : r.id = i /\ r.key = k
    BY <1>3, <2>4
  <2>6. i \in Nat /\ i <= seq
    BY <1>3, <1>4, <2>4
  <2>7. \A q \in rows : q.id = i => q.key = k
    BY <2>5 DEF VectorsTyped
  <2> QED
    BY <1>2, <1>6, <2>3, <2>6, <2>7 DEF Fits
<1> QED
  BY <1>5, <1>6

(* A pass that has nothing left to prune walks on, and one that has nothing *)
(* left to walk over embeds.                                                *)
SameReading(x, y) ==
  x.current = y.current /\ x.have = y.have /\ x.full = y.full /\ x.stale = y.stale

LEMMA WalkGoes ==
  ASSUME NEW x \in NewPass, x.pc = "prune"
  PROVE  /\ Vectors!Walk(x) \in NewPass /\ SameReading(Vectors!Walk(x), x)
         /\ Loaded(Vectors!Walk(x))
         /\ \A v : Covers(x, v) => Covers(Vectors!Walk(x), v)
<1>1. CASE x.todo # {}
  BY <1>1 DEF Vectors!Walk, SameReading, Loaded
<1>2. CASE x.todo = {}
  <2>1. PICK T : T = {k \in Keys : x.current[k] # NoVector}
    OBVIOUS
  <2>2. PICK y : y = [x EXCEPT !.pc = IF T = {} THEN "embed" ELSE "walk", !.todo = T]
    OBVIOUS
  <2>3. Vectors!Walk(x) = y
    BY <1>2, <2>1, <2>2 DEF Vectors!Walk, NoVector
  <2>4. y \in NewPass /\ SameReading(y, x) /\ y.todo = T
        /\ y.pc = IF T = {} THEN "embed" ELSE "walk"
    BY <2>1, <2>2 DEF NewPass, SameReading
  <2>5. ASSUME NEW v, Covers(x, v) PROVE Covers(y, v)
    <3>1. SUFFICES ASSUME NEW k \in Keys, ~Fits(k, v[k])
                   PROVE  y.pc = "walk" /\ k \in y.todo /\ y.have[k] = v[k]
      BY DEF Covers
    <3>2. x.current[k] # NoVector /\ x.have[k] = v[k]
      BY <1>2, <2>5, <3>1 DEF Covers
    <3> QED
      BY <2>1, <2>4, <3>2 DEF SameReading
  <2> QED
    BY <2>3, <2>4, <2>5 DEF Loaded
<1> QED
  BY <1>1, <1>2

LEMMA EmbeddingGoes ==
  ASSUME NEW x \in NewPass, x.pc = "walk"
  PROVE  /\ Vectors!Embedding(x) \in NewPass /\ SameReading(Vectors!Embedding(x), x)
         /\ Loaded(Vectors!Embedding(x))
         /\ Vectors!Embedding(x).pc # "embed" => Vectors!Embedding(x).todo # {}
         /\ \A v : Covers(x, v) => Covers(Vectors!Embedding(x), v)
<1>1. CASE x.todo # {}
  BY <1>1 DEF Vectors!Embedding, SameReading, Loaded
<1>2. CASE x.todo = {}
  <2>1. PICK y : y = [x EXCEPT !.pc = "embed"]
    OBVIOUS
  <2>2. Vectors!Embedding(x) = y
    BY <1>2, <2>1 DEF Vectors!Embedding
  <2>3. y \in NewPass /\ SameReading(y, x) /\ y.pc = "embed"
    BY <2>1 DEF NewPass, SameReading
  <2>4. \A v : Covers(x, v) => Covers(y, v)
    BY <1>2 DEF Covers
  <2> QED
    BY <2>2, <2>3, <2>4 DEF Loaded
<1> QED
  BY <1>1, <1>2

LEMMA BeginKeeps ==
  ASSUME VectorsInv, NEW p \in Vectors!Passes,
         \/ Vectors!BeginChild(p) \/ Vectors!BeginCommand(p) \/ Vectors!ScanMessages(p)
         \/ Vectors!Cut(p)
  PROVE  VectorsInv'
<1>0. VectorsTyped /\ pass[p] \in NewPass /\ vectors \in [Keys -> Nat]
      /\ (pass[p].pc # "embed" => ~pass[p].full)
  BY DEF VectorsInv, VectorsTyped
<1> DEFINE Goes(x) == /\ x \in NewPass /\ pass' = [pass EXCEPT ![p] = x]
                      /\ (NoneStale => ~x.stale) /\ ~Loaded(x) /\ ~x.full /\ Reads(x)
<1>1. vectors' = vectors /\ UNCHANGED <<rows, seq, reused>> /\ \E x : Goes(x)
  <2>1. CASE Vectors!BeginChild(p) \/ Vectors!BeginCommand(p)
    <3>1. PICK x : x = [Vectors!Idle EXCEPT !.pc = "scan"]
      OBVIOUS
    <3>2. x \in NewPass /\ x.pc = "scan" /\ ~x.stale /\ ~x.full
      BY <3>1 DEF NewPass, Vectors!Idle, Vectors!Nowhere, Vectors!NoVector
    <3>3. pass' = [pass EXCEPT ![p] = x] /\ UNCHANGED <<vectors, rows, seq, reused>>
      BY <2>1, <3>1 DEF Vectors!BeginChild, Vectors!BeginCommand, Vectors!Step, Vectors!corpus
    <3> QED
      BY <3>2, <3>3 DEF Loaded, Reads
  <2>2. CASE Vectors!Cut(p)
    <3>1. PICK x : x = Vectors!Idle
      OBVIOUS
    <3>2. x \in NewPass /\ x.pc = "idle" /\ ~x.stale /\ ~x.full
      BY <3>1 DEF NewPass, Vectors!Idle, Vectors!Nowhere, Vectors!NoVector
    <3>3. pass' = [pass EXCEPT ![p] = x] /\ UNCHANGED <<vectors, rows, seq, reused>>
      BY <2>2, <3>1 DEF Vectors!Cut, Vectors!Step, Vectors!corpus
    <3> QED
      BY <3>2, <3>3 DEF Loaded, Reads
  <2>3. CASE Vectors!ScanMessages(p)
    <3>1. PICK c : c = Vectors!Current
      OBVIOUS
    <3>2. PICK x : x = [pass[p] EXCEPT !.pc = "load", !.current = c]
      OBVIOUS
    <3>3. c \in [Keys -> Nat] /\ \A k \in Keys : Fits(k, c[k])
      BY <1>0, <3>1, CurrentFits
    <3>4. x \in NewPass /\ x.pc = "load" /\ x.stale = pass[p].stale /\ x.full = pass[p].full
          /\ x.current = c
      BY <1>0, <3>2, <3>3 DEF NewPass
    <3>5. pass[p].pc = "scan"
      BY <2>3 DEF Vectors!ScanMessages, Vectors!At
    <3>6. pass' = [pass EXCEPT ![p] = x] /\ UNCHANGED <<vectors, rows, seq, reused>>
      BY <2>3, <3>1, <3>2 DEF Vectors!ScanMessages, Vectors!Step, Vectors!corpus
    <3> QED
      BY <1>0, <3>3, <3>4, <3>5, <3>6 DEF Loaded, Reads, NoneStale
  <2> QED
    BY <2>1, <2>2, <2>3
<1>2. PICK x : Goes(x)
  BY <1>1
<1>3. PICK w : w = vectors
  OBVIOUS
<1>4. w \in [Keys -> Nat] /\ vectors' = w /\ \A k \in Keys : w[k] = vectors[k]
  BY <1>0, <1>1, <1>3
<1>5. Sees(x, w)
  BY <1>2 DEF Sees
<1> QED
  BY <1>1, <1>2, <1>4, <1>5, OneWrites

(* Everything read: what does not fit is to be pruned or walked over.       *)
LEMMA LoadKeeps ==
  ASSUME VectorsInv, NEW p \in Vectors!Passes, Vectors!LoadVectors(p)
  PROVE  VectorsInv'
<1>0. /\ pass[p] \in NewPass /\ vectors \in [Keys -> Nat]
      /\ pass[p].pc = "load" /\ ~pass[p].full /\ Reads(pass[p])
  BY DEF VectorsInv, VectorsTyped, Vectors!LoadVectors, Vectors!At
<1>1. PICK w : w = vectors
  OBVIOUS
<1>2. PICK gone : gone = {k \in Keys : w[k] # NoVector /\ pass[p].current[k] = NoVector}
  OBVIOUS
<1>3. PICK have : have = [k \in Keys |-> IF k \in gone THEN NoVector ELSE w[k]]
  OBVIOUS
<1>4. PICK aged \in BOOLEAN : aged = \E q \in Vectors!Passes : pass[q].stale
  OBVIOUS
<1>5. PICK x : x = [pass[p] EXCEPT !.pc = "prune", !.todo = gone, !.have = have, !.stale = aged]
  OBVIOUS
<1>6. /\ pass' = [pass EXCEPT ![p] = Vectors!Walk(x)] /\ vectors' = w
      /\ UNCHANGED <<rows, seq, reused>>
  BY <1>1, <1>2, <1>3, <1>4, <1>5
     DEF Vectors!LoadVectors, Vectors!Step, Vectors!corpus, NoVector
<1>7. have \in [Keys -> Nat] /\ gone \subseteq Keys
  BY <1>0, <1>1, <1>2, <1>3 DEF NoVector, Vectors!NoVector
<1>8. /\ x \in NewPass /\ x.pc = "prune" /\ x.todo = gone /\ x.have = have /\ x.stale = aged
      /\ x.current = pass[p].current /\ x.full = pass[p].full
  BY <1>0, <1>5, <1>7 DEF NewPass
<1>9. NoneStale <=> ~aged
  BY <1>4 DEF NoneStale
<1>10. Covers(x, w)
  <2>1. SUFFICES ASSUME NEW k \in Keys, w[k] # NoVector
                 PROVE  k \in x.todo \/ (x.current[k] # NoVector /\ x.have[k] = w[k])
    BY <1>8 DEF Covers, Fits
  <2> QED
    BY <1>2, <1>3, <1>8, <2>1
<1>11. PICK y : y = Vectors!Walk(x)
  OBVIOUS
<1>12. y \in NewPass /\ SameReading(y, x) /\ Loaded(y) /\ Covers(y, w)
  BY <1>8, <1>10, <1>11, WalkGoes
<1>13. ~y.full /\ (NoneStale <=> ~y.stale)
  BY <1>0, <1>8, <1>9, <1>12 DEF SameReading
<1>14. Reads(y)
  <2>1. SUFFICES ASSUME NoneStale PROVE \A k \in Keys : Fits(k, y.current[k])
    BY <1>13 DEF Reads
  <2>2. ~pass[p].stale
    BY <2>1 DEF NoneStale
  <2> QED
    BY <1>0, <1>8, <1>12, <2>2 DEF Reads, SameReading
<1>15. Sees(y, w)
  BY <1>12 DEF Sees
<1>16. pass' = [pass EXCEPT ![p] = y] /\ w \in [Keys -> Nat] /\ \A k \in Keys : w[k] = vectors[k]
  BY <1>0, <1>1, <1>6, <1>11
<1> QED
  BY <1>6, <1>12, <1>13, <1>14, <1>15, <1>16, OneWrites

LEMMA PruneKeeps ==
  ASSUME VectorsInv, NEW p \in Vectors!Passes, NEW k \in Keys, Vectors!Prune(p, k)
  PROVE  VectorsInv'
<1> DEFINE me == pass[p]
<1>0. /\ me \in NewPass /\ vectors \in [Keys -> Nat] /\ me.pc = "prune" /\ ~me.full
      /\ Reads(me) /\ Sees(me, vectors) /\ Loaded(me) /\ (~me.stale => NoneStale)
  BY DEF VectorsInv, VectorsTyped, Vectors!Prune, Vectors!At, Loaded
<1>1. PICK w : w = [vectors EXCEPT ![k] = NoVector]
  OBVIOUS
<1>2. PICK x : x = [me EXCEPT !.todo = @ \ {k}]
  OBVIOUS
<1>3. /\ pass' = [pass EXCEPT ![p] = Vectors!Walk(x)] /\ vectors' = w
      /\ UNCHANGED <<rows, seq, reused>>
  BY <1>1, <1>2 DEF Vectors!Prune, Vectors!Step, Vectors!corpus, NoVector
<1>4. w \in [Keys -> Nat] /\ w[k] = NoVector /\ \A j \in Keys \ {k} : w[j] = vectors[j]
  BY <1>0, <1>1 DEF NoVector, Vectors!NoVector
<1>5. x \in NewPass /\ SameReading(x, me) /\ x.pc = "prune" /\ x.todo = me.todo \ {k}
  BY <1>0, <1>2 DEF NewPass, SameReading
<1>6. \A j \in Keys : w[j] = vectors[j] \/ Fits(j, w[j])
  BY <1>4 DEF Fits
<1>7. Covers(me, vectors) => Covers(x, w)
  <2>1. SUFFICES ASSUME Covers(me, vectors), NEW j \in Keys, ~Fits(j, w[j])
                 PROVE  j \in x.todo \/ (x.current[j] # NoVector /\ x.have[j] = w[j])
    BY <1>5 DEF Covers
  <2>2. j # k /\ w[j] = vectors[j]
    BY <1>4, <2>1 DEF Fits
  <2>3. j \in me.todo \/ (me.current[j] # NoVector /\ me.have[j] = vectors[j])
    BY <1>0, <2>1, <2>2 DEF Covers
  <2> QED
    BY <1>5, <2>2, <2>3 DEF SameReading
<1>8. PICK y : y = Vectors!Walk(x)
  OBVIOUS
<1>9. y \in NewPass /\ SameReading(y, x) /\ Loaded(y) /\ (Covers(x, w) => Covers(y, w))
  BY <1>5, <1>8, WalkGoes
<1>10. y.stale = me.stale /\ y.full = me.full /\ y.current = me.current
  BY <1>5, <1>9 DEF SameReading
<1>11. Reads(y) /\ Sees(y, w)
  BY <1>0, <1>7, <1>9, <1>10 DEF Reads, Sees, Loaded
<1>12. (NoneStale => ~y.stale) /\ (~y.stale => NoneStale) /\ pass' = [pass EXCEPT ![p] = y]
  BY <1>0, <1>3, <1>8, <1>10 DEF NoneStale
<1> QED
  BY <1>0, <1>3, <1>4, <1>6, <1>9, <1>10, <1>11, <1>12, OneWrites

LEMMA RefreshKeeps ==
  ASSUME VectorsInv, NEW p \in Vectors!Passes, NEW k \in Keys, Vectors!Refresh(p, k)
  PROVE  VectorsInv'
<1> DEFINE me == pass[p]
<1>0. /\ me \in NewPass /\ vectors \in [Keys -> Nat] /\ me.pc = "walk" /\ ~me.full
      /\ Reads(me) /\ Sees(me, vectors) /\ Loaded(me) /\ (~me.stale => NoneStale)
      /\ k \in me.todo
  BY DEF VectorsInv, VectorsTyped, Vectors!Refresh, Vectors!At, Loaded
<1>1. PICK w : w = IF me.have[k] = me.current[k] THEN vectors
                   ELSE Vectors!VecRefreshMsgID(k, me.current[k])
  OBVIOUS
<1>2. PICK x : x = [me EXCEPT !.todo = @ \ {k}, !.have[k] = NoVector, !.current[k] = NoVector]
  OBVIOUS
<1>3. /\ pass' = [pass EXCEPT ![p] = Vectors!Embedding(x)] /\ vectors' = w
      /\ UNCHANGED <<rows, seq, reused>>
  BY <1>1, <1>2 DEF Vectors!Refresh, Vectors!Step, Vectors!corpus, NoVector
<1>4. me.have \in [Keys -> Nat] /\ me.current \in [Keys -> Nat]
  BY <1>0 DEF NewPass
<1>5. /\ w \in [Keys -> Nat] /\ \A j \in Keys \ {k} : w[j] = vectors[j]
      /\ w[k] = vectors[k] \/ w[k] = me.current[k]
      /\ w[k] = vectors[k] =>
            me.have[k] = me.current[k] \/ vectors[k] = NoVector \/ w[k] = me.current[k]
  BY <1>0, <1>1, <1>4 DEF Vectors!VecRefreshMsgID, NoVector
<1>6. /\ x \in NewPass /\ x.pc = "walk" /\ x.todo = me.todo \ {k} /\ x.full = me.full
      /\ x.stale = me.stale
      /\ \A j \in Keys \ {k} : x.have[j] = me.have[j] /\ x.current[j] = me.current[j]
      /\ x.current[k] = NoVector
  <2>1. x = [me EXCEPT !.todo = me.todo \ {k}, !.have = [me.have EXCEPT ![k] = NoVector],
                       !.current = [me.current EXCEPT ![k] = NoVector]]
    BY <1>0, <1>2 DEF NewPass
  <2>2. PICK h, c : h = [me.have EXCEPT ![k] = NoVector] /\ c = [me.current EXCEPT ![k] = NoVector]
    OBVIOUS
  <2>3. /\ h \in [Keys -> Nat] /\ c \in [Keys -> Nat] /\ c[k] = NoVector
        /\ \A j \in Keys \ {k} : h[j] = me.have[j] /\ c[j] = me.current[j]
    BY <1>4, <2>2 DEF NoVector, Vectors!NoVector
  <2>4. x = [me EXCEPT !.todo = me.todo \ {k}, !.have = h, !.current = c]
    BY <2>1, <2>2
  <2>5. /\ x \in NewPass /\ x.pc = "walk" /\ x.todo = me.todo \ {k} /\ x.full = me.full
        /\ x.stale = me.stale /\ x.have = h /\ x.current = c
    BY <1>0, <2>3, <2>4 DEF NewPass
  <2> QED
    BY <2>3, <2>5
<1>7. ~me.stale => /\ \A j \in Keys : w[j] = vectors[j] \/ Fits(j, w[j])
                   /\ \A j \in Keys : Fits(j, x.current[j])
  BY <1>0, <1>5, <1>6 DEF Reads, Fits
<1>8. ~me.stale => Covers(x, w)
  <2>1. SUFFICES ASSUME ~me.stale, NEW j \in Keys, ~Fits(j, w[j])
                 PROVE  j \in x.todo /\ x.have[j] = w[j]
    BY <1>6 DEF Covers
  <2>2. Covers(me, vectors) /\ Fits(j, me.current[j])
    BY <1>0, <2>1 DEF Sees, Reads
  <2>3. j # k
    <3>1. ASSUME j = k PROVE FALSE
      <4>1. w[k] = vectors[k] /\ ~Fits(k, vectors[k]) /\ Fits(k, me.current[k])
        BY <1>5, <2>1, <2>2, <3>1
      <4>2. me.have[k] = vectors[k]
        BY <1>0, <4>1, <2>2 DEF Covers
      <4>3. vectors[k] # NoVector /\ vectors[k] # me.current[k]
        BY <4>1 DEF Fits
      <4> QED
        BY <1>5, <4>1, <4>2, <4>3
    <3> QED
      BY <3>1
  <2>4. w[j] = vectors[j] /\ j \in me.todo /\ me.have[j] = vectors[j]
    BY <1>0, <1>5, <2>1, <2>2, <2>3 DEF Covers
  <2> QED
    BY <1>6, <2>3, <2>4
<1>9. PICK y : y = Vectors!Embedding(x)
  OBVIOUS
<1>10. y \in NewPass /\ SameReading(y, x) /\ Loaded(y) /\ (Covers(x, w) => Covers(y, w))
  BY <1>6, <1>9, EmbeddingGoes
<1>11. y.stale = me.stale /\ ~y.full /\ y.current = x.current
  BY <1>0, <1>6, <1>10 DEF SameReading
<1>12. Reads(y) /\ Sees(y, w)
  BY <1>7, <1>8, <1>10, <1>11 DEF Reads, Sees
<1>13. (NoneStale => ~y.stale) /\ (~y.stale => NoneStale) /\ pass' = [pass EXCEPT ![p] = y]
  BY <1>0, <1>3, <1>9, <1>11 DEF NoneStale
<1> QED
  BY <1>3, <1>5, <1>7, <1>10, <1>11, <1>12, <1>13, OneWrites

LEMMA CollectKeeps ==
  ASSUME VectorsInv, NEW p \in Vectors!Passes, NEW k \in Keys, Vectors!Collect(p, k)
  PROVE  VectorsInv'
<1> DEFINE me == pass[p]
<1>0. /\ me \in NewPass /\ vectors \in [Keys -> Nat] /\ me.pc = "walk" /\ ~me.full
      /\ Reads(me) /\ Sees(me, vectors) /\ Loaded(me) /\ (~me.stale => NoneStale)
      /\ me.have[k] = NoVector
  BY DEF VectorsInv, VectorsTyped, Vectors!Collect, Vectors!At, Loaded, NoVector
<1>1. PICK f \in BOOLEAN : f = (p \in Children /\ Vectors!Cardinality(me.toEmbed) + 1 >= MaxNew)
  OBVIOUS
<1>2. PICK x : x = [me EXCEPT !.toEmbed = me.toEmbed \cup {k}, !.full = f,
                              !.todo = IF f THEN {} ELSE me.todo \ {k}]
  OBVIOUS
<1>3. /\ pass' = [pass EXCEPT ![p] = Vectors!Embedding(x)] /\ vectors' = vectors
      /\ UNCHANGED <<rows, seq, reused>>
  BY <1>1, <1>2 DEF Vectors!Collect, Vectors!Step, Vectors!corpus
<1>4. /\ x \in NewPass /\ x.pc = "walk" /\ x.todo = (IF f THEN {} ELSE me.todo \ {k})
      /\ x.full = f /\ x.stale = me.stale /\ x.have = me.have /\ x.current = me.current
  BY <1>0, <1>2 DEF NewPass
<1>5. PICK w : w = vectors
  OBVIOUS
<1>6. ~me.stale /\ ~f => Covers(x, w)
  <2>1. SUFFICES ASSUME ~me.stale, ~f, NEW j \in Keys, ~Fits(j, w[j])
                 PROVE  j \in x.todo /\ x.have[j] = w[j]
    BY <1>4 DEF Covers
  <2>2. j \in me.todo /\ me.have[j] = w[j]
    BY <1>0, <1>5, <2>1 DEF Sees, Covers
  <2>3. j # k
    BY <1>0, <2>1, <2>2 DEF Fits
  <2> QED
    BY <1>4, <2>1, <2>2, <2>3
<1>7. PICK y : y = Vectors!Embedding(x)
  OBVIOUS
<1>8. /\ y \in NewPass /\ SameReading(y, x) /\ Loaded(y) /\ (Covers(x, w) => Covers(y, w))
      /\ (y.pc # "embed" => x.todo # {})
  BY <1>4, <1>7, EmbeddingGoes DEF Vectors!Embedding
<1>9. y.stale = me.stale /\ y.full = f /\ y.current = me.current
  BY <1>4, <1>8 DEF SameReading
<1>10. y.pc # "embed" => ~y.full
  BY <1>4, <1>8, <1>9
<1>11. Reads(y) /\ Sees(y, w)
  BY <1>0, <1>6, <1>8, <1>9 DEF Reads, Sees, Loaded
<1>12. (NoneStale => ~y.stale) /\ (~y.stale => NoneStale) /\ pass' = [pass EXCEPT ![p] = y]
       /\ w \in [Keys -> Nat] /\ vectors' = w /\ \A j \in Keys : w[j] = vectors[j]
  BY <1>0, <1>3, <1>5, <1>7, <1>9 DEF NoneStale
<1> QED
  BY <1>3, <1>8, <1>10, <1>11, <1>12, OneWrites

LEMMA UpsertKeeps ==
  ASSUME VectorsInv, NEW p \in Vectors!Passes, NEW k \in Keys, Vectors!Upsert(p, k)
  PROVE  VectorsInv'
<1> DEFINE me == pass[p]
<1>0. /\ me \in NewPass /\ vectors \in [Keys -> Nat] /\ me.pc = "embed"
      /\ Reads(me) /\ Sees(me, vectors) /\ Loaded(me) /\ (~me.stale => NoneStale)
      /\ me.current \in [Keys -> Nat]
  BY DEF VectorsInv, VectorsTyped, Vectors!Upsert, Vectors!At, Loaded, NewPass
<1>1. PICK w : w = vectors'
  OBVIOUS
<1>2. PICK c : c = [me.current EXCEPT ![k] = NoVector]
  OBVIOUS
<1>3. PICK x : x = [me EXCEPT !.toEmbed = @ \ {k}, !.current = c]
  OBVIOUS
<1>4. /\ w = vectors \/ w = [vectors EXCEPT ![k] = me.current[k]]
      /\ pass' = [pass EXCEPT ![p] = [me EXCEPT !.toEmbed = @ \ {k}, !.current[k] = NoVector]]
      /\ UNCHANGED <<rows, seq, reused>>
  BY <1>1 DEF Vectors!Upsert, Vectors!Step, Vectors!corpus, NoVector
<1>5. [me EXCEPT !.toEmbed = @ \ {k}, !.current[k] = NoVector] = x
  BY <1>0, <1>2, <1>3 DEF NewPass
<1>6. w \in [Keys -> Nat] /\ \A j \in Keys : w[j] = vectors[j] \/ (j = k /\ w[j] = me.current[k])
  BY <1>0, <1>4
<1>7. c \in [Keys -> Nat] /\ \A j \in Keys : c[j] = me.current[j] \/ c[j] = NoVector
  BY <1>0, <1>2 DEF NoVector, Vectors!NoVector
<1>8. /\ x \in NewPass /\ x.pc = "embed" /\ x.current = c /\ x.stale = me.stale
      /\ x.full = me.full /\ Loaded(x)
  BY <1>0, <1>3, <1>7 DEF NewPass, Loaded
<1>9. ~me.stale => \A j \in Keys : w[j] = vectors[j] \/ Fits(j, w[j])
  BY <1>0, <1>6 DEF Reads
<1>10. Reads(x)
  BY <1>0, <1>7, <1>8 DEF Reads, Fits
<1>11. Sees(x, w)
  BY <1>0, <1>8, <1>9 DEF Sees, Covers
<1>12. (NoneStale => ~x.stale) /\ (~x.stale => NoneStale) /\ pass' = [pass EXCEPT ![p] = x]
       /\ vectors' = w
  BY <1>0, <1>1, <1>4, <1>5, <1>8 DEF NoneStale
<1> QED
  BY <1>4, <1>6, <1>8, <1>9, <1>10, <1>11, <1>12, OneWrites

(* A pass that read since the last rebuild and was not cut short leaves     *)
(* nothing that does not fit.                                               *)
LEMMA EndKeeps ==
  ASSUME VectorsInv, NEW p \in Vectors!Passes, Vectors!End(p)
  PROVE  VectorsInv'
<1> DEFINE me == pass[p]
<1>0. /\ VectorsTyped /\ me.pc = "embed" /\ Sees(me, vectors)
      /\ (~me.stale => NoneStale)
      /\ (~reused => NoneStale /\ \A k \in Keys : Fits(k, vectors[k]))
  BY DEF VectorsInv, Vectors!End, Vectors!At, Loaded
<1>1. PICK x : x = Vectors!Idle
  OBVIOUS
<1>2. x \in NewPass /\ x.pc = "idle" /\ ~x.stale /\ ~x.full
  BY <1>1 DEF NewPass, Vectors!Idle, Vectors!Nowhere, Vectors!NoVector
<1>3. /\ pass' = [pass EXCEPT ![p] = x] /\ reused' = (reused /\ (me.full \/ me.stale))
      /\ UNCHANGED <<rows, seq, vectors>>
  BY <1>1 DEF Vectors!End, Vectors!Step, Vectors!corpus
<1>4. pass \in [Vectors!Passes -> NewPass]
  BY <1>0 DEF VectorsTyped
<1>5. pass'[p] = x /\ \A q \in Vectors!Passes \ {p} : pass'[q] = pass[q]
  BY <1>3, <1>4
<1>6. NoneStale => NoneStale'
  BY <1>2, <1>5 DEF NoneStale
<1>7. \A k, i : Fits(k, i)' <=> Fits(k, i)
  BY <1>3 DEF Fits, NoVector, Vectors!NoVector
<1>8. VectorsTyped'
  BY <1>0, <1>2, <1>3, <1>4 DEF VectorsTyped
<1>9. ~reused' => NoneStale' /\ \A k \in Keys : Fits(k, vectors[k])'
  <2>1. SUFFICES ASSUME ~reused' PROVE NoneStale /\ \A k \in Keys : Fits(k, vectors[k])
    BY <1>3, <1>6, <1>7
  <2>2. CASE ~reused
    BY <1>0, <2>2
  <2>3. CASE ~me.full /\ ~me.stale
    BY <1>0, <2>3 DEF Sees, Covers, Loaded
  <2> QED
    BY <1>3, <2>1, <2>2, <2>3
<1>10. ASSUME NEW q \in Vectors!Passes
       PROVE  /\ pass'[q].pc # "embed" => ~pass'[q].full
              /\ Reads(pass[q])' /\ Sees(pass[q], vectors)'
              /\ Loaded(pass[q])' /\ ~pass'[q].stale => NoneStale'
  <2>1. CASE q = p
    BY <1>2, <1>5, <2>1 DEF Reads, Sees, Loaded
  <2>2. CASE q # p
    <3>1. /\ pass[q].pc # "embed" => ~pass[q].full
          /\ Reads(pass[q]) /\ Sees(pass[q], vectors)
          /\ Loaded(pass[q]) /\ ~pass[q].stale => NoneStale
      BY DEF VectorsInv
    <3>2. pass'[q] = pass[q]
      BY <1>5, <2>2
    <3>3. Reads(pass[q])' /\ Sees(pass[q], vectors)'
      BY <1>3, <1>7, <3>1, <3>2 DEF Reads, Sees, Covers, Loaded, NoVector, Vectors!NoVector
    <3> QED
      BY <1>6, <3>1, <3>2, <3>3 DEF Loaded
  <2> QED
    BY <2>1, <2>2
<1> QED
  BY <1>8, <1>9, <1>10 DEF VectorsInv

LEMMA VectorsContinue == VectorsInv /\ [Vectors!Next]_(Vectors!vars) => VectorsInv'
<1> SUFFICES ASSUME VectorsInv, [Vectors!Next]_(Vectors!vars) PROVE VectorsInv'
  OBVIOUS
<1>1. ASSUME UNCHANGED Vectors!vars PROVE VectorsInv'
  <2>1. UNCHANGED <<rows, seq, vectors, pass, reused>>
    BY <1>1 DEF Vectors!vars, Vectors!corpus
  <2>2. VectorsTyped' /\ (NoneStale' <=> NoneStale)
    BY <2>1 DEF VectorsInv, VectorsTyped, NoneStale
  <2>3. \A k, i : Fits(k, i)' <=> Fits(k, i)
    BY <2>1 DEF Fits, NoVector, Vectors!NoVector
  <2>4. ASSUME NEW p \in Vectors!Passes PROVE Reads(pass[p])' /\ Sees(pass[p], vectors)'
    <3>1. Reads(pass[p]) /\ Sees(pass[p], vectors)
      BY DEF VectorsInv
    <3> QED
      BY <2>1, <2>3, <3>1 DEF Reads, Sees, Covers, Loaded, NoVector, Vectors!NoVector
  <2>5. ASSUME NEW p \in Vectors!Passes
        PROVE  /\ pass'[p].pc # "embed" => ~pass'[p].full
               /\ Reads(pass[p])' /\ Sees(pass[p], vectors)'
               /\ Loaded(pass[p])' /\ ~pass'[p].stale => NoneStale'
    BY <2>1, <2>2, <2>4 DEF VectorsInv, Loaded
  <2>6. ~reused' => NoneStale' /\ \A k \in Keys : Fits(k, vectors[k])'
    BY <2>1, <2>2, <2>3 DEF VectorsInv
  <2> QED
    BY <2>2, <2>5, <2>6 DEF VectorsInv
<1>2. ASSUME NEW k \in Keys, Vectors!Insert(k) PROVE VectorsInv'
  BY <1>2, RowsChange
<1>3. ASSUME NEW r \in rows, Vectors!Delete(r) PROVE VectorsInv'
  <2>1. r.key \in Keys
    BY DEF VectorsInv, VectorsTyped
  <2> QED
    BY <1>3, <2>1, RowsChange
<1>4. ASSUME NEW p \in Vectors!Passes,
             \/ Vectors!BeginChild(p) \/ Vectors!BeginCommand(p) \/ Vectors!ScanMessages(p)
             \/ Vectors!LoadVectors(p) \/ Vectors!End(p) \/ Vectors!Cut(p)
      PROVE  VectorsInv'
  BY <1>4, BeginKeeps, LoadKeeps, EndKeeps
<1>5. ASSUME NEW p \in Vectors!Passes, NEW k \in Keys,
             \/ Vectors!Prune(p, k) \/ Vectors!Refresh(p, k)
             \/ Vectors!Collect(p, k) \/ Vectors!Upsert(p, k)
      PROVE  VectorsInv'
  BY <1>5, PruneKeeps, RefreshKeeps, CollectKeeps, UpsertKeeps
<1> QED
  BY <1>1, <1>2, <1>3, <1>4, <1>5, RebuildStales DEF Vectors!Next

LEMMA VectorsRun == Spec => Vectors!Spec
<1>1. Init => Vectors!Init
  BY DEF Init
<1>2. [Next]_vars => [Vectors!Next]_(Vectors!vars)
  <2>1. UNCHANGED vectorPass => UNCHANGED Vectors!vars
    BY DEF vectorPass, Vectors!vars, Vectors!corpus
  <2>2. UNCHANGED vars => UNCHANGED vectorPass
    BY DEF vars
  <2>3. Next => Vectors!Next \/ UNCHANGED vectorPass
    BY DEF Next, TagsStep, TaggingStep, SubstringsStep, SetupStep, UpgradesStep, VectorsStep,
         SearchesStep, DeletesStep, IngestsStep
  <2> QED
    BY <2>1, <2>2, <2>3
<1> QED
  BY <1>1, <1>2, PTL DEF Spec, Vectors!Spec

(* A vector whose id names a message names one of its own, from the end of  *)
(* the first undisturbed pass after a rebuild to the next rebuild.          *)
THEOREM VectorsHome == Spec => []VectorsPointHome
<1>1. VectorsInv => VectorsPointHome
  <2> SUFFICES ASSUME VectorsInv, ~reused, NEW k \in Keys, NEW r \in rows, r.id = vectors[k]
               PROVE  r.key = k
    BY DEF VectorsPointHome, Vectors!VectorsPointHome
  <2>1. Fits(k, vectors[k]) /\ 1 <= r.id
    BY DEF VectorsInv, VectorsTyped
  <2>2. vectors[k] # NoVector
    BY <2>1 DEF NoVector, Vectors!NoVector
  <2> QED
    BY <2>1, <2>2 DEF Fits
<1> QED
  BY <1>1, VectorsBegin, VectorsContinue, VectorsRun, PTL DEF Vectors!Spec

----------------------------------------------------------------------------
(* Setup and eject: what is left to do for an agent says what was done, and *)
(* what a command has read and written so far.                              *)

Scripts == {"prime", "tagqueue"}
Settings == [own: SUBSET Scripts, user: Nat, ok: BOOLEAN, there: BOOLEAN]
UserFiles == {"claude", "codex"}
Merging == UserFiles \cup {"antigravity"}
Commanding == {"install", "eject"}

(* What may be left of the steps for one agent.                             *)
Writes == {<<"open", "fill", "rename">>, <<"fill", "rename">>, <<"rename">>}
MergingInstalls == {<<"script", "read", "open", "fill", "rename", "unlegacy">>,
                    <<"read", "open", "fill", "rename", "unlegacy">>,
                    <<"open", "fill", "rename", "unlegacy">>,
                    <<"fill", "rename", "unlegacy">>, <<"rename", "unlegacy">>, <<"unlegacy">>}
GooseInstalls == {<<"script", "read", "open", "fill", "rename">>,
                  <<"read", "open", "fill", "rename">>} \cup Writes
MergingEjects == {<<"unscript", "unlegacy", "read">>, <<"unlegacy", "read">>, <<"read">>,
                  <<"unlink">>} \cup Writes
GooseEjects == {<<"unscript", "unlink">>, <<"unlink">>}

Rests(kind, a) ==
  IF kind = "install"
  THEN IF a \in Merging THEN MergingInstalls ELSE IF a = "goose" THEN GooseInstalls ELSE {<<"script">>}
  ELSE IF a \in Merging THEN MergingEjects ELSE IF a = "goose" THEN GooseEjects ELSE {<<"unscript">>}
Rested == UNION {Rests(kind, a) : kind \in Commanding, a \in Setup!Found}

Order == [kind: Commanding, at: 1 .. Len(Agents), todo: Rested, read: Settings, data: Settings,
          fd: {"none", "tmp", "config", "gone"}]

InCommand(x) == x.kind \in Commanding
Serves(x) == Agents[x.at]
Has(a) == scripts[a] \cup ejected[a]
Clean(a) == config[a].own \subseteq {"prime"}

(* What a command relies on.                                                *)
Holds(x) ==
  LET a == Serves(x)
      step == Head(x.todo)
  IN  /\ x \in Order /\ x.todo \in Rests(x.kind, a) /\ x.data.own \subseteq {"prime"}
      /\ x.fd # "none" => step \in {"fill", "rename"}
      /\ step \notin {"script", "unscript"} => "prime" \in Has(a)
      /\ x.kind = "install" /\ step = "unlegacy" => Clean(a)
      /\ step \in {"open", "fill", "rename"} => x.data.user = x.read.user
      /\ step = "unlink" /\ a # "goose" => x.read.user = 0
      /\ step \in {"fill", "rename"} /\ ~lostEdits[a] =>
           x.fd = "tmp" /\ tmp[a] = IF step = "fill" THEN Setup!Blank ELSE x.data

SettingsTyped ==
  /\ config \in [Setup!Found -> Settings] /\ tmp \in [Setup!Found -> Settings]
  /\ scripts \in [Setup!Found -> SUBSET Scripts] /\ ejected \in [Setup!Found -> SUBSET Scripts]
  /\ lostEdits \in [Setup!Found -> BOOLEAN] /\ wanted \in [Setup!Found -> Nat] /\ edits \in Nat
  /\ DOMAIN setup = Setup!Runs

(* The settings of an agent, whoever is at work on them.                    *)
Sound(a) ==
  /\ config[a].own \subseteq Has(a) /\ tmp[a].own \subseteq {"prime"}
  /\ a \notin UserFiles => Clean(a) /\ wanted[a] = 0
  /\ ~lostEdits[a] => config[a].user = wanted[a]

(* The file at the temporary name is open twice only where it is known that *)
(* edits may be lost.                                                       *)
Sharing(q, r) ==
  /\ InCommand(setup[q]) /\ setup[q].fd = "tmp" /\ InCommand(setup[r]) /\ setup[r].fd = "tmp"
  /\ Serves(setup[q]) = Serves(setup[r])

SettingsInv ==
  /\ SettingsTyped
  /\ \A a \in Setup!Found : Sound(a)
  /\ \A r \in Setup!Runs :
       IF InCommand(setup[r]) THEN Holds(setup[r])
       ELSE setup[r] \in {Setup!NotStarted, Setup!Ended}
  /\ \A q, r \in Setup!Runs : q # r /\ Sharing(q, r) => lostEdits[Serves(setup[q])]

(* The next step for the same agent, and the steps that may be its last.    *)
Follows(kind, a, from, to) ==
  \/ from = "script" /\ to = "read"
  \/ from = "unscript" /\ kind = "eject" /\ (to = "unlegacy" \/ (to = "unlink" /\ a = "goose"))
  \/ from = "unlegacy" /\ to = "read" /\ kind = "eject"
  \/ from = "read" /\ to = "open" /\ kind = "install"
  \/ from = "open" /\ to = "fill"
  \/ from = "fill" /\ to = "rename"
  \/ from = "rename" /\ to = "unlegacy" /\ kind = "install"
Lasts == {"script", "unscript", "unlegacy", "rename", "unlink"}

LEMMA Steps ==
  ASSUME NEW kind \in Commanding, NEW a, NEW t \in Rests(kind, a)
  PROVE  /\ t # <<>>
         /\ \/ Tail(t) = <<>> /\ Head(t) \in Lasts
            \/ Head(t) = "read" /\ kind = "eject" /\ a \in Merging
            \/ Tail(t) \in Rests(kind, a) /\ Follows(kind, a, Head(t), Head(Tail(t)))
<1>1. CASE kind = "install" /\ a \in Merging
  <2>0. Rests(kind, a) = MergingInstalls
    BY <1>1 DEF Rests, Commanding, Merging, UserFiles
  <2>1. CASE t = <<"script", "read", "open", "fill", "rename", "unlegacy">>
    <3>1. /\ t # <<>> /\ Head(t) = "script" /\ Tail(t) = <<"read", "open", "fill", "rename", "unlegacy">>
          /\ Head(Tail(t)) = "read"
      BY <2>1
    <3>2. Tail(t) \in Rests(kind, a)
      BY <2>0, <3>1, Zenon DEF MergingInstalls
    <3> QED
      BY <1>1, <3>1, <3>2 DEF Follows
  <2>2. CASE t = <<"read", "open", "fill", "rename", "unlegacy">>
    <3>1. /\ t # <<>> /\ Head(t) = "read" /\ Tail(t) = <<"open", "fill", "rename", "unlegacy">>
          /\ Head(Tail(t)) = "open"
      BY <2>2
    <3>2. Tail(t) \in Rests(kind, a)
      BY <2>0, <3>1, Zenon DEF MergingInstalls
    <3> QED
      BY <1>1, <3>1, <3>2 DEF Follows
  <2>3. CASE t = <<"open", "fill", "rename", "unlegacy">>
    <3>1. /\ t # <<>> /\ Head(t) = "open" /\ Tail(t) = <<"fill", "rename", "unlegacy">>
          /\ Head(Tail(t)) = "fill"
      BY <2>3
    <3>2. Tail(t) \in Rests(kind, a)
      BY <2>0, <3>1, Zenon DEF MergingInstalls
    <3> QED
      BY <1>1, <3>1, <3>2 DEF Follows
  <2>4. CASE t = <<"fill", "rename", "unlegacy">>
    <3>1. /\ t # <<>> /\ Head(t) = "fill" /\ Tail(t) = <<"rename", "unlegacy">>
          /\ Head(Tail(t)) = "rename"
      BY <2>4
    <3>2. Tail(t) \in Rests(kind, a)
      BY <2>0, <3>1, Zenon DEF MergingInstalls
    <3> QED
      BY <1>1, <3>1, <3>2 DEF Follows
  <2>5. CASE t = <<"rename", "unlegacy">>
    <3>1. /\ t # <<>> /\ Head(t) = "rename" /\ Tail(t) = <<"unlegacy">>
          /\ Head(Tail(t)) = "unlegacy"
      BY <2>5
    <3>2. Tail(t) \in Rests(kind, a)
      BY <2>0, <3>1, Zenon DEF MergingInstalls
    <3> QED
      BY <1>1, <3>1, <3>2 DEF Follows
  <2>6. CASE t = <<"unlegacy">>
    <3>1. /\ t # <<>> /\ Head(t) = "unlegacy" /\ Tail(t) = <<>>
      BY <2>6
    <3> QED
      BY <1>1, <3>1 DEF Lasts
  <2> QED
    BY <2>0, <2>1, <2>2, <2>3, <2>4, <2>5, <2>6, Zenon DEF MergingInstalls
<1>2. CASE kind = "install" /\ a = "goose"
  <2>0. Rests(kind, a) = GooseInstalls
    BY <1>2 DEF Rests, Commanding, Merging, UserFiles
  <2>1. CASE t = <<"script", "read", "open", "fill", "rename">>
    <3>1. /\ t # <<>> /\ Head(t) = "script" /\ Tail(t) = <<"read", "open", "fill", "rename">>
          /\ Head(Tail(t)) = "read"
      BY <2>1
    <3>2. Tail(t) \in Rests(kind, a)
      BY <2>0, <3>1, Zenon DEF GooseInstalls, Writes
    <3> QED
      BY <1>2, <3>1, <3>2 DEF Follows
  <2>2. CASE t = <<"read", "open", "fill", "rename">>
    <3>1. /\ t # <<>> /\ Head(t) = "read" /\ Tail(t) = <<"open", "fill", "rename">>
          /\ Head(Tail(t)) = "open"
      BY <2>2
    <3>2. Tail(t) \in Rests(kind, a)
      BY <2>0, <3>1, Zenon DEF GooseInstalls, Writes
    <3> QED
      BY <1>2, <3>1, <3>2 DEF Follows
  <2>3. CASE t = <<"open", "fill", "rename">>
    <3>1. /\ t # <<>> /\ Head(t) = "open" /\ Tail(t) = <<"fill", "rename">>
          /\ Head(Tail(t)) = "fill"
      BY <2>3
    <3>2. Tail(t) \in Rests(kind, a)
      BY <2>0, <3>1, Zenon DEF GooseInstalls, Writes
    <3> QED
      BY <1>2, <3>1, <3>2 DEF Follows
  <2>4. CASE t = <<"fill", "rename">>
    <3>1. /\ t # <<>> /\ Head(t) = "fill" /\ Tail(t) = <<"rename">>
          /\ Head(Tail(t)) = "rename"
      BY <2>4
    <3>2. Tail(t) \in Rests(kind, a)
      BY <2>0, <3>1, Zenon DEF GooseInstalls, Writes
    <3> QED
      BY <1>2, <3>1, <3>2 DEF Follows
  <2>5. CASE t = <<"rename">>
    <3>1. /\ t # <<>> /\ Head(t) = "rename" /\ Tail(t) = <<>>
      BY <2>5
    <3> QED
      BY <1>2, <3>1 DEF Lasts
  <2> QED
    BY <2>0, <2>1, <2>2, <2>3, <2>4, <2>5, Zenon DEF GooseInstalls, Writes
<1>3. CASE kind = "eject" /\ a \in Merging
  <2>0. Rests(kind, a) = MergingEjects
    BY <1>3 DEF Rests, Commanding, Merging, UserFiles
  <2>1. CASE t = <<"unscript", "unlegacy", "read">>
    <3>1. /\ t # <<>> /\ Head(t) = "unscript" /\ Tail(t) = <<"unlegacy", "read">>
          /\ Head(Tail(t)) = "unlegacy"
      BY <2>1
    <3>2. Tail(t) \in Rests(kind, a)
      BY <2>0, <3>1, Zenon DEF MergingEjects, Writes
    <3> QED
      BY <1>3, <3>1, <3>2 DEF Follows
  <2>2. CASE t = <<"unlegacy", "read">>
    <3>1. /\ t # <<>> /\ Head(t) = "unlegacy" /\ Tail(t) = <<"read">>
          /\ Head(Tail(t)) = "read"
      BY <2>2
    <3>2. Tail(t) \in Rests(kind, a)
      BY <2>0, <3>1, Zenon DEF MergingEjects, Writes
    <3> QED
      BY <1>3, <3>1, <3>2 DEF Follows
  <2>3. CASE t = <<"read">>
    <3>1. /\ t # <<>> /\ Head(t) = "read" /\ Tail(t) = <<>>
      BY <2>3
    <3> QED
      BY <1>3, <3>1 DEF Lasts
  <2>4. CASE t = <<"unlink">>
    <3>1. /\ t # <<>> /\ Head(t) = "unlink" /\ Tail(t) = <<>>
      BY <2>4
    <3> QED
      BY <1>3, <3>1 DEF Lasts
  <2>5. CASE t = <<"open", "fill", "rename">>
    <3>1. /\ t # <<>> /\ Head(t) = "open" /\ Tail(t) = <<"fill", "rename">>
          /\ Head(Tail(t)) = "fill"
      BY <2>5
    <3>2. Tail(t) \in Rests(kind, a)
      BY <2>0, <3>1, Zenon DEF MergingEjects, Writes
    <3> QED
      BY <1>3, <3>1, <3>2 DEF Follows
  <2>6. CASE t = <<"fill", "rename">>
    <3>1. /\ t # <<>> /\ Head(t) = "fill" /\ Tail(t) = <<"rename">>
          /\ Head(Tail(t)) = "rename"
      BY <2>6
    <3>2. Tail(t) \in Rests(kind, a)
      BY <2>0, <3>1, Zenon DEF MergingEjects, Writes
    <3> QED
      BY <1>3, <3>1, <3>2 DEF Follows
  <2>7. CASE t = <<"rename">>
    <3>1. /\ t # <<>> /\ Head(t) = "rename" /\ Tail(t) = <<>>
      BY <2>7
    <3> QED
      BY <1>3, <3>1 DEF Lasts
  <2> QED
    BY <2>0, <2>1, <2>2, <2>3, <2>4, <2>5, <2>6, <2>7, Zenon DEF MergingEjects, Writes
<1>4. CASE kind = "eject" /\ a = "goose"
  <2>0. Rests(kind, a) = GooseEjects
    BY <1>4 DEF Rests, Commanding, Merging, UserFiles
  <2>1. CASE t = <<"unscript", "unlink">>
    <3>1. /\ t # <<>> /\ Head(t) = "unscript" /\ Tail(t) = <<"unlink">>
          /\ Head(Tail(t)) = "unlink"
      BY <2>1
    <3>2. Tail(t) \in Rests(kind, a)
      BY <2>0, <3>1, Zenon DEF GooseEjects
    <3> QED
      BY <1>4, <3>1, <3>2 DEF Follows
  <2>2. CASE t = <<"unlink">>
    <3>1. /\ t # <<>> /\ Head(t) = "unlink" /\ Tail(t) = <<>>
      BY <2>2
    <3> QED
      BY <1>4, <3>1 DEF Lasts
  <2> QED
    BY <2>0, <2>1, <2>2, Zenon DEF GooseEjects
<1>5. CASE kind = "install" /\ a \notin Merging \cup {"goose"}
  <2>0. Rests(kind, a) = {<<"script">>}
    BY <1>5 DEF Rests, Commanding, Merging, UserFiles
  <2>1. CASE t = <<"script">>
    <3>1. /\ t # <<>> /\ Head(t) = "script" /\ Tail(t) = <<>>
      BY <2>1
    <3> QED
      BY <1>5, <3>1 DEF Lasts
  <2> QED
    BY <2>0, <2>1, Zenon DEF Rests
<1>6. CASE kind = "eject" /\ a \notin Merging \cup {"goose"}
  <2>0. Rests(kind, a) = {<<"unscript">>}
    BY <1>6 DEF Rests, Commanding, Merging, UserFiles
  <2>1. CASE t = <<"unscript">>
    <3>1. /\ t # <<>> /\ Head(t) = "unscript" /\ Tail(t) = <<>>
      BY <2>1
    <3> QED
      BY <1>6, <3>1 DEF Lasts
  <2> QED
    BY <2>0, <2>1, Zenon DEF Rests
<1> QED
  BY <1>1, <1>2, <1>3, <1>4, <1>5, <1>6 DEF Commanding

(* A command that has come to its next agent, or to its end.                *)
Fresh(x) ==
  \/ x = Setup!Ended
  \/ /\ x \in Order /\ x.todo \in Rests(x.kind, Serves(x)) /\ x.data.own \subseteq {"prime"}
     /\ x.fd = "none" /\ Head(x.todo) \in {"script", "unscript"}

LEMMA Served ==
  ASSUME NEW x \in Order
  PROVE  Serves(x) \in Setup!Found /\ x.kind \in Commanding
BY DEF Order, Serves, Setup!Found

LEMMA Planned ==
  ASSUME NEW kind \in Commanding, NEW i \in 1 .. Len(Agents)
  PROVE  /\ Setup!Plan(kind, Agents[i]) \in Rests(kind, Agents[i])
         /\ Setup!Plan(kind, Agents[i]) \in Rested
         /\ Head(Setup!Plan(kind, Agents[i])) \in {"script", "unscript"}
<1> DEFINE a == Agents[i]
<1>1. Setup!Plan(kind, a) \in Rests(kind, a) /\ Head(Setup!Plan(kind, a)) \in {"script", "unscript"}
  <2>1. CASE kind = "install" /\ a \in {"claude", "codex"}
    <3>1. Setup!Plan(kind, a) = <<"script", "read", "open", "fill", "rename", "unlegacy">>
      BY <2>1 DEF Setup!Plan, Setup!Install, Setup!InstallHooks
    <3> QED
      BY <2>1, <3>1 DEF Rests, Merging, UserFiles, MergingInstalls
  <2>2. CASE kind = "install" /\ a = "antigravity"
    <3>1. Setup!Plan(kind, a) = <<"script", "read", "open", "fill", "rename", "unlegacy">>
      BY <2>2 DEF Setup!Plan, Setup!Install, Setup!InstallAntigravity
    <3> QED
      BY <2>2, <3>1 DEF Rests, Merging, MergingInstalls
  <2>3. CASE kind = "install" /\ a = "goose"
    <3>1. Setup!Plan(kind, a) = <<"script", "read", "open", "fill", "rename">>
      BY <2>3 DEF Setup!Plan, Setup!Install, Setup!InstallGoose
    <3> QED
      BY <2>3, <3>1 DEF Rests, Merging, UserFiles, GooseInstalls
  <2>4. CASE kind = "install" /\ a \notin {"claude", "codex", "antigravity", "goose"}
    <3>1. Setup!Plan(kind, a) = <<"script">>
      BY <2>4 DEF Setup!Plan, Setup!Install, Setup!InstallSingle
    <3> QED
      BY <2>4, <3>1 DEF Rests, Merging, UserFiles
  <2>5. CASE kind = "eject" /\ a \in {"claude", "codex"}
    <3>1. Setup!Plan(kind, a) = <<"unscript", "unlegacy", "read">>
      BY <2>5 DEF Setup!Plan, Setup!Eject, Setup!EjectHooks
    <3> QED
      BY <2>5, <3>1 DEF Rests, Merging, UserFiles, MergingEjects
  <2>6. CASE kind = "eject" /\ a = "antigravity"
    <3>1. Setup!Plan(kind, a) = <<"unscript", "unlegacy", "read">>
      BY <2>6 DEF Setup!Plan, Setup!Eject, Setup!EjectAntigravity
    <3> QED
      BY <2>6, <3>1 DEF Rests, Merging, MergingEjects
  <2>7. CASE kind = "eject" /\ a = "goose"
    <3>1. Setup!Plan(kind, a) = <<"unscript", "unlink">>
      BY <2>7 DEF Setup!Plan, Setup!Eject, Setup!EjectGoose
    <3> QED
      BY <2>7, <3>1 DEF Rests, Merging, UserFiles, GooseEjects
  <2>8. CASE kind = "eject" /\ a \notin {"claude", "codex", "antigravity", "goose"}
    <3>1. Setup!Plan(kind, a) = <<"unscript">>
      BY <2>8 DEF Setup!Plan, Setup!Eject, Setup!EjectSingle
    <3> QED
      BY <2>8, <3>1 DEF Rests, Merging, UserFiles
  <2> QED
    BY <2>1, <2>2, <2>3, <2>4, <2>5, <2>6, <2>7, <2>8 DEF Commanding
<1> QED
  BY <1>1 DEF Rested, Setup!Found

(* A command that has finished with an agent goes on to the next.           *)
LEMMA MovesOn ==
  ASSUME NEW x \in Order, x.data.own \subseteq {"prime"}
  PROVE  Fresh(Setup!Onto(x, <<>>))
<1>1. CASE x.at = Len(Agents)
  BY <1>1 DEF Setup!Onto, Fresh
<1>2. CASE x.at # Len(Agents)
  <2>1. x.at \in 1 .. Len(Agents) /\ x.kind \in Commanding /\ x.at + 1 \in 1 .. Len(Agents)
    BY <1>2, AgentsAssumption DEF Order
  <2>2. PICK t \in Rested : /\ t = Setup!Plan(x.kind, Agents[x.at + 1])
                            /\ t \in Rests(x.kind, Agents[x.at + 1])
                            /\ Head(t) \in {"script", "unscript"}
    BY <2>1, Planned
  <2>3. PICK y : y = [x EXCEPT !.at = x.at + 1, !.todo = t, !.fd = "none"]
    OBVIOUS
  <2>4. /\ y \in Order /\ y.at = x.at + 1 /\ y.todo = t /\ y.fd = "none" /\ y.kind = x.kind
        /\ y.data = x.data
    BY <2>1, <2>2, <2>3 DEF Order
  <2>5. Setup!Onto(x, <<>>) = y
    BY <1>2, <2>2, <2>3 DEF Setup!Onto
  <2> QED
    BY <2>2, <2>4, <2>5 DEF Fresh, Serves
<1> QED
  BY <1>1, <1>2

(* A command that has more to do for its agent.                             *)
LEMMA StaysOn ==
  ASSUME NEW x \in Order, NEW t \in Rests(x.kind, Serves(x)), t # <<>>
  PROVE  /\ Setup!Onto(x, t) = [x EXCEPT !.todo = t] /\ t \in Rested
         /\ Setup!Onto(x, t) \in Order
<1>1. t \in Rested
  BY Served DEF Rested
<1> QED
  BY <1>1 DEF Setup!Onto, Order

(* What has only just come to an agent relies on nothing.                   *)
LEMMA FreshHolds ==
  ASSUME NEW x, Fresh(x), x # Setup!Ended
  PROVE  InCommand(x) /\ Holds(x)'
BY DEF Fresh, Holds, InCommand, Order

(* A step that leaves what a command relies on, or counts the edits as lost.*)
LEMMA OthersHold ==
  ASSUME NEW x, Holds(x), NEW z,
         "prime" \in Has(Serves(x)) => "prime" \in Has(Serves(x))',
         Clean(Serves(x)) => Clean(Serves(x))',
         lostEdits[Serves(x)] => lostEdits'[Serves(x)],
         tmp'[Serves(x)] = tmp[Serves(x)] \/ x.fd # "tmp" \/ lostEdits'[Serves(x)],
         \/ z = x
         \/ /\ lostEdits'[Serves(x)] /\ x.fd # "none"
            /\ \E f \in {"config", "gone"} : z = [x EXCEPT !.fd = f]
  PROVE  Holds(z)' /\ InCommand(z) /\ Serves(z) = Serves(x) /\ (z.fd = "tmp" => x.fd = "tmp")
<1>1. /\ z \in Order /\ z.kind = x.kind /\ z.at = x.at /\ z.todo = x.todo /\ z.read = x.read
      /\ z.data = x.data /\ (z.fd = "tmp" => x.fd = "tmp") /\ (z.fd # "none" => x.fd # "none")
      /\ z.fd # x.fd => lostEdits'[Serves(x)]
  <2>1. x \in Order
    BY DEF Holds
  <2>2. CASE z = x
    BY <2>1, <2>2
  <2>3. CASE lostEdits'[Serves(x)] /\ x.fd # "none" /\ \E f \in {"config", "gone"} : z = [x EXCEPT !.fd = f]
    <3>1. PICK f \in {"config", "gone"} : z = [x EXCEPT !.fd = f]
      BY <2>3
    <3> QED
      BY <2>1, <2>3, <3>1 DEF Order
  <2> QED
    BY <2>2, <2>3
<1>2. Serves(z) = Serves(x) /\ InCommand(z)
  BY <1>1, Served DEF Serves, InCommand
<1>3. Holds(z)'
  <2>1. PICK a : a = Serves(x)
    OBVIOUS
  <2>2. PICK step : step = Head(z.todo)
    OBVIOUS
  <2>3. /\ z.todo \in Rests(z.kind, a) /\ z.data.own \subseteq {"prime"}
        /\ z.fd # "none" => step \in {"fill", "rename"}
        /\ step \in {"open", "fill", "rename"} => z.data.user = z.read.user
        /\ step = "unlink" /\ a # "goose" => z.read.user = 0
    BY <1>1, <2>1, <2>2 DEF Holds
  <2>4. /\ step \notin {"script", "unscript"} => "prime" \in Has(a)'
        /\ z.kind = "install" /\ step = "unlegacy" => Clean(a)'
    BY <1>1, <2>1, <2>2 DEF Holds
  <2>5. step \in {"fill", "rename"} /\ ~lostEdits'[a] =>
           z.fd = "tmp" /\ tmp'[a] = IF step = "fill" THEN Setup!Blank ELSE z.data
    BY <1>1, <2>1, <2>2 DEF Holds
  <2> QED
    BY <1>1, <1>2, <2>1, <2>2, <2>3, <2>4, <2>5 DEF Holds
<1> QED
  BY <1>1, <1>2, <1>3

(* Another command has the temporary file of the agent open.                *)
Taken(r, a) == \E q \in Setup!Runs \ {r} : InCommand(setup[q]) /\ setup[q].fd = "tmp" /\ Serves(setup[q]) = a

(* Another command goes on as before, but for the file it has open.         *)
Bystands(q, a, lose) ==
  \/ setup'[q] = setup[q]
  \/ /\ lose /\ InCommand(setup[q]) /\ Serves(setup[q]) = a /\ setup[q].fd # "none"
     /\ \E f \in {"config", "gone"} : setup'[q] = [setup[q] EXCEPT !.fd = f]

(* A step of one command, to x, that leaves an agent with the scripts s, of *)
(* which e are known to be ejected, the settings c, the file u at the       *)
(* temporary name and, if l, with edits that may be lost.                   *)
Leaves(a, s, e, c, u, l) ==
  /\ s \in SUBSET Scripts /\ e \in SUBSET Scripts /\ c \in Settings /\ u \in Settings /\ l \in BOOLEAN
  /\ scripts' = [scripts EXCEPT ![a] = s] /\ ejected' = [ejected EXCEPT ![a] = e]
  /\ config' = [config EXCEPT ![a] = c] /\ tmp' = [tmp EXCEPT ![a] = u]
  /\ lostEdits' = [lostEdits EXCEPT ![a] = l] /\ wanted' = wanted /\ edits' = edits

Soundly(a, s, e, c, u, l) ==
  /\ "prime" \in Has(a) => "prime" \in s \cup e
  /\ c.own \subseteq s \cup e /\ u.own \subseteq {"prime"}
  /\ Clean(a) => c.own \subseteq {"prime"}
  /\ lostEdits[a] => l
  /\ ~l => c.user = wanted[a]

Turns(r, x, a, l) ==
  /\ DOMAIN setup' = Setup!Runs /\ setup'[r] = x
  /\ \A q \in Setup!Runs \ {r} : Bystands(q, a, l)

LEMMA AgentStep ==
  ASSUME SettingsInv, NEW r \in Setup!Runs, InCommand(setup[r]),
         NEW a \in Setup!Found, a = Serves(setup[r]),
         NEW s, NEW e, NEW c, NEW u, NEW l, NEW y,
         Leaves(a, s, e, c, u, l), Soundly(a, s, e, c, u, l), Turns(r, y, a, l),
         u = tmp[a] \/ ~Taken(r, a) \/ l,
         Fresh(y) \/ (InCommand(y) /\ Holds(y)' /\ Serves(y) = a /\ (y.fd = "tmp" /\ Taken(r, a) => l))
  PROVE  SettingsInv'
<1>1. SettingsTyped' /\ SettingsTyped
  BY DEF SettingsInv, SettingsTyped, Leaves, Turns
<1>2. /\ scripts'[a] = s /\ ejected'[a] = e /\ config'[a] = c /\ tmp'[a] = u /\ lostEdits'[a] = l
      /\ \A b \in Setup!Found \ {a} :
            /\ scripts'[b] = scripts[b] /\ ejected'[b] = ejected[b] /\ config'[b] = config[b]
            /\ tmp'[b] = tmp[b] /\ lostEdits'[b] = lostEdits[b]
  BY <1>1 DEF SettingsTyped, Leaves
<1>3. ASSUME NEW b \in Setup!Found
      PROVE  Sound(b)'
  <2>1. Sound(b)
    BY DEF SettingsInv
  <2>2. CASE b = a
    BY <1>2, <2>1, <2>2 DEF Sound, Has, Clean, Soundly, Leaves
  <2>3. CASE b # a
    BY <1>2, <2>1, <2>3 DEF Sound, Has, Clean, Leaves
  <2> QED
    BY <2>2, <2>3
<1>4. ASSUME NEW b \in Setup!Found
      PROVE  /\ "prime" \in Has(b) => "prime" \in Has(b)'
             /\ Clean(b) => Clean(b)'
             /\ lostEdits[b] => lostEdits'[b]
  BY <1>2 DEF Has, Clean, Soundly
<1>5. ASSUME NEW q \in Setup!Runs \ {r}, InCommand(setup[q])
      PROVE  /\ InCommand(setup'[q]) /\ Holds(setup[q])' /\ Serves(setup'[q]) = Serves(setup[q])
             /\ setup'[q].fd = "tmp" => setup[q].fd = "tmp"
  <2>1. PICK x : x = setup[q]
    OBVIOUS
  <2>2. PICK z : z = setup'[q]
    OBVIOUS
  <2>3. Holds(x) /\ Serves(x) \in Setup!Found
    BY <1>5, <2>1, Served DEF SettingsInv, Holds
  <2>4. tmp'[Serves(x)] = tmp[Serves(x)] \/ x.fd # "tmp" \/ lostEdits'[Serves(x)]
    BY <1>2, <1>5, <2>1, <2>3 DEF Taken
  <2>5. \/ z = x
        \/ /\ lostEdits'[Serves(x)] /\ x.fd # "none"
           /\ \E f \in {"config", "gone"} : z = [x EXCEPT !.fd = f]
    BY <1>2, <2>1, <2>2 DEF Bystands, Turns
  <2>6. Holds(z)' /\ InCommand(z) /\ Serves(z) = Serves(x) /\ (z.fd = "tmp" => x.fd = "tmp")
    BY <1>4, <2>3, <2>4, <2>5, OthersHold
  <2> QED
    BY <2>1, <2>2, <2>6 DEF Holds
<1>6. ASSUME NEW q \in Setup!Runs
      PROVE  IF InCommand(setup'[q]) THEN Holds(setup[q])'
             ELSE setup'[q] \in {Setup!NotStarted, Setup!Ended}
  <2>1. CASE q = r
    <3>1. Fresh(y) => y = Setup!Ended \/ (InCommand(y) /\ Holds(y)')
      BY FreshHolds
    <3>2. ~InCommand(Setup!Ended)
      BY DEF InCommand, Commanding, Setup!Ended, Setup!NotStarted
    <3> QED
      BY <2>1, <3>1, <3>2 DEF Holds, Turns
  <2>2. CASE q # r /\ InCommand(setup[q])
    BY <1>5, <2>2
  <2>3. CASE q # r /\ ~InCommand(setup[q])
    <3>1. setup'[q] = setup[q] /\ setup[q] \in {Setup!NotStarted, Setup!Ended}
      BY <2>3 DEF SettingsInv, Bystands, Turns
    <3> QED
      BY <2>3, <3>1
  <2> QED
    BY <2>1, <2>2, <2>3
<1>7. ASSUME NEW q \in Setup!Runs \ {r}, InCommand(setup'[q]), setup'[q].fd = "tmp"
      PROVE  /\ InCommand(setup[q]) /\ setup[q].fd = "tmp" /\ Serves(setup'[q]) = Serves(setup[q])
             /\ Serves(setup[q]) \in Setup!Found
  <2>1. InCommand(setup[q])
    BY <1>7 DEF Bystands, Turns
  <2>2. Serves(setup[q]) \in Setup!Found
    BY <2>1, Served DEF SettingsInv, Holds
  <2> QED
    BY <1>5, <1>7, <2>1, <2>2
<1>8. Fresh(y) /\ InCommand(y) => y.fd = "none"
  BY DEF Fresh, InCommand, Commanding, Setup!Ended, Setup!NotStarted
<1>9. ASSUME NEW q \in Setup!Runs \ {r}, Sharing(q, r)'
      PROVE  lostEdits'[Serves(setup'[q])]
  <2>1. /\ InCommand(setup'[q]) /\ setup'[q].fd = "tmp" /\ InCommand(y) /\ y.fd = "tmp"
        /\ Serves(setup'[q]) = Serves(y)
    BY <1>9 DEF Sharing, Turns
  <2>2. Serves(y) = a /\ (Taken(r, a) => l)
    BY <1>8, <2>1
  <2>3. Taken(r, a)
    BY <1>7, <2>1, <2>2 DEF Taken
  <2> QED
    BY <1>2, <2>1, <2>2, <2>3
<1>10. ASSUME NEW p \in Setup!Runs, NEW q \in Setup!Runs, p # q, Sharing(p, q)'
       PROVE  lostEdits'[Serves(setup'[p])]
  <2>1. CASE p = r
    <3>1. Sharing(q, p)' /\ Serves(setup'[p]) = Serves(setup'[q])
      BY <1>10 DEF Sharing
    <3> QED
      BY <1>9, <1>10, <2>1, <3>1
  <2>2. CASE q = r
    BY <1>9, <1>10, <2>2
  <2>3. CASE p # r /\ q # r
    <3>1. /\ Sharing(p, q) /\ Serves(setup'[p]) = Serves(setup[p]) /\ Serves(setup[p]) \in Setup!Found
      BY <1>7, <1>10, <2>3 DEF Sharing
    <3>2. lostEdits[Serves(setup[p])]
      BY <1>10, <3>1 DEF SettingsInv
    <3> QED
      BY <1>4, <3>1, <3>2
  <2> QED
    BY <2>1, <2>2, <2>3
<1> QED
  BY <1>1, <1>3, <1>6, <1>10 DEF SettingsInv

(* A command that starts, is killed or gives up.                            *)
LEMMA Comes ==
  ASSUME SettingsInv, NEW r \in Setup!Runs, NEW y, Fresh(y), setup' = [setup EXCEPT ![r] = y],
         UNCHANGED <<scripts, config, tmp, wanted, ejected, lostEdits, edits>>
  PROVE  SettingsInv'
<1>1. SettingsTyped'
  BY DEF SettingsInv, SettingsTyped
<1>2. setup'[r] = y /\ \A q \in Setup!Runs \ {r} : setup'[q] = setup[q]
  BY DEF SettingsInv, SettingsTyped
<1>3. \A a \in Setup!Found : Sound(a)'
  BY DEF SettingsInv, Sound, Has, Clean
<1>4. /\ InCommand(y) => y.fd = "none"
      /\ y = Setup!Ended \/ (InCommand(y) /\ Holds(y)')
      /\ ~InCommand(Setup!Ended)
  BY FreshHolds DEF Fresh, InCommand, Commanding, Setup!Ended, Setup!NotStarted
<1>5. ASSUME NEW q \in Setup!Runs
      PROVE  IF InCommand(setup'[q]) THEN Holds(setup[q])'
             ELSE setup'[q] \in {Setup!NotStarted, Setup!Ended}
  <2>1. CASE q = r
    BY <1>2, <1>4, <2>1 DEF Holds
  <2>2. CASE q # r
    <3>1. PICK x : x = setup[q]
      OBVIOUS
    <3>2. /\ setup'[q] = x
          /\ IF InCommand(x) THEN Holds(x) ELSE x \in {Setup!NotStarted, Setup!Ended}
      BY <1>2, <2>2, <3>1 DEF SettingsInv
    <3>3. InCommand(x) => Holds(x)'
      BY <3>2 DEF Holds, Has, Clean
    <3> QED
      BY <3>2, <3>3 DEF Holds
  <2> QED
    BY <2>1, <2>2
<1>6. ASSUME NEW p \in Setup!Runs, NEW q \in Setup!Runs, p # q, Sharing(p, q)'
      PROVE  lostEdits'[Serves(setup'[p])]
  <2>1. p # r /\ q # r
    BY <1>2, <1>4, <1>6 DEF Sharing
  <2>2. Sharing(p, q) /\ setup'[p] = setup[p]
    BY <1>2, <1>6, <2>1 DEF Sharing
  <2> QED
    BY <1>6, <2>2 DEF SettingsInv
<1> QED
  BY <1>1, <1>3, <1>5, <1>6 DEF SettingsInv

LEMMA AtStep ==
  ASSUME SettingsInv, NEW r \in Setup!Runs, Setup!Running(r)
  PROVE  /\ InCommand(setup[r]) /\ Holds(setup[r]) /\ setup[r] \in Order
         /\ Setup!Agent(r) = Serves(setup[r]) /\ Setup!Agent(r) \in Setup!Found
         /\ Sound(Setup!Agent(r))
<1>1. InCommand(setup[r]) /\ Setup!Agent(r) = Serves(setup[r])
  BY DEF Setup!Running, InCommand, Commanding, Setup!Agent, Serves
<1>2. Holds(setup[r]) /\ setup[r] \in Order
  BY <1>1 DEF SettingsInv, Holds
<1> QED
  BY <1>1, <1>2, Served DEF SettingsInv

(* What a command does after a step of an agent.                            *)
LEMMA GoesOn ==
  ASSUME NEW x \in Order, x.todo \in Rests(x.kind, Serves(x)), x.data.own \subseteq {"prime"},
         NEW y, y = Setup!Onto(x, Tail(x.todo)), Head(x.todo) # "read" \/ x.kind = "install"
  PROVE  \/ Fresh(y) /\ Head(x.todo) \in Lasts
         \/ /\ y \in Order /\ y.kind = x.kind /\ y.at = x.at /\ y.read = x.read /\ y.data = x.data
            /\ y.fd = x.fd /\ InCommand(y) /\ Serves(y) = Serves(x)
            /\ y.todo \in Rests(y.kind, Serves(y)) /\ Follows(x.kind, Serves(x), Head(x.todo), Head(y.todo))
<1>1. PICK t : t = Tail(x.todo)
  OBVIOUS
<1>2. /\ Serves(x) \in Setup!Found /\ x.kind \in Commanding
  BY Served
<1>3. /\ x.todo # <<>>
      /\ \/ t = <<>> /\ Head(x.todo) \in Lasts
         \/ Head(x.todo) = "read" /\ x.kind = "eject"
         \/ t \in Rests(x.kind, Serves(x)) /\ Follows(x.kind, Serves(x), Head(x.todo), Head(t))
  BY <1>1, <1>2, Steps
<1>4. CASE t = <<>> /\ Head(x.todo) \in Lasts
  BY <1>1, <1>4, MovesOn
<1>5. CASE t \in Rests(x.kind, Serves(x)) /\ t # <<>> /\ Follows(x.kind, Serves(x), Head(x.todo), Head(t))
  <2>1. y = [x EXCEPT !.todo = t] /\ t \in Rested
    BY <1>1, <1>5, StaysOn
  <2>2. /\ y \in Order /\ y.kind = x.kind /\ y.at = x.at /\ y.read = x.read /\ y.data = x.data
        /\ y.fd = x.fd /\ y.todo = t
    BY <2>1 DEF Order
  <2> QED
    BY <1>2, <1>5, <2>2 DEF InCommand, Serves
<1>6. t \in Rests(x.kind, Serves(x)) => t # <<>>
  BY <1>2, Steps
<1> QED
  BY <1>3, <1>4, <1>5, <1>6

(* The scripts an entry may name: written, or known to be ejected.          *)
LEMMA ScriptSteps ==
  ASSUME SettingsInv, NEW r \in Setup!Runs,
         Setup!WriteScript(r) \/ Setup!RemoveScript(r) \/ Setup!RemoveLegacyScript(r)
  PROVE  SettingsInv'
<1>1. PICK x : x = setup[r]
  OBVIOUS
<1>2. PICK a : a = Setup!Agent(r)
  OBVIOUS
<1>3. PICK y : y = Setup!Onto(x, Tail(x.todo))
  OBVIOUS
<1>4. /\ Setup!Running(r) /\ setup' = [setup EXCEPT ![r] = y]
      /\ UNCHANGED <<config, tmp, wanted, lostEdits, edits>>
      /\ \/ /\ Head(x.todo) = "script" /\ scripts' = [scripts EXCEPT ![a] = @ \cup {"prime"}]
            /\ ejected' = [ejected EXCEPT ![a] = @ \ {"prime"}]
         \/ /\ Head(x.todo) = "unscript" /\ scripts' = [scripts EXCEPT ![a] = @ \ {"prime"}]
            /\ ejected' = [ejected EXCEPT ![a] = @ \cup {"prime"}]
         \/ /\ Head(x.todo) = "unlegacy" /\ scripts' = [scripts EXCEPT ![a] = @ \ {"tagqueue"}]
            /\ ejected' = [ejected EXCEPT ![a] = IF x.kind = "eject" THEN @ \cup {"tagqueue"} ELSE @]
  BY <1>1, <1>2, <1>3 DEF Setup!WriteScript, Setup!RemoveScript, Setup!RemoveLegacyScript, Setup!At,
     Setup!Go, Setup!bounds
<1>5. /\ InCommand(x) /\ Holds(x) /\ x \in Order /\ a = Serves(x) /\ a \in Setup!Found /\ Sound(a)
  BY <1>1, <1>2, <1>4, AtStep
<1>6. PICK s : s = scripts'[a]
  OBVIOUS
<1>7. PICK e : e = ejected'[a]
  OBVIOUS
<1>8. /\ scripts[a] \in SUBSET Scripts /\ ejected[a] \in SUBSET Scripts /\ config[a] \in Settings
      /\ tmp[a] \in Settings /\ lostEdits[a] \in BOOLEAN
  BY <1>5 DEF SettingsInv, SettingsTyped
<1>9. /\ s \in SUBSET Scripts /\ e \in SUBSET Scripts
      /\ scripts' = [scripts EXCEPT ![a] = s] /\ ejected' = [ejected EXCEPT ![a] = e]
      /\ "prime" \in s \cup e \/ ("prime" \notin Has(a) /\ Head(x.todo) = "unlegacy")
      /\ config[a].own \subseteq s \cup e
  <2>1. scripts \in [Setup!Found -> SUBSET Scripts] /\ ejected \in [Setup!Found -> SUBSET Scripts]
    BY DEF SettingsInv, SettingsTyped
  <2>2. config[a].own \subseteq Has(a)
    BY <1>5 DEF Sound
  <2>3. x.kind = "install" /\ Head(x.todo) = "unlegacy" => Clean(a)
    BY <1>5 DEF Holds
  <2>4. Head(x.todo) = "unlegacy" => "prime" \in Has(a)
    BY <1>5 DEF Holds
  <2>5. CASE Head(x.todo) = "script"
    BY <1>4, <1>5, <1>6, <1>7, <1>8, <2>1, <2>2, <2>5 DEF Scripts, Has
  <2>6. CASE Head(x.todo) = "unscript"
    BY <1>4, <1>5, <1>6, <1>7, <1>8, <2>1, <2>2, <2>6 DEF Scripts, Has
  <2>7. CASE Head(x.todo) = "unlegacy" /\ x.kind = "eject"
    BY <1>4, <1>5, <1>6, <1>7, <1>8, <2>1, <2>2, <2>4, <2>7 DEF Scripts, Has
  <2>8. CASE Head(x.todo) = "unlegacy" /\ x.kind = "install"
    BY <1>4, <1>5, <1>6, <1>7, <1>8, <2>1, <2>2, <2>3, <2>4, <2>8 DEF Scripts, Has, Clean
  <2> QED
    BY <1>4, <1>5, <2>5, <2>6, <2>7, <2>8 DEF InCommand, Commanding
<1>10. "prime" \in s \cup e
  BY <1>5, <1>9 DEF Holds
<1>11. Fresh(y) \/ (InCommand(y) /\ Holds(y)' /\ Serves(y) = a /\ y.fd # "tmp")
  <2>1. x.todo \in Rests(x.kind, Serves(x)) /\ x.data.own \subseteq {"prime"} /\ x.fd = "none"
    BY <1>4, <1>5 DEF Holds
  <2>2. CASE ~Fresh(y)
    <3>1. /\ y \in Order /\ y.kind = x.kind /\ y.data = x.data /\ y.fd = x.fd /\ InCommand(y)
          /\ Serves(y) = Serves(x) /\ y.todo \in Rests(y.kind, Serves(y))
          /\ Head(y.todo) \in {"read", "unlegacy", "unlink"}
          /\ Head(y.todo) = "unlegacy" => y.kind = "eject"
          /\ Head(y.todo) = "unlink" => Serves(y) = "goose"
      <4>1. Follows(x.kind, Serves(x), Head(x.todo), Head(y.todo)) => 
              /\ Head(y.todo) \in {"read", "unlegacy", "unlink"}
              /\ Head(y.todo) = "unlink" => Serves(x) = "goose"
        BY <1>4 DEF Follows
      <4> QED
        BY <1>3, <1>4, <1>5, <2>1, <2>2, <4>1, GoesOn DEF Follows
    <3>2. "prime" \in Has(a)'
      BY <1>6, <1>7, <1>10 DEF Has
    <3> QED
      BY <1>5, <2>1, <3>1, <3>2 DEF Holds
  <2> QED
    BY <2>2
<1>12. PICK c \in Settings : c = config[a]
  BY <1>8
<1>13. PICK u \in Settings : u = tmp[a]
  BY <1>8
<1>14. PICK l \in BOOLEAN : l = lostEdits[a]
  BY <1>8
<1>15. Leaves(a, s, e, c, u, l)
  BY <1>4, <1>5, <1>9, <1>12, <1>13, <1>14 DEF SettingsInv, SettingsTyped, Leaves
<1>16. Turns(r, y, a, l)
  BY <1>4 DEF Turns, Bystands, SettingsInv, SettingsTyped
<1>17. Soundly(a, s, e, c, u, l)
  BY <1>5, <1>9, <1>10, <1>12, <1>13, <1>14 DEF Soundly, Sound, Clean
<1> QED
  BY <1>1, <1>5, <1>11, <1>13, <1>15, <1>16, <1>17, AgentStep

(* A step that writes nothing.                                              *)
LEMMA OnlyTurns ==
  ASSUME SettingsInv, NEW r \in Setup!Runs, Setup!Running(r), NEW a, a = Setup!Agent(r), NEW y,
         setup' = [setup EXCEPT ![r] = y],
         UNCHANGED <<scripts, config, tmp, wanted, ejected, lostEdits, edits>>,
         Fresh(y) \/ (InCommand(y) /\ Holds(y)' /\ Serves(y) = a /\ y.fd # "tmp")
  PROVE  SettingsInv'
<1>1. InCommand(setup[r]) /\ a = Serves(setup[r]) /\ a \in Setup!Found /\ Sound(a)
  BY AtStep
<1>2. /\ scripts[a] \in SUBSET Scripts /\ ejected[a] \in SUBSET Scripts /\ config[a] \in Settings
      /\ tmp[a] \in Settings /\ lostEdits[a] \in BOOLEAN
  BY <1>1 DEF SettingsInv, SettingsTyped
<1>3. PICK s \in SUBSET Scripts : s = scripts[a]
  BY <1>2
<1>4. PICK e \in SUBSET Scripts : e = ejected[a]
  BY <1>2
<1>5. PICK c \in Settings : c = config[a]
  BY <1>2
<1>6. PICK u \in Settings : u = tmp[a]
  BY <1>2
<1>7. PICK l \in BOOLEAN : l = lostEdits[a]
  BY <1>2
<1>8. Leaves(a, s, e, c, u, l)
  BY <1>1, <1>3, <1>4, <1>5, <1>6, <1>7 DEF SettingsInv, SettingsTyped, Leaves
<1>9. Soundly(a, s, e, c, u, l)
  BY <1>1, <1>3, <1>4, <1>5, <1>6, <1>7 DEF Soundly, Sound, Clean, Has
<1>10. Turns(r, y, a, l)
  BY DEF Turns, Bystands, SettingsInv, SettingsTyped
<1> QED
  BY <1>1, <1>6, <1>8, <1>9, <1>10, AgentStep

LEMMA Merged ==
  ASSUME NEW c \in Settings, NEW a, a \notin UserFiles => c.own \subseteq {"prime"}
  PROVE  LET merged == IF a = "goose" THEN Setup!addGooseHook(c) ELSE Setup!addRawclawHooks(c)
         IN  merged \in Settings /\ merged.own \subseteq {"prime"} /\ merged.user = c.user
BY DEF Settings, Scripts, UserFiles, Setup!addGooseHook, Setup!addRawclawHooks, Setup!removeRawclawHooks

(* The settings are read and merged.                                        *)
LEMMA ReadToInstallStep ==
  ASSUME SettingsInv, NEW r \in Setup!Runs, Setup!ReadToInstall(r)
  PROVE  SettingsInv'
<1>1. PICK x : x = setup[r]
  OBVIOUS
<1>2. PICK a : a = Setup!Agent(r)
  OBVIOUS
<1>3. PICK c : c = config[a]
  OBVIOUS
<1>4. PICK d : d = IF a = "goose" THEN Setup!addGooseHook(c) ELSE Setup!addRawclawHooks(c)
  OBVIOUS
<1>5. PICK z : z = Setup!Onto(x, Tail(x.todo))
  OBVIOUS
<1>6. PICK y : y = [z EXCEPT !.read = c, !.data = d]
  OBVIOUS
<1>7. /\ Setup!Running(r) /\ Head(x.todo) = "read" /\ x.kind = "install"
      /\ UNCHANGED <<scripts, config, tmp, wanted, ejected, lostEdits, edits>>
      /\ \/ setup' = [setup EXCEPT ![r] = y]
         \/ setup' = [setup EXCEPT ![r] = Setup!Ended]
  BY <1>1, <1>2, <1>3, <1>4, <1>5, <1>6 DEF Setup!ReadToInstall, Setup!At, Setup!files, Setup!bounds, Setup!Stop
<1>8. /\ InCommand(x) /\ Holds(x) /\ x \in Order /\ a = Serves(x) /\ a \in Setup!Found /\ Sound(a)
  BY <1>1, <1>2, <1>7, AtStep
<1>9. c \in Settings /\ d \in Settings /\ d.own \subseteq {"prime"} /\ d.user = c.user
  <2>1. c \in Settings /\ (a \notin UserFiles => c.own \subseteq {"prime"})
    BY <1>3, <1>8 DEF SettingsInv, SettingsTyped, Sound, Clean
  <2> QED
    BY <1>4, <2>1, Merged
<1>10. /\ z \in Order /\ z.kind = x.kind /\ z.fd = "none" /\ Serves(z) = a
       /\ z.todo \in Rests(z.kind, a) /\ Head(z.todo) = "open"
  <2>1. x.todo \in Rests(x.kind, Serves(x)) /\ x.data.own \subseteq {"prime"} /\ x.fd = "none"
    BY <1>7, <1>8 DEF Holds
  <2>2. ASSUME NEW to, Follows(x.kind, a, "read", to)
        PROVE  to = "open"
    BY <2>2 DEF Follows
  <2> QED
    BY <1>5, <1>7, <1>8, <2>1, <2>2, GoesOn DEF Lasts
<1>11. /\ y \in Order /\ y.kind = z.kind /\ y.fd = "none" /\ y.at = z.at /\ y.todo = z.todo
       /\ y.read = c /\ y.data = d
  BY <1>6, <1>9, <1>10 DEF Order
<1>12. "prime" \in Has(a)'
  BY <1>7, <1>8 DEF Holds, Has
<1>13. InCommand(y) /\ Holds(y)' /\ Serves(y) = a
  <2>1. Serves(y) = a /\ InCommand(y)
    BY <1>7, <1>10, <1>11 DEF Serves, InCommand, Commanding, Order
  <2> QED
    BY <1>9, <1>10, <1>11, <1>12, <2>1 DEF Holds
<1>14. CASE setup' = [setup EXCEPT ![r] = y]
  BY <1>2, <1>7, <1>11, <1>13, <1>14, OnlyTurns
<1>15. CASE setup' = [setup EXCEPT ![r] = Setup!Ended]
  BY <1>7, <1>15, Comes DEF Fresh
<1> QED
  BY <1>7, <1>14, <1>15

(* The settings are read, and freed of rawclaw's entries.                   *)
LEMMA ReadToEjectStep ==
  ASSUME SettingsInv, NEW r \in Setup!Runs, Setup!ReadToEject(r)
  PROVE  SettingsInv'
<1>1. PICK x : x = setup[r]
  OBVIOUS
<1>2. PICK a : a = Setup!Agent(r)
  OBVIOUS
<1>3. PICK c : c = config[a]
  OBVIOUS
<1>4. PICK d : d = Setup!removeRawclawHooks(c)
  OBVIOUS
<1>5. PICK z : z = [x EXCEPT !.read = c, !.data = d]
  OBVIOUS
<1>6. PICK t : t = CASE c.own = {} -> <<>>
                     [] c.own # {} /\ d.user = 0 -> <<"unlink">>
                     [] OTHER -> <<"open", "fill", "rename">>
  OBVIOUS
<1>7. PICK y : y = Setup!Onto(z, t)
  OBVIOUS
<1>8. /\ Setup!Running(r) /\ Head(x.todo) = "read" /\ x.kind = "eject"
      /\ UNCHANGED <<scripts, config, tmp, wanted, ejected, lostEdits, edits>>
      /\ \/ setup' = [setup EXCEPT ![r] = y]
         \/ setup' = [setup EXCEPT ![r] = Setup!Ended]
  BY <1>1, <1>2, <1>3, <1>4, <1>5, <1>6, <1>7 DEF Setup!ReadToEject, Setup!At, Setup!files,
     Setup!bounds, Setup!Stop
<1>9. /\ InCommand(x) /\ Holds(x) /\ x \in Order /\ a = Serves(x) /\ a \in Setup!Found /\ Sound(a)
  BY <1>1, <1>2, <1>8, AtStep
<1>10. c \in Settings /\ d \in Settings /\ d.own = {} /\ d.user = c.user
  BY <1>3, <1>4, <1>9 DEF SettingsInv, SettingsTyped, Settings, Scripts, Setup!removeRawclawHooks
<1>11. /\ z \in Order /\ z.kind = x.kind /\ z.fd = "none" /\ z.at = x.at /\ z.read = c /\ z.data = d
       /\ Serves(z) = a
  BY <1>5, <1>8, <1>9, <1>10 DEF Order, Holds, Serves
<1>12. a \in Merging
  <2>1. x.todo \in Rests(x.kind, a) /\ x.kind \in Commanding
    BY <1>9 DEF Holds, InCommand
  <2>2. PICK kind \in Commanding : kind = x.kind
    BY <2>1
  <2>3. PICK t0 \in Rests(kind, a) : t0 = x.todo
    BY <2>1, <2>2
  <2>4. Head(t0) = "read" /\ kind = "eject"
    BY <1>8, <2>2, <2>3
  <2>5. ~Follows(kind, a, "read", Head(Tail(t0))) /\ "read" \notin Lasts
    BY <2>4 DEF Follows, Lasts
  <2> QED
    BY <2>4, <2>5, Steps
<1>13. "prime" \in Has(a)'
  BY <1>8, <1>9 DEF Holds, Has
<1>14. Fresh(y) \/ (InCommand(y) /\ Holds(y)' /\ Serves(y) = a /\ y.fd # "tmp")
  <2>1. CASE t = <<>>
    BY <1>7, <1>10, <1>11, <2>1, MovesOn
  <2>2. ASSUME t \in Rests(z.kind, Serves(z)), t # <<>>,
               Head(t) = "open" \/ (Head(t) = "unlink" /\ d.user = 0)
        PROVE  InCommand(y) /\ Holds(y)' /\ Serves(y) = a /\ y.fd # "tmp"
    <3>1. y = [z EXCEPT !.todo = t] /\ y \in Order
      BY <1>7, <1>11, <2>2, StaysOn
    <3>2. /\ y.kind = z.kind /\ y.fd = "none" /\ y.at = z.at /\ y.todo = t /\ y.read = c /\ y.data = d
      BY <1>11, <3>1 DEF Order
    <3>3. Serves(y) = a /\ InCommand(y)
      BY <1>8, <1>11, <3>2 DEF Serves, InCommand, Commanding
    <3> QED
      BY <1>8, <1>10, <1>11, <1>13, <2>2, <3>1, <3>2, <3>3 DEF Holds
  <2>3. CASE t = <<"unlink">> /\ d.user = 0
    <3>1. t # <<>> /\ Head(t) = "unlink"
      BY <2>3
    <3>2. t \in Rests(z.kind, Serves(z))
      BY <1>8, <1>11, <1>12, <2>3, Zenon DEF Rests, MergingEjects
    <3> QED
      BY <2>2, <2>3, <3>1, <3>2
  <2>4. CASE t = <<"open", "fill", "rename">>
    <3>1. t # <<>> /\ Head(t) = "open"
      BY <2>4
    <3>2. t \in Rests(z.kind, Serves(z))
      BY <1>8, <1>11, <1>12, <2>4, Zenon DEF Rests, MergingEjects, Writes
    <3> QED
      BY <2>2, <3>1, <3>2
  <2>5. t = <<>> \/ (t = <<"unlink">> /\ d.user = 0) \/ t = <<"open", "fill", "rename">>
    BY <1>6
  <2> QED
    BY <2>1, <2>3, <2>4, <2>5
<1>15. CASE setup' = [setup EXCEPT ![r] = y]
  BY <1>2, <1>8, <1>14, <1>15, OnlyTurns
<1>16. CASE setup' = [setup EXCEPT ![r] = Setup!Ended]
  BY <1>8, <1>16, Comes DEF Fresh
<1> QED
  BY <1>8, <1>15, <1>16

(* A step that writes files other than scripts.                             *)
FilesLeft(a, c, u, l) ==
  /\ c \in Settings /\ u \in Settings /\ l \in BOOLEAN
  /\ config' = [config EXCEPT ![a] = c] /\ tmp' = [tmp EXCEPT ![a] = u]
  /\ lostEdits' = [lostEdits EXCEPT ![a] = l] /\ UNCHANGED <<scripts, wanted, ejected, edits>>

FilesKept(a, c, u, l) ==
  /\ c = config[a] \/ (c.own \subseteq {"prime"} /\ "prime" \in Has(a))
  /\ u.own \subseteq {"prime"} /\ (lostEdits[a] => l) /\ (~l => c.user = wanted[a])

LEMMA FilesStep ==
  ASSUME SettingsInv, NEW r \in Setup!Runs, Setup!Running(r), NEW a, a = Setup!Agent(r),
         NEW c, NEW u, NEW l, NEW y,
         FilesLeft(a, c, u, l), FilesKept(a, c, u, l), Turns(r, y, a, l),
         u = tmp[a] \/ ~Taken(r, a) \/ l,
         Fresh(y) \/ (InCommand(y) /\ Holds(y)' /\ Serves(y) = a /\ (y.fd = "tmp" /\ Taken(r, a) => l))
  PROVE  SettingsInv'
<1>1. InCommand(setup[r]) /\ a = Serves(setup[r]) /\ a \in Setup!Found /\ Sound(a)
  BY AtStep
<1>2. /\ scripts[a] \in SUBSET Scripts /\ ejected[a] \in SUBSET Scripts
  BY <1>1 DEF SettingsInv, SettingsTyped
<1>3. PICK s \in SUBSET Scripts : s = scripts[a]
  BY <1>2
<1>4. PICK e \in SUBSET Scripts : e = ejected[a]
  BY <1>2
<1>5. Leaves(a, s, e, c, u, l)
  BY <1>1, <1>3, <1>4 DEF SettingsInv, SettingsTyped, Leaves, FilesLeft
<1>6. Soundly(a, s, e, c, u, l)
  BY <1>1, <1>3, <1>4 DEF Soundly, Sound, Clean, Has, FilesKept
<1> QED
  BY <1>1, <1>5, <1>6, AgentStep

(* The file at the temporary name is opened and truncated.                  *)
LEMMA OpenTmpStep ==
  ASSUME SettingsInv, NEW r \in Setup!Runs, Setup!OpenTmp(r)
  PROVE  SettingsInv'
<1>1. PICK x : x = setup[r]
  OBVIOUS
<1>2. PICK a : a = Setup!Agent(r)
  OBVIOUS
<1>3. PICK z : z = Setup!Onto(x, Tail(x.todo))
  OBVIOUS
<1>4. PICK y : y = [z EXCEPT !.fd = "tmp"]
  OBVIOUS
<1>5. PICK l \in BOOLEAN : l = (lostEdits[a] \/ Taken(r, a))
  OBVIOUS
<1>6. (\E q \in Setup!Others(r, a) : setup[q].fd = "tmp") <=> Taken(r, a)
  BY DEF Taken, Setup!Others, Setup!Running, InCommand, Commanding, Setup!Agent, Serves
<1>7. /\ Setup!Running(r) /\ Head(x.todo) = "open" /\ setup' = [setup EXCEPT ![r] = y]
      /\ tmp' = [tmp EXCEPT ![a] = Setup!Blank] /\ lostEdits' = [lostEdits EXCEPT ![a] = l]
      /\ UNCHANGED <<scripts, config, wanted, ejected, edits>>
  BY <1>1, <1>2, <1>3, <1>4, <1>5, <1>6 DEF Setup!OpenTmp, Setup!At, Setup!bounds, SettingsInv, SettingsTyped
<1>8. /\ InCommand(x) /\ Holds(x) /\ x \in Order /\ a = Serves(x) /\ a \in Setup!Found /\ Sound(a)
  BY <1>1, <1>2, <1>7, AtStep
<1>9. /\ config[a] \in Settings /\ tmp[a] \in Settings /\ Setup!Blank \in Settings /\ Setup!Blank.own = {}
      /\ config' = [config EXCEPT ![a] = config[a]] /\ lostEdits[a] \in BOOLEAN
  BY <1>7, <1>8 DEF SettingsInv, SettingsTyped, Settings, Setup!Blank, Setup!NoFile
<1>10. /\ z \in Order /\ z.kind = x.kind /\ Serves(z) = a /\ z.read = x.read /\ z.data = x.data
       /\ z.todo \in Rests(z.kind, a) /\ Head(z.todo) = "fill"
  <2>1. x.todo \in Rests(x.kind, Serves(x)) /\ x.data.own \subseteq {"prime"}
    BY <1>8 DEF Holds
  <2>2. ASSUME NEW to, Follows(x.kind, a, "open", to)
        PROVE  to = "fill"
    BY <2>2 DEF Follows
  <2> QED
    BY <1>3, <1>7, <1>8, <2>1, <2>2, GoesOn DEF Lasts
<1>11. /\ y \in Order /\ y.kind = z.kind /\ y.fd = "tmp" /\ y.at = z.at /\ y.todo = z.todo
       /\ y.read = z.read /\ y.data = z.data
  BY <1>4, <1>10 DEF Order
<1>12. /\ "prime" \in Has(a)' /\ tmp'[a] = Setup!Blank
       /\ x.data.own \subseteq {"prime"} /\ x.data.user = x.read.user
  BY <1>7, <1>8 DEF Holds, Has, SettingsInv, SettingsTyped
<1>13. InCommand(y) /\ Holds(y)' /\ Serves(y) = a
  <2>1. Serves(y) = a /\ InCommand(y)
    BY <1>8, <1>10, <1>11 DEF Serves, InCommand, Commanding, Order
  <2> QED
    BY <1>10, <1>11, <1>12, <2>1 DEF Holds
<1>14. Turns(r, y, a, l)
  BY <1>7 DEF Turns, Bystands, SettingsInv, SettingsTyped
<1>15. ~l => config[a].user = wanted[a]
  BY <1>5, <1>8 DEF Sound
<1>16. PICK c \in Settings : c = config[a]
  BY <1>9
<1>17. PICK u \in Settings : u = Setup!Blank
  BY <1>9
<1>18. FilesLeft(a, c, u, l)
  BY <1>7, <1>9, <1>16, <1>17 DEF FilesLeft
<1>19. FilesKept(a, c, u, l)
  BY <1>5, <1>9, <1>15, <1>16, <1>17 DEF FilesKept
<1> QED
  BY <1>2, <1>5, <1>7, <1>13, <1>14, <1>18, <1>19, FilesStep

(* While no edit may be lost, a command that fills or renames the temporary *)
(* file is the only one to have a file of the agent open.                   *)
LEMMA FileIsOurs ==
  ASSUME SettingsInv, NEW r \in Setup!Runs, Setup!Running(r), NEW a, a = Setup!Agent(r), ~lostEdits[a],
         Head(setup[r].todo) \in {"fill", "rename"}
  PROVE  /\ setup[r].fd = "tmp" /\ ~Taken(r, a)
         /\ \A q \in Setup!Runs \ {r} : InCommand(setup[q]) /\ Serves(setup[q]) = a => setup[q].fd = "none"
<1>1. InCommand(setup[r]) /\ Holds(setup[r]) /\ a = Serves(setup[r])
  BY AtStep
<1>2. setup[r].fd = "tmp"
  BY <1>1 DEF Holds
<1>3. ASSUME NEW q \in Setup!Runs \ {r}, InCommand(setup[q]), Serves(setup[q]) = a
      PROVE  setup[q].fd = "none"
  <2>1. Holds(setup[q])
    BY <1>3 DEF SettingsInv
  <2>2. setup[q].fd # "none" => setup[q].fd = "tmp"
    BY <1>3, <2>1 DEF Holds
  <2>3. setup[q].fd = "tmp" => Sharing(q, r)
    BY <1>1, <1>2, <1>3 DEF Sharing
  <2> QED
    BY <1>3, <2>2, <2>3 DEF SettingsInv
<1> QED
  BY <1>2, <1>3 DEF Taken

(* A file of another command that is open moves with its name: the edits    *)
(* may be lost already.                                                     *)
LEMMA FilesMove ==
  ASSUME SettingsInv, NEW r \in Setup!Runs, Setup!Running(r), NEW a, a = Setup!Agent(r),
         NEW l, lostEdits[a] => l, NEW q \in Setup!Runs \ {r},
         Head(setup[r].todo) \in {"fill", "rename"} \/ setup[q].fd = "config",
         NEW f \in {"config", "gone"}, InCommand(setup[q]), Serves(setup[q]) = a,
         setup[q].fd # "none", setup'[q] = [setup[q] EXCEPT !.fd = f]
  PROVE  Bystands(q, a, l)
<1>1. Holds(setup[q])
  BY DEF SettingsInv
<1>2. lostEdits[a]
  <2>1. CASE setup[q].fd = "config"
    BY <1>1, <2>1 DEF Holds
  <2>2. CASE Head(setup[r].todo) \in {"fill", "rename"}
    BY <2>2, FileIsOurs
  <2> QED
    BY <2>1, <2>2
<1> QED
  BY <1>2 DEF Bystands

(* The temporary file is written, wherever its name has gone.               *)
LEMMA FillTmpStep ==
  ASSUME SettingsInv, NEW r \in Setup!Runs, Setup!FillTmp(r)
  PROVE  SettingsInv'
<1>1. PICK x : x = setup[r]
  OBVIOUS
<1>2. PICK a : a = Setup!Agent(r)
  OBVIOUS
<1>3. PICK y : y = Setup!Onto(x, Tail(x.todo))
  OBVIOUS
<1>4. /\ Setup!Running(r) /\ Head(x.todo) = "fill" /\ setup' = [setup EXCEPT ![r] = y]
      /\ UNCHANGED <<scripts, wanted, ejected, edits>>
      /\ \/ /\ x.fd = "tmp" /\ UNCHANGED <<config, lostEdits>>
            /\ \E u \in Setup!Overwritten(tmp[a], x.data) : tmp' = [tmp EXCEPT ![a] = u]
         \/ /\ x.fd = "config" /\ lostEdits' = [lostEdits EXCEPT ![a] = TRUE] /\ UNCHANGED tmp
            /\ \E c \in Setup!Overwritten(config[a], x.data) : config' = [config EXCEPT ![a] = c]
         \/ x.fd \notin {"tmp", "config"} /\ UNCHANGED <<config, tmp, lostEdits>>
  BY <1>1, <1>2, <1>3 DEF Setup!FillTmp, Setup!At, Setup!Go, Setup!bounds
<1>5. /\ InCommand(x) /\ Holds(x) /\ x \in Order /\ a = Serves(x) /\ a \in Setup!Found /\ Sound(a)
  BY <1>1, <1>2, <1>4, AtStep
<1>6. /\ config[a] \in Settings /\ tmp[a] \in Settings /\ lostEdits[a] \in BOOLEAN
      /\ config' = [config EXCEPT ![a] = config'[a]] /\ tmp' = [tmp EXCEPT ![a] = tmp'[a]]
      /\ lostEdits' = [lostEdits EXCEPT ![a] = lostEdits'[a]]
  BY <1>4, <1>5 DEF SettingsInv, SettingsTyped
<1>7. /\ x.todo \in Rests(x.kind, Serves(x)) /\ x.data.own \subseteq {"prime"} /\ x.data \in Settings
      /\ "prime" \in Has(a) /\ x.data.user = x.read.user
      /\ ~lostEdits[a] => x.fd = "tmp" /\ tmp[a] = Setup!Blank
  BY <1>4, <1>5 DEF Holds, Order
<1>8. ASSUME NEW file, NEW w \in Setup!Overwritten(file, x.data)
      PROVE  /\ w \in Settings /\ w.own \subseteq {"prime"}
             /\ file = Setup!Blank => w = x.data
  <2>1. Setup!Garbled \in Settings /\ Setup!Garbled.own = {}
    BY DEF Setup!Garbled, Setup!Blank, Setup!NoFile, Settings
  <2> QED
    BY <1>7, <1>8, <2>1 DEF Setup!Overwritten
<1>9. /\ y \in Order /\ y.kind = x.kind /\ y.at = x.at /\ y.read = x.read /\ y.data = x.data
      /\ y.fd = x.fd /\ InCommand(y) /\ Serves(y) = a /\ y.todo \in Rests(y.kind, a)
      /\ Head(y.todo) = "rename"
  <2>1. ASSUME NEW to, Follows(x.kind, a, "fill", to)
        PROVE  to = "rename"
    BY <2>1 DEF Follows
  <2> QED
    BY <1>3, <1>4, <1>5, <1>7, <2>1, GoesOn DEF Lasts
<1>10. ASSUME ~lostEdits'[a] => x.fd = "tmp" /\ tmp'[a] = x.data
       PROVE  Holds(y)'
  <2>1. "prime" \in Has(a)'
    BY <1>4, <1>7 DEF Has
  <2> QED
    BY <1>7, <1>9, <1>10, <2>1 DEF Holds
<1>11. ASSUME NEW l, lostEdits[a] => l
       PROVE  Turns(r, y, a, l)
  BY <1>4 DEF Turns, Bystands, SettingsInv, SettingsTyped
<1>12. Taken(r, a) /\ x.fd = "tmp" => lostEdits[a]
  BY <1>1, <1>2, <1>4, FileIsOurs
<1>13. CASE x.fd = "tmp" /\ UNCHANGED <<config, lostEdits>>
  <2>1. PICK u \in Setup!Overwritten(tmp[a], x.data) : tmp' = [tmp EXCEPT ![a] = u]
    BY <1>4, <1>13
  <2>2. tmp'[a] = u /\ u \in Settings /\ u.own \subseteq {"prime"} /\ (~lostEdits[a] => u = x.data)
    BY <1>5, <1>7, <1>8, <2>1 DEF SettingsInv, SettingsTyped
  <2>3. Holds(y)'
    BY <1>10, <1>13, <2>2
  <2>4. PICK c : c = config[a]
    OBVIOUS
  <2>5. PICK l : l = lostEdits[a]
    OBVIOUS
  <2>6. FilesLeft(a, c, u, l)
    BY <1>4, <1>6, <1>13, <2>1, <2>2, <2>4, <2>5 DEF FilesLeft
  <2>7. FilesKept(a, c, u, l)
    BY <1>5, <2>2, <2>4, <2>5 DEF FilesKept, Sound
  <2>8. Turns(r, y, a, l)
    BY <1>11, <2>5
  <2> QED
    BY <1>2, <1>4, <1>9, <1>12, <1>13, <2>3, <2>5, <2>6, <2>7, <2>8, FilesStep
<1>14. CASE x.fd = "config" /\ lostEdits' = [lostEdits EXCEPT ![a] = TRUE] /\ UNCHANGED tmp
  <2>1. PICK c \in Setup!Overwritten(config[a], x.data) : config' = [config EXCEPT ![a] = c]
    BY <1>4, <1>14
  <2>2. c \in Settings /\ c.own \subseteq {"prime"}
    BY <1>8, <2>1
  <2>3. Holds(y)'
    BY <1>5, <1>10, <1>14 DEF SettingsInv, SettingsTyped
  <2>4. PICK u : u = tmp[a]
    OBVIOUS
  <2>6. FilesLeft(a, c, u, TRUE)
    BY <1>4, <1>6, <1>14, <2>1, <2>2, <2>4 DEF FilesLeft
  <2>7. FilesKept(a, c, u, TRUE)
    BY <1>5, <1>7, <2>2, <2>4 DEF FilesKept, Sound
  <2>8. Turns(r, y, a, TRUE)
    BY <1>11
  <2> QED
    BY <1>2, <1>4, <1>9, <1>14, <2>3, <2>4, <2>6, <2>7, <2>8, FilesStep
<1>15. CASE x.fd \notin {"tmp", "config"} /\ UNCHANGED <<config, tmp, lostEdits>>
  <2>1. Holds(y)'
    BY <1>7, <1>10, <1>15
  <2> QED
    BY <1>2, <1>4, <1>9, <1>15, <2>1, OnlyTurns
<1> QED
  BY <1>4, <1>13, <1>14, <1>15

(* The temporary file takes the place of the settings.                      *)
LEMMA RenameStep ==
  ASSUME SettingsInv, NEW r \in Setup!Runs, Setup!Rename(r)
  PROVE  SettingsInv'
<1>1. PICK x : x = setup[r]
  OBVIOUS
<1>2. PICK a : a = Setup!Agent(r)
  OBVIOUS
<1>3. PICK z : z = [x EXCEPT !.fd = "none"]
  OBVIOUS
<1>4. PICK y : y = Setup!Onto(z, Tail(x.todo))
  OBVIOUS
<1>5. /\ Setup!Running(r) /\ Head(x.todo) = "rename" /\ UNCHANGED <<scripts, wanted, ejected, edits>>
      /\ \/ setup' = [setup EXCEPT ![r] = Setup!Ended] /\ UNCHANGED <<config, tmp, lostEdits>>
         \/ /\ config' = [config EXCEPT ![a] = tmp[a]] /\ tmp' = [tmp EXCEPT ![a] = Setup!NoFile]
            /\ setup' = [Setup!Moved(r, a) EXCEPT ![r] = y]
            /\ lostEdits' = [lostEdits EXCEPT ![a] = @ \/ config[a] # x.read]
  <2>1. Setup!Moved(r, a)[r] = x
    BY <1>1 DEF Setup!Moved
  <2>2. PICK f : f = Setup!Moved(r, a)
    OBVIOUS
  <2>3. /\ Setup!Running(r) /\ Head(x.todo) = "rename" /\ UNCHANGED <<scripts, wanted, ejected, edits>>
        /\ \/ setup' = [setup EXCEPT ![r] = Setup!Ended] /\ UNCHANGED <<config, tmp, lostEdits>>
           \/ /\ config' = [config EXCEPT ![a] = tmp[a]] /\ tmp' = [tmp EXCEPT ![a] = Setup!NoFile]
              /\ setup' = [f EXCEPT ![r] = Setup!Onto([f[r] EXCEPT !.fd = "none"], Tail(f[r].todo))]
              /\ lostEdits' = [lostEdits EXCEPT ![a] = @ \/ config[a] # x.read]
    BY <1>1, <1>2, <2>2 DEF Setup!Rename, Setup!At, Setup!Stop, Setup!bounds
  <2> QED
    BY <1>3, <1>4, <2>1, <2>2, <2>3
<1>6. /\ InCommand(x) /\ Holds(x) /\ x \in Order /\ a = Serves(x) /\ a \in Setup!Found /\ Sound(a)
  BY <1>1, <1>2, <1>5, AtStep
<1>7. CASE setup' = [setup EXCEPT ![r] = Setup!Ended] /\ UNCHANGED <<config, tmp, lostEdits>>
  BY <1>5, <1>7, Comes DEF Fresh
<1>8. CASE /\ config' = [config EXCEPT ![a] = tmp[a]] /\ tmp' = [tmp EXCEPT ![a] = Setup!NoFile]
           /\ setup' = [Setup!Moved(r, a) EXCEPT ![r] = y]
           /\ lostEdits' = [lostEdits EXCEPT ![a] = @ \/ config[a] # x.read]
  <2>1. PICK c : c = tmp[a]
    OBVIOUS
  <2>2. PICK l \in BOOLEAN : l = (lostEdits[a] \/ config[a] # x.read)
    OBVIOUS
  <2>3. /\ x.todo \in Rests(x.kind, Serves(x)) /\ x.data.own \subseteq {"prime"}
        /\ "prime" \in Has(a) /\ x.data.user = x.read.user
        /\ ~lostEdits[a] => tmp[a] = x.data
    BY <1>5, <1>6 DEF Holds
  <2>4. c \in Settings /\ c.own \subseteq {"prime"} /\ Setup!NoFile \in Settings /\ Setup!NoFile.own = {}
    BY <1>6, <2>1 DEF SettingsInv, SettingsTyped, Sound, Settings, Setup!NoFile
  <2>5. /\ z \in Order /\ z.kind = x.kind /\ z.todo = x.todo /\ z.fd = "none" /\ Serves(z) = a
        /\ z.data = x.data
    BY <1>3, <1>6 DEF Order, Serves
  <2>6. Clean(a)' /\ "prime" \in Has(a)'
    BY <1>5, <1>6, <1>8, <2>1, <2>3, <2>4 DEF Clean, Has, SettingsInv, SettingsTyped
  <2>7. Fresh(y) \/ (InCommand(y) /\ Holds(y)' /\ Serves(y) = a /\ y.fd = "none")
    <3>1. ASSUME NEW to, Follows(x.kind, a, "rename", to)
          PROVE  to = "unlegacy" /\ x.kind = "install"
      BY <3>1 DEF Follows
    <3>2. CASE ~Fresh(y)
      <4>1. /\ y \in Order /\ y.kind = x.kind /\ y.data = x.data /\ y.fd = "none" /\ InCommand(y)
            /\ Serves(y) = a /\ y.todo \in Rests(y.kind, a) /\ Head(y.todo) = "unlegacy"
        <5>1. y = Setup!Onto(z, Tail(z.todo))
          BY <1>4, <2>5
        <5>2. z.todo \in Rests(z.kind, Serves(z)) /\ z.data.own \subseteq {"prime"} /\ Head(z.todo) = "rename"
          BY <1>5, <1>6, <2>3, <2>5
        <5> QED
          BY <2>5, <3>1, <3>2, <5>1, <5>2, GoesOn
      <4> QED
        BY <2>3, <2>6, <4>1 DEF Holds
    <3> QED
      BY <3>2
  <2>8. lostEdits' = [lostEdits EXCEPT ![a] = l]
    BY <1>6, <1>8, <2>2 DEF SettingsInv, SettingsTyped
  <2>9. FilesLeft(a, c, Setup!NoFile, l)
    BY <1>5, <1>8, <2>1, <2>4, <2>8 DEF FilesLeft
  <2>10. ~l => c.user = wanted[a]
    BY <1>6, <2>1, <2>2, <2>3 DEF Sound
  <2>11. FilesKept(a, c, Setup!NoFile, l)
    BY <2>2, <2>3, <2>4, <2>10 DEF FilesKept
  <2>12. DOMAIN setup' = Setup!Runs /\ setup'[r] = y
    BY <1>8 DEF Setup!Moved
  <2>13. ASSUME NEW q \in Setup!Runs \ {r}
         PROVE  Bystands(q, a, l)
    <3>1. setup'[q] = Setup!Moved(r, a)[q]
      BY <1>8 DEF Setup!Moved
    <3>2. CASE q \notin Setup!Others(r, a)
      BY <3>1, <3>2 DEF Setup!Moved, Bystands
    <3>3. CASE q \in Setup!Others(r, a)
      <4>1. InCommand(setup[q]) /\ Serves(setup[q]) = a
        BY <3>3 DEF Setup!Others, Setup!Running, InCommand, Commanding, Setup!Agent, Serves
      <4>2. PICK w \in Order : w = setup[q]
        BY <4>1 DEF SettingsInv, Holds
      <4>3. setup'[q] = [w EXCEPT !.fd = CASE w.fd = "tmp" -> "config" [] w.fd = "config" -> "gone"
                                           [] OTHER -> w.fd]
        BY <3>1, <3>3, <4>2 DEF Setup!Moved
      <4>4. CASE w.fd \in {"tmp", "config"}
        <5>1. PICK f \in {"config", "gone"} : setup'[q] = [w EXCEPT !.fd = f]
          BY <4>3, <4>4
        <5> QED
          BY <1>1, <1>2, <1>5, <2>2, <4>1, <4>2, <4>4, <5>1, FilesMove
      <4>5. CASE w.fd \notin {"tmp", "config"}
        BY <4>2, <4>3, <4>5 DEF Bystands, Order
      <4> QED
        BY <4>4, <4>5
    <3> QED
      BY <3>2, <3>3
  <2>14. Turns(r, y, a, l)
    BY <2>12, <2>13 DEF Turns
  <2>15. ~Taken(r, a) \/ l
    BY <1>1, <1>2, <1>5, <2>2, FileIsOurs
  <2> QED
    BY <1>2, <1>5, <2>7, <2>9, <2>11, <2>14, <2>15, FilesStep
<1> QED
  BY <1>5, <1>7, <1>8

(* Settings that are empty without rawclaw's entries are removed.           *)
LEMMA RemoveConfigStep ==
  ASSUME SettingsInv, NEW r \in Setup!Runs, Setup!RemoveConfig(r)
  PROVE  SettingsInv'
<1>1. PICK x : x = setup[r]
  OBVIOUS
<1>2. PICK a : a = Setup!Agent(r)
  OBVIOUS
<1>3. PICK y : y = Setup!Onto(x, Tail(x.todo))
  OBVIOUS
<1>4. PICK l \in BOOLEAN : l = (lostEdits[a] \/ config[a] # x.read)
  OBVIOUS
<1>5. /\ Setup!Running(r) /\ Head(x.todo) = "unlink" /\ UNCHANGED <<scripts, tmp, wanted, ejected, edits>>
      /\ config' = [config EXCEPT ![a] = Setup!NoFile]
      /\ setup' = [[q \in Setup!Runs |-> IF q \in Setup!Others(r, a) /\ setup[q].fd = "config"
                                         THEN [setup[q] EXCEPT !.fd = "gone"] ELSE setup[q]]
                   EXCEPT ![r] = y]
      /\ lostEdits' = [lostEdits EXCEPT ![a] = l]
  <2>1. PICK f : f = [q \in Setup!Runs |-> IF q \in Setup!Others(r, a) /\ setup[q].fd = "config"
                                          THEN [setup[q] EXCEPT !.fd = "gone"] ELSE setup[q]]
    OBVIOUS
  <2>2. f[r] = x
    BY <1>1, <2>1 DEF Setup!Others
  <2>3. /\ Setup!Running(r) /\ Head(x.todo) = "unlink" /\ UNCHANGED <<scripts, tmp, wanted, ejected, edits>>
        /\ config' = [config EXCEPT ![a] = Setup!NoFile]
        /\ setup' = [f EXCEPT ![r] = Setup!Onto(f[r], Tail(f[r].todo))]
        /\ lostEdits' = [lostEdits EXCEPT ![a] = lostEdits[a] \/ config[a] # x.read]
    BY <1>1, <1>2, <2>1 DEF Setup!RemoveConfig, Setup!At, Setup!bounds
  <2> QED
    BY <1>3, <1>4, <2>1, <2>2, <2>3
<1>6. /\ InCommand(x) /\ Holds(x) /\ x \in Order /\ a = Serves(x) /\ a \in Setup!Found /\ Sound(a)
  BY <1>1, <1>2, <1>5, AtStep
<1>7. Fresh(y)
  <2>1. ~Follows(x.kind, a, "unlink", Head(y.todo))
    BY DEF Follows
  <2>2. x.todo \in Rests(x.kind, Serves(x)) /\ x.data.own \subseteq {"prime"}
    BY <1>6 DEF Holds
  <2> QED
    BY <1>3, <1>5, <1>6, <2>1, <2>2, GoesOn
<1>8. PICK u : u = tmp[a]
  OBVIOUS
<1>9. FilesLeft(a, Setup!NoFile, u, l)
  <2>1. Setup!NoFile \in Settings /\ u \in Settings /\ tmp' = [tmp EXCEPT ![a] = u]
    BY <1>5, <1>6, <1>8 DEF SettingsInv, SettingsTyped, Settings, Setup!NoFile
  <2> QED
    BY <1>5, <2>1 DEF FilesLeft
<1>10. FilesKept(a, Setup!NoFile, u, l)
  <2>1. "prime" \in Has(a) /\ (a # "goose" => x.read.user = 0)
    BY <1>5, <1>6 DEF Holds
  <2>2. Setup!NoFile.own = {} /\ Setup!NoFile.user = 0
    BY DEF Setup!NoFile
  <2>3. ~l => wanted[a] = 0
    BY <1>4, <1>6, <2>1 DEF Sound, UserFiles
  <2> QED
    BY <1>4, <1>6, <1>8, <2>1, <2>2, <2>3 DEF FilesKept, Sound
<1>11. ASSUME NEW q \in Setup!Runs \ {r}
       PROVE  Bystands(q, a, l)
  <2>1. CASE q \in Setup!Others(r, a) /\ setup[q].fd = "config"
    <3>1. setup'[q] = [setup[q] EXCEPT !.fd = "gone"]
      BY <1>5, <2>1
    <3>2. InCommand(setup[q]) /\ Serves(setup[q]) = a
      BY <2>1 DEF Setup!Others, Setup!Running, InCommand, Commanding, Setup!Agent, Serves
    <3> QED
      BY <1>2, <1>4, <1>5, <2>1, <3>1, <3>2, FilesMove
  <2>2. CASE ~(q \in Setup!Others(r, a) /\ setup[q].fd = "config")
    BY <1>5, <2>2 DEF Bystands
  <2> QED
    BY <2>1, <2>2
<1>12. Turns(r, y, a, l)
  BY <1>5, <1>11 DEF Turns
<1> QED
  BY <1>2, <1>5, <1>7, <1>8, <1>9, <1>10, <1>12, FilesStep

(* The user edits, breaks or repairs the settings: no command notices.      *)
LEMMA WorldStep ==
  ASSUME SettingsInv, NEW a \in Setup!Found,
         Setup!Edit(a) \/ Setup!Break(a) \/ Setup!Repair(a)
  PROVE  SettingsInv'
<1>1. config[a] \in Settings /\ Sound(a)
  BY DEF SettingsInv, SettingsTyped
<1>2. PICK c : c = config'[a]
  OBVIOUS
<1>3. PICK n : n = wanted'[a]
  OBVIOUS
<1>4. /\ config' = [config EXCEPT ![a] = c] /\ c \in Settings /\ c.own = config[a].own
      /\ wanted' = [wanted EXCEPT ![a] = n] /\ n \in Nat /\ edits' \in Nat
      /\ (config[a].user = wanted[a] => c.user = n) /\ (a \notin UserFiles => n = wanted[a])
      /\ UNCHANGED <<scripts, tmp, setup, ejected, lostEdits>>
  <2>1. /\ config \in [Setup!Found -> Settings] /\ wanted \in [Setup!Found -> Nat] /\ edits \in Nat
    BY DEF SettingsInv, SettingsTyped
  <2>2. CASE Setup!Edit(a)
    <3>1. PICK d : d = [config[a] EXCEPT !.user = edits + 1, !.there = TRUE]
      OBVIOUS
    <3>2. PICK k \in Nat : k = edits + 1
      BY <2>1
    <3>3. /\ d \in Settings /\ d.own = config[a].own /\ d.user = k
      BY <1>1, <2>1, <3>1, <3>2 DEF Settings
    <3>4. /\ a \in UserFiles /\ config' = [config EXCEPT ![a] = d] /\ wanted' = [wanted EXCEPT ![a] = k]
          /\ edits' = k /\ UNCHANGED <<scripts, tmp, setup, ejected, lostEdits>>
      BY <2>2, <3>1, <3>2 DEF Setup!Edit, UserFiles
    <3>5. c = d /\ n = k
      BY <1>2, <1>3, <2>1, <3>4
    <3> QED
      BY <3>2, <3>3, <3>4, <3>5
  <2>3. CASE Setup!Break(a)
    <3>1. PICK d : d = [config[a] EXCEPT !.ok = FALSE]
      OBVIOUS
    <3>2. d \in Settings /\ d.own = config[a].own /\ d.user = config[a].user
      BY <1>1, <3>1 DEF Settings
    <3>3. /\ config' = [config EXCEPT ![a] = d] /\ wanted' = wanted /\ edits' = edits + 1
          /\ UNCHANGED <<scripts, tmp, setup, ejected, lostEdits>>
      BY <2>3, <3>1 DEF Setup!Break
    <3>4. c = d /\ n = wanted[a] /\ wanted' = [wanted EXCEPT ![a] = n] /\ n \in Nat
      BY <1>2, <1>3, <2>1, <3>3
    <3>5. edits' \in Nat
      BY <2>1, <3>3
    <3>6. /\ config' = [config EXCEPT ![a] = c] /\ c \in Settings /\ c.own = config[a].own
          /\ c.user = config[a].user
      BY <3>2, <3>3, <3>4
    <3> QED
      BY <3>3, <3>4, <3>5, <3>6
  <2>4. CASE Setup!Repair(a)
    BY <1>1, <1>2, <1>3, <2>1, <2>4 DEF Setup!Repair, Setup!bounds, UserFiles, Settings
  <2> QED
    BY <2>2, <2>3, <2>4
<1>5. SettingsTyped'
  BY <1>4 DEF SettingsInv, SettingsTyped
<1>6. \A b \in Setup!Found : /\ config'[b].own = config[b].own
                             /\ b # a => config'[b] = config[b] /\ wanted'[b] = wanted[b]
                             /\ Has(b)' = Has(b) /\ (Clean(b) <=> Clean(b)')
  BY <1>4 DEF SettingsInv, SettingsTyped, Has, Clean
<1>7. ASSUME NEW b \in Setup!Found
      PROVE  Sound(b)'
  <2>1. Sound(b)
    BY DEF SettingsInv
  <2>2. config'[a] = c /\ wanted'[a] = n
    BY <1>2, <1>3
  <2>3. CASE b = a
    BY <1>4, <1>6, <2>1, <2>2, <2>3 DEF Sound
  <2>4. CASE b # a
    BY <1>4, <1>6, <2>1, <2>4 DEF Sound
  <2> QED
    BY <2>3, <2>4
<1>8. ASSUME NEW q \in Setup!Runs, InCommand(setup[q])
      PROVE  Holds(setup[q])'
  <2>1. PICK x : x = setup[q]
    OBVIOUS
  <2>2. Holds(x) /\ Serves(x) \in Setup!Found
    BY <1>8, <2>1, Served DEF SettingsInv, Holds
  <2>3. Holds(x)'
    BY <1>4, <1>6, <2>2, OthersHold
  <2> QED
    BY <1>4, <2>1, <2>3 DEF Holds
<1>9. setup' = setup /\ lostEdits' = lostEdits
  BY <1>4
<1>10. ASSUME NEW p \in Setup!Runs, NEW q \in Setup!Runs, p # q, Sharing(p, q)'
       PROVE  lostEdits'[Serves(setup'[p])]
  BY <1>9, <1>10 DEF Sharing, SettingsInv
<1> QED
  BY <1>5, <1>7, <1>8, <1>9, <1>10 DEF SettingsInv

LEMMA SetupBegins == Setup!Init => SettingsInv
<1> SUFFICES ASSUME Setup!Init
             PROVE  SettingsInv
  OBVIOUS
<1>1. /\ scripts \in [Setup!Found -> {{}, {"prime", "tagqueue"}}] /\ wanted \in [Setup!Found -> {0, 1}]
      /\ \A a \in Setup!Found \ UserFiles : scripts[a] = {} /\ wanted[a] = 0
      /\ tmp = [a \in Setup!Found |-> Setup!NoFile] /\ ejected = [a \in Setup!Found |-> {}]
      /\ lostEdits = [a \in Setup!Found |-> FALSE] /\ edits = 1
      /\ setup = [r \in Setup!Runs |-> Setup!NotStarted]
  BY DEF Setup!Init, UserFiles
<1>2. config = [a \in Setup!Found |-> IF scripts[a] = {} /\ wanted[a] = 0 THEN Setup!NoFile
                                      ELSE [Setup!Blank EXCEPT !.own = scripts[a], !.user = wanted[a]]]
  BY DEF Setup!Init
<1>3. \A a \in Setup!Found : /\ config[a] \in Settings /\ config[a].own = scripts[a]
                             /\ config[a].user = wanted[a]
  <2> SUFFICES ASSUME NEW a \in Setup!Found
               PROVE  config[a] \in Settings /\ config[a].own = scripts[a] /\ config[a].user = wanted[a]
    OBVIOUS
  <2>1. PICK s : s = scripts[a]
    OBVIOUS
  <2>2. PICK n : n = wanted[a]
    OBVIOUS
  <2>3. s \in SUBSET Scripts /\ n \in Nat
    BY <1>1, <2>1, <2>2 DEF Scripts
  <2>4. config[a] = IF s = {} /\ n = 0 THEN Setup!NoFile ELSE [Setup!Blank EXCEPT !.own = s, !.user = n]
    BY <1>2, <2>1, <2>2
  <2>5. CASE s = {} /\ n = 0
    BY <2>1, <2>2, <2>4, <2>5 DEF Settings, Setup!NoFile
  <2>6. CASE ~(s = {} /\ n = 0)
    <3>1. config[a] = [own |-> s, user |-> n, ok |-> TRUE, there |-> TRUE]
      BY <2>4, <2>6 DEF Setup!NoFile, Setup!Blank
    <3> QED
      BY <2>1, <2>2, <2>3, <3>1 DEF Settings
  <2> QED
    BY <2>5, <2>6
<1>4. SettingsTyped
  <2>1. config \in [Setup!Found -> Settings]
    BY <1>2, <1>3
  <2>2. tmp \in [Setup!Found -> Settings]
    BY <1>1 DEF Settings, Setup!NoFile
  <2> QED
    BY <1>1, <2>1, <2>2 DEF SettingsTyped, Scripts
<1>5. \A a \in Setup!Found : Sound(a)
  BY <1>1, <1>3 DEF Sound, Has, Clean, Setup!NoFile
<1>6. \A r \in Setup!Runs : setup[r] = Setup!NotStarted /\ ~InCommand(setup[r])
  BY <1>1 DEF InCommand, Commanding, Setup!NotStarted
<1> QED
  BY <1>4, <1>5, <1>6 DEF SettingsInv, Sharing

LEMMA StartStep ==
  ASSUME SettingsInv, NEW r \in Setup!Runs, Setup!StartInstall(r) \/ Setup!StartEject(r)
  PROVE  SettingsInv'
<1>1. PICK kind \in Commanding :
         /\ setup[r] = Setup!NotStarted /\ UNCHANGED <<scripts, config, tmp, wanted, ejected, lostEdits, edits>>
         /\ setup' = [setup EXCEPT ![r] = [@ EXCEPT !.kind = kind, !.at = 1,
                                                    !.todo = Setup!Plan(kind, Agents[1])]]
  BY DEF Setup!StartInstall, Setup!StartEject, Setup!files, Setup!bounds, Commanding
<1>2. PICK t : t = Setup!Plan(kind, Agents[1])
  OBVIOUS
<1>3. PICK y : y = [Setup!NotStarted EXCEPT !.kind = kind, !.at = 1, !.todo = t]
  OBVIOUS
<1>4. 1 \in 1 .. Len(Agents)
  BY AgentsAssumption
<1>5. t \in Rested /\ t \in Rests(kind, Agents[1]) /\ Head(t) \in {"script", "unscript"}
  BY <1>2, <1>4, Planned
<1>6. y = [kind |-> kind, at |-> 1, todo |-> t, read |-> Setup!NoFile, data |-> Setup!NoFile, fd |-> "none"]
  BY <1>3 DEF Setup!NotStarted
<1>7. Setup!NoFile \in Settings /\ Setup!NoFile.own = {}
  BY DEF Settings, Setup!NoFile
<1>8. y \in Order
  BY <1>4, <1>5, <1>6, <1>7 DEF Order
<1>9. Fresh(y)
  BY <1>5, <1>6, <1>7, <1>8 DEF Fresh, Serves
<1>10. setup' = [setup EXCEPT ![r] = y]
  BY <1>1, <1>2, <1>3
<1> QED
  BY <1>1, <1>9, <1>10, Comes

LEMMA SetupContinues == SettingsInv /\ [Setup!Next]_(Setup!vars) => SettingsInv'
<1>1. ASSUME SettingsInv, UNCHANGED Setup!vars
      PROVE  SettingsInv'
  BY <1>1 DEF Setup!vars, Setup!files, Setup!bounds, SettingsInv, SettingsTyped, Sound, Sharing, Holds,
     Has, Clean
<1>2. ASSUME SettingsInv, NEW r \in Setup!Runs, Setup!Kill(r)
      PROVE  SettingsInv'
  BY <1>2, Comes DEF Setup!Kill, Setup!Stop, Setup!files, Fresh
<1>3. ASSUME SettingsInv, Setup!Next
      PROVE  SettingsInv'
  BY <1>2, <1>3, StartStep, ScriptSteps, ReadToInstallStep, ReadToEjectStep, OpenTmpStep, FillTmpStep,
     RenameStep, RemoveConfigStep, WorldStep DEF Setup!Next
<1> QED
  BY <1>1, <1>3

LEMMA SetupRuns == Spec => Setup!Spec
<1>1. Init => Setup!Init
  BY DEF Init
<1>2. [Next]_vars => [Setup!Next]_(Setup!vars)
  <2>1. UNCHANGED setups => UNCHANGED Setup!vars
    BY DEF setups, Setup!vars, Setup!files, Setup!bounds
  <2>2. UNCHANGED vars => UNCHANGED setups
    BY DEF vars
  <2>3. Next => Setup!Next \/ UNCHANGED setups
    BY DEF Next, TagsStep, TaggingStep, SubstringsStep, SetupStep, UpgradesStep, VectorsStep,
         SearchesStep, DeletesStep, IngestsStep
  <2> QED
    BY <2>1, <2>2, <2>3
<1> QED
  BY <1>1, <1>2, PTL DEF Spec, Setup!Spec

(* No entry of the settings names a script that is not there, unless an     *)
(* eject took it away, however installs and ejects are cut off or overtaken.*)
THEOREM EntriesNameScripts == Spec => []EntriesResolve
<1>1. SettingsInv => EntriesResolve
  BY DEF SettingsInv, Sound, Has, EntriesResolve, Setup!EntriesResolve
<1> QED
  BY <1>1, SetupBegins, SetupContinues, SetupRuns, PTL DEF Setup!Spec

(* The settings hold the user's last edit, unless they were changed between *)
(* a command's read and its rename, or two commands wrote one file.         *)
THEOREM EditsSurvive == Spec => []UserEntriesKept
<1>1. SettingsInv => UserEntriesKept
  BY DEF SettingsInv, Sound, UserEntriesKept, Setup!UserEntriesKept
<1> QED
  BY <1>1, SetupBegins, SetupContinues, SetupRuns, PTL DEF Setup!Spec

----------------------------------------------------------------------------
(* The ingest: what an ingest was to bring is in the cache once it has      *)
(* looked at the transcript, and in the store once it has folded, unless a  *)
(* commit left out what another had read.                                   *)

IngestSteps == {"idle", "spawn", "resolve", "index", "read", "commit", "verify", "fold", "count"}
Stamp == [gen: Nat, n: Nat]
Record == Nat \X Nat
Cache == [recs: SUBSET Record, at: Stamp]
Count == {0} \cup {Ingests!Cardinality(R) : R \in SUBSET Record}
IngestRun == [pc: IngestSteps, starts: Nat, tries: Nat, wants: SUBSET Record, stat: Stamp,
              from: Stamp, full: BOOLEAN, read: SUBSET Record, n: Count]

IngestTyped ==
  /\ disk \in Stamp /\ refresh \in Cache /\ foldMark \in Cache /\ searchable \in SUBSET Record
  /\ deleted \in BOOLEAN /\ overtaken \in BOOLEAN /\ missed \in BOOLEAN
  /\ ingest \in [Ingesters -> IngestRun]

(* The records of R that the transcript has still; a stamp, and records, of  *)
(* the transcript as it is or was.                                          *)
Here(R) == R \cap Ingests!Records(disk)
Was(t) == t.gen < disk.gen \/ (t.gen = disk.gen /\ t.n <= disk.n)
Were(R) == \A x \in R : x[1] < disk.gen \/ x \in Ingests!Records(disk)

(* What an ingest found is of the transcript, from its stat on.             *)
Heeds(r) ==
  /\ Were(r.wants)
  /\ r.pc \in {"read", "commit"} =>
       /\ Was(r.stat) /\ Was(r.from)
       /\ Here(r.wants) \subseteq Ingests!Records(r.stat)
       /\ ~r.full => r.from.gen = r.stat.gen
  /\ r.pc = "commit" =>
       /\ Were(r.read)
       /\ r.full => Here(r.wants) \subseteq r.read
       /\ r.full /\ r.stat.gen = disk.gen => Ingests!Records(r.stat) \subseteq r.read
       /\ ~r.full => r.read = Ingests!Records(r.stat) \ Ingests!Records(r.from)

(* What it is to bring is in the cache, or in the store, by now.            *)
Brought(r) ==
  /\ r.pc \in {"read", "commit"} /\ ~r.full => Here(Ingests!Records(r.from)) \subseteq refresh.recs
  /\ r.pc \in {"verify", "fold"} /\ ~deleted => Here(r.wants) \subseteq refresh.recs
  /\ r.pc = "count" /\ ~deleted => Here(r.wants) \subseteq searchable

CacheSound ==
  /\ Were(refresh.recs) /\ Was(refresh.at)
  /\ refresh.at.gen = disk.gen => Ingests!Records(refresh.at) \subseteq refresh.recs

IngestInv ==
  /\ IngestTyped /\ CacheSound
  /\ ~deleted => foldMark.recs \subseteq searchable
  /\ missed => overtaken
  /\ \A i \in Ingesters : Heeds(ingest[i]) /\ (~overtaken => Brought(ingest[i]))

LEMMA RecordsOf ==
  ASSUME NEW t \in Stamp
  PROVE  /\ Ingests!Records(t) \in SUBSET Record
         /\ \A x \in Record : x \in Ingests!Records(t) <=> x[1] = t.gen /\ 1 <= x[2] /\ x[2] <= t.n
<1>1. Ingests!Records(t) = {<<t.gen, k>> : k \in 1 .. t.n}
  BY DEF Ingests!Records
<1>2. t.gen \in Nat /\ t.n \in Nat
  BY DEF Stamp
<1>3. \A k \in 1 .. t.n : <<t.gen, k>> \in Record
  BY <1>2 DEF Record
<1>4. ASSUME NEW x \in Record, x[1] = t.gen, 1 <= x[2], x[2] <= t.n
      PROVE  x \in Ingests!Records(t)
  <2>1. x = <<t.gen, x[2]>> /\ x[2] \in 1 .. t.n
    BY <1>2, <1>4 DEF Record
  <2> QED
    BY <1>1, <2>1
<1>5. ASSUME NEW x \in Ingests!Records(t)
      PROVE  x[1] = t.gen /\ 1 <= x[2] /\ x[2] <= t.n
  BY <1>1, <1>2, <1>5
<1> QED
  BY <1>1, <1>3, <1>4, <1>5

LEMMA NothingOf ==
  ASSUME NEW t \in Stamp, t.n = 0
  PROVE  Ingests!Records(t) = {}
<1> QED
  BY DEF Ingests!Records, Stamp

LEMMA HeadOf ==
  ASSUME NEW t \in Stamp, NEW u \in Stamp, t.gen = u.gen, t.n <= u.n
  PROVE  Ingests!Records(t) \subseteq Ingests!Records(u)
<1>1. ASSUME NEW x \in Ingests!Records(t)
      PROVE  x \in Ingests!Records(u)
  <2>1. x \in Record /\ x[1] = t.gen /\ 1 <= x[2] /\ x[2] <= t.n
    BY <1>1, RecordsOf
  <2>2. x[2] \in Nat /\ t.n \in Nat /\ u.n \in Nat
    BY <2>1 DEF Record, Stamp
  <2> QED
    BY <2>1, <2>2, RecordsOf
<1> QED
  BY <1>1

(* The records of the stamp of an earlier state are of the transcript then. *)
LEMMA StampWere ==
  ASSUME IngestTyped, NEW t \in Stamp, Was(t)
  PROVE  Were(Ingests!Records(t))
<1>1. CASE t.gen < disk.gen
  BY <1>1, RecordsOf DEF Were
<1>2. CASE t.gen = disk.gen /\ t.n <= disk.n
  BY <1>2, HeadOf DEF Were, IngestTyped
<1> QED
  BY <1>1, <1>2 DEF Was

(* The transcript goes on: it grows, or is another.                         *)
Onward == disk' \in Stamp /\ (disk.gen < disk'.gen \/ (disk'.gen = disk.gen /\ disk.n <= disk'.n))

LEMMA StampOnward ==
  ASSUME IngestTyped, Onward, NEW t \in Stamp, Was(t)
  PROVE  Was(t)' /\ (t.gen = disk'.gen => t.gen = disk.gen)
<1>1. /\ t.gen \in Nat /\ t.n \in Nat /\ disk.gen \in Nat /\ disk.n \in Nat
      /\ disk'.gen \in Nat /\ disk'.n \in Nat
  BY DEF IngestTyped, Stamp, Onward
<1> QED
  BY <1>1 DEF Was, Onward

LEMMA RecordsOnward ==
  ASSUME IngestTyped, Onward, NEW R \in SUBSET Record, Were(R)
  PROVE  Were(R)' /\ Here(R)' \subseteq Here(R)
<1>1. disk \in Stamp /\ disk' \in Stamp
  BY DEF IngestTyped, Onward
<1>2. disk.gen \in Nat /\ disk'.gen \in Nat
  BY <1>1 DEF Stamp
<1>3. CASE disk.gen < disk'.gen
  <2>1. \A x \in R : x[1] \in Nat /\ x[1] <= disk.gen
    BY <1>1, <1>2, RecordsOf DEF Were, Record
  <2>2. \A x \in R : x[1] < disk'.gen
    BY <1>2, <1>3, <2>1
  <2>3. \A x \in R : x \notin Ingests!Records(disk')
    BY <1>1, <1>2, <2>2, RecordsOf DEF Record
  <2>4. Here(R)' = R \cap Ingests!Records(disk')
    BY DEF Here
  <2> QED
    BY <2>2, <2>3, <2>4 DEF Were
<1>4. CASE disk'.gen = disk.gen /\ disk.n <= disk'.n
  <2>1. Ingests!Records(disk) \subseteq Ingests!Records(disk')
    BY <1>1, <1>4, HeadOf
  <2>2. \A x \in R : x \in Ingests!Records(disk') => x[1] = disk.gen
    BY <1>1, <1>4, RecordsOf
  <2>3. \A x \in R : x \in Ingests!Records(disk') => x \in Ingests!Records(disk)
    BY <1>2, <2>2 DEF Were
  <2>4. Here(R)' = R \cap Ingests!Records(disk')
    BY DEF Here
  <2> QED
    BY <1>4, <2>1, <2>3, <2>4 DEF Were, Here
<1> QED
  BY <1>3, <1>4 DEF Onward

LEMMA IdleType ==
  /\ Ingests!Idle \in IngestRun /\ Ingests!Idle.pc = "idle" /\ Ingests!Idle.wants = {}
<1>1. Ingests!NoMark \in Stamp
  BY DEF Ingests!NoMark, Stamp
<1>2. \A n \in Count : [pc |-> "idle", starts |-> 0, tries |-> 0, wants |-> {},
                        stat |-> Ingests!NoMark, from |-> Ingests!NoMark, full |-> TRUE,
                        read |-> {}, n |-> n] \in IngestRun
  BY <1>1 DEF IngestRun, IngestSteps
<1>3. 0 \in Count
  BY DEF Count
<1> QED
  BY <1>2, <1>3 DEF Ingests!Idle

LEMMA IngestBegins == Ingests!Init => IngestInv
<1> SUFFICES ASSUME Ingests!Init PROVE IngestInv
  OBVIOUS
<1>1. /\ disk \in Stamp /\ disk.gen = 1 /\ Ingests!NoMark \in Stamp /\ Ingests!NoMark.gen = 0
      /\ Ingests!NoMark.n = 0
  BY DEF Ingests!Init, Ingests!NoMark, Stamp
<1>2. Ingests!Empty \in Cache /\ Ingests!Empty.recs = {} /\ Ingests!Empty.at = Ingests!NoMark
  BY <1>1 DEF Ingests!Empty, Cache
<1>3. Ingests!Idle \in IngestRun /\ Ingests!Idle.pc = "idle" /\ Ingests!Idle.wants = {}
  BY IdleType
<1>4. IngestTyped
  BY <1>1, <1>2, <1>3 DEF Ingests!Init, IngestTyped
<1>5. CacheSound /\ foldMark.recs = {}
  BY <1>1, <1>2 DEF Ingests!Init, CacheSound, Were, Was
<1>6. \A i \in Ingesters : Heeds(ingest[i]) /\ Brought(ingest[i])
  BY <1>3 DEF Ingests!Init, Heeds, Brought, Were
<1> QED
  BY <1>4, <1>5, <1>6 DEF IngestInv, Ingests!Init

(* The world goes on: what is on disk, and whether the session is deleted.  *)
LEMMA WorldGoesOn ==
  ASSUME IngestInv, Onward, deleted' \in BOOLEAN, deleted => deleted',
         UNCHANGED <<refresh, foldMark, searchable, ingest, overtaken, missed>>
  PROVE  IngestInv'
<1>1. IngestTyped /\ IngestTyped'
  BY DEF IngestInv, IngestTyped, Onward
<1>2. CacheSound'
  BY <1>1, StampOnward, RecordsOnward DEF IngestInv, CacheSound, IngestTyped, Cache
<1>3. ASSUME NEW i \in Ingesters
      PROVE  Heeds(ingest[i])' /\ (~overtaken' => Brought(ingest[i])')
  <2>1. PICK r : r = ingest[i]
    OBVIOUS
  <2>2. /\ r \in IngestRun /\ Heeds(r) /\ (~overtaken => Brought(r))
    BY <1>1, <2>1 DEF IngestInv, IngestTyped
  <2>3. /\ r.wants \in SUBSET Record /\ r.read \in SUBSET Record
        /\ r.stat \in Stamp /\ r.from \in Stamp
    BY <2>2 DEF IngestRun
  <2>4. Were(r.wants)' /\ Here(r.wants)' \subseteq Here(r.wants)
    BY <1>1, <2>2, <2>3, RecordsOnward DEF Heeds
  <2>5. r.pc = "commit" => Were(r.read)'
    BY <1>1, <2>2, <2>3, RecordsOnward DEF Heeds
  <2>6. r.pc \in {"read", "commit"} => Was(r.stat)' /\ Was(r.from)' /\ (r.stat.gen = disk'.gen => r.stat.gen = disk.gen)
    BY <1>1, <2>2, <2>3, StampOnward DEF Heeds
  <2>7. r.pc \in {"read", "commit"} => Here(Ingests!Records(r.from))' \subseteq Here(Ingests!Records(r.from))
    <3>1. r.pc \in {"read", "commit"} => Were(Ingests!Records(r.from))
      BY <1>1, <2>2, <2>3, StampWere DEF Heeds
    <3>2. Ingests!Records(r.from) \in SUBSET Record
      BY <2>3, RecordsOf
    <3>3. PICK R : R = Ingests!Records(r.from)
      OBVIOUS
    <3>4. r.pc \in {"read", "commit"} => Here(R)' \subseteq Here(R)
      BY <1>1, <3>1, <3>2, <3>3, RecordsOnward
    <3> QED
      BY <3>3, <3>4 DEF Here
  <2>8. Heeds(r)'
    BY <2>2, <2>4, <2>5, <2>6 DEF Heeds
  <2>9. ~overtaken => Brought(r)'
    BY <2>2, <2>4, <2>7 DEF Brought
  <2>10. ingest[i]' = r
    BY <2>1
  <2> QED
    BY <2>8, <2>9, <2>10
<1> QED
  BY <1>1, <1>2, <1>3 DEF IngestInv

(* An ingest goes on as x, and nothing else is changed.                     *)
Alters(i, x) ==
  /\ x \in IngestRun /\ ingest' = [ingest EXCEPT ![i] = x]
  /\ UNCHANGED <<disk, refresh, foldMark, searchable, deleted, overtaken>>
  /\ missed' \in BOOLEAN

LEMMA IngestGoesOn ==
  ASSUME IngestInv, NEW i \in Ingesters, NEW x, Alters(i, x), Heeds(x), ~overtaken => Brought(x),
         missed' => overtaken
  PROVE  IngestInv'
<1>1. IngestTyped'
  BY DEF IngestInv, IngestTyped, Alters
<1>2. CacheSound'
  BY DEF IngestInv, CacheSound, Was, Were, Alters
<1>3. ASSUME NEW j \in Ingesters
      PROVE  Heeds(ingest[j])' /\ (~overtaken' => Brought(ingest[j])')
  <2>1. PICK r : r = ingest'[j]
    OBVIOUS
  <2>2. r = IF j = i THEN x ELSE ingest[j]
    BY <2>1 DEF Alters, IngestInv, IngestTyped
  <2>3. Heeds(r) /\ (~overtaken => Brought(r))
    BY <2>2 DEF IngestInv
  <2>4. Heeds(r)' /\ (~overtaken' => Brought(r)')
    BY <2>3 DEF Heeds, Brought, Was, Were, Here, Alters
  <2> QED
    BY <2>1, <2>4
<1> QED
  BY <1>1, <1>2, <1>3 DEF IngestInv, Alters

(* Ingests that have nothing in hand.                                       *)
LEMMA Restarting ==
  ASSUME IngestInv, NEW i \in Ingesters, NEW x \in IngestRun, Alters(i, x),
         x.pc \in {"idle", "spawn", "resolve", "index"}, x.wants \in {{}, ingest[i].wants},
         missed' => overtaken
  PROVE  IngestInv'
<1>1. Heeds(ingest[i])
  BY DEF IngestInv
<1>2. Heeds(x) /\ Brought(x)
  BY <1>1 DEF Heeds, Brought, Were
<1> QED
  BY <1>2, IngestGoesOn

LEMMA FailedType ==
  ASSUME NEW r \in IngestRun
  PROVE  /\ Ingests!Failed(r) \in IngestRun
         /\ Ingests!Failed(r).pc \in {"idle", "index"} /\ Ingests!Failed(r).wants \in {{}, r.wants}
<1>1. PICK z : z = Ingests!Idle
  OBVIOUS
<1>2. z \in IngestRun /\ z.pc = "idle" /\ z.wants = {}
  BY <1>1, IdleType
<1>3. r.tries + 1 \in Nat /\ r.starts \in Nat /\ r.wants \in SUBSET Record
  BY DEF IngestRun
<1>4. [z EXCEPT !.pc = "index", !.starts = r.starts, !.tries = r.tries + 1, !.wants = r.wants] \in IngestRun
  BY <1>2, <1>3 DEF IngestRun, IngestSteps
<1>5. [z EXCEPT !.starts = r.starts] \in IngestRun
  BY <1>2, <1>3 DEF IngestRun
<1>6. Ingests!Failed(r) = IF r.tries + 1 < MaxAttempts
                          THEN [z EXCEPT !.pc = "index", !.starts = r.starts, !.tries = r.tries + 1, !.wants = r.wants]
                          ELSE [z EXCEPT !.starts = r.starts]
  BY <1>1 DEF Ingests!Failed
<1> QED
  BY <1>2, <1>4, <1>5, <1>6 DEF IngestRun

LEMMA WorldWrites ==
  ASSUME IngestInv, Ingests!Write \/ Ingests!Replace \/ Ingests!Purge \/ Ingests!Delete
  PROVE  IngestInv'
<1>1. /\ disk \in Stamp /\ disk.gen \in Nat /\ disk.n \in Nat
      /\ disk.gen + 1 \in Nat /\ disk.n + 1 \in Nat /\ deleted \in BOOLEAN
  BY DEF IngestInv, IngestTyped, Stamp
<1>2. CASE Ingests!Write
  <2>1. disk' = [disk EXCEPT !.n = disk.n + 1]
    BY <1>2 DEF Ingests!Write
  <2>2. Onward
    BY <1>1, <2>1 DEF Onward, Stamp
  <2> QED
    BY <1>1, <1>2, <2>2, WorldGoesOn DEF Ingests!Write, Ingests!dbs
<1>3. CASE Ingests!Replace \/ Ingests!Purge \/ Ingests!Delete
  <2>1. \E n \in {0, 1} : disk' = [gen |-> disk.gen + 1, n |-> n]
    BY <1>3 DEF Ingests!Replace, Ingests!Purge, Ingests!Delete
  <2>2. Onward
    BY <1>1, <2>1 DEF Onward, Stamp
  <2> QED
    BY <1>1, <1>3, <2>2, WorldGoesOn
    DEF Ingests!Replace, Ingests!Purge, Ingests!Delete, Ingests!dbs
<1> QED
  BY <1>2, <1>3

LEMMA Starting ==
  ASSUME IngestInv, NEW i \in Ingesters,
         Ingests!Hook(i) \/ Ingests!FindStale(i) \/ Ingests!Spawn(i) \/ Ingests!Resolve(i)
  PROVE  IngestInv'
<1>1. PICK r : r = ingest[i]
  OBVIOUS
<1>2. r \in IngestRun /\ Heeds(r)
  BY <1>1 DEF IngestInv, IngestTyped
<1>3. r.starts \in Nat /\ r.starts + 1 \in Nat
  BY <1>2 DEF IngestRun
<1>4. PICK z : z = Ingests!Idle
  OBVIOUS
<1>5. z \in IngestRun /\ z.pc = "idle" /\ z.wants = {}
  BY <1>4, IdleType
<1>6. CASE Ingests!Hook(i) \/ Ingests!Spawn(i)
  <2>1. PICK x : x = [z EXCEPT !.pc = "resolve", !.starts = r.starts + 1]
    OBVIOUS
  <2>2. x \in IngestRun /\ x.pc = "resolve" /\ x.wants = {}
    BY <1>3, <1>5, <2>1 DEF IngestRun, IngestSteps
  <2>3. Alters(i, x)
    BY <1>1, <1>4, <1>6, <2>1, <2>2
    DEF Alters, Ingests!Hook, Ingests!Spawn, Ingests!Begin, Ingests!Go, Ingests!world, Ingests!dbs,
        IngestInv, IngestTyped
  <2>4. missed' => overtaken
    BY <1>6 DEF Ingests!Hook, Ingests!Spawn, IngestInv
  <2> QED
    BY <2>2, <2>3, <2>4, Restarting
<1>7. CASE Ingests!FindStale(i)
  <2>1. PICK x : x = [r EXCEPT !.pc = "spawn"]
    OBVIOUS
  <2>2. x \in IngestRun /\ x.pc = "spawn" /\ x.wants = r.wants
    BY <1>2, <2>1 DEF IngestRun, IngestSteps
  <2>3. Alters(i, x)
    BY <1>1, <1>7, <2>1, <2>2
    DEF Alters, Ingests!FindStale, Ingests!Go, Ingests!world, Ingests!dbs, IngestInv, IngestTyped
  <2>4. missed' => overtaken
    BY <1>7 DEF Ingests!FindStale, IngestInv
  <2> QED
    BY <1>1, <2>2, <2>3, <2>4, Restarting
<1>8. CASE Ingests!Resolve(i)
  <2>1. PICK x : x = IF disk.n = 0 THEN [z EXCEPT !.starts = r.starts]
                     ELSE [r EXCEPT !.pc = "index", !.wants = Ingests!Records(disk)]
    OBVIOUS
  <2>2. Ingests!Records(disk) \in SUBSET Record
    BY RecordsOf DEF IngestInv, IngestTyped
  <2>3. /\ x \in IngestRun /\ x.pc \in {"idle", "index"}
        /\ x.wants \in {{}, Ingests!Records(disk)}
    BY <1>2, <1>3, <1>5, <2>1, <2>2 DEF IngestRun, IngestSteps
  <2>4. Alters(i, x)
    BY <1>1, <1>4, <1>8, <2>1, <2>3
    DEF Alters, Ingests!Resolve, Ingests!Go, Ingests!world, Ingests!dbs, IngestInv, IngestTyped
  <2>5. Heeds(x) /\ Brought(x)
    BY <2>3 DEF Heeds, Brought, Were
  <2>6. missed' => overtaken
    BY <1>8 DEF Ingests!Resolve, IngestInv
  <2> QED
    BY <2>3, <2>4, <2>5, <2>6, IngestGoesOn
<1> QED
  BY <1>6, <1>7, <1>8

(* An attempt that failed brings nothing.                                   *)
LEMMA Failing ==
  ASSUME IngestInv, NEW i \in Ingesters, Ingests!Go(i, Ingests!Failed(ingest[i])),
         UNCHANGED <<disk, refresh, foldMark, searchable, deleted, overtaken>>,
         missed' \in BOOLEAN, missed' => overtaken
  PROVE  IngestInv'
<1>1. PICK r : r = ingest[i]
  OBVIOUS
<1>2. r \in IngestRun
  BY <1>1 DEF IngestInv, IngestTyped
<1>3. PICK x : x = Ingests!Failed(r)
  OBVIOUS
<1>4. x \in IngestRun /\ x.pc \in {"idle", "index"} /\ x.wants \in {{}, r.wants}
  BY <1>2, <1>3, FailedType
<1>5. Alters(i, x)
  BY <1>1, <1>3, <1>4 DEF Alters, Ingests!Go
<1> QED
  BY <1>1, <1>4, <1>5, Restarting

LEMMA StatStep ==
  ASSUME IngestInv, NEW i \in Ingesters, Ingests!Stat(i)
  PROVE  IngestInv'
<1>1. PICK r : r = ingest[i]
  OBVIOUS
<1>2. /\ r \in IngestRun /\ Heeds(r) /\ Were(r.wants) /\ r.wants \in SUBSET Record
      /\ disk \in Stamp /\ refresh.at \in Stamp /\ refresh.recs \in SUBSET Record /\ Was(refresh.at)
      /\ disk.gen \in Nat /\ disk.n \in Nat
  BY <1>1 DEF IngestInv, IngestTyped, IngestRun, Heeds, CacheSound, Cache, Stamp
<1>3. Were(r.wants)
  BY <1>2
<1>4. missed' \in BOOLEAN /\ (missed' => overtaken)
  BY DEF Ingests!Stat, IngestInv, IngestTyped
<1>5. CASE disk.n = 0 \/ deleted \/ refresh.at = disk
  <2>1. PICK x : x = [r EXCEPT !.pc = "verify"]
    OBVIOUS
  <2>2. x \in IngestRun /\ x.pc = "verify" /\ x.wants = r.wants
    BY <1>2, <2>1 DEF IngestRun, IngestSteps
  <2>3. Alters(i, x)
    BY <1>1, <1>4, <1>5, <2>1, <2>2 DEF Alters, Ingests!Stat, Ingests!Go, Ingests!world, Ingests!dbs
  <2>4. ~deleted => Here(r.wants) \subseteq refresh.recs
    <3>1. CASE disk.n = 0
      BY <1>2, <3>1, NothingOf DEF Here
    <3>2. CASE refresh.at = disk
      BY <3>2 DEF Here, IngestInv, CacheSound
    <3> QED
      BY <1>5, <3>1, <3>2
  <2>5. Heeds(x) /\ Brought(x)
    BY <1>2, <2>2, <2>4 DEF Heeds, Brought
  <2> QED
    BY <1>4, <2>3, <2>5, IngestGoesOn
<1>6. CASE ~(disk.n = 0 \/ deleted \/ refresh.at = disk)
  <2>1. PICK x : x = [r EXCEPT !.pc = "read", !.stat = disk, !.from = refresh.at,
                               !.full = ~Ingests!Grew(disk)]
    OBVIOUS
  <2>2. /\ x \in IngestRun /\ x.pc = "read" /\ x.wants = r.wants /\ x.stat = disk
        /\ x.from = refresh.at /\ x.full = ~Ingests!Grew(disk)
    <3>1. Ingests!Grew(disk) \in BOOLEAN
      BY DEF Ingests!Grew
    <3> QED
      BY <1>2, <2>1, <3>1 DEF IngestRun, IngestSteps
  <2>3. Alters(i, x)
    BY <1>1, <1>4, <1>6, <2>1, <2>2 DEF Alters, Ingests!Stat, Ingests!Go, Ingests!world, Ingests!dbs
  <2>4. Was(disk) /\ (~x.full => x.from.gen = disk.gen)
    <3>1. Was(disk)
      BY <1>2 DEF Was
    <3>2. ~x.full => Ingests!Grew(disk)
      BY <2>2
    <3>3. Ingests!Grew(disk) => refresh.at.gen = disk.gen
      BY DEF Ingests!Grew
    <3> QED
      BY <2>2, <3>1, <3>2, <3>3
  <2>5. ~x.full => Ingests!Records(x.from) \subseteq refresh.recs
    BY <2>2, <2>4 DEF IngestInv, CacheSound
  <2>6. Heeds(x) /\ Brought(x)
    BY <1>2, <2>2, <2>4, <2>5 DEF Heeds, Brought, Here
  <2> QED
    BY <1>4, <2>3, <2>6, IngestGoesOn
<1> QED
  BY <1>5, <1>6

LEMMA ReadStep ==
  ASSUME IngestInv, NEW i \in Ingesters, Ingests!Read(i)
  PROVE  IngestInv'
<1>1. PICK r : r = ingest[i]
  OBVIOUS
<1>2. /\ r \in IngestRun /\ r.pc = "read" /\ Heeds(r) /\ (~overtaken => Brought(r))
      /\ r.wants \in SUBSET Record /\ r.stat \in Stamp /\ r.from \in Stamp /\ r.full \in BOOLEAN
      /\ disk \in Stamp /\ IngestTyped
  BY <1>1 DEF IngestInv, IngestTyped, IngestRun, Ingests!Read, Ingests!At
<1>3. /\ UNCHANGED <<disk, refresh, foldMark, searchable, deleted, overtaken>>
      /\ missed' \in BOOLEAN /\ (missed' => overtaken)
  BY DEF Ingests!Read, IngestInv, IngestTyped, Ingests!world, Ingests!dbs
<1>4. CASE disk.n = 0
  BY <1>3, <1>4, Failing DEF Ingests!Read
<1>5. CASE disk.n # 0
  <2>1. PICK tail : tail = (~r.full /\ disk.gen = r.from.gen)
    OBVIOUS
  <2>2. PICK R : R = IF tail THEN Ingests!Records(r.stat) \ Ingests!Records(r.from)
                     ELSE Ingests!Records(disk)
    OBVIOUS
  <2>3. R \in SUBSET Record
    BY <1>2, <2>2, RecordsOf
  <2>4. PICK x : x = [r EXCEPT !.pc = "commit", !.full = ~tail, !.read = R]
    OBVIOUS
  <2>5. /\ x \in IngestRun /\ x.pc = "commit" /\ x.wants = r.wants /\ x.stat = r.stat
        /\ x.from = r.from /\ x.full = ~tail /\ x.read = R
    BY <1>2, <2>1, <2>3, <2>4 DEF IngestRun, IngestSteps
  <2>6. ingest' = [ingest EXCEPT ![i] = x]
    BY <1>1, <1>5, <2>1, <2>2, <2>4 DEF Ingests!Read, Ingests!Go
  <2>7. Alters(i, x)
    BY <1>3, <2>5, <2>6 DEF Alters
  <2>8. Was(r.stat) /\ Was(r.from) /\ Here(r.wants) \subseteq Ingests!Records(r.stat)
        /\ (~r.full => r.from.gen = r.stat.gen)
    BY <1>2 DEF Heeds
  <2>9. Were(R)
    <3>1. CASE tail
      BY <1>2, <2>2, <2>8, <3>1, StampWere DEF Were
    <3>2. CASE ~tail
      BY <2>2, <3>2 DEF Were
    <3> QED
      BY <3>1, <3>2
  <2>10. ~tail => Here(r.wants) \subseteq R
    BY <2>2 DEF Here
  <2>11. ~tail /\ r.stat.gen = disk.gen => Ingests!Records(r.stat) \subseteq R
    <3>1. r.stat.gen = disk.gen => r.stat.n <= disk.n
      BY <1>2, <2>8 DEF Was, Stamp
    <3> QED
      BY <1>2, <2>2, <3>1, HeadOf
  <2>12. Heeds(x)
    BY <1>2, <2>1, <2>2, <2>5, <2>8, <2>9, <2>10, <2>11 DEF Heeds
  <2>13. ~overtaken => Brought(x)
    BY <1>2, <2>1, <2>5 DEF Brought
  <2> QED
    BY <1>3, <2>7, <2>12, <2>13, IngestGoesOn
<1> QED
  BY <1>4, <1>5

(* A commit replaces the cache by what was read, or adds to it, or leaves    *)
(* it as it is; unless it says that something was left out, all that the     *)
(* transcript has stays.                                                    *)
LEMMA CommitStep ==
  ASSUME IngestInv, NEW i \in Ingesters, Ingests!Commit(i)
  PROVE  IngestInv'
<1>1. PICK r : r = ingest[i]
  OBVIOUS
<1>2. /\ r \in IngestRun /\ r.pc = "commit" /\ Heeds(r) /\ (~overtaken => Brought(r))
      /\ r.wants \in SUBSET Record /\ r.stat \in Stamp /\ r.from \in Stamp /\ r.full \in BOOLEAN
      /\ r.read \in SUBSET Record /\ disk \in Stamp /\ IngestTyped
      /\ refresh.recs \in SUBSET Record /\ refresh.at \in Stamp /\ refresh \in Cache
  BY <1>1 DEF IngestInv, IngestTyped, IngestRun, Ingests!Commit, Ingests!At, Cache
<1>3. UNCHANGED <<disk, foldMark, searchable, deleted, missed>>
  BY DEF Ingests!Commit, Ingests!world
<1>4. PICK x : x = [r EXCEPT !.pc = "verify"]
  OBVIOUS
<1>5. x \in IngestRun /\ x.pc = "verify" /\ x.wants = r.wants
  BY <1>2, <1>4 DEF IngestRun, IngestSteps
<1>6. ingest' = [ingest EXCEPT ![i] = x]
  BY <1>1, <1>4 DEF Ingests!Commit, Ingests!Go
<1>7. PICK lost \in BOOLEAN : overtaken' = (overtaken \/ lost) /\ lost = Ingests!Lost(r)
  <2>1. Ingests!Lost(r) \in BOOLEAN
    BY DEF Ingests!Lost
  <2> QED
    BY <1>1, <2>1 DEF Ingests!Commit
<1>8. overtaken' \in BOOLEAN /\ (overtaken => overtaken') /\ (~overtaken' => ~overtaken /\ ~Ingests!Lost(r))
  BY <1>2, <1>7 DEF IngestTyped
<1>9. refresh' = IF r.full THEN [recs |-> r.read, at |-> r.stat]
                 ELSE IF refresh.at = r.from THEN [recs |-> refresh.recs \cup r.read, at |-> r.stat]
                 ELSE refresh
  BY <1>1 DEF Ingests!Commit
<1>10. /\ Were(r.wants) /\ Was(r.stat) /\ Was(r.from) /\ Here(r.wants) \subseteq Ingests!Records(r.stat)
       /\ (~r.full => r.from.gen = r.stat.gen)
       /\ Were(r.read)
       /\ r.full => Here(r.wants) \subseteq r.read
       /\ r.full /\ r.stat.gen = disk.gen => Ingests!Records(r.stat) \subseteq r.read
       /\ ~r.full => r.read = Ingests!Records(r.stat) \ Ingests!Records(r.from)
  BY <1>2 DEF Heeds
<1>11. CacheSound
  BY DEF IngestInv
<1>12. refresh' \in Cache
  BY <1>2, <1>9 DEF Cache
<1>13. IngestTyped'
  BY <1>2, <1>3, <1>5, <1>6, <1>8, <1>12 DEF IngestTyped
<1>14. ~r.full /\ refresh.at = r.from /\ r.stat.gen = disk.gen =>
         Ingests!Records(r.stat) \subseteq refresh.recs \cup r.read
  BY <1>10, <1>11 DEF CacheSound
<1>15. /\ \A y \in refresh'.recs : y \in refresh.recs \/ y \in r.read
       /\ refresh'.at = r.stat \/ refresh' = refresh
       /\ refresh' = refresh \/ (r.stat.gen = disk.gen => Ingests!Records(r.stat) \subseteq refresh'.recs)
  BY <1>9, <1>10, <1>14
<1>16. CacheSound'
  <2>1. Were(refresh.recs) /\ Was(refresh.at)
    BY <1>11 DEF CacheSound
  <2>2. Were(refresh.recs)'
    <3>1. \A y \in refresh'.recs : y[1] < disk.gen \/ y \in Ingests!Records(disk)
      BY <1>10, <1>15, <2>1 DEF Were
    <3> QED
      BY <1>3, <3>1 DEF Were
  <2>3. Was(refresh.at)'
    BY <1>3, <1>10, <1>15, <2>1 DEF Was
  <2> QED
    BY <1>3, <1>11, <1>15, <2>2, <2>3 DEF CacheSound
<1>17. ~overtaken' => \A y \in Ingests!Records(disk) : y \in refresh.recs => y \in refresh'.recs
  BY <1>8, <1>9 DEF Ingests!Lost
<1>18. ~overtaken' => Here(r.wants) \subseteq refresh'.recs
  <2>1. CASE r.full
    BY <1>9, <1>10, <2>1
  <2>2. CASE ~r.full /\ ~overtaken'
    <3>1. Here(Ingests!Records(r.from)) \subseteq refresh.recs
      BY <1>2, <1>8, <2>2 DEF Brought
    <3>2. \A y \in Here(r.wants) : y \in Ingests!Records(disk) /\ (y \in r.read \/ y \in Here(Ingests!Records(r.from)))
      BY <1>10, <2>2 DEF Here
    <3>3. refresh.at # r.from => \A y \in Ingests!Records(disk) : y \in r.read => y \in refresh.recs
      BY <1>8, <2>2 DEF Ingests!Lost
    <3>4. refresh.at = r.from => \A y : y \in r.read => y \in refresh'.recs
      BY <1>9, <2>2
    <3> QED
      BY <1>9, <1>17, <2>2, <3>1, <3>2, <3>3, <3>4
  <2> QED
    BY <1>2, <2>1, <2>2
<1>19. ASSUME NEW j \in Ingesters
       PROVE  Heeds(ingest[j])' /\ (~overtaken' => Brought(ingest[j])')
  <2>1. PICK q : q = ingest'[j]
    OBVIOUS
  <2>2. CASE j = i
    <3>1. q = x
      BY <1>2, <1>6, <2>1, <2>2 DEF IngestTyped
    <3>2. Heeds(q)'
      BY <1>3, <1>5, <1>10, <3>1 DEF Heeds, Were
    <3>3. ~overtaken' => Brought(q)'
      BY <1>3, <1>5, <1>18, <3>1 DEF Brought, Here
    <3> QED
      BY <2>1, <3>2, <3>3
  <2>3. CASE j # i
    <3>1. q = ingest[j]
      BY <1>2, <1>6, <2>1, <2>3 DEF IngestTyped
    <3>2. Heeds(q) /\ (~overtaken => Brought(q))
      BY <3>1 DEF IngestInv
    <3>3. Heeds(q)'
      BY <1>3, <3>2 DEF Heeds, Were, Was, Here
    <3>4. ASSUME ~overtaken' PROVE Brought(q)'
      <4>1. Brought(q)
        BY <1>8, <3>2, <3>4
      <4> QED
        BY <1>3, <1>17, <3>4, <4>1 DEF Brought, Here
    <3> QED
      BY <2>1, <3>3, <3>4
  <2> QED
    BY <2>2, <2>3
<1> QED
  BY <1>3, <1>8, <1>13, <1>16, <1>19 DEF IngestInv

LEMMA LockedStep ==
  ASSUME IngestInv, NEW i \in Ingesters, Ingests!Locked(i) \/ Ingests!Unfolded(i)
  PROVE  IngestInv'
<1>1. /\ Ingests!Go(i, Ingests!Failed(ingest[i]))
      /\ UNCHANGED <<disk, refresh, foldMark, searchable, deleted, overtaken, missed>>
  BY DEF Ingests!Locked, Ingests!Unfolded, Ingests!world, Ingests!dbs
<1> QED
  BY <1>1, Failing DEF IngestInv, IngestTyped

LEMMA VerifyFreshStep ==
  ASSUME IngestInv, NEW i \in Ingesters, Ingests!VerifyFresh(i)
  PROVE  IngestInv'
<1>1. PICK r : r = ingest[i]
  OBVIOUS
<1>2. r \in IngestRun /\ r.pc = "verify" /\ Heeds(r) /\ (~overtaken => Brought(r))
      /\ refresh.recs \in SUBSET Record
  BY <1>1 DEF IngestInv, IngestTyped, Ingests!VerifyFresh, Ingests!At, Cache
<1>3. /\ UNCHANGED <<disk, refresh, foldMark, searchable, deleted, overtaken>>
      /\ missed' \in BOOLEAN /\ (missed' => overtaken)
  BY DEF Ingests!VerifyFresh, IngestInv, IngestTyped, Ingests!world, Ingests!dbs
<1>4. CASE Ingests!Go(i, Ingests!Failed(ingest[i]))
  BY <1>3, <1>4, Failing
<1>5. CASE Ingests!Go(i, [r EXCEPT !.pc = "fold", !.n = Ingests!Cardinality(refresh.recs)])
  <2>1. PICK x : x = [r EXCEPT !.pc = "fold", !.n = Ingests!Cardinality(refresh.recs)]
    OBVIOUS
  <2>2. Ingests!Cardinality(refresh.recs) \in Count
    BY <1>2 DEF Count
  <2>3. x \in IngestRun /\ x.pc = "fold" /\ x.wants = r.wants
    BY <1>2, <2>1, <2>2 DEF IngestRun, IngestSteps
  <2>4. Alters(i, x)
    BY <1>3, <1>5, <2>1, <2>3 DEF Alters, Ingests!Go
  <2>5. Heeds(x) /\ (~overtaken => Brought(x))
    BY <1>2, <2>3 DEF Heeds, Brought
  <2> QED
    BY <1>3, <2>4, <2>5, IngestGoesOn
<1> QED
  BY <1>1, <1>4, <1>5 DEF Ingests!VerifyFresh

LEMMA FoldStep ==
  ASSUME IngestInv, NEW i \in Ingesters, Ingests!SyncConsolidatedFrom(i)
  PROVE  IngestInv'
<1>1. PICK r : r = ingest[i]
  OBVIOUS
<1>2. /\ r \in IngestRun /\ r.pc = "fold" /\ Heeds(r) /\ (~overtaken => Brought(r)) /\ IngestTyped
      /\ refresh.recs \in SUBSET Record
  BY <1>1 DEF IngestInv, IngestTyped, Ingests!SyncConsolidatedFrom, Ingests!At, Cache
<1>3. UNCHANGED <<disk, refresh, deleted, overtaken, missed>>
  BY DEF Ingests!SyncConsolidatedFrom, Ingests!world
<1>4. PICK x : x = [r EXCEPT !.pc = "count"]
  OBVIOUS
<1>5. x \in IngestRun /\ x.pc = "count" /\ x.wants = r.wants
  BY <1>2, <1>4 DEF IngestRun, IngestSteps
<1>6. ingest' = [ingest EXCEPT ![i] = x]
  BY <1>1, <1>4 DEF Ingests!SyncConsolidatedFrom, Ingests!Go
<1>7. foldMark' = refresh /\ (foldMark = refresh => foldMark.recs = refresh.recs)
  BY DEF Ingests!SyncConsolidatedFrom
<1>8. searchable' \in {searchable, {}, searchable \cup refresh.recs}
  BY DEF Ingests!SyncConsolidatedFrom
<1>9. ~deleted => searchable \subseteq searchable' /\ refresh.recs \subseteq searchable'
  BY <1>7 DEF Ingests!SyncConsolidatedFrom, IngestInv
<1>10. IngestTyped'
  BY <1>2, <1>3, <1>5, <1>6, <1>7, <1>8 DEF IngestTyped
<1>11. CacheSound' /\ (~deleted' => foldMark'.recs \subseteq searchable') /\ (missed' => overtaken')
  BY <1>3, <1>7, <1>9 DEF IngestInv, CacheSound, Was, Were
<1>12. ASSUME NEW j \in Ingesters
       PROVE  Heeds(ingest[j])' /\ (~overtaken' => Brought(ingest[j])')
  <2>1. PICK q : q = ingest'[j]
    OBVIOUS
  <2>2. CASE j = i
    <3>1. q = x
      BY <1>2, <1>6, <2>1, <2>2 DEF IngestTyped
    <3>2. Heeds(q)'
      BY <1>2, <1>3, <1>5, <3>1 DEF Heeds, Were
    <3>3. ~overtaken' => Brought(q)'
      BY <1>2, <1>3, <1>5, <1>9, <3>1 DEF Brought, Here
    <3> QED
      BY <2>1, <3>2, <3>3
  <2>3. CASE j # i
    <3>1. q = ingest[j]
      BY <1>2, <1>6, <2>1, <2>3 DEF IngestTyped
    <3>2. Heeds(q) /\ (~overtaken => Brought(q))
      BY <3>1 DEF IngestInv
    <3>3. Heeds(q)'
      BY <1>3, <3>2 DEF Heeds, Were, Was, Here
    <3>4. ~overtaken' => Brought(q)'
      BY <1>3, <1>9, <3>2 DEF Brought, Here
    <3> QED
      BY <2>1, <3>3, <3>4
  <2> QED
    BY <2>2, <2>3
<1> QED
  BY <1>10, <1>11, <1>12 DEF IngestInv

(* What is counted in the store is all that the ingest was to bring.        *)
LEMMA CountStep ==
  ASSUME IngestInv, NEW i \in Ingesters, Ingests!VerifyCount(i)
  PROVE  IngestInv'
<1>1. PICK r : r = ingest[i]
  OBVIOUS
<1>2. r \in IngestRun /\ r.pc = "count" /\ (~overtaken => Brought(r))
  BY <1>1 DEF IngestInv, IngestTyped, Ingests!VerifyCount, Ingests!At
<1>3. UNCHANGED <<disk, refresh, foldMark, searchable, deleted, overtaken>>
  BY DEF Ingests!VerifyCount, Ingests!world, Ingests!dbs
<1>4. missed' \in BOOLEAN /\ (missed' => overtaken)
  <2>1. ~overtaken /\ ~deleted => (r.wants \cap Ingests!Records(disk)) \ searchable = {}
    BY <1>2 DEF Brought, Here
  <2>2. PICK b \in BOOLEAN : missed' = (missed \/ b)
                             /\ (b => ~deleted /\ (r.wants \cap Ingests!Records(disk)) \ searchable # {})
    BY <1>1 DEF Ingests!VerifyCount
  <2>3. missed \in BOOLEAN /\ (missed => overtaken)
    BY DEF IngestInv, IngestTyped
  <2> QED
    BY <2>1, <2>2, <2>3
<1>5. CASE Ingests!Go(i, Ingests!Failed(ingest[i]))
  BY <1>3, <1>4, <1>5, Failing
<1>6. CASE Ingests!Go(i, [Ingests!Idle EXCEPT !.starts = r.starts])
  <2>1. PICK z : z = Ingests!Idle
    OBVIOUS
  <2>2. PICK x : x = [z EXCEPT !.starts = r.starts]
    OBVIOUS
  <2>3. x \in IngestRun /\ x.pc = "idle" /\ x.wants = {}
    BY <1>2, <2>1, <2>2, IdleType DEF IngestRun
  <2>4. Alters(i, x)
    BY <1>3, <1>4, <1>6, <2>1, <2>2, <2>3 DEF Alters, Ingests!Go
  <2> QED
    BY <1>4, <2>3, <2>4, Restarting
<1> QED
  BY <1>1, <1>5, <1>6 DEF Ingests!VerifyCount

LEMMA IngestContinues == IngestInv /\ [Ingests!Next]_(Ingests!vars) => IngestInv'
<1>1. ASSUME IngestInv,
             UNCHANGED <<disk, refresh, foldMark, searchable, deleted, ingest, overtaken, missed>>
      PROVE  IngestInv'
  BY <1>1 DEF IngestInv, IngestTyped, CacheSound, Heeds, Brought, Was, Were, Here
<1>2. ASSUME UNCHANGED Ingests!vars \/ Ingests!Age
      PROVE  UNCHANGED <<disk, refresh, foldMark, searchable, deleted, ingest, overtaken, missed>>
  BY <1>2 DEF Ingests!vars, Ingests!Age, Ingests!world, Ingests!dbs
<1>3. ASSUME IngestInv, Ingests!Next
      PROVE  IngestInv'
  BY <1>1, <1>2, <1>3, WorldWrites, Starting, StatStep, ReadStep, CommitStep, LockedStep,
     VerifyFreshStep, FoldStep, CountStep DEF Ingests!Next
<1> QED
  BY <1>1, <1>2, <1>3

LEMMA IngestsRun == Spec => Ingests!Spec
<1>1. Init => Ingests!Init
  BY DEF Init
<1>2. [Next]_vars => [Ingests!Next]_(Ingests!vars)
  <2>1. UNCHANGED sessions => UNCHANGED Ingests!vars
    BY DEF sessions, Ingests!vars, Ingests!world, Ingests!dbs
  <2>2. UNCHANGED vars => UNCHANGED sessions
    BY DEF vars
  <2>3. Next => Ingests!Next \/ UNCHANGED sessions
    BY DEF Next, TagsStep, TaggingStep, SubstringsStep, SetupStep, UpgradesStep, VectorsStep,
         SearchesStep, DeletesStep, IngestsStep
  <2> QED
    BY <2>1, <2>2, <2>3
<1> QED
  BY <1>1, <1>2, PTL DEF Spec, Ingests!Spec

(* An ingest that reports success has made searchable what the transcript   *)
(* held when it began and still holds, unless a commit left out what        *)
(* another one had read.                                                    *)
THEOREM IngestedIsFound == Spec => []IngestedIsSearchable
<1>1. IngestInv => IngestedIsSearchable
  BY DEF IngestInv, IngestedIsSearchable, Ingests!IngestedIsSearchable
<1> QED
  BY <1>1, IngestBegins, IngestContinues, IngestsRun, PTL DEF Ingests!Spec

----------------------------------------------------------------------------
(* The types of the machine.                                                *)

Box == (1 .. MaxGens + 1) \X (1 .. MaxLength)

(* What an ingest has in hand is of a transcript within its bounds.         *)
Held(r) ==
  /\ r.pc \in {"read", "commit"} => Ingests!Records(r.stat) \subseteq Box
  /\ r.pc = "commit" => r.read \subseteq Box

Bounded ==
  /\ busy \in 0 .. MaxBusy
  /\ disk.gen \in 1 .. MaxGens + 1 /\ disk.n \in 0 .. MaxLength
  /\ ~deleted => disk.gen <= MaxGens
  /\ refresh.recs \subseteq Box /\ foldMark.recs \subseteq Box
  /\ \A i \in Ingesters : Held(ingest[i])

LEMMA BoxHolds ==
  ASSUME Bounded
  PROVE  Ingests!Records(disk) \subseteq Box
<1>1. disk.n \in 0 .. MaxLength /\ MaxLength \in Nat /\ MaxGens \in Nat
  BY BoundsAssumption DEF Bounded
<1>2. \A k \in 1 .. disk.n : k \in 1 .. MaxLength
  BY <1>1
<1> QED
  BY <1>2 DEF Bounded, Box, Ingests!Records

LEMMA BoundedBegins == Ingests!Init => Bounded
<1> SUFFICES ASSUME Ingests!Init PROVE Bounded
  OBVIOUS
<1>1. disk.gen = 1 /\ disk.n \in 0 .. 1
  BY DEF Ingests!Init
<1>2. Ingests!Empty.recs = {} /\ Ingests!Idle.pc = "idle"
  BY IdleType DEF Ingests!Empty
<1>3. \A i \in Ingesters : Held(ingest[i])
  BY <1>2 DEF Ingests!Init, Held
<1>4. busy = 0 /\ refresh.recs = {} /\ foldMark.recs = {}
  BY <1>2 DEF Ingests!Init
<1>5. disk.gen \in 1 .. MaxGens + 1 /\ disk.n \in 0 .. MaxLength /\ disk.gen <= MaxGens
  BY <1>1, BoundsAssumption
<1>6. busy \in 0 .. MaxBusy
  BY <1>4, BoundsAssumption
<1> QED
  BY <1>3, <1>4, <1>5, <1>6 DEF Bounded

(* An ingest goes on beside a world that stays.                             *)
LEMMA BoundedGoesOn ==
  ASSUME IngestTyped, Bounded, NEW i \in Ingesters, NEW x, ingest' = [ingest EXCEPT ![i] = x],
         Held(x), UNCHANGED <<disk, deleted, refresh, foldMark>>, busy' \in 0 .. MaxBusy
  PROVE  Bounded'
<1>1. ASSUME NEW j \in Ingesters PROVE Held(ingest[j])'
  <2>1. CASE j = i
    <3>1. ingest'[j] = x
      BY <2>1 DEF IngestTyped
    <3> QED
      BY <3>1 DEF Held
  <2>2. CASE j # i
    <3>1. ingest'[j] = ingest[j]
      BY <2>2 DEF IngestTyped
    <3>2. Held(ingest[j])
      BY DEF Bounded
    <3> QED
      BY <3>1, <3>2 DEF Held
  <2> QED
    BY <2>1, <2>2
<1> QED
  BY <1>1 DEF Bounded, Box

LEMMA FailedHeld ==
  ASSUME NEW r \in IngestRun
  PROVE  Held(Ingests!Failed(r))
BY FailedType DEF Held

LEMMA BusyBound ==
  ASSUME Bounded, Ingests!FoundBusy \/ busy' = busy
  PROVE  busy' \in 0 .. MaxBusy
BY BoundsAssumption DEF Bounded, Ingests!FoundBusy

LEMMA BoundedWorld ==
  ASSUME IngestTyped, Bounded,
         Ingests!Write \/ Ingests!Replace \/ Ingests!Purge \/ Ingests!Delete \/ Ingests!Age
  PROVE  Bounded'
<1>1. /\ disk \in Stamp /\ disk.gen \in Nat /\ disk.n \in Nat /\ deleted \in BOOLEAN
      /\ MaxGens \in Nat /\ MaxLength \in Nat \ {0}
  BY BoundsAssumption DEF IngestTyped, Stamp
<1>2. UNCHANGED <<refresh, foldMark, ingest, busy>>
  BY DEF Ingests!Write, Ingests!Replace, Ingests!Purge, Ingests!Delete, Ingests!Age, Ingests!dbs
<1>3. /\ disk'.gen \in 1 .. MaxGens + 1 /\ disk'.n \in 0 .. MaxLength
      /\ ~deleted' => disk'.gen <= MaxGens
  <2>1. CASE Ingests!Write
    <3>1. disk'.gen = disk.gen /\ disk'.n = disk.n + 1 /\ disk.n < MaxLength /\ deleted' = deleted
      BY <1>1, <2>1 DEF Ingests!Write, Stamp
    <3> QED
      BY <1>1, <3>1 DEF Bounded
  <2>2. CASE Ingests!Replace \/ Ingests!Purge
    <3>1. disk'.gen = disk.gen + 1 /\ disk'.n \in {0, 1} /\ disk.gen < MaxGens
      BY <2>2 DEF Ingests!Replace, Ingests!Purge
    <3> QED
      BY <1>1, <3>1
  <2>3. CASE Ingests!Delete
    <3>1. disk'.gen = disk.gen + 1 /\ disk'.n = 0 /\ deleted' /\ ~deleted
      BY <2>3 DEF Ingests!Delete
    <3> QED
      BY <1>1, <3>1 DEF Bounded
  <2>4. CASE Ingests!Age
    BY <2>4 DEF Ingests!Age, Ingests!world, Bounded
  <2> QED
    BY <2>1, <2>2, <2>3, <2>4
<1> QED
  BY <1>2, <1>3 DEF Bounded, Held, Box

LEMMA BoundedRuns ==
  ASSUME IngestTyped, Bounded, NEW i \in Ingesters,
         \/ Ingests!Hook(i) \/ Ingests!FindStale(i) \/ Ingests!Spawn(i) \/ Ingests!Resolve(i)
         \/ Ingests!Stat(i) \/ Ingests!Read(i) \/ Ingests!Commit(i) \/ Ingests!Locked(i)
         \/ Ingests!VerifyFresh(i) \/ Ingests!SyncConsolidatedFrom(i) \/ Ingests!Unfolded(i)
         \/ Ingests!VerifyCount(i)
  PROVE  Bounded'
<1> USE DEF Ingests!Go, Ingests!world, Ingests!dbs
<1>1. PICK r : r = ingest[i]
  OBVIOUS
<1>2. r \in IngestRun /\ Held(r)
  BY <1>1 DEF IngestTyped, Bounded
<1>3. PICK z : z = Ingests!Idle
  OBVIOUS
<1>4. z \in IngestRun /\ z.pc = "idle"
  BY <1>3, IdleType
<1>5. Held(Ingests!Failed(r)) /\ Ingests!Records(disk) \subseteq Box
  BY <1>2, FailedHeld, BoxHolds
<1>6. CASE Ingests!Hook(i) \/ Ingests!Spawn(i)
  <2>1. PICK x : x = [z EXCEPT !.pc = "resolve", !.starts = r.starts + 1]
    OBVIOUS
  <2>2. x.pc = "resolve"
    BY <1>4, <2>1 DEF IngestRun
  <2>3. ingest' = [ingest EXCEPT ![i] = x]
    BY <1>1, <1>3, <1>6, <2>1 DEF Ingests!Hook, Ingests!Spawn, Ingests!Begin
  <2>4. UNCHANGED <<disk, deleted, refresh, foldMark, busy>>
    BY <1>6 DEF Ingests!Hook, Ingests!Spawn
  <2>5. Held(x) /\ busy' \in 0 .. MaxBusy
    BY <2>2, <2>4, BusyBound DEF Held
  <2> QED
    BY <2>3, <2>4, <2>5, BoundedGoesOn
<1>7. CASE Ingests!FindStale(i)
  <2>1. PICK x : x = [r EXCEPT !.pc = "spawn"]
    OBVIOUS
  <2>2. x.pc = "spawn" /\ ingest' = [ingest EXCEPT ![i] = x]
    BY <1>1, <1>2, <1>7, <2>1 DEF Ingests!FindStale, IngestRun
  <2>3. UNCHANGED <<disk, deleted, refresh, foldMark, busy>>
    BY <1>7 DEF Ingests!FindStale
  <2>4. Held(x) /\ busy' \in 0 .. MaxBusy
    BY <2>2, <2>3, BusyBound DEF Held
  <2> QED
    BY <2>2, <2>3, <2>4, BoundedGoesOn
<1>8. CASE Ingests!Resolve(i)
  <2>1. PICK x : x = IF disk.n = 0 THEN [z EXCEPT !.starts = r.starts]
                     ELSE [r EXCEPT !.pc = "index", !.wants = Ingests!Records(disk)]
    OBVIOUS
  <2>2. x.pc \in {"idle", "index"}
    BY <1>2, <1>4, <2>1 DEF IngestRun
  <2>3. ingest' = [ingest EXCEPT ![i] = x]
    BY <1>1, <1>3, <1>8, <2>1 DEF Ingests!Resolve
  <2>4. UNCHANGED <<disk, deleted, refresh, foldMark, busy>>
    BY <1>8 DEF Ingests!Resolve
  <2>5. Held(x) /\ busy' \in 0 .. MaxBusy
    BY <2>2, <2>4, BusyBound DEF Held
  <2> QED
    BY <2>3, <2>4, <2>5, BoundedGoesOn
<1>9. CASE Ingests!Stat(i)
  <2>1. PICK b \in BOOLEAN : b = Ingests!Grew(disk)
    BY DEF Ingests!Grew
  <2>2. PICK x : x = IF disk.n = 0 \/ deleted \/ refresh.at = disk THEN [r EXCEPT !.pc = "verify"]
                     ELSE [r EXCEPT !.pc = "read", !.stat = disk, !.from = refresh.at, !.full = ~b]
    OBVIOUS
  <2>3. x.pc = "verify" \/ (x.pc = "read" /\ x.stat = disk)
    BY <1>2, <2>2 DEF IngestRun
  <2>4. ingest' = [ingest EXCEPT ![i] = x]
    BY <1>1, <1>9, <2>1, <2>2 DEF Ingests!Stat
  <2>5. UNCHANGED <<disk, deleted, refresh, foldMark, busy>>
    BY <1>9 DEF Ingests!Stat
  <2>6. Held(x) /\ busy' \in 0 .. MaxBusy
    BY <1>5, <2>3, <2>5, BusyBound DEF Held
  <2> QED
    BY <2>4, <2>5, <2>6, BoundedGoesOn
<1>10. CASE Ingests!Read(i)
  <2>1. PICK f : f = Ingests!Failed(r)
    OBVIOUS
  <2>2. PICK tail \in BOOLEAN : tail = (~r.full /\ disk.gen = r.from.gen)
    OBVIOUS
  <2>3. PICK R : R = IF tail THEN Ingests!Records(r.stat) \ Ingests!Records(r.from)
                     ELSE Ingests!Records(disk)
    OBVIOUS
  <2>4. PICK y : y = [r EXCEPT !.pc = "commit", !.full = ~tail, !.read = R]
    OBVIOUS
  <2>5. r.pc = "read"
    BY <1>1, <1>10 DEF Ingests!Read, Ingests!At
  <2>6. y.pc = "commit" /\ y.read = R /\ y.stat = r.stat
    BY <1>2, <2>4 DEF IngestRun
  <2>7. Held(y)
    BY <1>2, <1>5, <2>3, <2>5, <2>6 DEF Held
  <2>8. PICK x : x = IF disk.n = 0 THEN f ELSE y
    OBVIOUS
  <2>9. Held(x)
    BY <1>5, <2>1, <2>7, <2>8
  <2>10. ingest' = [ingest EXCEPT ![i] = x]
    BY <1>1, <1>10, <2>1, <2>2, <2>3, <2>4, <2>8 DEF Ingests!Read
  <2>11. UNCHANGED <<disk, deleted, refresh, foldMark, busy>>
    BY <1>10 DEF Ingests!Read
  <2>12. busy' \in 0 .. MaxBusy
    BY <2>11, BusyBound
  <2> QED
    BY <2>9, <2>10, <2>11, <2>12, BoundedGoesOn
<1>11. CASE Ingests!Commit(i)
  <2>1. PICK x : x = [r EXCEPT !.pc = "verify"]
    OBVIOUS
  <2>2. x.pc = "verify" /\ ingest' = [ingest EXCEPT ![i] = x] /\ r.pc = "commit"
    BY <1>1, <1>2, <1>11, <2>1 DEF Ingests!Commit, Ingests!At, IngestRun
  <2>3. UNCHANGED <<disk, deleted, foldMark, busy>>
    BY <1>11 DEF Ingests!Commit
  <2>4. refresh'.recs \subseteq refresh.recs \cup r.read
    BY <1>1, <1>11 DEF Ingests!Commit
  <2>5. refresh'.recs \subseteq Box
    BY <1>2, <2>2, <2>4 DEF Held, Bounded
  <2>6. ASSUME NEW j \in Ingesters PROVE Held(ingest[j])'
    <3>1. ingest'[j] = x \/ ingest'[j] = ingest[j]
      BY <2>2 DEF IngestTyped
    <3>2. Held(ingest[j])
      BY DEF Bounded
    <3> QED
      BY <2>2, <3>1, <3>2 DEF Held
  <2> QED
    BY <2>3, <2>5, <2>6 DEF Bounded, Box
<1>12. CASE Ingests!Locked(i) \/ Ingests!Unfolded(i)
  <2>1. PICK x : x = Ingests!Failed(r)
    OBVIOUS
  <2>2. ingest' = [ingest EXCEPT ![i] = x] /\ Ingests!FoundBusy
    BY <1>1, <1>12, <2>1 DEF Ingests!Locked, Ingests!Unfolded
  <2>3. UNCHANGED <<disk, deleted, refresh, foldMark>>
    BY <1>12 DEF Ingests!Locked, Ingests!Unfolded
  <2>4. Held(x) /\ busy' \in 0 .. MaxBusy
    BY <1>5, <2>1, <2>2, BusyBound
  <2> QED
    BY <2>2, <2>3, <2>4, BoundedGoesOn
<1>13. CASE Ingests!VerifyFresh(i)
  <2>1. PICK f : f = Ingests!Failed(r)
    OBVIOUS
  <2>2. PICK n : n = Ingests!Cardinality(refresh.recs)
    OBVIOUS
  <2>3. PICK y : y = [r EXCEPT !.pc = "fold", !.n = n]
    OBVIOUS
  <2>4. y.pc = "fold"
    BY <1>2, <2>3 DEF IngestRun
  <2>5. PICK x \in {f, y} : ingest' = [ingest EXCEPT ![i] = x]
    BY <1>1, <1>13, <2>1, <2>2, <2>3 DEF Ingests!VerifyFresh
  <2>6. UNCHANGED <<disk, deleted, refresh, foldMark, busy>>
    BY <1>13 DEF Ingests!VerifyFresh
  <2>7. Held(y)
    BY <2>4 DEF Held
  <2>8. Held(x) /\ busy' \in 0 .. MaxBusy
    BY <1>5, <2>1, <2>5, <2>6, <2>7, BusyBound
  <2> QED
    BY <2>5, <2>6, <2>8, BoundedGoesOn
<1>14. CASE Ingests!SyncConsolidatedFrom(i)
  <2>1. PICK x : x = [r EXCEPT !.pc = "count"]
    OBVIOUS
  <2>2. x.pc = "count" /\ ingest' = [ingest EXCEPT ![i] = x]
    BY <1>1, <1>2, <1>14, <2>1 DEF Ingests!SyncConsolidatedFrom, IngestRun
  <2>3. UNCHANGED <<disk, deleted, refresh, busy>> /\ foldMark' = refresh
    BY <1>14 DEF Ingests!SyncConsolidatedFrom
  <2>4. ASSUME NEW j \in Ingesters PROVE Held(ingest[j])'
    <3>1. ingest'[j] = x \/ ingest'[j] = ingest[j]
      BY <2>2 DEF IngestTyped
    <3>2. Held(ingest[j])
      BY DEF Bounded
    <3> QED
      BY <2>2, <3>1, <3>2 DEF Held
  <2> QED
    BY <2>3, <2>4 DEF Bounded, Box
<1>15. CASE Ingests!VerifyCount(i)
  <2>1. PICK f : f = Ingests!Failed(r)
    OBVIOUS
  <2>2. PICK y : y = [z EXCEPT !.starts = r.starts]
    OBVIOUS
  <2>3. y.pc = "idle"
    BY <1>4, <2>2 DEF IngestRun
  <2>4. PICK x \in {f, y} : ingest' = [ingest EXCEPT ![i] = x]
    BY <1>1, <1>3, <1>15, <2>1, <2>2 DEF Ingests!VerifyCount
  <2>5. UNCHANGED <<disk, deleted, refresh, foldMark, busy>>
    BY <1>15 DEF Ingests!VerifyCount
  <2>6. Held(y)
    BY <2>3 DEF Held
  <2>7. Held(x) /\ busy' \in 0 .. MaxBusy
    BY <1>5, <2>1, <2>4, <2>5, <2>6, BusyBound
  <2> QED
    BY <2>4, <2>5, <2>7, BoundedGoesOn
<1> QED
  BY <1>6, <1>7, <1>8, <1>9, <1>10, <1>11, <1>12, <1>13, <1>14, <1>15

LEMMA BoundedContinues == IngestTyped /\ Bounded /\ [Ingests!Next]_(Ingests!vars) => Bounded'
<1>1. ASSUME Bounded, UNCHANGED Ingests!vars
      PROVE  Bounded'
  BY <1>1 DEF Ingests!vars, Ingests!world, Ingests!dbs, Bounded, Held, Box
<1>2. ASSUME IngestTyped, Bounded, Ingests!Next
      PROVE  Bounded'
  <2>1. CASE Ingests!Write \/ Ingests!Replace \/ Ingests!Purge \/ Ingests!Delete \/ Ingests!Age
    BY <1>2, <2>1, BoundedWorld
  <2>2. ASSUME ~(Ingests!Write \/ Ingests!Replace \/ Ingests!Purge \/ Ingests!Delete \/ Ingests!Age)
        PROVE  Bounded'
    <3>1. PICK i \in Ingesters :
            \/ Ingests!Hook(i) \/ Ingests!FindStale(i) \/ Ingests!Spawn(i) \/ Ingests!Resolve(i)
            \/ Ingests!Stat(i) \/ Ingests!Read(i) \/ Ingests!Commit(i) \/ Ingests!Locked(i)
            \/ Ingests!VerifyFresh(i) \/ Ingests!SyncConsolidatedFrom(i) \/ Ingests!Unfolded(i)
            \/ Ingests!VerifyCount(i)
      BY <1>2, <2>2 DEF Ingests!Next
    <3> QED
      BY <1>2, <3>1, BoundedRuns
  <2> QED
    BY <2>1, <2>2
<1> QED
  BY <1>1, <1>2

(* The parts keep their types: a row has its copy until it is tombstoned, a *)
(* receipt names what is tombstoned, and what was folded from a session's   *)
(* cache is in the store until the session is deleted.                      *)
THEOREM TypesHold == Spec => []TypeOK
<1>1. Spec => []Tags!TypeOK
  BY TagsRun, PartsAssumption, Tags!Types, PTL
<1>2. Spec => []Tagging!TypeOK
  BY TaggingRuns, PartsAssumption, Tagging!TypesHold, PTL
<1>3. Spec => []Deletes!TypeOK
  <2>1. MaxLines > 0
    BY BoundsAssumption
  <2>2. Deletes!Spec => []Deletes!TypeOK
    BY <2>1, PartsAssumption, Deletes!TypesHold
  <2> QED
    BY <2>2, DeletesRun, PTL
<1>4. Spec => []Ingests!TypeOK
  <2>1. IngestInv /\ Bounded => Ingests!TypeOK
    BY DEF IngestInv, Bounded, Box, Ingests!TypeOK
  <2>2. IngestInv => IngestTyped
    BY DEF IngestInv
  <2> QED
    BY <2>1, <2>2, IngestBegins, BoundedBegins, IngestContinues, BoundedContinues, IngestsRun, PTL
    DEF Ingests!Spec
<1> QED
  BY <1>1, <1>2, <1>3, <1>4, PTL DEF TypeOK

----------------------------------------------------------------------------
(* The search: what is owed and not shown was hidden, cut off, crossed by a *)
(* fold, or beyond a limit that the answer admits.                          *)

Hit == DOMAIN Hits
Below(S, m) == {k \in S : k < m}

LEMMA HitsFinite == IsFiniteSet(Hit) /\ Hit \in SUBSET Nat
<1>1. PICK n \in Nat : Hit = 1 .. n
  BY SearchAssumption DEF Hit
<1> QED
  BY <1>1, FS_Interval

LEMMA CardOf == \A S : Searches!Cardinality(S) = Cardinality(S)
BY DEF Searches!Cardinality, Cardinality

LEMMA SomeFirst ==
  ASSUME NEW S \in SUBSET Hit, S # {}
  PROVE  \E x \in S : \A y \in S : x <= y
<1>1. PICK n \in Nat : Hit = 1 .. n
  BY SearchAssumption DEF Hit
<1> QED
  BY <1>1, FirstPlace

LEMMA SomeLast ==
  ASSUME NEW S \in SUBSET Hit, S # {}
  PROVE  \E x \in S : \A y \in S : y <= x
<1>1. PICK n \in Nat : Hit = 1 .. n
  BY SearchAssumption DEF Hit
<1> QED
  BY <1>1, LastPlace

(* The first n of some hits: no more than n, and all of them or n.          *)
First(S, n) == {m \in S : Cardinality(Below(S, m)) < n}

LEMMA Parts ==
  ASSUME NEW S \in SUBSET Hit, NEW T \in SUBSET S
  PROVE  /\ IsFiniteSet(S) /\ IsFiniteSet(T) /\ Cardinality(S) \in Nat /\ Cardinality(T) \in Nat
         /\ Cardinality(T) <= Cardinality(S)
         /\ Cardinality(T) = Cardinality(S) => T = S
<1>1. IsFiniteSet(S) /\ IsFiniteSet(T)
  BY HitsFinite, FS_Subset
<1> QED
  BY <1>1, FS_Subset, FS_CardinalityType

LEMMA FirstBound ==
  ASSUME NEW S \in SUBSET Hit, NEW n \in Nat
  PROVE  /\ First(S, n) \in SUBSET S /\ Cardinality(First(S, n)) <= n
<1>1. PICK W : W = First(S, n)
  OBVIOUS
<1>2. W \in SUBSET S /\ W \in SUBSET Hit
  BY <1>1 DEF First
<1>3. CASE W = {}
  BY <1>1, <1>2, <1>3, FS_EmptySet
<1>4. CASE W # {}
  <2>1. PICK x \in W : \A y \in W : y <= x
    BY <1>2, <1>4, SomeLast
  <2>2. PICK B : B = Below(S, x)
    OBVIOUS
  <2>3. B \in SUBSET Hit /\ x \notin B /\ IsFiniteSet(B) /\ Cardinality(B) \in Nat /\ x \in Hit
    <3>1. B \in SUBSET S /\ B \in SUBSET Hit /\ x \in Nat /\ x \in Hit
      BY <1>2, <2>1, <2>2, HitsFinite DEF Below
    <3>2. x \notin B
      BY <2>2, <3>1 DEF Below
    <3>3. IsFiniteSet(B) /\ Cardinality(B) \in Nat
      BY <3>1, Parts
    <3> QED
      BY <3>1, <3>2, <3>3
  <2>4. Cardinality(B) < n
    BY <1>1, <2>1, <2>2 DEF First
  <2>5. IsFiniteSet(B \cup {x}) /\ Cardinality(B \cup {x}) = Cardinality(B) + 1
    BY <2>3, FS_AddElement
  <2>6. W \in SUBSET (B \cup {x})
    BY <1>2, <2>1, <2>2, HitsFinite DEF Below
  <2>7. Cardinality(W) <= Cardinality(B \cup {x}) /\ Cardinality(W) \in Nat
    BY <2>3, <2>6, Parts
  <2> QED
    BY <1>1, <1>2, <2>3, <2>4, <2>5, <2>7
<1> QED
  BY <1>3, <1>4

LEMMA FirstFull ==
  ASSUME NEW S \in SUBSET Hit, NEW n \in Nat, First(S, n) # S
  PROVE  n <= Cardinality(First(S, n))
<1>1. PICK W : W = First(S, n)
  OBVIOUS
<1>2. PICK D : D = S \ W
  OBVIOUS
<1>3. W \in SUBSET S /\ W \in SUBSET Hit /\ D \in SUBSET Hit /\ D # {}
  BY <1>1, <1>2 DEF First
<1>4. PICK x \in D : \A y \in D : x <= y
  BY <1>3, SomeFirst
<1>5. PICK B : B = Below(S, x)
  OBVIOUS
<1>6. B \in SUBSET W
  <2>1. ASSUME NEW k \in B
        PROVE  k \in W
    <3>1. k \in S /\ k < x
      BY <1>5 DEF Below
    <3>2. k \in Nat /\ x \in Nat
      BY <1>3, <1>4, <3>1, HitsFinite
    <3>3. k \notin D
      BY <1>4, <3>1, <3>2
    <3> QED
      BY <1>2, <3>1, <3>3
  <2> QED
    BY <2>1
<1>7. Cardinality(B) <= Cardinality(W) /\ Cardinality(B) \in Nat /\ Cardinality(W) \in Nat
  BY <1>3, <1>6, Parts
<1>8. ~(Cardinality(B) < n)
  BY <1>1, <1>2, <1>4, <1>5 DEF First
<1> QED
  BY <1>1, <1>7, <1>8

LEMMA FirstAll ==
  ASSUME NEW S \in SUBSET Hit, NEW n \in Nat, Cardinality(S) <= n
  PROVE  First(S, n) = S
<1>1. ASSUME NEW m \in S
      PROVE  Cardinality(Below(S, m)) < n
  <2>1. PICK B : B = Below(S, m)
    OBVIOUS
  <2>2. B \in SUBSET S /\ m \notin B
    BY <2>1, HitsFinite DEF Below
  <2>3. Cardinality(B) < Cardinality(S) /\ Cardinality(B) \in Nat /\ Cardinality(S) \in Nat
    BY <2>2, Parts
  <2> QED
    BY <2>1, <2>3
<1> QED
  BY <1>1 DEF First

(* What a query returns, in these terms.                                    *)
LEMMA WindowOf ==
  ASSUME NEW ms \in SUBSET Hit, NEW n \in Nat
  PROVE  /\ Searches!Answering(ms) \in SUBSET ms
         /\ Searches!Window(ms, n) = First(Searches!Answering(ms), n)
         /\ Searches!Window(ms, n) \in SUBSET Searches!Answering(ms)
         /\ Cardinality(Searches!Window(ms, n)) <= n
         /\ Searches!Window(ms, n) # Searches!Answering(ms) => n <= Cardinality(Searches!Window(ms, n))
<1>1. PICK A : A = Searches!Answering(ms)
  OBVIOUS
<1>2. A \in SUBSET ms /\ A \in SUBSET Hit
  BY <1>1 DEF Searches!Answering
<1>3. Searches!Window(ms, n) = First(A, n)
  BY <1>1, CardOf DEF Searches!Window, First, Below
<1> QED
  BY <1>1, <1>2, <1>3, FirstBound, FirstFull

LEMMA AnchorsOf ==
  ASSUME NEW ms \in SUBSET Hit, NEW n \in Nat
  PROVE  /\ Searches!MatchAnchors(ms, n) \in SUBSET Searches!Visible(Searches!Answering(ms))
         /\ Searches!Visible(Searches!Answering(ms)) \in SUBSET Hit
         /\ Searches!MatchAnchors(ms, n) \in SUBSET Hit
         /\ Cardinality(Searches!MatchAnchors(ms, n)) \in Nat
         /\ Cardinality(Searches!MatchAnchors(ms, n)) <= n
         /\ ~Searches!CutOff(ms, n) =>
              \/ Searches!MatchAnchors(ms, n) = Searches!Visible(Searches!Answering(ms))
              \/ n <= Cardinality(Searches!MatchAnchors(ms, n))
<1>1. PICK A : A = Searches!Answering(ms)
  OBVIOUS
<1>2. PICK W : W = Searches!Window(ms, n)
  OBVIOUS
<1>3. /\ A \in SUBSET Hit /\ W \in SUBSET A /\ Cardinality(W) <= n
      /\ W # A => n <= Cardinality(W)
  BY <1>1, <1>2, WindowOf
<1>4. PICK V : V = Searches!MatchAnchors(ms, n)
  OBVIOUS
<1>5. V = Searches!Visible(W)
  BY <1>2, <1>4 DEF Searches!MatchAnchors
<1>6. V \in SUBSET W /\ W \in SUBSET Hit
  BY <1>3, <1>5 DEF Searches!Visible
<1>7. Cardinality(V) <= Cardinality(W) /\ Cardinality(V) \in Nat /\ Cardinality(W) \in Nat
  BY <1>6, Parts
<1>8. V \in SUBSET Searches!Visible(A) /\ Searches!Visible(A) \in SUBSET Hit
  BY <1>3, <1>5 DEF Searches!Visible
<1>9. ~Searches!CutOff(ms, n) => W = A \/ V = W
  BY <1>1, <1>2, <1>4 DEF Searches!CutOff
<1>10. ~Searches!CutOff(ms, n) => V = Searches!Visible(A) \/ n <= Cardinality(V)
  BY <1>3, <1>5, <1>9
<1>11. Cardinality(V) <= n
  BY <1>3, <1>7
<1> QED
  BY <1>1, <1>4, <1>6, <1>7, <1>8, <1>10, <1>11

(* A window that is wider and brings no more rows has all there are.        *)
LEMMA Exhausting ==
  ASSUME NEW ms \in SUBSET Hit, NEW k \in Nat, NEW n \in Nat, k < n,
         Cardinality(Searches!MatchAnchors(ms, n)) <= Cardinality(Searches!MatchAnchors(ms, k)),
         ~Searches!CutOff(ms, n)
  PROVE  Searches!MatchAnchors(ms, k) = Searches!Visible(Searches!Answering(ms))
<1>1. PICK V : V = Searches!Visible(Searches!Answering(ms))
  OBVIOUS
<1>2. PICK X : X = Searches!MatchAnchors(ms, k)
  OBVIOUS
<1>3. PICK Y : Y = Searches!MatchAnchors(ms, n)
  OBVIOUS
<1>4. /\ X \in SUBSET V /\ Cardinality(X) \in Nat /\ Cardinality(X) <= k /\ V \in SUBSET Hit
      /\ Cardinality(Y) \in Nat /\ (Y = V \/ n <= Cardinality(Y))
  BY <1>1, <1>2, <1>3, AnchorsOf
<1>5. Y = V
  BY <1>2, <1>3, <1>4
<1>6. Cardinality(X) <= Cardinality(V) /\ (Cardinality(X) = Cardinality(V) => X = V) /\ Cardinality(V) \in Nat
  BY <1>4, Parts
<1> QED
  BY <1>1, <1>2, <1>3, <1>4, <1>5, <1>6

(* Of some rows, the conversation of each is picked once.                   *)
LEMMA PickedOf ==
  ASSUME NEW R \in SUBSET Hit
  PROVE  /\ Searches!Picked(R) \in SUBSET R
         /\ \A m \in R : \E r \in Searches!Picked(R), k \in R :
              Hits[k].uuid = Hits[m].uuid /\ Searches!Conversation(k) = Searches!Conversation(r)
<1>1. PICK F : F = Searches!Firsts(R)
  OBVIOUS
<1>2. PICK P : P = Searches!Picked(R)
  OBVIOUS
<1>3. F \in SUBSET R /\ P \in SUBSET F
  BY <1>1, <1>2 DEF Searches!Firsts, Searches!Picked
<1>4. ASSUME NEW m \in R
      PROVE  \E k \in F : Hits[k].uuid = Hits[m].uuid
  <2>1. PICK S : S = {k \in R : Hits[k].uuid = Hits[m].uuid}
    OBVIOUS
  <2>2. S \in SUBSET Hit /\ S # {}
    BY <2>1
  <2>3. PICK k \in S : \A y \in S : k <= y
    BY <2>2, SomeFirst
  <2>4. ASSUME NEW j \in R, j < k
        PROVE  Hits[j].uuid # Hits[k].uuid
    <3>1. j \in Nat /\ k \in Nat
      BY <2>2, HitsFinite
    <3>2. j \notin S
      BY <2>3, <2>4, <3>1
    <3> QED
      BY <2>1, <3>2
  <2>5. k \in F
    BY <1>1, <2>1, <2>4 DEF Searches!Firsts
  <2> QED
    BY <2>1, <2>5
<1>5. ASSUME NEW k \in F
      PROVE  \E r \in P : Searches!Conversation(k) = Searches!Conversation(r)
  <2>1. PICK S : S = {j \in F : Searches!Conversation(j) = Searches!Conversation(k)}
    OBVIOUS
  <2>2. S \in SUBSET Hit /\ S # {}
    BY <1>3, <2>1
  <2>3. PICK r \in S : \A y \in S : r <= y
    BY <2>2, SomeFirst
  <2>4. ASSUME NEW j \in F, j < r
        PROVE  Searches!Conversation(j) # Searches!Conversation(r)
    <3>1. j \in Nat /\ r \in Nat
      BY <1>3, <2>2, HitsFinite
    <3>2. j \notin S
      BY <2>3, <2>4, <3>1
    <3> QED
      BY <2>1, <3>2
  <2>5. r \in P
    BY <1>1, <1>2, <2>1, <2>4 DEF Searches!Picked
  <2> QED
    BY <2>1, <2>5
<1> QED
  BY <1>2, <1>3, <1>4, <1>5

Searching == {"idle", "window", "report", "scopes", "fold", "answered"}
SearchState == [pc: Searching, window: Nat, rows: SUBSET Hit, owed: SUBSET Hit,
                todo: SUBSET Searches!Projects, partial: BOOLEAN, ceiling: BOOLEAN, cut: BOOLEAN,
                crossed: BOOLEAN, shown: SUBSET Hit, complete: BOOLEAN]

SearchTyped ==
  /\ stage \in [Hit -> {"none", "indexed", "stored"}]
  /\ search \in SearchState

(* The matches that the store has to show, and those that only databases    *)
(* have that were never folded.                                             *)
InStore == Searches!Visible(Searches!Answering(Searches!Stored))
Unfolded == {m \in Searches!Indexed : Hits[m].project \notin folded}

(* What the rows of a search have of what it owes, as far as it has come.   *)
Gathered(r) ==
  /\ r.pc = "window" => r.window # 0
  /\ r.pc = "window" /\ ~r.crossed => r.rows = Searches!MatchAnchors(Searches!Stored, r.window)
  /\ r.pc \in {"window", "report"} /\ ~r.crossed => r.owed \subseteq InStore \cup Unfolded
  /\ r.pc = "report" /\ ~r.crossed /\ ~r.cut /\ ~r.ceiling => InStore \subseteq r.rows
  /\ r.pc \in {"scopes", "fold"} /\ ~r.crossed /\ ~r.cut /\ ~r.ceiling /\ ~r.partial =>
       r.owed \subseteq r.rows

(* What an answer that calls itself complete shows.                         *)
Whole(r) ==
  r.complete =>
    /\ r.pc = "answered"
    /\ ~r.crossed /\ ~r.cut =>
         \A m \in r.owed \ Turn : \E s \in r.shown, k \in r.rows :
           Hits[k].uuid = Hits[m].uuid /\ Searches!Conversation(k) = Searches!Conversation(s)

SearchInv == SearchTyped /\ Gathered(search) /\ Whole(search)

LEMMA SearchIdle ==
  /\ Searches!Idle \in SearchState /\ Searches!Idle.pc = "idle" /\ ~Searches!Idle.complete
  /\ Searches!Idle.rows = {} /\ Searches!Idle.owed = {} /\ ~Searches!Idle.partial
  /\ ~Searches!Idle.ceiling /\ ~Searches!Idle.cut /\ ~Searches!Idle.crossed
BY DEF Searches!Idle, SearchState, Searching

LEMMA SearchBegins == Searches!Init => SearchInv
<1> SUFFICES ASSUME Searches!Init PROVE SearchInv
  OBVIOUS
<1>1. SearchTyped
  BY SearchIdle DEF Searches!Init, SearchTyped, Searches!Matches, Hit
<1>2. Gathered(search) /\ Whole(search)
  BY SearchIdle DEF Searches!Init, Gathered, Whole
<1> QED
  BY <1>1, <1>2 DEF SearchInv

LEMMA StoredHits == Searches!Stored \in SUBSET Hit /\ Searches!Indexed \in SUBSET Hit
BY DEF Searches!Stored, Searches!Indexed, Searches!Matches, Hit

(* A step of the search alone.                                              *)
LEMMA SearchGoesOn ==
  ASSUME SearchInv, NEW x \in SearchState, search' = x, UNCHANGED <<stage, folded>>,
         Gathered(x), Whole(x)
  PROVE  SearchInv'
<1>1. SearchTyped'
  BY DEF SearchInv, SearchTyped
<1>2. Gathered(x)' /\ Whole(x)'
  BY DEF Gathered, Whole, InStore, Unfolded, Searches!Stored, Searches!Indexed, Searches!MatchAnchors
<1> QED
  BY <1>1, <1>2 DEF SearchInv

LEMMA OpenStoreStep ==
  ASSUME SearchInv, Searches!OpenStore
  PROVE  SearchInv'
<1>1. PICK z : z = Searches!Idle
  OBVIOUS
<1>2. z \in SearchState /\ ~z.complete /\ ~z.partial /\ ~z.ceiling /\ ~z.crossed
  BY <1>1, SearchIdle
<1>3. PICK R : R = Searches!MatchAnchors(Searches!Stored, Fetch)
  OBVIOUS
<1>4. PICK O : O = InStore \cup Unfolded
  OBVIOUS
<1>5. PICK c \in BOOLEAN : c = Searches!CutOff(Searches!Stored, Fetch)
  <2>1. Searches!CutOff(Searches!Stored, Fetch) \in BOOLEAN
    BY DEF Searches!CutOff
  <2> QED
    BY <2>1
<1>6. Fetch \in Nat \ {0}
  BY SearchAssumption
<1>7. R \in SUBSET Hit /\ O \in SUBSET Hit
  <2>1. R \in SUBSET Hit /\ InStore \in SUBSET Hit
    BY <1>3, <1>6, StoredHits, AnchorsOf DEF InStore
  <2> QED
    BY <1>4, <2>1, StoredHits DEF Unfolded
<1>8. PICK x : x = [z EXCEPT !.pc = "window", !.window = Fetch, !.rows = R, !.cut = c, !.owed = O]
  OBVIOUS
<1>9. /\ x \in SearchState /\ x.pc = "window" /\ x.window = Fetch /\ x.rows = R /\ x.owed = O
      /\ ~x.complete
  BY <1>2, <1>5, <1>6, <1>7, <1>8 DEF SearchState, Searching
<1>10. search' = x
  BY <1>1, <1>3, <1>4, <1>5, <1>8 DEF Searches!OpenStore, InStore, Unfolded
<1>11. Gathered(x) /\ Whole(x)
  BY <1>3, <1>4, <1>6, <1>9 DEF Gathered, Whole
<1> QED
  BY <1>9, <1>10, <1>11, SearchGoesOn DEF Searches!OpenStore

LEMMA Wider ==
  ASSUME NEW w \in Nat \ {0}, w < MaxWindow
  PROVE  LET n == Searches!Min({w * Growth, MaxWindow}) IN n \in Nat /\ w < n
<1>1. PICK b \in Nat : b = MaxWindow
  BY SearchAssumption
<1>2. PICK g \in Nat : g = Growth /\ 2 <= g
  BY SearchAssumption
<1>3. PICK a : a = w * g
  OBVIOUS
<1>4. a \in Nat /\ w < a
  BY <1>2, <1>3
<1>5. \E x \in {a, b} : \A y \in {a, b} : x <= y
  BY <1>1, <1>4
<1>6. PICK n : n = Searches!Min({a, b})
  OBVIOUS
<1>7. n \in {a, b}
  BY <1>5, <1>6 DEF Searches!Min
<1> QED
  BY <1>1, <1>2, <1>3, <1>4, <1>6, <1>7

LEMMA WidenStep ==
  ASSUME SearchInv, Searches!Widen
  PROVE  SearchInv'
<1>1. PICK r : r = search
  OBVIOUS
<1>2. r \in SearchState /\ r.pc = "window" /\ Gathered(r) /\ Whole(r) /\ r.window \in Nat \ {0}
  BY <1>1 DEF SearchInv, SearchTyped, Gathered, SearchState, Searches!Widen
<1>3. r.window < MaxWindow
  BY <1>1, <1>2, SearchAssumption DEF Searches!Widen, Searches!Enough
<1>4. PICK n : n = Searches!Min({r.window * Growth, MaxWindow})
  OBVIOUS
<1>5. n \in Nat /\ r.window < n
  BY <1>2, <1>3, <1>4, Wider
<1>6. PICK Y : Y = Searches!MatchAnchors(Searches!Stored, n)
  OBVIOUS
<1>7. Y \in SUBSET Hit
  BY <1>5, <1>6, StoredHits, AnchorsOf
<1>8. PICK c \in BOOLEAN : c = Searches!CutOff(Searches!Stored, n)
  <2>1. Searches!CutOff(Searches!Stored, n) \in BOOLEAN
    BY DEF Searches!CutOff
  <2> QED
    BY <2>1
<1>9. search' = IF Searches!Exhausted(Y) THEN [r EXCEPT !.pc = "report", !.cut = c]
                ELSE [r EXCEPT !.window = n, !.rows = Y, !.cut = c]
  BY <1>1, <1>4, <1>6, <1>8 DEF Searches!Widen
<1>10. ~r.complete
  BY <1>2 DEF Whole
<1>11. CASE Searches!Exhausted(Y)
  <2>1. PICK x : x = [r EXCEPT !.pc = "report", !.cut = c]
    OBVIOUS
  <2>2. /\ x \in SearchState /\ x.pc = "report" /\ x.cut = c /\ x.rows = r.rows /\ x.owed = r.owed
        /\ x.crossed = r.crossed /\ ~x.complete
    BY <1>2, <1>8, <1>10, <2>1 DEF SearchState, Searching
  <2>3. ASSUME ~x.crossed, ~c
        PROVE  InStore \subseteq r.rows
    <3>1. r.rows = Searches!MatchAnchors(Searches!Stored, r.window)
      BY <1>2, <2>2, <2>3 DEF Gathered
    <3>2. Cardinality(Y) <= Cardinality(Searches!MatchAnchors(Searches!Stored, r.window))
      BY <1>1, <1>11, <3>1, CardOf DEF Searches!Exhausted
    <3>3. r.rows = InStore
      BY <1>2, <1>5, <1>6, <1>8, <2>3, <3>1, <3>2, StoredHits, Exhausting DEF InStore
    <3> QED
      BY <3>3
  <2>4. Gathered(x) /\ Whole(x)
    BY <1>2, <2>2, <2>3 DEF Gathered, Whole
  <2> QED
    BY <1>9, <1>11, <2>1, <2>2, <2>4, SearchGoesOn DEF Searches!Widen
<1>12. CASE ~Searches!Exhausted(Y)
  <2>1. PICK x : x = [r EXCEPT !.window = n, !.rows = Y, !.cut = c]
    OBVIOUS
  <2>2. /\ x \in SearchState /\ x.pc = "window" /\ x.window = n /\ x.rows = Y /\ x.owed = r.owed
        /\ x.crossed = r.crossed /\ ~x.complete
    BY <1>2, <1>5, <1>7, <1>8, <1>10, <2>1 DEF SearchState
  <2>3. n # 0
    BY <1>2, <1>5
  <2>4. Gathered(x) /\ Whole(x)
    BY <1>2, <1>6, <2>2, <2>3 DEF Gathered, Whole
  <2> QED
    BY <1>9, <1>12, <2>1, <2>2, <2>4, SearchGoesOn DEF Searches!Widen
<1> QED
  BY <1>11, <1>12

LEMMA StoreAnswers ==
  ASSUME SearchInv, Searches!StopWidening \/ Searches!ReportMissing
  PROVE  SearchInv'
<1>1. PICK r : r = search
  OBVIOUS
<1>2. r \in SearchState /\ r.pc \in {"window", "report"} /\ Gathered(r) /\ Whole(r) /\ ~r.complete
  BY <1>1 DEF SearchInv, SearchTyped, Searches!StopWidening, Searches!ReportMissing, Whole
<1>3. CASE Searches!StopWidening
  <2>1. PICK x : x = [r EXCEPT !.pc = "report", !.ceiling = TRUE]
    OBVIOUS
  <2>2. /\ x \in SearchState /\ x.pc = "report" /\ x.ceiling /\ x.owed = r.owed
        /\ x.crossed = r.crossed /\ ~x.complete
    BY <1>2, <2>1 DEF SearchState, Searching
  <2>3. r.pc = "window"
    BY <1>1, <1>3 DEF Searches!StopWidening
  <2>4. Gathered(x) /\ Whole(x)
    BY <1>2, <2>2, <2>3 DEF Gathered, Whole
  <2> QED
    BY <1>1, <1>3, <2>1, <2>2, <2>4, SearchGoesOn DEF Searches!StopWidening
<1>4. CASE Searches!ReportMissing
  <2>1. PICK b \in BOOLEAN : b = (Searches!UnconsolidatedDBs # {})
    OBVIOUS
  <2>2. PICK x : x = [r EXCEPT !.pc = "fold", !.partial = b]
    OBVIOUS
  <2>3. /\ x \in SearchState /\ x.pc = "fold" /\ x.partial = b /\ x.owed = r.owed /\ x.rows = r.rows
        /\ x.crossed = r.crossed /\ x.cut = r.cut /\ x.ceiling = r.ceiling /\ ~x.complete
    BY <1>2, <2>1, <2>2 DEF SearchState, Searching
  <2>4. ~b => Unfolded = {}
    BY <2>1 DEF Searches!UnconsolidatedDBs, Unfolded
  <2>5. r.pc = "report"
    BY <1>1, <1>4 DEF Searches!ReportMissing
  <2>6. Gathered(x) /\ Whole(x)
    BY <1>2, <2>3, <2>4, <2>5 DEF Gathered, Whole
  <2> QED
    BY <1>1, <1>4, <2>1, <2>2, <2>3, <2>6, SearchGoesOn DEF Searches!ReportMissing
<1> QED
  BY <1>3, <1>4

LEMMA FallBackStep ==
  ASSUME SearchInv, Searches!FallBack
  PROVE  SearchInv'
<1>1. PICK z : z = Searches!Idle
  OBVIOUS
<1>2. z \in SearchState /\ ~z.complete /\ z.owed = {} /\ z.rows = {}
  BY <1>1, SearchIdle
<1>3. PICK x : x = [z EXCEPT !.pc = "scopes", !.todo = Searches!Projects]
  OBVIOUS
<1>4. x \in SearchState /\ x.pc = "scopes" /\ x.owed = {} /\ ~x.complete
  BY <1>2, <1>3 DEF SearchState, Searching
<1>5. Gathered(x) /\ Whole(x)
  BY <1>4 DEF Gathered, Whole
<1> QED
  BY <1>1, <1>3, <1>4, <1>5, SearchGoesOn DEF Searches!FallBack

(* A database asked: its rows are what it owes, unless more were cut off    *)
(* than the answer is told of.                                              *)
LEMMA SearchScopeStep ==
  ASSUME SearchInv, NEW p \in Searches!Projects, NEW pending \in BOOLEAN, Searches!SearchScope(p, pending)
  PROVE  SearchInv'
<1>1. PICK r : r = search
  OBVIOUS
<1>2. r \in SearchState /\ r.pc = "scopes" /\ Gathered(r) /\ Whole(r) /\ ~r.complete
  BY <1>1 DEF SearchInv, SearchTyped, Searches!SearchScope, Whole
<1>3. PICK H : H = Searches!Of(p) \cap Searches!Indexed
  OBVIOUS
<1>4. H \in SUBSET Hit /\ Fetch \in Nat
  BY <1>3, StoredHits, SearchAssumption
<1>5. PICK R : R = Searches!MatchAnchors(H, Fetch)
  OBVIOUS
<1>6. PICK V : V = Searches!Visible(Searches!Answering(H))
  OBVIOUS
<1>7. PICK c \in BOOLEAN : c = Searches!CutOff(H, Fetch)
  <2>1. Searches!CutOff(H, Fetch) \in BOOLEAN
    BY DEF Searches!CutOff
  <2> QED
    BY <2>1
<1>8. PICK k \in BOOLEAN : k = Searches!ReachesCeiling(R, Fetch)
  <2>1. Searches!ReachesCeiling(R, Fetch) \in BOOLEAN
    BY DEF Searches!ReachesCeiling
  <2> QED
    BY <2>1
<1>9. R \in SUBSET Hit /\ V \in SUBSET Hit
  BY <1>4, <1>5, <1>6, AnchorsOf
<1>10. ~c /\ ~k => R = V
  <2>1. ~c => R = V \/ Fetch <= Cardinality(R)
    BY <1>4, <1>5, <1>6, <1>7, AnchorsOf
  <2>2. ~k => ~(Fetch <= Cardinality(R))
    BY <1>8, CardOf DEF Searches!ReachesCeiling
  <2> QED
    BY <2>1, <2>2
<1>11. PICK x : x = [r EXCEPT !.todo = r.todo \ {p}, !.rows = r.rows \cup R, !.owed = r.owed \cup V,
                              !.ceiling = r.ceiling \/ k, !.partial = r.partial \/ pending,
                              !.cut = r.cut \/ c]
  OBVIOUS
<1>12. /\ x \in SearchState /\ x.pc = "scopes" /\ x.rows = r.rows \cup R /\ x.owed = r.owed \cup V
       /\ x.ceiling = (r.ceiling \/ k) /\ x.partial = (r.partial \/ pending) /\ x.cut = (r.cut \/ c)
       /\ x.crossed = r.crossed /\ ~x.complete
  BY <1>2, <1>9, <1>11 DEF SearchState
<1>13. search' = x
  BY <1>1, <1>3, <1>5, <1>6, <1>7, <1>8, <1>11 DEF Searches!SearchScope
<1>14. ~x.crossed /\ ~x.cut /\ ~x.ceiling /\ ~x.partial => x.owed \subseteq x.rows
  BY <1>2, <1>10, <1>12 DEF Gathered
<1>15. Gathered(x) /\ Whole(x)
  BY <1>12, <1>14 DEF Gathered, Whole
<1> QED
  BY <1>12, <1>13, <1>15, SearchGoesOn DEF Searches!SearchScope

LEMMA ScopesStep ==
  ASSUME SearchInv, Searches!ScopesDone \/ \E p \in Searches!Projects : Searches!SkipScope(p)
  PROVE  SearchInv'
<1>1. PICK r : r = search
  OBVIOUS
<1>2. r \in SearchState /\ r.pc = "scopes" /\ Gathered(r) /\ Whole(r) /\ ~r.complete
  BY <1>1 DEF SearchInv, SearchTyped, Searches!ScopesDone, Searches!SkipScope, Whole
<1>3. CASE Searches!ScopesDone
  <2>1. PICK x : x = [r EXCEPT !.pc = "fold"]
    OBVIOUS
  <2>2. /\ x \in SearchState /\ x.pc = "fold" /\ x.owed = r.owed /\ x.rows = r.rows /\ x.partial = r.partial
        /\ x.crossed = r.crossed /\ x.cut = r.cut /\ x.ceiling = r.ceiling /\ ~x.complete
    BY <1>2, <2>1 DEF SearchState, Searching
  <2>3. Gathered(x) /\ Whole(x)
    BY <1>2, <2>2 DEF Gathered, Whole
  <2> QED
    BY <1>1, <1>3, <2>1, <2>2, <2>3, SearchGoesOn DEF Searches!ScopesDone
<1>4. ASSUME NEW p \in Searches!Projects, Searches!SkipScope(p)
      PROVE  SearchInv'
  <2>1. PICK H : H = Searches!Of(p) \cap Searches!Indexed
    OBVIOUS
  <2>2. PICK V : V = Searches!Visible(Searches!Answering(H))
    OBVIOUS
  <2>3. V \in SUBSET Hit
    <3>1. H \in SUBSET Hit /\ Fetch \in Nat
      BY <2>1, StoredHits, SearchAssumption
    <3> QED
      BY <2>2, <3>1, AnchorsOf
  <2>4. PICK x : x = [r EXCEPT !.todo = r.todo \ {p}, !.partial = TRUE, !.owed = r.owed \cup V]
    OBVIOUS
  <2>5. x \in SearchState /\ x.pc = "scopes" /\ x.partial /\ ~x.complete
    BY <1>2, <2>3, <2>4 DEF SearchState
  <2>6. Gathered(x) /\ Whole(x)
    BY <2>5 DEF Gathered, Whole
  <2>7. search' = x
    BY <1>1, <1>4, <2>1, <2>2, <2>4 DEF Searches!SkipScope
  <2> QED
    BY <1>4, <2>5, <2>6, <2>7, SearchGoesOn DEF Searches!SkipScope
<1> QED
  BY <1>3, <1>4

(* The answer is complete when nothing was held back, and no conversation   *)
(* left out.                                                                *)
LEMMA AnswerStep ==
  ASSUME SearchInv, Searches!Answer
  PROVE  SearchInv'
<1>1. PICK r : r = search
  OBVIOUS
<1>2. r \in SearchState /\ r.pc = "fold" /\ Gathered(r) /\ r.rows \in SUBSET Hit
  BY <1>1 DEF SearchInv, SearchTyped, Searches!Answer, SearchState
<1>3. PICK R : R = r.rows \ Turn
  OBVIOUS
<1>4. PICK all : all = Searches!Picked(R)
  OBVIOUS
<1>5. /\ R \in SUBSET Hit /\ all \in SUBSET R /\ all \in SUBSET Hit
      /\ \A m \in R : \E s \in all, k \in R :
           Hits[k].uuid = Hits[m].uuid /\ Searches!Conversation(k) = Searches!Conversation(s)
  BY <1>2, <1>3, <1>4, PickedOf
<1>6. PICK B : B = Searches!Best(all, Limit)
  OBVIOUS
<1>7. B \in SUBSET Hit /\ (Cardinality(all) <= Limit => B = all)
  <2>1. B = First(all, Limit)
    BY <1>6, CardOf DEF Searches!Best, First, Below
  <2>2. Limit \in Nat
    BY SearchAssumption
  <2> QED
    BY <1>5, <2>1, <2>2, FirstAll, FirstBound
<1>8. PICK more \in BOOLEAN : more = (Searches!Cardinality(all) > Limit \/ r.ceiling)
  <2>1. (Searches!Cardinality(all) > Limit \/ r.ceiling) \in BOOLEAN
    OBVIOUS
  <2> QED
    BY <2>1
<1>9. PICK x : x = [r EXCEPT !.pc = "answered", !.shown = B, !.complete = ~r.partial /\ ~more]
  OBVIOUS
<1>10. /\ x \in SearchState /\ x.pc = "answered" /\ x.shown = B /\ x.rows = r.rows /\ x.owed = r.owed
       /\ x.crossed = r.crossed /\ x.cut = r.cut /\ x.complete = (~r.partial /\ ~more)
  BY <1>2, <1>7, <1>8, <1>9 DEF SearchState, Searching
<1>11. search' = x
  BY <1>1, <1>3, <1>4, <1>6, <1>8, <1>9 DEF Searches!Answer
<1>12. ~more => ~r.ceiling /\ B = all
  <2>1. Cardinality(all) \in Nat /\ Limit \in Nat
    BY <1>5, Parts, SearchAssumption
  <2>2. ~more => ~r.ceiling /\ ~(Cardinality(all) > Limit)
    BY <1>8, CardOf
  <2> QED
    BY <1>7, <2>1, <2>2
<1>13. ASSUME x.complete, ~x.crossed, ~x.cut, NEW m \in x.owed \ Turn
       PROVE  \E s \in x.shown, k \in x.rows :
                Hits[k].uuid = Hits[m].uuid /\ Searches!Conversation(k) = Searches!Conversation(s)
  <2>1. ~r.partial /\ ~r.ceiling /\ B = all
    BY <1>10, <1>12, <1>13
  <2>2. r.owed \subseteq r.rows
    BY <1>2, <1>10, <1>13, <2>1 DEF Gathered
  <2>3. m \in R
    BY <1>3, <1>10, <1>13, <2>2
  <2> QED
    BY <1>3, <1>5, <1>10, <2>1, <2>3
<1>14. Gathered(x) /\ Whole(x)
  BY <1>10, <1>13 DEF Gathered, Whole
<1> QED
  BY <1>10, <1>11, <1>14, SearchGoesOn DEF Searches!Answer

LEMMA NextSearchStep ==
  ASSUME SearchInv, Searches!NextSearch
  PROVE  SearchInv'
<1>1. PICK x : x = Searches!Idle
  OBVIOUS
<1>2. x \in SearchState /\ x.pc = "idle" /\ ~x.complete
  BY <1>1, SearchIdle
<1>3. Gathered(x) /\ Whole(x)
  BY <1>2 DEF Gathered, Whole
<1> QED
  BY <1>1, <1>2, <1>3, SearchGoesOn DEF Searches!NextSearch

LEMMA IndexStep ==
  ASSUME SearchInv, NEW m \in Searches!Matches, Searches!IndexMessage(m)
  PROVE  SearchInv'
<1>1. /\ stage \in [Hit -> {"none", "indexed", "stored"}] /\ m \in Hit /\ stage[m] = "none"
      /\ stage' = [stage EXCEPT ![m] = "indexed"] /\ UNCHANGED <<folded, search>>
  BY DEF SearchInv, SearchTyped, Searches!IndexMessage, Searches!Matches, Hit
<1>2. SearchTyped'
  BY <1>1 DEF SearchInv, SearchTyped
<1>3. Searches!Stored' = Searches!Stored /\ Searches!Indexed \subseteq Searches!Indexed'
  BY <1>1 DEF Searches!Stored, Searches!Indexed, Searches!Matches, Hit
<1>4. Unfolded \subseteq Unfolded' /\ InStore' = InStore
  BY <1>1, <1>3 DEF Unfolded, InStore
<1>5. Gathered(search)' /\ Whole(search)'
  BY <1>1, <1>3, <1>4 DEF SearchInv, Gathered, Whole, Searches!MatchAnchors
<1> QED
  BY <1>2, <1>5 DEF SearchInv

LEMMA FoldingStep ==
  ASSUME SearchInv, NEW p \in Searches!Projects, Searches!Fold(p)
  PROVE  SearchInv'
<1>1. PICK r : r = search
  OBVIOUS
<1>2. r \in SearchState /\ Gathered(r) /\ Whole(r)
  BY <1>1 DEF SearchInv, SearchTyped
<1>3. PICK b \in BOOLEAN : b = (r.crossed \/ r.pc \in {"window", "report"})
  <2>1. (r.crossed \/ r.pc \in {"window", "report"}) \in BOOLEAN
    BY <1>2 DEF SearchState
  <2> QED
    BY <2>1
<1>4. PICK x : x = [r EXCEPT !.crossed = b]
  OBVIOUS
<1>5. /\ x \in SearchState /\ x.pc = r.pc /\ x.window = r.window /\ x.rows = r.rows /\ x.owed = r.owed
      /\ x.partial = r.partial /\ x.ceiling = r.ceiling /\ x.cut = r.cut /\ x.crossed = b
      /\ x.shown = r.shown /\ x.complete = r.complete
  BY <1>2, <1>3, <1>4 DEF SearchState
<1>6. search' = x
  BY <1>1, <1>3, <1>4 DEF Searches!Fold
<1>7. stage' \in [Hit -> {"none", "indexed", "stored"}]
  BY DEF SearchInv, SearchTyped, Searches!Fold, Searches!Matches, Hit
<1>8. Gathered(x)'
  <2>1. x.pc \in {"window", "report"} => x.crossed
    BY <1>3, <1>5
  <2>2. ~x.crossed => ~r.crossed
    BY <1>3, <1>5
  <2> QED
    BY <1>2, <1>5, <2>1, <2>2 DEF Gathered
<1>9. Whole(x)'
  <2>1. x.complete => r.complete /\ x.pc = "answered" /\ (~x.crossed => ~r.crossed)
    BY <1>2, <1>3, <1>5 DEF Whole
  <2>2. ASSUME x.complete, ~x.crossed, ~x.cut, NEW m \in x.owed \ Turn
        PROVE  \E s \in x.shown, k \in x.rows :
                 Hits[k].uuid = Hits[m].uuid /\ Searches!Conversation(k) = Searches!Conversation(s)
    <3>1. r.complete /\ ~r.crossed /\ ~r.cut /\ m \in r.owed \ Turn
      BY <1>5, <2>1, <2>2
    <3> QED
      BY <1>2, <1>5, <3>1 DEF Whole
  <2> QED
    BY <2>1, <2>2 DEF Whole
<1> QED
  BY <1>5, <1>6, <1>7, <1>8, <1>9 DEF SearchInv, SearchTyped

LEMMA SearchContinues == SearchInv /\ [Searches!Next]_(Searches!vars) => SearchInv'
<1>1. ASSUME SearchInv, UNCHANGED Searches!vars
      PROVE  SearchInv'
  <2>1. UNCHANGED <<stage, folded, search>>
    BY <1>1 DEF Searches!vars
  <2>2. search \in SearchState /\ Gathered(search) /\ Whole(search)
    BY <1>1 DEF SearchInv, SearchTyped
  <2> QED
    BY <1>1, <2>1, <2>2, SearchGoesOn
<1>2. ASSUME SearchInv, Searches!Next
      PROVE  SearchInv'
  BY <1>2, OpenStoreStep, WidenStep, StoreAnswers, FallBackStep, SearchScopeStep, ScopesStep, AnswerStep,
     NextSearchStep, IndexStep, FoldingStep DEF Searches!Next
<1> QED
  BY <1>1, <1>2

LEMMA SearchesRun == Spec => Searches!Spec
<1>1. Init => Searches!Init
  BY DEF Init
<1>2. [Next]_vars => [Searches!Next]_(Searches!vars)
  <2>1. UNCHANGED searches => UNCHANGED Searches!vars
    BY DEF searches, Searches!vars
  <2>2. UNCHANGED vars => UNCHANGED searches
    BY DEF vars
  <2>3. Next => Searches!Next \/ UNCHANGED searches
    BY DEF Next, TagsStep, TaggingStep, SubstringsStep, SetupStep, UpgradesStep, VectorsStep,
         SearchesStep, DeletesStep, IngestsStep
  <2> QED
    BY <2>1, <2>2, <2>3
<1> QED
  BY <1>1, <1>2, PTL DEF Spec, Searches!Spec

(* An answer that calls itself complete has left nothing out that the       *)
(* databases it read owed it, but what the next message of a conversation   *)
(* shown stands for, hidden matches cut off, and what a fold crossed.       *)
THEOREM CompleteIsComplete == Spec => []CompleteMeansComplete
<1>1. SearchInv => CompleteMeansComplete
  BY DEF SearchInv, Whole, CompleteMeansComplete, Searches!CompleteMeansComplete
<1> QED
  BY <1>1, SearchBegins, SearchContinues, SearchesRun, PTL DEF Searches!Spec
=============================================================================
