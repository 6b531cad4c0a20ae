------------------------------ MODULE Upgrade ------------------------------
(***************************************************************************)
(* rawclaw upgrade: look up the latest release, compare it with the running *)
(* build, download the archive and its checksums, and swap the binary in    *)
(* place: the replacement is written beside it (.new), the binary moved     *)
(* aside (.old), the replacement renamed in, and the saved copy restored    *)
(* when that fails.  Releases come and are withdrawn; downloads are cut;    *)
(* any write or rename may fail and any command be killed.                  *)
(*                                                                          *)
(* A binary is its version, 0 for an unstamped build, and whether all of it *)
(* is there.                                                                *)
(***************************************************************************)
EXTENDS Naturals

CONSTANTS MaxVersion, \* bound: releases
          MaxRuns,    \* bound: upgrade commands ever started
          MaxFaults,  \* bound: bad downloads, failed writes and renames
          MaxKills    \* bound: commands killed

VARIABLES target,     \* the installed binary, or NoFile
          new, old,   \* the files beside it, or NoFile
          latest,     \* the release the server names
          run,        \* the commands
          best,       \* history: the highest version installed
          crossed,    \* history: a swap began next to another, or on a binary another had replaced
          faults, kills

files == <<target, new, old>>
history == <<best, crossed>>
vars == <<files, latest, run, history, faults, kills>>

Runs == 1 .. MaxRuns
Versions == 0 .. MaxVersion
NoFile == [ver |-> 0, whole |-> FALSE, there |-> FALSE]
Binary(v) == [ver |-> v, whole |-> TRUE, there |-> TRUE]
Partial(v) == [ver |-> v, whole |-> FALSE, there |-> TRUE]
NotStarted == [pc |-> "none", from |-> 0, tag |-> 0, force |-> FALSE, archive |-> NoFile, bin |-> NoFile]

Init ==
    /\ \E v \in Versions : target = Binary(v) /\ best = v
    /\ new = NoFile /\ old \in {NoFile, Binary(0)}
    /\ latest \in Versions \ {0}
    /\ run = [r \in Runs |-> NotStarted]
    /\ crossed = FALSE
    /\ faults = 0 /\ kills = 0

At(r, pc) == run[r].pc = pc
Go(r, pc) == run' = [run EXCEPT ![r].pc = pc]
Fault == faults < MaxFaults /\ faults' = faults + 1
Fine == faults' = faults

\* The release the server names is another one.
Release(v) ==
    /\ v # latest /\ latest' = v
    /\ UNCHANGED <<files, run, history, faults, kills>>

----------------------------------------------------------------------------
(* runUpgrade                                                              *)

\* The command runs the installed binary, and knows its version from then on.
Start(r, force) ==
    /\ run[r] = NotStarted /\ \A q \in 1 .. (r - 1) : run[q] # NotStarted
    /\ target.whole
    /\ run' = [run EXCEPT ![r] = [@ EXCEPT !.pc = "lookup", !.from = target.ver, !.force = force]]
    /\ UNCHANGED <<files, latest, history, faults, kills>>

isDev(v) == v = 0

\* Mutant: any release but the running one is taken for an update.
Different(current, tag) == isDev(current) \/ current # tag

updateAvailable(current, tag) == isDev(current) \/ current < tag

latestReleaseTag(r) ==
    /\ At(r, "lookup")
    /\ LET x == run[r]
           go == updateAvailable(x.from, latest) /\ (isDev(x.from) => x.force)
       IN  run' = [run EXCEPT ![r] = [@ EXCEPT !.tag = latest, !.pc = IF go THEN "fetch" ELSE "ended"]]
    /\ UNCHANGED <<files, latest, history, faults, kills>>

LookupFails(r) ==
    /\ At(r, "lookup")
    /\ Go(r, "ended")
    /\ UNCHANGED <<files, latest, history, faults, kills>>

\* An error of the transfer or of the status ends the command; a body may come
\* short or damaged all the same.
FetchArchive(r) ==
    /\ At(r, "fetch")
    /\ \/ Fine /\ run' = [run EXCEPT ![r] = [@ EXCEPT !.pc = "verify", !.archive = Binary(run[r].tag)]]
       \/ Fault /\ run' = [run EXCEPT ![r] = [@ EXCEPT !.pc = "verify", !.archive = Partial(run[r].tag)]]
       \/ Fine /\ Go(r, "ended")
    /\ UNCHANGED <<files, latest, history, kills>>

verifyChecksum(archive, listed) == archive.whole /\ listed

\* The list of checksums may come without this archive's line.
VerifyDownload(r) ==
    /\ At(r, "verify")
    /\ \E listed \in BOOLEAN :
          run' = [run EXCEPT ![r] = IF verifyChecksum(run[r].archive, listed)
                                    THEN [@ EXCEPT !.pc = "write", !.bin = run[r].archive]
                                    ELSE [@ EXCEPT !.pc = "ended"]]
    /\ UNCHANGED <<files, latest, history, faults, kills>>

----------------------------------------------------------------------------
(* applyTarget                                                             *)

Crosses(r) ==
    \/ target # Binary(run[r].from)
    \/ \E q \in Runs \ {r} : run[q].pc \in {"clear", "aside", "swap", "restore", "drop"}

\* A write that fails leaves what it had written.
WriteNew(r) ==
    /\ At(r, "write")
    /\ crossed' = (crossed \/ Crosses(r))
    /\ \/ Fine /\ new' = run[r].bin /\ Go(r, "clear")
       \/ Fault /\ new' = Partial(run[r].tag) /\ Go(r, "ended")
    /\ UNCHANGED <<target, old, latest, best, kills>>

RemoveOld(r) ==
    /\ At(r, "clear")
    /\ old' = NoFile
    /\ Go(r, "aside")
    /\ UNCHANGED <<target, new, latest, history, faults, kills>>

MoveAside(r) ==
    /\ At(r, "aside")
    /\ \/ /\ Fine /\ target.there
          /\ old' = target /\ target' = NoFile /\ new' = new
          /\ Go(r, "swap")
       \/ /\ IF target.there THEN Fault ELSE Fine
          /\ new' = NoFile /\ UNCHANGED <<target, old>>
          /\ Go(r, "ended")
    /\ UNCHANGED <<latest, history, kills>>

SwapIn(r) ==
    /\ At(r, "swap")
    /\ \/ /\ Fine /\ new.there
          /\ target' = new /\ new' = NoFile
          /\ best' = IF new.whole /\ new.ver > best THEN new.ver ELSE best
          /\ Go(r, "drop")
       \/ /\ IF new.there THEN Fault ELSE Fine
          /\ UNCHANGED <<target, new, best>>
          /\ Go(r, "restore")
    /\ UNCHANGED <<old, latest, crossed, kills>>

\* The command says so when the saved binary cannot be put back either.
RollBack(r) ==
    /\ At(r, "restore")
    /\ \/ /\ Fine /\ old.there
          /\ target' = old /\ old' = NoFile /\ new' = NoFile
          /\ Go(r, "ended")
       \/ /\ IF old.there THEN Fault ELSE Fine
          /\ UNCHANGED files
          /\ Go(r, "broken")
    /\ UNCHANGED <<latest, history, kills>>

DropOld(r) ==
    /\ At(r, "drop")
    /\ old' = NoFile
    /\ Go(r, "ended")
    /\ UNCHANGED <<target, new, latest, history, faults, kills>>

Kill(r) ==
    /\ run[r].pc \notin {"none", "ended", "broken", "cut"}
    /\ kills < MaxKills /\ kills' = kills + 1
    /\ \/ /\ Go(r, IF run[r].pc \in {"swap", "restore"} THEN "cut" ELSE "ended")
          /\ UNCHANGED <<new, crossed>>
       \/ /\ At(r, "write")
          /\ Go(r, "ended")
          /\ new' = Partial(run[r].tag)
          /\ crossed' = (crossed \/ Crosses(r))
    /\ UNCHANGED <<target, old, latest, best, faults>>

Next ==
    \/ \E v \in Versions \ {0} : Release(v)
    \/ \E r \in Runs :
          \/ \E force \in BOOLEAN : Start(r, force)
          \/ latestReleaseTag(r) \/ LookupFails(r) \/ FetchArchive(r) \/ VerifyDownload(r)
          \/ WriteNew(r) \/ RemoveOld(r) \/ MoveAside(r) \/ SwapIn(r) \/ RollBack(r)
          \/ DropOld(r) \/ Kill(r)

Spec == Init /\ [][Next]_vars

----------------------------------------------------------------------------
(* Properties.                                                             *)

\* A whole binary, no older than the newest ever installed, is in place, or is
\* aside while a command is between its two renames, was killed there, or has
\* said that the rollback failed ("a wrong or partial download must NEVER be
\* applied", cmd_upgrade.go:382; "any other error means the original is intact",
\* apply.go:58).  Not claimed once a swap began beside another one or over a
\* binary that another upgrade had replaced: they share .new and .old, and the
\* versions are compared before the download only.
UpgradeKeepsBinary ==
    LET Good(f) == f.whole /\ f.ver >= best
    IN  ~crossed => Good(target) \/ (Good(old) /\ \E r \in Runs : run[r].pc \in {"swap", "restore", "cut", "broken"})

=============================================================================
