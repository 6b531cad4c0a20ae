---------------------------- MODULE ArchiveSync ----------------------------
(***************************************************************************)
(* The transcript archive (internal/archive): every machine keeps a clone  *)
(* of one git remote, copies its own transcripts into its own directory of *)
(* the clone, commits and pushes them, and indexes the directories of the  *)
(* other machines as replicas.  A machine runs one push or pull at a time, *)
(* under a file lock that dies with its holder; it may be killed, or meet  *)
(* an error, between any two steps, and it starts from what it finds.      *)
(*                                                                         *)
(* git is external: a clone is the branch it has checked out (`head'), how *)
(* far it has fetched (`ref', the tracking ref), the files of its own      *)
(* directory (`work'), and what a killed git command left behind.  A       *)
(* transcript is its version (0: no file); its content, the registration   *)
(* manifest and the tag files are left out.                                *)
(***************************************************************************)
EXTENDS Naturals, Sequences, FiniteSets, FiniteSetsExt

CONSTANTS Machines, Sessions,
          Owner,            \* per session, the machine whose transcript it is
          Project,          \* per session, its project directory
          Longest,          \* per session, the last version it grows to
          Old,              \* machines with a clone of an older build
          MaxPushAttempts,  \* push.go: maxPushAttempts
          Readers,          \* machines that pull and index the others' sessions
          Changing,         \* bound: the sessions that change
          MaxChanges,       \* bound: changes on the disks, losses of a configuration
          MaxFaults         \* bound: kills and errors

ASSUME ArchiveAssumption ==
    /\ Owner \in [Sessions -> Machines]
    /\ Longest \in [Sessions -> Nat \ {0}]
    /\ Old \subseteq Machines
    /\ MaxPushAttempts \in Nat \ {0}
    /\ Readers \subseteq Machines /\ Changing \subseteq Sessions
    /\ MaxChanges \in Nat /\ MaxFaults \in Nat

VARIABLES disk,     \* the transcripts on the disks of their machines
          known,    \* the sessions that have had a transcript
          tombs,    \* the sessions deleted for good (the tombstones)
          remote,   \* the commits of the remote's branch, oldest first
          clone,    \* per machine, its clone
          op,       \* per machine, the push or pull that holds the sync lock
          replica,  \* per machine, the foreign sessions in its index
          shipped,  \* history: what the last stamped push of a machine vouches for
          buried,   \* history: the tombstones the last stamped push knew
          torn,     \* history: the clones whose last rewrite was cut off
          changes,  \* the changes on the disks so far
          faults    \* the kills and errors so far

world == <<disk, known, tombs, changes>>
history == <<shipped, buried>>
vars == <<world, remote, clone, op, replica, history, torn, faults>>

----------------------------------------------------------------------------
(* Trees and commits.                                                      *)

Own(m) == {s \in Sessions : Owner[s] = m}
Foreign(m) == Sessions \ Own(m)
Trees == {t \in [Sessions -> UNION {0 .. Longest[s] : s \in Sessions}] :
             \A s \in Sessions : t[s] <= Longest[s]}
NoFiles == [s \in Sessions |-> 0]

\* A commit holds all of its author's directory; `drops' names the machines
\* whose directories it takes out of the tree.
Commit(m, dir) == [by |-> m, dir |-> dir, drops |-> {}]

\* The directory of m at the tip of a branch.
Tip(branch, m) ==
    LET touches == {i \in DOMAIN branch : branch[i].by = m \/ m \in branch[i].drops}
        last == CHOOSE i \in touches : \A j \in touches : j <= i
    IN  IF touches = {} \/ branch[last].by # m THEN NoFiles ELSE branch[last].dir

\* The version of a session at the tip of a branch.
In(branch, s) == Tip(branch, Owner[s])[s]

\* How many commits two branches share from the start.
Common(b, c) ==
    CHOOSE k \in 0 .. Len(b) :
        /\ k <= Len(c) /\ \A i \in 1 .. k : b[i] = c[i]
        /\ k = Len(b) \/ k = Len(c) \/ b[k + 1] # c[k + 1]

Beyond(b, c) == SubSeq(b, Common(b, c) + 1, Len(b))

----------------------------------------------------------------------------
(* Clones.  `st': no directory; killed while fetching (no HEAD); killed    *)
(* while checking out; checked out.  `ok': the sentinel.  `staged': added, *)
(* not committed.  `mid': a rebase cut off, with git's marker, or without  *)
(* it but with a detached HEAD; or a fast-forward cut off, which leaves    *)
(* foreign files half replaced and no marker.                              *)

NoClone == [st |-> "none", ok |-> FALSE, head |-> <<>>, ref |-> 0,
            work |-> NoFiles, staged |-> FALSE, mid |-> "no"]

NoOp == [kind |-> "none", pc |-> "idle", tombs |-> {}, todo |-> {},
         goal |-> NoFiles, try |-> 0]

\* What an older build, which had no sentinel, may have left behind: a clone
\* with its first commit pushed or not, and files copied after it or not.
OldClones(m) ==
    LET upTo(n) == [s \in Sessions |-> IF s \in Own(m) THEN Min({n, disk[s]}) ELSE 0]
        first == <<Commit(m, upTo(1))>>
    IN  {[NoClone EXCEPT !.st = "done", !.head = first, !.ref = n, !.work = w] :
            n \in {0, 1}, w \in {upTo(1), upTo(2)}}

Init ==
    /\ disk \in {t \in Trees : \A s \in Sessions \ Changing : t[s] > 0}
    /\ known = {s \in Sessions : disk[s] > 0}
    /\ tombs = {}
    /\ \E some \in {{}} \cup {{m} : m \in Old} :
          clone \in [Machines -> {NoClone} \cup UNION {OldClones(m) : m \in some}]
    /\ \A m \in Machines : clone[m] \in {NoClone} \cup (IF m \in Old THEN OldClones(m) ELSE {})
    /\ remote \in {<<>>} \cup {SubSeq(clone[m].head, 1, clone[m].ref) : m \in Machines}
    /\ \A m \in Machines : clone[m].ref <= Len(remote)
    /\ op = [m \in Machines |-> NoOp]
    /\ replica = [m \in Machines |-> {}]
    /\ shipped = [m \in Machines |-> NoFiles]
    /\ buried = [m \in Machines |-> {}]
    /\ torn = {}
    /\ changes = 0
    /\ faults = 0

Committed(m) == Tip(clone[m].head, m)
Fetched(m) == SubSeq(remote, 1, clone[m].ref)

\* Mutant: no commit counts as unpushed.
StrandedNever(m) == FALSE

\* strandedCommits: the clone has commits no tracking ref has.
Stranded(m) == Beyond(clone[m].head, Fetched(m)) # <<>>

\* `git status' is empty: index and files are as HEAD has them.
Clean(m) ==
    /\ clone[m].work = Committed(m)
    /\ ~clone[m].staged

\* A rebase refuses to start: added or changed tracked files, or the leftovers
\* of a fast-forward that was cut off.  New files do not stop it.
Dirty(m) ==
    \/ clone[m].staged
    \/ clone[m].mid = "ff"
    \/ \E s \in Own(m) : Committed(m)[s] \notin {0, clone[m].work[s]}

----------------------------------------------------------------------------
(* The world: agents write and purge transcripts, users delete sessions.   *)

World(s, version, gone) ==
    /\ changes < MaxChanges /\ changes' = changes + 1
    /\ disk' = [disk EXCEPT ![s] = version]
    /\ tombs' = tombs \cup gone
    /\ known' = IF version > 0 THEN known \cup {s} ELSE known
    /\ UNCHANGED <<remote, clone, op, replica, history, torn, faults>>

\* A session begins, or goes on: a transcript that is gone is not written again.
Grow(s) ==
    /\ disk[s] < Longest[s] /\ (disk[s] > 0 \/ s \notin known)
    /\ World(s, disk[s] + 1, {})

Purge(s) == disk[s] > 0 /\ World(s, 0, {})

\* The file of a deleted session may survive: a backup, an agent still writing.
Delete(s) == s \notin tombs /\ \E v \in {0, disk[s]} : World(s, v, {s})

----------------------------------------------------------------------------
(* The steps of a push or pull.                                            *)

At(m, pc) == op[m].pc = pc
Go(m, pc) == op' = [op EXCEPT ![m].pc = pc]
Finish(m) == op' = [op EXCEPT ![m] = NoOp]
Local == UNCHANGED <<world, remote, replica, torn, faults>>

\* stampPush: the machine's last push succeeded.
StampPush(m) ==
    /\ shipped' = [shipped EXCEPT ![m] = op[m].goal]
    /\ buried' = [buried EXCEPT ![m] = op[m].tombs]
    /\ Finish(m)

\* acquireSyncLock; a second process on the machine gets ErrBusy.
Acquire(m, kind) ==
    /\ At(m, "idle")
    /\ op' = [op EXCEPT ![m] = [NoOp EXCEPT !.kind = kind, !.pc = "open"]]
    /\ UNCHANGED <<clone, history>> /\ Local

\* The transcripts a push copies: m's own, the deleted ones left out, that the
\* clone does not have as they are.
Listed(m) == {s \in Own(m) \ tombs : disk[s] > 0}
NeedsCopy(m, s) == clone'[m].work[s] # disk[s]

\* With a clone to work on, a push reads the tombstones and lists its work, a
\* pull goes on to rebase, and an init is done.  `goal' is what the push takes
\* for archived.
Opened(m) ==
    LET todo == {s \in Listed(m) : NeedsCopy(m, s)}
    IN  op' = [op EXCEPT ![m] =
                  CASE @.kind = "init" -> NoOp
                    [] @.kind = "pull" -> [@ EXCEPT !.pc = "rebase"]
                    [] OTHER -> [@ EXCEPT !.pc = "copy", !.tombs = tombs, !.todo = todo,
                         !.goal = [s \in Sessions |-> IF s \in Listed(m) \ todo THEN disk[s] ELSE 0]]]

\* recoverExistingClone: a rebase that was cut off is aborted, if its marker is
\* there; what follows is the test of a clone with the sentinel, and of one
\* without.
Recovered(m) == clone[m].mid # "rebase"
\* Mutant: a HEAD that resolves is taken for a complete clone.
CompleteOnHead(m) ==
    /\ clone[m].st \in {"checkout", "done"} /\ clone[m].mid # "detached"
    /\ clone[m].ok \/ clone[m].head # <<>>

Complete(m) ==
    /\ clone[m].st = "done" /\ clone[m].mid # "detached"
    /\ clone[m].ok \/ (clone[m].head # <<>> /\ Clean(m))

\* Mutant: the marker of a rebase that was cut off is left where it is.
AbortNothing(m) ==
    /\ At(m, "open") /\ ~Recovered(m)
    /\ Finish(m)
    /\ UNCHANGED <<clone, history>> /\ Local

AbortRebase(m) ==
    /\ At(m, "open") /\ ~Recovered(m)
    /\ clone' = [clone EXCEPT ![m].mid = "no"]
    /\ UNCHANGED <<op, history>> /\ Local

\* ensureClone: a complete clone is used, and one without the sentinel gets it.
UseClone(m) ==
    /\ At(m, "open") /\ Recovered(m) /\ Complete(m)
    /\ clone' = [clone EXCEPT ![m].ok = TRUE]
    /\ Opened(m)
    /\ UNCHANGED history /\ Local

RefuseWipe(m) ==
    /\ At(m, "open") /\ Recovered(m) /\ ~Complete(m) /\ Stranded(m)
    /\ Finish(m)
    /\ UNCHANGED <<clone, history>> /\ Local

\* archive init over what is left of a clone, after the configuration was lost.
Reinit(m) ==
    /\ At(m, "idle") /\ clone[m].st # "none" /\ ~Stranded(m)
    /\ changes < MaxChanges /\ changes' = changes + 1
    /\ clone' = [clone EXCEPT ![m] = [NoClone EXCEPT !.st = "fetching"]]
    /\ op' = [op EXCEPT ![m] = [NoOp EXCEPT !.kind = "init", !.pc = "clone"]]
    /\ UNCHANGED <<disk, known, tombs, remote, replica, history, torn, faults>>

Wipe(m) ==
    /\ At(m, "open") /\ Recovered(m) /\ ~Complete(m) /\ ~Stranded(m)
    /\ clone' = [clone EXCEPT ![m] = [NoClone EXCEPT !.st = "fetching"]]
    /\ Go(m, "clone")
    /\ UNCHANGED history /\ Local

\* git clone: refs and HEAD, then the checkout, then rawclaw's sentinel.
CloneRefs(m) ==
    /\ At(m, "clone") /\ clone[m].st = "fetching"
    /\ clone' = [clone EXCEPT ![m].st = "checkout", ![m].head = remote,
                              ![m].ref = Len(remote)]
    /\ torn' = torn \ {m}
    /\ UNCHANGED <<world, remote, op, replica, history, faults>>

CloneFiles(m) ==
    /\ At(m, "clone") /\ clone[m].st = "checkout"
    /\ clone' = [clone EXCEPT ![m].st = "done", ![m].work = Committed(m)]
    /\ UNCHANGED <<op, history>> /\ Local

Sentinel(m) ==
    /\ At(m, "clone") /\ clone[m].st = "done"
    /\ clone' = [clone EXCEPT ![m].ok = TRUE]
    /\ Opened(m)
    /\ UNCHANGED history /\ Local

\* syncTrees: one transcript is copied, if it is still there.
Copied(m, s) == IF disk[s] > 0 THEN disk[s] ELSE clone[m].work[s]

CopyFile(m) ==
    /\ At(m, "copy") /\ op[m].todo # {}
    /\ LET s == CHOOSE t \in op[m].todo : TRUE  \* the order of the walk
       IN  /\ clone' = [clone EXCEPT ![m].work[s] = Copied(m, s)]
           /\ op' = [op EXCEPT ![m].todo = @ \ {s}, ![m].goal[s] = disk[s]]
    /\ UNCHANGED history /\ Local

\* Mutant: a tombstone keeps a session from being copied, and no more.
RemovedNothing(m) == clone[m].work

\* removeTombstoned, on the files of the clone.
Removed(m) == [s \in Sessions |-> IF s \in op[m].tombs THEN 0 ELSE clone[m].work[s]]

\* Mutant: nothing to stage is taken for nothing to push.
AheadNever(m) == FALSE

\* aheadOfRemote: HEAD has commits the tracking ref lacks, or there is none.
AheadOfRemote(m) ==
    clone[m].head # <<>> /\ (clone[m].ref = 0 \/ Stranded(m))

\* stageMachineDir, and what PushLocal does next.
Stage(m) ==
    /\ At(m, "copy") /\ op[m].todo = {}
    /\ LET changed == Removed(m) # Committed(m)
       IN  /\ clone' = [clone EXCEPT ![m].work = Removed(m), ![m].staged = changed]
           /\ IF changed THEN Go(m, "commit") /\ UNCHANGED history
              ELSE IF AheadOfRemote(m) THEN Go(m, "push") /\ UNCHANGED history
              ELSE StampPush(m)
    /\ Local

\* A tree built on an index without the other machines' files drops them: the
\* index of a clone whose checkout was cut off.
Dropped(m) == IF clone[m].st = "checkout" THEN {n \in Machines \ {m} : Tip(clone[m].head, n) # NoFiles}
              ELSE {}

CommitStaged(m) ==
    /\ At(m, "commit")
    /\ clone' = [clone EXCEPT ![m].staged = FALSE, ![m].st = "done",
           ![m].head = Append(@, [Commit(m, clone[m].work) EXCEPT !.drops = Dropped(m)])]
    /\ Go(m, "push")
    /\ UNCHANGED history /\ Local

\* git push, when the remote's branch is a part of ours: it lands, and then the
\* tracking ref is updated.
FastForward(m) == Common(clone[m].head, remote) = Len(remote)

Land(m) ==
    /\ At(m, "push") /\ FastForward(m)
    /\ remote' = clone[m].head
    /\ Go(m, "landed")
    /\ UNCHANGED <<world, clone, replica, history, torn, faults>>

Track(m) ==
    /\ At(m, "landed")
    /\ clone' = [clone EXCEPT ![m].ref = Len(clone[m].head)]
    /\ StampPush(m)
    /\ Local

\* Otherwise it is rejected: pushWithRetry rebases and tries again.
\* Mutant: one attempt too many.
RejectOnceMore(m) ==
    /\ At(m, "push") /\ ~FastForward(m)
    /\ IF op[m].try = MaxPushAttempts THEN Finish(m)
       ELSE op' = [op EXCEPT ![m].pc = "rebase", ![m].try = @ + 1]
    /\ UNCHANGED <<clone, history>> /\ Local

Reject(m) ==
    /\ At(m, "push") /\ ~FastForward(m)
    /\ IF op[m].try + 1 = MaxPushAttempts THEN Finish(m)
       ELSE op' = [op EXCEPT ![m].pc = "rebase", ![m].try = @ + 1]
    /\ UNCHANGED <<clone, history>> /\ Local

\* git pull --rebase: fetch, and put the commits the remote lacks on top of it.
Rebased(m) == remote \o Beyond(clone[m].head, remote)

Rebase(m) ==
    /\ At(m, "rebase") /\ ~Dirty(m)
    /\ clone' = [clone EXCEPT ![m].head = Rebased(m), ![m].ref = Len(remote)]
    /\ IF op[m].kind = "pull" THEN Finish(m) ELSE Go(m, "push")
    /\ torn' = torn \ {m}
    /\ UNCHANGED <<world, remote, replica, history, faults>>

RebaseRefused(m) ==
    /\ At(m, "rebase") /\ Dirty(m)
    /\ Finish(m)
    /\ UNCHANGED <<clone, history>> /\ Local

\* The process dies in the middle of it.
RebaseKilled(m) ==
    /\ At(m, "rebase") /\ ~Dirty(m) /\ Rebased(m) # clone[m].head
    /\ faults < MaxFaults /\ faults' = faults + 1
    /\ \E mid \in IF Beyond(clone[m].head, remote) = <<>> THEN {"ff"} ELSE {"rebase", "detached"} :
          clone' = [clone EXCEPT ![m].ref = Len(remote), ![m].mid = mid]
    /\ torn' = torn \cup {m}
    /\ Finish(m)
    /\ UNCHANGED <<world, remote, replica, history>>

\* A kill or an error between two steps.
Stop(m) ==
    /\ ~At(m, "idle")
    /\ faults < MaxFaults /\ faults' = faults + 1
    /\ Finish(m)
    /\ UNCHANGED <<world, remote, clone, replica, history, torn>>

----------------------------------------------------------------------------
(* Scopes: the foreign sessions in the clone's files are indexed, and the  *)
(* ones that are not there any more leave the index, project by project; a *)
(* project with no transcript left is not looked at.  It takes place under *)
(* the sync lock, or not at all.                                           *)

Rewritten(m) == clone[m].mid # "no" \/ At(m, "rebase")

\* The foreign sessions the files may show.
Shown(m) ==
    LET at(branch) == {s \in Foreign(m) : In(branch, s) > 0}
    IN  IF Rewritten(m) THEN SUBSET (at(clone[m].head) \cup at(remote))
        ELSE {at(clone[m].head)}

Reconciled(m, shown) ==
    {s \in Foreign(m) :
        IF \E t \in shown : Project[t] = Project[s] THEN s \in shown ELSE s \in replica[m]}

\* Mutant: the lock is not asked for.
QuiescentOrNot(m) == clone[m].st = "done"

Quiescent(m) == At(m, "idle")

Ingest(m) ==
    /\ m \in Readers /\ Quiescent(m) /\ clone[m].ok
    /\ \E shown \in Shown(m) : replica' = [replica EXCEPT ![m] = Reconciled(m, shown)]
    /\ UNCHANGED <<world, remote, clone, op, history, torn, faults>>

----------------------------------------------------------------------------

Sync(m) ==
    \/ AbortRebase(m) \/ UseClone(m) \/ RefuseWipe(m) \/ Wipe(m)
    \/ CloneRefs(m) \/ CloneFiles(m) \/ Sentinel(m)
    \/ CopyFile(m) \/ Stage(m) \/ CommitStaged(m) \/ Land(m) \/ Track(m) \/ Reject(m)
    \/ Rebase(m) \/ RebaseRefused(m)

Next ==
    \/ \E s \in Changing : Grow(s) \/ Purge(s) \/ Delete(s)
    \/ \E m \in Machines :
          \/ Acquire(m, "push") \/ (m \in Readers /\ Acquire(m, "pull"))
          \/ Sync(m) \/ RebaseKilled(m) \/ Stop(m) \/ Reinit(m) \/ Ingest(m)

Spec == Init /\ [][Next]_vars

\* Pushes recur (the background sync spawns them as rawclaw is used, and the
\* timer does), and a process that runs takes its next step.
Fairness ==
    \A m \in Machines : WF_vars(Sync(m)) /\ SF_vars(Acquire(m, "push"))

FairSpec == Spec /\ Fairness

----------------------------------------------------------------------------
(* Properties.                                                             *)

TypeOK ==
    /\ disk \in Trees
    /\ tombs \subseteq Sessions /\ known \subseteq Sessions /\ torn \subseteq Machines
    /\ \A i \in DOMAIN remote : remote[i].by \in Machines /\ remote[i].dir \in Trees
    /\ \A m \in Machines :
          /\ clone[m].st \in {"none", "fetching", "checkout", "done"}
          /\ clone[m].mid \in {"no", "rebase", "detached", "ff"}
          /\ clone[m].ref \in 0 .. Len(remote)
          /\ clone[m].work \in Trees
          /\ \A i \in DOMAIN clone[m].head : clone[m].head[i].dir \in Trees
          /\ op[m].kind \in {"none", "push", "pull", "init"}
          /\ op[m].try \in 0 .. MaxPushAttempts - 1
          /\ op[m].todo \subseteq Own(m)
          /\ replica[m] \subseteq Foreign(m)
          /\ shipped[m] \in Trees
          /\ buried[m] \subseteq tombs
    /\ changes \in 0 .. MaxChanges /\ faults \in 0 .. MaxFaults

\* A stamped push vouches for the archive: the transcripts it read from the disk
\* are in the archive, then and ever after, unless the session was deleted (a
\* push with nothing new to stage must still ship what an earlier one left in
\* the clone, push.go:80).
PushMeansShipped ==
    \A m \in Machines, s \in Sessions :
        s \notin tombs => In(remote, s) >= shipped[m][s]

\* A deleted session is out of the archive once a push that knew its tombstone
\* was stamped, and stays out, though its transcript comes back on disk or the
\* files come back with a clone or a rebase.
DeletedStaysOut ==
    \A m \in Machines : \A s \in buried[m] \cap Own(m) : In(remote, s) = 0

\* The archive never loses what it holds: no step makes the version of a session
\* at the tip older, or takes it out, unless the session was deleted.  Absence
\* of a file on disk deletes nothing, and no machine touches another's directory.
NothingLeavesArchive ==
    [][\A s \in Sessions : In(remote', s) >= In(remote, s) \/ s \in tombs]_vars

\* A session leaves a machine's index only because its owner deleted it, unless
\* the last rewrite of the clone was cut off: what was indexed from the files of
\* a half-done rebase goes again when it is aborted.
ReplicaKeepsUp ==
    [][\A m \in Machines : \A s \in replica[m] \ replica'[m] :
          s \in tombs \/ m \in torn]_vars

\* The archive catches up with every machine for good, unless the machine's
\* clone can neither be rebased nor replaced.
Wedged(m) ==
    \/ clone[m].mid \in {"ff", "detached"}
    \/ ~clone[m].ok /\ Stranded(m)
CaughtUp(m) ==
    \A s \in Own(m) : IF s \in tombs THEN In(remote, s) = 0
                      ELSE In(remote, s) >= disk[s]
ArchiveCatchesUp ==
    \A m \in Machines : <>[](CaughtUp(m) \/ Wedged(m))

\* The machines share one log: each commit enters it once, in its author's
\* order, and none is lost on the way.
Shared == INSTANCE SharedArchive WITH
              log <- remote,
              pending <- [m \in Machines |-> Beyond(clone[m].head, remote)],
              seen <- [m \in Machines |-> Common(clone[m].head, remote)]
ImplementsShared == Shared!Spec

=============================================================================
