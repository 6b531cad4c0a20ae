--------------------------- MODULE SharedArchive ---------------------------
(***************************************************************************)
(* What the shared archive promises to the machines that push to it: one   *)
(* log of commits that only grows, in which each machine's commits appear  *)
(* in the order it made them, each of them once, and each changing the     *)
(* directory of its author and nothing else.  A commit a machine has made  *)
(* stays pending until it is in the log; nothing takes it away before.     *)
(* ArchiveSync, which has clones, rebases, retries and kills, implements   *)
(* this specification.                                                     *)
(***************************************************************************)
EXTENDS Naturals, Sequences

CONSTANTS Machines,  \* the machines that share the archive
          Trees      \* what the directory of a machine may hold

VARIABLES log,       \* the commits of the remote's branch, oldest first
          pending,   \* per machine, its commits the log does not have yet
          seen       \* per machine, how much of the log its clone has

vars == <<log, pending, seen>>

\* A commit: its author, what the author's directory holds after it, and the
\* machines whose directories it takes out of the tree: none, ever.
CommitsOf(m) == [by : {m}, dir : Trees, drops : {{}}]
Commits == UNION {CommitsOf(m) : m \in Machines}

Init ==
    /\ log \in Seq(Commits)
    /\ pending \in [Machines -> Seq(Commits)]
    /\ \A m \in Machines : pending[m] \in Seq(CommitsOf(m))
    /\ seen \in [Machines -> 0 .. Len(log)]

\* m commits a change of its directory.
Commit(m) ==
    /\ UNCHANGED <<log, seen>>
    /\ \E c \in CommitsOf(m) : pending' = [pending EXCEPT ![m] = Append(@, c)]

\* All of m's pending commits enter the log, behind the whole of it.
Publish(m) ==
    /\ seen[m] = Len(log)
    /\ pending[m] # <<>>
    /\ log' = log \o pending[m]
    /\ pending' = [pending EXCEPT ![m] = <<>>]
    /\ seen' = [seen EXCEPT ![m] = Len(log')]

\* m's clone catches up with some of the log.
See(m) ==
    /\ UNCHANGED <<log, pending>>
    /\ \E n \in seen[m] .. Len(log) : seen' = [seen EXCEPT ![m] = n]

\* m's clone is cleared, which only one without pending commits may be.
Forget(m) ==
    /\ pending[m] = <<>>
    /\ seen' = [seen EXCEPT ![m] = 0]
    /\ UNCHANGED <<log, pending>>

Next == \E m \in Machines : See(m) \/ Commit(m) \/ Publish(m) \/ Forget(m)

Spec == Init /\ [][Next]_vars

=============================================================================
