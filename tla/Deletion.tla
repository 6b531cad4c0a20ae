------------------------------ MODULE Deletion ------------------------------
(***************************************************************************)
(* The delete command: it plans, shows the plan, asks, and then removes    *)
(* transcript files, tombstones their sessions and evicts rawclaw's own    *)
(* copies, while agents write, their tools purge and an index pass runs.   *)
(*                                                                         *)
(* A transcript is its number of lines.  A request is the sessions its id  *)
(* or project addresses, whether it named an id, and --max-messages (0 is  *)
(* unset).  The index pass is ProjectIndex's, cut down to one pass at a    *)
(* time, one row per session, and the vault copy made with the row.        *)
(***************************************************************************)
EXTENDS Naturals, FiniteSets

CONSTANTS Sessions,
          Requests,    \* the deletes a user may ask for: [who, id, most]
          Legacy,      \* the sessions of the tombstone sidecar of old versions
          MaxLines,    \* bound: the lines of a transcript
          MaxWrites,   \* bound: agents' writes and tools' purges
          MaxDeletes,  \* bound: delete commands
          MaxKills     \* bound: delete commands killed

VARIABLES files,    \* the lines of a session's transcript, 0 when there is none
          row,      \* the lines its row in the index shows, 0 when there is none
          retained, \* the sessions whose row says rawclaw has the only copy
          vault,    \* the sessions rawclaw holds a copy of
          tombs,    \* the tombstone sidecar
          pass,     \* the index pass
          cmd,      \* the delete command
          writes, deletes, kills,
          told,     \* history: the sessions a receipt named and nobody wrote since
          clean,    \* history: those of them a whole index pass followed
          unasked,  \* history: a file was removed that the user had not agreed to
          bare      \* history: a file was removed on --yes without --files

index == <<row, retained>>
history == <<told, clean, unasked, bare>>
bounds == <<writes, deletes, kills>>
vars == <<files, index, vault, tombs, pass, cmd, bounds, history>>

Rest == [pc |-> "idle", dead |-> {}, walk |-> {}, todo |-> {}, who |-> {}, read |-> 0, told |-> {}]
NoCmd == [pc |-> "idle", ask |-> [who |-> {}, id |-> FALSE, most |-> 0], how |-> "prompt",
          live |-> {}, kept |-> {}, done |-> {}, todo |-> {},
          born |-> {}, back |-> {}]

Present == {s \in Sessions : files[s] > 0}

Init ==
    /\ files \in [Sessions -> 0 .. MaxLines]
    /\ \E had \in SUBSET Sessions :
           /\ row = [s \in Sessions |-> IF s \notin had THEN 0
                                        ELSE IF files[s] > 0 THEN files[s] ELSE 1]
           /\ vault = had /\ retained = had \ Present
    /\ tombs = {}
    /\ pass = Rest /\ cmd = NoCmd
    /\ writes = 0 /\ deletes = 0 /\ kills = 0
    /\ told = {} /\ clean = {} /\ unasked = FALSE /\ bare = FALSE

----------------------------------------------------------------------------
(* The world. *)

\* A command that runs notes what appears under it.
Noted(s) ==
    IF cmd.pc = "idle" \/ files[s] > 0 THEN cmd
    ELSE [cmd EXCEPT !.born = @ \cup {s}, !.back = @ \cup {s}]

Write(s) ==
    /\ writes < MaxWrites /\ writes' = writes + 1
    /\ files[s] < MaxLines /\ files' = [files EXCEPT ![s] = @ + 1]
    /\ cmd' = Noted(s)
    /\ told' = told \ {s} /\ clean' = clean \ {s}
    /\ UNCHANGED <<index, vault, tombs, pass, deletes, kills, unasked, bare>>

\* `archive' moves a transcript aside; the tool that owns it purges one.
Archive(s) ==
    /\ writes < MaxWrites /\ writes' = writes + 1
    /\ files[s] > 0 /\ files' = [files EXCEPT ![s] = 0]
    /\ UNCHANGED <<index, vault, tombs, pass, cmd, deletes, kills, history>>

----------------------------------------------------------------------------
(* The index pass. *)

LoadTombstones == tombs \cup Legacy

BeginPass ==
    /\ pass.pc = "idle"
    /\ pass' = [Rest EXCEPT !.pc = "files", !.dead = LoadTombstones, !.walk = Present,
                            !.todo = Present, !.told = told]
    /\ UNCHANGED <<files, index, vault, tombs, cmd, bounds, history>>

Read(s) ==
    /\ pass.pc = "files" /\ s \in pass.todo /\ pass.who = {}
    /\ LET p == [pass EXCEPT !.todo = @ \ {s}] IN
       pass' = IF s \in pass.dead \/ files[s] \in {0, row[s]} THEN p
               ELSE [p EXCEPT !.who = {s}, !.read = files[s]]
    /\ UNCHANGED <<files, index, vault, tombs, cmd, bounds, history>>

Commit ==
    /\ pass.who # {}
    /\ row' = [s \in Sessions |-> IF s \in pass.who THEN pass.read ELSE row[s]]
    /\ vault' = vault \cup pass.who
    /\ pass' = [pass EXCEPT !.who = {}, !.read = 0]
    /\ UNCHANGED <<files, retained, tombs, cmd, bounds, history>>

\* Retention, with the walk and the tombstones the pass began with.
Settle ==
    /\ pass.pc = "files" /\ pass.todo = {} /\ pass.who = {}
    /\ LET gone == {s \in Sessions : row[s] > 0} \ pass.walk
           pruned == gone \cap pass.dead
       IN  /\ row' = [s \in Sessions |-> IF s \in pruned THEN 0 ELSE row[s]]
           /\ retained' = (retained \cup gone) \ (pass.walk \cup pruned)
           /\ vault' = vault \ pruned
    /\ clean' = clean \cup (pass.told \cap told)
    /\ pass' = Rest
    /\ UNCHANGED <<files, tombs, cmd, bounds, told, unasked, bare>>

----------------------------------------------------------------------------
(* The delete command. *)

Matches(ask, s, n) == s \in ask.who /\ (ask.most = 0 \/ n <= ask.most)

matchSessions(ask) == {s \in Present : Matches(ask, s, files[s])}

\* Only the sidecar of old versions is asked which rows are dead already.
RetainedMatches(ask) == {s \in retained \ Legacy : Matches(ask, s, row[s])}

\* The dry run, over the live transcripts.
PlanLive(ask, how) ==
    /\ cmd.pc = "idle" /\ deletes < MaxDeletes /\ deletes' = deletes + 1
    /\ cmd' = [NoCmd EXCEPT !.pc = "plan", !.ask = ask, !.how = how,
                            !.live = matchSessions(ask)]
    /\ UNCHANGED <<files, index, vault, tombs, pass, writes, kills, history>>

\* Mutant: an id may address several sessions.
MayAskForMany(ask, live, kept) == live \cup kept # {}

\* An id must address one session; --yes covers files with --files alone.
MayAsk(ask, live, kept) == live \cup kept # {} /\ (ask.id => Cardinality(live \cup kept) = 1)
MayProceed(live, how) == live = {} \/ how # "yes"

\* The rows whose transcript is gone, less the sessions matched live.  The
\* plan is shown, and refused, asked about, or taken as agreed.
PlanRetained ==
    /\ cmd.pc = "plan"
    /\ LET kept == RetainedMatches(cmd.ask) \ cmd.live IN
       cmd' = IF ~MayAsk(cmd.ask, cmd.live, kept) THEN NoCmd
              ELSE IF ~MayProceed(cmd.live, cmd.how) THEN NoCmd
              ELSE [cmd EXCEPT !.pc = IF cmd.how = "prompt" THEN "prompt" ELSE "match",
                               !.kept = kept, !.back = @ \cup (kept \cap Present)]
    /\ UNCHANGED <<files, index, vault, tombs, pass, bounds, history>>

Answer(ok) ==
    /\ cmd.pc = "prompt"
    /\ cmd' = IF ok THEN [cmd EXCEPT !.pc = "match"] ELSE NoCmd
    /\ UNCHANGED <<files, index, vault, tombs, pass, bounds, history>>

\* The delete proper matches again.
Match ==
    /\ cmd.pc = "match"
    /\ LET now == matchSessions(cmd.ask) IN
       cmd' = [cmd EXCEPT !.pc = "remove", !.done = now, !.todo = now]
    /\ UNCHANGED <<files, index, vault, tombs, pass, bounds, history>>

\* The user agreed to this file: the plan showed it, an id addressed nothing
\* else, and --yes came with --files.
Agreed(s) ==
    /\ s \in cmd.live
    /\ cmd.ask.id => cmd.live \cup cmd.kept = {s}
    /\ cmd.how # "yes"

\* A file that vanished since the match ends the command.
RemoveFile(s) ==
    /\ cmd.pc = "remove" /\ s \in cmd.todo
    /\ files' = [files EXCEPT ![s] = 0]
    /\ IF files[s] = 0
       THEN cmd' = NoCmd /\ UNCHANGED <<unasked, bare>>
       ELSE /\ cmd' = [cmd EXCEPT !.todo = @ \ {s}, !.back = @ \ {s}]
            /\ unasked' = (unasked \/ (s \notin cmd.born /\ ~Agreed(s)))
            /\ bare' = (bare \/ cmd.how = "yes")
    /\ UNCHANGED <<index, vault, tombs, pass, bounds, told, clean>>

TombstoneLive ==
    /\ cmd.pc = "remove" /\ cmd.todo = {}
    /\ tombs' = tombs \cup cmd.done
    /\ cmd' = [cmd EXCEPT !.pc = "retained"]
    /\ UNCHANGED <<files, index, vault, pass, bounds, history>>

\* Mutant: the sessions without a transcript are only evicted.
EvictIDs ==
    /\ cmd.pc = "retained"
    /\ cmd' = [cmd EXCEPT !.pc = "evict", !.todo = cmd.done \cup cmd.kept]
    /\ UNCHANGED <<files, index, vault, tombs, pass, bounds, history>>

TombstoneIDs ==
    /\ cmd.pc = "retained"
    /\ tombs' = tombs \cup cmd.kept
    /\ cmd' = [cmd EXCEPT !.pc = "evict", !.todo = cmd.done \cup cmd.kept]
    /\ UNCHANGED <<files, index, vault, pass, bounds, history>>

Evict(s) ==
    /\ cmd.pc = "evict" /\ s \in cmd.todo
    /\ vault' = vault \ {s}
    /\ cmd' = [cmd EXCEPT !.todo = @ \ {s}]
    /\ UNCHANGED <<files, index, tombs, pass, bounds, history>>

\* What came back since it was planned or removed is not the receipt's.
Receipt ==
    /\ cmd.pc = "evict" /\ cmd.todo = {}
    /\ told' = told \cup ((cmd.done \cup cmd.kept) \ cmd.back)
    /\ cmd' = NoCmd
    /\ UNCHANGED <<files, index, vault, tombs, pass, bounds, clean, unasked, bare>>

Kill ==
    /\ cmd.pc # "idle" /\ kills < MaxKills /\ kills' = kills + 1
    /\ cmd' = NoCmd
    /\ UNCHANGED <<files, index, vault, tombs, pass, writes, deletes, history>>

Next ==
    \/ \E s \in Sessions : Write(s) \/ Archive(s)
    \/ BeginPass \/ (\E s \in Sessions : Read(s)) \/ Commit \/ Settle
    \/ \E ask \in Requests, how \in {"prompt", "yes", "yes --files"} : PlanLive(ask, how)
    \/ PlanRetained \/ (\E ok \in BOOLEAN : Answer(ok)) \/ Match
    \/ \E s \in Sessions : RemoveFile(s) \/ Evict(s)
    \/ TombstoneLive \/ TombstoneIDs \/ Receipt \/ Kill

Spec == Init /\ [][Next]_vars

----------------------------------------------------------------------------
(* Properties. *)

(* What the index shows has a copy in the vault until it is tombstoned,    *)
(* and a receipt names only what is tombstoned (evictVaultCopies runs last).*)
TypeOK ==
    /\ files \in [Sessions -> 0 .. MaxLines] /\ row \in [Sessions -> 0 .. MaxLines]
    /\ retained \subseteq {s \in Sessions : row[s] > 0}
    /\ {s \in Sessions : row[s] > 0} \ tombs \subseteq vault
    /\ clean \subseteq told /\ told \subseteq tombs

(* Once an index pass that began after the receipt is over, nothing of a   *)
(* session the receipt names is left, unless an agent wrote it again: no   *)
(* transcript, no row, no copy of rawclaw's, whatever passes and purges    *)
(* ran beside the command (cmd_lifecycle.go: runDelete's receipt).         *)
ReceiptHolds == \A s \in clean : files[s] = 0 /\ row[s] = 0 /\ s \notin vault

(* A transcript is removed only when the plan the user agreed to had it,   *)
(* alone if an id was named, or when it came up after that plan, whatever  *)
(* happened between the plan and the removal (runDelete's guards).         *)
OnlyWhatWasAgreed == ~unasked

(* "--yes alone covers retained-only deletes; a delete that removes        *)
(* original transcript files additionally requires --files"                *)
(* (cmd_lifecycle.go: newDeleteCmd).  It does not hold: see the README.    *)
BareYesKeepsFiles == ~bare
=============================================================================
