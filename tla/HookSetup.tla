----------------------------- MODULE HookSetup -----------------------------
(***************************************************************************)
(* rawclaw setup and setup --eject: a hook script and the entries that     *)
(* point at it, put into the settings files of the agents found on the     *)
(* machine, one agent after another.  The settings belong to the user: they *)
(* are read, merged and renamed into place from one shared temporary name, *)
(* while the user, the agent or a second setup may be rewriting them, and  *)
(* any command may be killed between two system calls.                     *)
(*                                                                         *)
(* A settings file is the scripts its own entries name, the number of the  *)
(* user's edit it holds (0: nothing of the user's) and whether it parses.  *)
(***************************************************************************)
EXTENDS Naturals, Sequences

CONSTANTS Agents,    \* the agents found, a sequence of names in the order setup takes them
          MaxRuns,   \* bound: setup commands ever started
          MaxEdits,  \* bound: edits of settings by the user
          MaxKills   \* bound: commands killed

VARIABLES scripts,   \* per agent: the hook scripts on disk
          config,    \* per agent: its settings file, or NoFile
          tmp,       \* per agent: the file at its temporary name, or NoFile
          run,       \* the commands
          wanted,    \* history, per agent: the last edit the user saved
          ejected,   \* history, per agent: scripts an eject removed, not written since
          lost,      \* history, per agent: settings were written from a stale copy or two at once
          edits, kills

files == <<scripts, config, tmp>>
bounds == <<edits, kills>>
vars == <<files, run, wanted, ejected, lost, bounds>>

Runs == 1 .. MaxRuns
Found == {Agents[i] : i \in 1 .. Len(Agents)}
NoFile == [own |-> {}, user |-> 0, ok |-> TRUE, there |-> FALSE]
Blank == [NoFile EXCEPT !.there = TRUE]
Garbled == [Blank EXCEPT !.ok = FALSE]

(* What each command does for each agent, in order.                        *)
\* Mutant: the old script goes before the settings that name it are rewritten.
InstallHooksEarly == <<"script", "unlegacy", "read", "open", "fill", "rename">>

InstallHooks == <<"script", "read", "open", "fill", "rename", "unlegacy">>
InstallAntigravity == <<"script", "read", "open", "fill", "rename", "unlegacy">>
InstallGoose == <<"script", "read", "open", "fill", "rename">>
InstallSingle == <<"script">>
EjectHooks == <<"unscript", "unlegacy", "read">>
EjectAntigravity == <<"unscript", "unlegacy", "read">>
EjectGoose == <<"unscript", "unlink">>
EjectSingle == <<"unscript">>

Install(a) == CASE a \in {"claude", "codex"} -> InstallHooks
                [] a = "antigravity" -> InstallAntigravity
                [] a = "goose" -> InstallGoose
                [] OTHER -> InstallSingle
Eject(a) == CASE a \in {"claude", "codex"} -> EjectHooks
              [] a = "antigravity" -> EjectAntigravity
              [] a = "goose" -> EjectGoose
              [] OTHER -> EjectSingle
Plan(kind, a) == IF kind = "install" THEN Install(a) ELSE Eject(a)

NotStarted == [kind |-> "none", at |-> 0, todo |-> <<>>, read |-> NoFile, data |-> NoFile, fd |-> "none"]
Ended == [NotStarted EXCEPT !.kind = "ended"]

\* Nothing installed, or an install of an older release with its second script.
Init ==
    /\ scripts \in [Found -> {{}, {"prime", "tagqueue"}}]
    /\ wanted \in [Found -> {0, 1}]
    /\ config = [a \in Found |->
                   IF scripts[a] = {} /\ wanted[a] = 0 THEN NoFile
                   ELSE [Blank EXCEPT !.own = scripts[a], !.user = wanted[a]]]
    /\ \A a \in Found \ {"claude", "codex"} : scripts[a] = {} /\ wanted[a] = 0
    /\ tmp = [a \in Found |-> NoFile]
    /\ run = [r \in Runs |-> NotStarted]
    /\ ejected = [a \in Found |-> {}]
    /\ lost = [a \in Found |-> FALSE]
    /\ edits = 1 /\ kills = 0

----------------------------------------------------------------------------
(* The commands.                                                           *)

Running(r) == run[r].kind \in {"install", "eject"}
Agent(r) == Agents[run[r].at]
At(r, step) == Running(r) /\ run[r].todo # <<>> /\ Head(run[r].todo) = step

\* The rest of this agent's steps, or the next agent's, or the end.
Onto(x, todo) ==
    IF todo # <<>> THEN [x EXCEPT !.todo = todo]
    ELSE IF x.at = Len(Agents) THEN Ended
    ELSE [x EXCEPT !.at = @ + 1, !.todo = Plan(x.kind, Agents[x.at + 1]), !.fd = "none"]
Go(r) == run' = [run EXCEPT ![r] = Onto(@, Tail(@.todo))]
Stop(r) == run' = [run EXCEPT ![r] = Ended]

StartInstall(r) ==
    /\ run[r] = NotStarted /\ \A q \in 1 .. (r - 1) : run[q] # NotStarted
    /\ run' = [run EXCEPT ![r] = [@ EXCEPT !.kind = "install", !.at = 1,
                                           !.todo = Plan("install", Agents[1])]]
    /\ UNCHANGED <<files, wanted, ejected, lost, bounds>>

StartEject(r) ==
    /\ run[r] = NotStarted /\ \A q \in 1 .. (r - 1) : run[q] # NotStarted
    /\ run' = [run EXCEPT ![r] = [@ EXCEPT !.kind = "eject", !.at = 1,
                                           !.todo = Plan("eject", Agents[1])]]
    /\ UNCHANGED <<files, wanted, ejected, lost, bounds>>

WriteScript(r) ==
    /\ At(r, "script")
    /\ scripts' = [scripts EXCEPT ![Agent(r)] = @ \cup {"prime"}]
    /\ ejected' = [ejected EXCEPT ![Agent(r)] = @ \ {"prime"}]
    /\ Go(r)
    /\ UNCHANGED <<config, tmp, wanted, lost, bounds>>

RemoveScript(r) ==
    /\ At(r, "unscript")
    /\ scripts' = [scripts EXCEPT ![Agent(r)] = @ \ {"prime"}]
    /\ ejected' = [ejected EXCEPT ![Agent(r)] = @ \cup {"prime"}]
    /\ Go(r)
    /\ UNCHANGED <<config, tmp, wanted, lost, bounds>>

RemoveLegacyScript(r) ==
    /\ At(r, "unlegacy")
    /\ scripts' = [scripts EXCEPT ![Agent(r)] = @ \ {"tagqueue"}]
    /\ ejected' = [ejected EXCEPT ![Agent(r)] = IF run[r].kind = "eject" THEN @ \cup {"tagqueue"} ELSE @]
    /\ Go(r)
    /\ UNCHANGED <<config, tmp, wanted, lost, bounds>>

Readable(c) == c.ok

\* Mutant: the event is dropped, with the entries of others in it.
removeRawclawHooksAll(c) == [c EXCEPT !.own = {}, !.user = 0]

removeRawclawHooks(c) == [c EXCEPT !.own = {}]
addRawclawHooks(c) == [removeRawclawHooks(c) EXCEPT !.own = {"prime"}, !.there = TRUE]
addGooseHook(c) == [c EXCEPT !.own = @ \cup {"prime"}, !.there = TRUE]

ReadToInstall(r) ==
    /\ At(r, "read") /\ run[r].kind = "install"
    /\ LET c == config[Agent(r)]
           merged == IF Agent(r) = "goose" THEN addGooseHook(c) ELSE addRawclawHooks(c)
       IN  IF Readable(c) THEN run' = [run EXCEPT ![r] = [Onto(@, Tail(@.todo)) EXCEPT !.read = c, !.data = merged]]
           ELSE Stop(r)
    /\ UNCHANGED <<files, wanted, ejected, lost, bounds>>

\* Settings without an entry of its own are left alone; settings with nothing
\* else in them are removed.
ReadToEject(r) ==
    /\ At(r, "read") /\ run[r].kind = "eject"
    /\ LET c == config[Agent(r)]
           rest == removeRawclawHooks(c)
           todo == CASE c.own = {} -> <<>>
                     [] c.own # {} /\ rest.user = 0 -> <<"unlink">>
                     [] OTHER -> <<"open", "fill", "rename">>
       IN  IF Readable(c)
           THEN run' = [run EXCEPT ![r] = Onto([@ EXCEPT !.read = c, !.data = rest], todo)]
           ELSE Stop(r)
    /\ UNCHANGED <<files, wanted, ejected, lost, bounds>>

Others(r, a) == {q \in Runs \ {r} : Running(q) /\ Agent(q) = a}

\* The file at the temporary name is opened and truncated, whosever it is.
OpenTmp(r) ==
    /\ At(r, "open")
    /\ tmp' = [tmp EXCEPT ![Agent(r)] = Blank]
    /\ run' = [run EXCEPT ![r] = [Onto(@, Tail(@.todo)) EXCEPT !.fd = "tmp"]]
    /\ lost' = [lost EXCEPT ![Agent(r)] = @ \/ \E q \in Others(r, Agent(r)) : run[q].fd = "tmp"]
    /\ UNCHANGED <<scripts, config, wanted, ejected, bounds>>

\* Two writers of one file: what the second writes may leave a tail of the first.
Overwritten(file, data) == IF file = Blank THEN {data} ELSE {data, Garbled}

FillTmp(r) ==
    /\ At(r, "fill")
    /\ CASE run[r].fd = "tmp" ->
              /\ \E c \in Overwritten(tmp[Agent(r)], run[r].data) : tmp' = [tmp EXCEPT ![Agent(r)] = c]
              /\ UNCHANGED <<config, lost>>
         [] run[r].fd = "config" ->
              /\ \E c \in Overwritten(config[Agent(r)], run[r].data) : config' = [config EXCEPT ![Agent(r)] = c]
              /\ lost' = [lost EXCEPT ![Agent(r)] = TRUE]
              /\ UNCHANGED tmp
         [] OTHER -> UNCHANGED <<config, tmp, lost>>
    /\ Go(r)
    /\ UNCHANGED <<scripts, wanted, ejected, bounds>>

\* The file another command has open moves with its name.
Moved(r, a) ==
    [q \in Runs |-> IF q = r \/ q \notin Others(r, a) THEN run[q]
                    ELSE [run[q] EXCEPT !.fd = CASE @ = "tmp" -> "config"
                                                 [] @ = "config" -> "gone"
                                                 [] OTHER -> @]]

Rename(r) ==
    /\ At(r, "rename")
    /\ LET a == Agent(r)
       IN  IF tmp[a] = NoFile THEN Stop(r) /\ UNCHANGED <<config, tmp, lost>>
           ELSE /\ config' = [config EXCEPT ![a] = tmp[a]]
                /\ tmp' = [tmp EXCEPT ![a] = NoFile]
                /\ run' = [Moved(r, a) EXCEPT ![r] = Onto([@ EXCEPT !.fd = "none"], Tail(@.todo))]
                /\ lost' = [lost EXCEPT ![a] = @ \/ config[a] # run[r].read]
    /\ UNCHANGED <<scripts, wanted, ejected, bounds>>

RemoveConfig(r) ==
    /\ At(r, "unlink")
    /\ config' = [config EXCEPT ![Agent(r)] = NoFile]
    /\ run' = [[q \in Runs |-> IF q \in Others(r, Agent(r)) /\ run[q].fd = "config"
                               THEN [run[q] EXCEPT !.fd = "gone"] ELSE run[q]]
               EXCEPT ![r] = Onto(@, Tail(@.todo))]
    /\ lost' = [lost EXCEPT ![Agent(r)] = @ \/ config[Agent(r)] # run[r].read]
    /\ UNCHANGED <<scripts, tmp, wanted, ejected, bounds>>

Kill(r) ==
    /\ Running(r) /\ kills < MaxKills /\ kills' = kills + 1
    /\ Stop(r)
    /\ UNCHANGED <<files, wanted, ejected, lost, edits>>

----------------------------------------------------------------------------
(* The user, in the settings setup merges into.                            *)

Edit(a) ==
    /\ a \in {"claude", "codex"} /\ edits < MaxEdits /\ edits' = edits + 1
    /\ config' = [config EXCEPT ![a] = [@ EXCEPT !.user = edits + 1, !.there = TRUE]]
    /\ wanted' = [wanted EXCEPT ![a] = edits + 1]
    /\ UNCHANGED <<scripts, tmp, run, ejected, lost, kills>>

Break(a) ==
    /\ a \in {"claude", "codex"} /\ edits < MaxEdits /\ edits' = edits + 1
    /\ config[a].there /\ config[a].ok
    /\ config' = [config EXCEPT ![a].ok = FALSE]
    /\ UNCHANGED <<scripts, tmp, run, wanted, ejected, lost, kills>>

Repair(a) ==
    /\ ~config[a].ok
    /\ config' = [config EXCEPT ![a].ok = TRUE]
    /\ UNCHANGED <<scripts, tmp, run, wanted, ejected, lost, bounds>>

Next ==
    \/ \E r \in Runs :
          \/ StartInstall(r) \/ StartEject(r) \/ WriteScript(r) \/ RemoveScript(r)
          \/ RemoveLegacyScript(r) \/ ReadToInstall(r) \/ ReadToEject(r) \/ OpenTmp(r)
          \/ FillTmp(r) \/ Rename(r) \/ RemoveConfig(r) \/ Kill(r)
    \/ \E a \in Found : Edit(a) \/ Break(a) \/ Repair(a)

Spec == Init /\ [][Next]_vars

----------------------------------------------------------------------------
(* Properties.                                                             *)

\* No entry of the settings points at a script that is not there ("an entry
\* pointing at a script that doesn't exist yet is the wrong intermediate state
\* to risk", setup.go:966), whatever is killed, refused or overtaken in between,
\* except a script that an eject removed: eject removes them before it has read
\* the settings.
EntriesResolve ==
    \A a \in Found : config[a].ok => config[a].own \subseteq scripts[a] \cup ejected[a]

\* "Every other hook ... is left untouched" (cmd_setup.go:41): the
\* settings hold the user's last edit, across installs, ejects, refusals and
\* kills, unless they were changed between a command's read and its rename, or
\* two commands had the temporary file open at once.
UserEntriesKept ==
    \A a \in Found : config[a].ok /\ ~lost[a] => config[a].user = wanted[a]

=============================================================================
