----------------------------- MODULE MCMachine -----------------------------
(***************************************************************************)
(* Machine, with one part moving in each behaviour: part says which, the    *)
(* others wait where they start.  As they share no state, their product     *)
(* would have the same reachable states of each part.                       *)
(***************************************************************************)
EXTENDS Machine, TLC

CONSTANTS s1, s2

MCSize == [i \in 1 .. MaxMessages |-> 1]
MCAgents == <<"claude", "goose">>

Hit(p, s, r, u, t, h) ==
    [project |-> p, session |-> s, root |-> r, uuid |-> u, tier |-> t, hidden |-> h]
MCHits == <<Hit("a", "s1", "s1", 1, 1, FALSE), Hit("a", "s2", "s1", 2, 2, FALSE),
            Hit("b", "s3", "s3", 1, 1, FALSE), Hit("a", "s4", "s4", 3, 1, TRUE),
            Hit("b", "s5", "s5", 4, 1, FALSE)>>

\* A delete by an id that fits both sessions, or of the thin ones.
Request(S, byId, n) == [who |-> S, id |-> byId, most |-> n]
MCSessions == {s1, s2}
MCRequests == {Request(MCSessions, TRUE, 0), Request(MCSessions, FALSE, 1)}

\* Who never comes when the prewarms are looked at, and who may not.
Absent == CHOOSE w \in Workers : TRUE
Second == CHOOSE p \in Prewarmers : TRUE
\* The first of two ingests.
First == CHOOSE i \in Ingesters : TRUE

VARIABLE part

\* A part that never moves has one initial state.
MCInit ==
    /\ part \in {"tags", "workers", "prewarms", "substrings", "setups", "upgrades", "vectorPass",
                "searches", "commands", "sessions"}
    /\ Tags!Init
    /\ Tagging!Init /\ (part \notin {"workers", "prewarms"} => ~claim.held)
    /\ Substrings!Init /\ (part # "substrings" => messages = {})
    /\ Setup!Init /\ (part # "setups" => \A a \in DOMAIN wanted : wanted[a] = 0 /\ scripts[a] = {})
    /\ Upgrades!Init /\ (part # "upgrades" => latest = 1 /\ best = 0 /\ ~old.there)
    /\ Vectors!Init /\ (part # "vectorPass" => rows = {})
    /\ Searches!Init
    /\ Deletes!Init
    /\ IF part = "commands" THEN files[s1] > 0 /\ files[s2] < MaxLines
       ELSE files[s1] + files[s2] + row[s1] + row[s2] = 0
    /\ Ingests!Init /\ (part # "sessions" => disk.n = 0)

MCNext ==
    \* up to a tagging written to the store, or two in one second: no write is
    \* left then after which anything would be claimed again
    \/ part = "tags" /\ ~direct /\ ~blurred /\ TagsStep /\ UNCHANGED part
    \* two workers of a session; or one, on a shorter transcript, with two
    \* prewarms or one and a kill
    \/ /\ part \in {"workers", "prewarms"} /\ TaggingStep /\ UNCHANGED part
       /\ part = "workers" => UNCHANGED prewarm
       /\ part = "prewarms" =>
              /\ len' <= 2 \/ prewarm'[Second].pc = "idle"
              /\ worker'[Absent].pc = "idle"
              /\ workerKills' = 0 \/ prewarm'[Second].pc = "idle"
    \* two openers; or one at a time, once one was killed
    \/ /\ part = "substrings" /\ SubstringsStep /\ UNCHANGED part
       /\ openerCuts' = 0 \/ \E o \in Openers : opener'[o].pc = "idle"
    \/ part = "setups" /\ SetupStep /\ UNCHANGED part
    \/ part = "upgrades" /\ UpgradesStep /\ UNCHANGED part
    \/ part = "vectorPass" /\ VectorsStep /\ UNCHANGED part
    \/ part = "searches" /\ SearchesStep /\ UNCHANGED part
    \* a delete that is killed, or one beside two writes
    \/ /\ part = "commands" /\ DeletesStep /\ UNCHANGED part
       /\ deleteKills' = 0 \/ agentWrites' <= 1
    \* one ingester, twice; or two at once, undisturbed but by a writer and a delete
    \/ /\ part = "sessions" /\ IngestsStep /\ UNCHANGED part
       /\ \A i \in Ingesters \ {First} :
              /\ ingest'[i].starts <= 1
              /\ ingest'[i].starts = 0 \/ ingest'[First].starts = 1
              /\ ingest'[i].starts = 0 \/ (busy' = 0 /\ ~marker' /\ (disk'.gen = 1 \/ deleted'))

MCSpec == MCInit /\ [][MCNext]_<<part, vars>>
============================================================================
