-------------------------- MODULE Deletion_proofs --------------------------
(***************************************************************************)
(* What a delete takes away, and what its receipt promises, for any        *)
(* sessions, any requests and any bounds.                                  *)
(***************************************************************************)
EXTENDS Deletion, FiniteSetTheorems, TLAPS

(* What is assumed of the parameters.                                      *)
Parameters ==
    /\ IsFiniteSet(Sessions) /\ Legacy \subseteq Sessions /\ MaxLines \in Nat
    /\ Requests \subseteq [who : SUBSET Sessions, id : BOOLEAN, most : Nat]

Asks == [who : SUBSET Sessions, id : BOOLEAN, most : Nat]

Cmds == [pc : {"idle", "plan", "prompt", "match", "remove", "retained", "evict"}, ask : Asks,
         how : {"prompt", "yes", "yes --files"},
         live : SUBSET Sessions, kept : SUBSET Sessions, done : SUBSET Sessions,
         todo : SUBSET Sessions, born : SUBSET Sessions, back : SUBSET Sessions]

Passes == [pc : {"idle", "files"}, dead : SUBSET Sessions, walk : SUBSET Sessions,
           todo : SUBSET Sessions, who : SUBSET Sessions, read : Nat, told : SUBSET Sessions]

(* The types of what the arguments below speak of.                         *)
Typed ==
    /\ files \in [Sessions -> Nat] /\ row \in [Sessions -> Nat]
    /\ retained \subseteq Sessions /\ vault \subseteq Sessions /\ tombs \subseteq Sessions
    /\ told \subseteq Sessions /\ clean \subseteq Sessions
    /\ cmd \in Cmds /\ pass \in Passes

Deciding == cmd.pc \in {"prompt", "match", "remove", "retained", "evict"}

(* A transcript that matches now matched when the plan was made, or is new. *)
Foreseen ==
    cmd.pc # "idle" =>
        \A s \in matchSessions(cmd.ask) : s \in cmd.born \/ s \in cmd.live

(* What is to be removed was foreseen, and the guards were passed.         *)
Guarded ==
    /\ Deciding => MayAsk(cmd.ask, cmd.live, cmd.kept) /\ MayProceed(cmd.live, cmd.how)
    /\ cmd.pc = "remove" => cmd.todo \subseteq cmd.born \cup cmd.live

AgreedInv == Typed /\ Foreseen /\ Guarded /\ ~unasked

----------------------------------------------------------------------------

(* The first state is well typed.                                          *)
LEMMA TypedInit == ASSUME Parameters, Init PROVE Typed
<1>1. PICK had \in SUBSET Sessions :
        /\ row = [s \in Sessions |-> IF s \notin had THEN 0
                                     ELSE IF files[s] > 0 THEN files[s] ELSE 1]
        /\ vault = had /\ retained = had \ Present
  BY DEF Init
<1>2. files \in [Sessions -> Nat] /\ row \in [Sessions -> Nat]
  BY <1>1 DEF Init, Parameters
<1>3. NoCmd \in Cmds /\ Rest \in Passes
  BY DEF NoCmd, Rest, Cmds, Passes, Asks
<1> QED
  BY <1>1, <1>2, <1>3 DEF Init, Typed

(* Every step keeps the types.                                             *)
LEMMA TypedStep == ASSUME Parameters, Typed, Next PROVE Typed'
<1> USE DEF Typed, index, bounds, history
<1> NoCmd \in Cmds /\ Rest \in Passes
  BY DEF NoCmd, Rest, Cmds, Passes, Asks
<1>1. ASSUME NEW s \in Sessions, Write(s) PROVE Typed'
  <2>1. cmd' \in Cmds
    BY <1>1 DEF Write, Noted, Cmds
  <2> QED
    BY <1>1, <2>1 DEF Write
<1>2. ASSUME NEW s \in Sessions, Archive(s) PROVE Typed'
  BY <1>2 DEF Archive
<1>3. CASE BeginPass
  <2>1. pass' \in Passes
    BY <1>3 DEF BeginPass, Passes, Rest, LoadTombstones, Present, Parameters
  <2> QED
    BY <1>3, <2>1 DEF BeginPass
<1>4. ASSUME NEW s \in Sessions, Read(s) PROVE Typed'
  <2>1. pass' \in Passes
    BY <1>4 DEF Read, Passes
  <2> QED
    BY <1>4, <2>1 DEF Read
<1>5. CASE Commit
  <2>1. pass' \in Passes
    BY <1>5 DEF Commit, Passes
  <2>2. row' \in [Sessions -> Nat] /\ vault' \subseteq Sessions
    BY <1>5 DEF Commit, Passes
  <2> QED
    BY <1>5, <2>1, <2>2 DEF Commit
<1>6. CASE Settle
  <2>1. row' \in [Sessions -> Nat] /\ vault' \subseteq Sessions /\ retained' \subseteq Sessions
    BY <1>6 DEF Settle
  <2>2. clean' \subseteq Sessions
    BY <1>6 DEF Settle
  <2> QED
    BY <1>6, <2>1, <2>2 DEF Settle
<1>7. ASSUME NEW ask \in Requests, NEW how \in {"prompt", "yes", "yes --files"}, PlanLive(ask, how)
      PROVE Typed'
  <2>1. ask \in Asks /\ matchSessions(ask) \subseteq Sessions
    BY DEF Parameters, Asks, matchSessions, Present
  <2>2. cmd' \in Cmds
    BY <1>7, <2>1 DEF PlanLive, Cmds, NoCmd
  <2> QED
    BY <1>7, <2>2 DEF PlanLive
<1>8. CASE PlanRetained
  <2>1. RetainedMatches(cmd.ask) \subseteq Sessions /\ Present \subseteq Sessions
    BY DEF RetainedMatches, Present
  <2>2. cmd' \in Cmds
    BY <1>8, <2>1 DEF PlanRetained, Cmds
  <2> QED
    BY <1>8, <2>2 DEF PlanRetained
<1>9. ASSUME NEW ok \in BOOLEAN, Answer(ok) PROVE Typed'
  <2>1. cmd' \in Cmds
    BY <1>9 DEF Answer, Cmds
  <2> QED
    BY <1>9, <2>1 DEF Answer
<1>10. CASE Match
  <2>1. matchSessions(cmd.ask) \subseteq Sessions
    BY DEF matchSessions, Present
  <2>2. cmd' \in Cmds
    BY <1>10, <2>1 DEF Match, Cmds
  <2> QED
    BY <1>10, <2>2 DEF Match
<1>11. ASSUME NEW s \in Sessions, RemoveFile(s) PROVE Typed'
  <2>1. cmd' \in Cmds
    <3>1. CASE files[s] = 0
      BY <1>11, <3>1 DEF RemoveFile
    <3>2. CASE files[s] # 0
      <4>1. cmd' = [cmd EXCEPT !.todo = @ \ {s}, !.back = @ \ {s}]
        BY <1>11, <3>2, Zenon DEF RemoveFile
      <4> QED
        BY <4>1 DEF Cmds
    <3> QED
      BY <3>1, <3>2
  <2> QED
    BY <1>11, <2>1 DEF RemoveFile
<1>12. ASSUME NEW s \in Sessions, Evict(s) PROVE Typed'
  <2>1. cmd' \in Cmds
    BY <1>12 DEF Evict, Cmds
  <2> QED
    BY <1>12, <2>1 DEF Evict
<1>13. CASE TombstoneLive
  <2>1. cmd' \in Cmds /\ tombs' \subseteq Sessions
    BY <1>13 DEF TombstoneLive, Cmds
  <2> QED
    BY <1>13, <2>1 DEF TombstoneLive
<1>14. CASE TombstoneIDs
  <2>1. cmd' \in Cmds /\ tombs' \subseteq Sessions
    BY <1>14 DEF TombstoneIDs, Cmds
  <2> QED
    BY <1>14, <2>1 DEF TombstoneIDs
<1>15. CASE Receipt
  <2>1. told' \subseteq Sessions
    BY <1>15 DEF Receipt, Cmds
  <2> QED
    BY <1>15, <2>1 DEF Receipt
<1>16. CASE Kill
  BY <1>16 DEF Kill
<1> QED
  BY <1>1, <1>2, <1>3, <1>4, <1>5, <1>6, <1>7, <1>8, <1>9, <1>10, <1>11, <1>12, <1>13, <1>14,
     <1>15, <1>16 DEF Next
----------------------------------------------------------------------------
(* What goes.                                                              *)

(* A session an id was asked to address is the only one addressed.         *)
LEMMA AskedForOne ==
    ASSUME Parameters, NEW L \in SUBSET Sessions, NEW K \in SUBSET Sessions,
           NEW ask \in Asks, MayAsk(ask, L, K), ask.id, NEW s \in L
    PROVE  L \cup K = {s}
<1>1. IsFiniteSet(L \cup K)
  BY FS_Subset DEF Parameters
<1>2. PICK x : L \cup K = {x}
  BY <1>1, FS_Singleton DEF MayAsk
<1> QED
  BY <1>2

(* What matches after a transcript grew matched before, or was empty.      *)
LEMMA GrowthMatchesLess ==
    ASSUME Typed, NEW s \in Sessions, NEW ask \in Asks, Write(s)
    PROVE  \A x \in Sessions : files'[x] > 0 /\ Matches(ask, x, files'[x]) =>
               x \in matchSessions(ask) \/ (x = s /\ files[s] = 0)
<1> SUFFICES ASSUME NEW x \in Sessions, files'[x] > 0, Matches(ask, x, files'[x])
             PROVE  x \in matchSessions(ask) \/ (x = s /\ files[s] = 0)
  OBVIOUS
<1>1. CASE x = s
  <2>1. files'[x] = files[x] + 1 /\ files[x] \in Nat /\ ask.most \in Nat
    BY <1>1 DEF Write, Typed, Asks
  <2> QED
    BY <1>1, <2>1 DEF Matches, matchSessions, Present
<1>2. CASE x # s
  <2>1. files'[x] = files[x]
    BY <1>2 DEF Write, Typed
  <2> QED
    BY <2>1 DEF Matches, matchSessions, Present
<1> QED
  BY <1>1, <1>2

(* A file that goes leaves the others' matches as they were.               *)
LEMMA RemovalMatchesLess ==
    ASSUME Typed, NEW s \in Sessions, files' = [files EXCEPT ![s] = 0], NEW ask
    PROVE  \A x \in Sessions : files'[x] > 0 /\ Matches(ask, x, files'[x]) =>
               x \in matchSessions(ask)
BY DEF Typed, Matches, matchSessions, Present

LEMMA AgreedInit == ASSUME Parameters, Init PROVE AgreedInv
BY TypedInit DEF Init, AgreedInv, Foreseen, Guarded, Deciding, NoCmd

(* No step removes what was not agreed to.                                 *)
LEMMA AgreedStep == ASSUME Parameters, AgreedInv, [Next]_vars PROVE AgreedInv'
<1> USE DEF AgreedInv
<1>1. CASE UNCHANGED vars
  BY <1>1 DEF vars, index, bounds, history, Typed, Foreseen, Guarded, Deciding, matchSessions,
              Present, Matches, MayAsk, MayProceed
<1>2. CASE Next
  <2>1. Typed'
    BY <1>2, TypedStep
  <2>a. cmd.ask \in Asks /\ cmd.live \in SUBSET Sessions /\ cmd.kept \in SUBSET Sessions
    BY DEF Typed, Cmds
  <2>b. matchSessions(cmd.ask)' = {x \in Sessions : files'[x] > 0 /\ Matches(cmd.ask, x, files[x])'}
    BY DEF matchSessions, Present
  <2> SUFFICES Foreseen' /\ Guarded' /\ ~unasked'
    BY <2>1
  <2>2. ASSUME NEW s \in Sessions, Write(s) PROVE Foreseen' /\ Guarded' /\ ~unasked'
    <3>1. cmd' = cmd \/ (files[s] = 0 /\ cmd' = [cmd EXCEPT !.born = @ \cup {s}, !.back = @ \cup {s}])
      BY <2>2 DEF Write, Noted, Typed
    <3>2. /\ cmd'.pc = cmd.pc /\ cmd'.ask = cmd.ask /\ cmd'.live = cmd.live /\ cmd'.how = cmd.how
          /\ cmd'.kept = cmd.kept /\ cmd'.todo = cmd.todo /\ cmd.born \subseteq cmd'.born
      BY <3>1 DEF Typed, Cmds
    <3>3. cmd.pc # "idle" /\ files[s] = 0 => s \in cmd'.born
      <4>1. cmd.pc # "idle" /\ files[s] = 0 =>
              cmd' = [cmd EXCEPT !.born = @ \cup {s}, !.back = @ \cup {s}]
        BY <2>2 DEF Write, Noted
      <4> QED
        BY <4>1 DEF Typed, Cmds
    <3>4. Foreseen'
      BY <2>2, <2>a, <2>b, <3>2, <3>3, GrowthMatchesLess DEF Foreseen
    <3>5. Guarded' /\ ~unasked'
      BY <2>2, <3>2 DEF Write, Guarded, Deciding, MayAsk, MayProceed
    <3> QED
      BY <3>4, <3>5
  <2>3. ASSUME NEW s \in Sessions, Archive(s) PROVE Foreseen' /\ Guarded' /\ ~unasked'
    <3>1. Foreseen'
      BY <2>3, <2>b, RemovalMatchesLess DEF Archive, Foreseen
    <3> QED
      BY <2>3, <3>1 DEF Archive, history, Guarded, Deciding, MayAsk, MayProceed
  <2>4. ASSUME UNCHANGED <<files, cmd, unasked>> PROVE Foreseen' /\ Guarded' /\ ~unasked'
    BY <2>4 DEF Foreseen, Guarded, Deciding, matchSessions, Present, Matches, MayAsk, MayProceed
  <2>5. ASSUME cmd' = NoCmd, unasked' = unasked PROVE Foreseen' /\ Guarded' /\ ~unasked'
    BY <2>5 DEF Foreseen, Guarded, Deciding, NoCmd
  <2>6. ASSUME NEW ask \in Requests, NEW how \in {"prompt", "yes", "yes --files"}, PlanLive(ask, how)
        PROVE  Foreseen' /\ Guarded' /\ ~unasked'
    <3>1. cmd'.pc = "plan" /\ cmd'.ask = ask /\ cmd'.live = matchSessions(ask) /\ files' = files
      BY <2>6 DEF PlanLive, NoCmd
    <3>2. matchSessions(ask)' = matchSessions(ask)
      BY <3>1 DEF matchSessions, Present, Matches
    <3> QED
      BY <2>6, <3>1, <3>2 DEF PlanLive, history, Foreseen, Guarded, Deciding
  <2>7. CASE PlanRetained
    <3> DEFINE kept == RetainedMatches(cmd.ask) \ cmd.live
    <3>1. CASE MayAsk(cmd.ask, cmd.live, kept) /\ MayProceed(cmd.live, cmd.how)
      <4>1. /\ cmd'.pc \in {"prompt", "match"} /\ cmd'.kept = kept /\ cmd'.ask = cmd.ask
            /\ cmd'.live = cmd.live /\ cmd'.how = cmd.how /\ cmd'.born = cmd.born
        BY <2>7, <3>1 DEF PlanRetained, Typed, Cmds
      <4>2. files' = files /\ unasked' = unasked /\ cmd.pc = "plan"
        BY <2>7 DEF PlanRetained, history
      <4>3. Foreseen'
        BY <4>1, <4>2 DEF Foreseen, matchSessions, Present, Matches
      <4>4. Guarded'
        BY <3>1, <4>1 DEF Guarded, Deciding, MayAsk, MayProceed
      <4> QED
        BY <4>2, <4>3, <4>4
    <3>2. CASE ~(MayAsk(cmd.ask, cmd.live, kept) /\ MayProceed(cmd.live, cmd.how))
      <4>1. cmd' = NoCmd /\ unasked' = unasked
        BY <2>7, <3>2 DEF PlanRetained, history
      <4> QED
        BY <4>1, <2>5
    <3> QED
      BY <3>1, <3>2
  <2>8. ASSUME files' = files, unasked' = unasked, Deciding,
               cmd'.pc \in {"match", "retained", "evict"},
               cmd'.ask = cmd.ask, cmd'.live = cmd.live, cmd'.kept = cmd.kept,
               cmd'.how = cmd.how, cmd'.born = cmd.born
        PROVE  Foreseen' /\ Guarded' /\ ~unasked'
    <3>1. Foreseen'
      BY <2>8 DEF Foreseen, Deciding, matchSessions, Present, Matches
    <3>2. Guarded'
      BY <2>8 DEF Guarded, Deciding, MayAsk, MayProceed
    <3> QED
      BY <2>8, <3>1, <3>2
  <2>9. ASSUME NEW ok \in BOOLEAN, Answer(ok) PROVE Foreseen' /\ Guarded' /\ ~unasked'
    <3>1. CASE ok
      BY <2>9, <3>1, <2>8 DEF Answer, history, Deciding, Typed, Cmds
    <3>2. CASE ~ok
      BY <2>9, <3>2, <2>5 DEF Answer, history
    <3> QED
      BY <3>1, <3>2
  <2>10. CASE Match
    <3>1. /\ cmd'.pc = "remove" /\ cmd'.todo = matchSessions(cmd.ask) /\ cmd.pc = "match"
          /\ cmd'.ask = cmd.ask /\ cmd'.live = cmd.live /\ cmd'.kept = cmd.kept
          /\ cmd'.how = cmd.how /\ cmd'.born = cmd.born
          /\ files' = files /\ unasked' = unasked
      BY <2>10 DEF Match, history, Typed, Cmds
    <3>2. matchSessions(cmd.ask)' = matchSessions(cmd.ask)
      BY <3>1 DEF matchSessions, Present, Matches
    <3>3. Foreseen' /\ cmd'.todo \subseteq cmd'.born \cup cmd'.live
      BY <3>1, <3>2 DEF Foreseen, matchSessions, Present, Matches
    <3>4. Guarded'
      BY <3>1, <3>3 DEF Guarded, Deciding, MayAsk, MayProceed
    <3> QED
      BY <3>1, <3>3, <3>4
  <2>11. ASSUME NEW s \in Sessions, RemoveFile(s) PROVE Foreseen' /\ Guarded' /\ ~unasked'
    <3>1. CASE files[s] = 0
      BY <2>11, <3>1, <2>5 DEF RemoveFile
    <3>2. CASE files[s] # 0
      <4>1. s \in cmd.born \/ s \in cmd.live
        BY <2>11 DEF RemoveFile, Guarded
      <4>2. s \in cmd.live => Agreed(s)
        <5> SUFFICES ASSUME s \in cmd.live PROVE Agreed(s)
          OBVIOUS
        <5>1. MayAsk(cmd.ask, cmd.live, cmd.kept) /\ cmd.how # "yes"
          BY <2>11 DEF RemoveFile, Guarded, Deciding, MayProceed
        <5>2. cmd.ask.id => cmd.live \cup cmd.kept = {s}
          BY <5>1, <2>a, AskedForOne
        <5> QED
          BY <5>1, <5>2 DEF Agreed
      <4>3. ~unasked'
        BY <2>11, <3>2, <4>1, <4>2 DEF RemoveFile
      <4>4. /\ cmd'.pc = "remove" /\ cmd'.todo \subseteq cmd.todo /\ cmd.pc = "remove"
            /\ cmd'.ask = cmd.ask /\ cmd'.live = cmd.live /\ cmd'.kept = cmd.kept
            /\ cmd'.how = cmd.how /\ cmd'.born = cmd.born
        BY <2>11, <3>2 DEF RemoveFile, Typed, Cmds
      <4>5. Foreseen'
        BY <2>11, <2>b, <4>4, RemovalMatchesLess DEF RemoveFile, Foreseen
      <4>6. Guarded'
        BY <4>4 DEF Guarded, Deciding, MayAsk, MayProceed
      <4> QED
        BY <4>3, <4>5, <4>6
    <3> QED
      BY <3>1, <3>2
  <2>12. ASSUME NEW s \in Sessions, Evict(s) PROVE Foreseen' /\ Guarded' /\ ~unasked'
    BY <2>12, <2>8 DEF Evict, history, Deciding, Typed, Cmds
  <2>13. CASE TombstoneLive
    BY <2>13, <2>8 DEF TombstoneLive, history, Deciding, Typed, Cmds
  <2>14. CASE TombstoneIDs
    BY <2>14, <2>8 DEF TombstoneIDs, history, Deciding, Typed, Cmds
  <2>15. CASE Receipt
    BY <2>15, <2>5 DEF Receipt
  <2>16. CASE Kill
    BY <2>16, <2>5 DEF Kill, history
  <2>17. ASSUME NEW s \in Sessions, Read(s) PROVE Foreseen' /\ Guarded' /\ ~unasked'
    BY <2>17, <2>4 DEF Read, history
  <2>18. CASE BeginPass
    BY <2>18, <2>4 DEF BeginPass, history
  <2>19. CASE Commit
    BY <2>19, <2>4 DEF Commit, history
  <2>20. CASE Settle
    BY <2>20, <2>4 DEF Settle
  <2> QED
    BY <1>2, <2>1, <2>2, <2>3, <2>6, <2>7, <2>9, <2>10, <2>11, <2>12, <2>13, <2>14, <2>15, <2>16,
       <2>17, <2>18, <2>19, <2>20 DEF Next
<1> QED
  BY <1>1, <1>2

(* A transcript is removed only when the plan the user agreed to had it,   *)
(* alone if an id was named, or when it came up after that plan, for any   *)
(* requests and sessions (runDelete, lifecycle.Delete).                    *)
THEOREM NothingUnasked ==
    ASSUME Parameters PROVE Spec => []OnlyWhatWasAgreed
<1>1. Init => AgreedInv
  BY AgreedInit
<1>2. AgreedInv /\ [Next]_vars => AgreedInv'
  BY AgreedStep
<1>3. AgreedInv => OnlyWhatWasAgreed
  BY DEF AgreedInv, OnlyWhatWasAgreed
<1> QED
  BY <1>1, <1>2, <1>3, PTL DEF Spec
----------------------------------------------------------------------------
(* What stays away.                                                        *)

(* A copy in the vault has a row, as has what a pass is about to copy.     *)
Backed ==
    /\ \A s \in vault : row[s] > 0
    /\ pass.who # {} => pass.read > 0

(* What a receipt named, and what one is about to name, is tombstoned.     *)
Entombed ==
    /\ told \subseteq tombs
    /\ cmd.pc \in {"retained", "evict"} => cmd.done \subseteq tombs
    /\ cmd.pc = "evict" => cmd.kept \subseteq tombs

(* It has no transcript, unless one came up under the command.             *)
Emptied ==
    /\ \A s \in told : files[s] = 0
    /\ cmd.pc \in {"remove", "retained", "evict"} =>
           \A s \in cmd.done \ cmd.back : files[s] = 0 \/ (cmd.pc = "remove" /\ s \in cmd.todo)
    /\ Deciding => \A s \in cmd.kept \ cmd.back : files[s] = 0

(* A pass knows of the receipts given before it began: it neither saw nor  *)
(* reads what they name.                                                   *)
Followed ==
    /\ clean \subseteq told /\ \A s \in clean : row[s] = 0
    /\ pass.pc = "files" => /\ clean \subseteq pass.told /\ pass.told \subseteq pass.dead
                            /\ pass.told \cap pass.walk = {}
    /\ pass.pc = "idle" => pass.who = {}
    /\ pass.who \cap pass.dead = {}

ReceiptInv == Typed /\ Backed /\ Entombed /\ Emptied /\ Followed

LEMMA ReceiptInit == ASSUME Parameters, Init PROVE ReceiptInv
<1>1. PICK had \in SUBSET Sessions :
        /\ row = [s \in Sessions |-> IF s \notin had THEN 0
                                     ELSE IF files[s] > 0 THEN files[s] ELSE 1]
        /\ vault = had /\ retained = had \ Present
  BY DEF Init
<1>2. Backed
  BY <1>1 DEF Init, Backed, Rest
<1>3. Entombed /\ Emptied /\ Followed
  BY DEF Init, Entombed, Emptied, Followed, Deciding, NoCmd, Rest
<1> QED
  BY <1>2, <1>3, TypedInit DEF ReceiptInv

(* The copies stay behind the index: a copy is made with its row, and a    *)
(* row goes with its copy.                                                 *)
LEMMA BackedStep == ASSUME Typed, Backed, Next PROVE Backed'
<1> USE DEF Backed, index, history, bounds
<1>1. ASSUME UNCHANGED <<row, vault, pass>> PROVE Backed'
  BY <1>1
<1>2. ASSUME NEW s \in Sessions, Write(s) \/ Archive(s) PROVE Backed'
  BY <1>2, <1>1 DEF Write, Archive
<1>3. CASE BeginPass
  BY <1>3 DEF BeginPass, Rest
<1>4. ASSUME NEW s \in Sessions, Read(s) PROVE Backed'
  <2>1. row' = row /\ vault' = vault
    BY <1>4 DEF Read
  <2>2. pass'.who # {} => pass'.read > 0
    BY <1>4 DEF Read, Typed, Passes
  <2> QED
    BY <2>1, <2>2
<1>5. CASE Commit
  <2>1. pass'.who = {} /\ pass.who \subseteq Sessions /\ pass.read > 0
    BY <1>5 DEF Commit, Typed, Passes
  <2>2. ASSUME NEW s \in vault' PROVE row'[s] > 0
    BY <1>5, <2>1, <2>2 DEF Commit, Typed
  <2> QED
    BY <2>1, <2>2
<1>6. CASE Settle
  <2>1. pass'.who = {}
    BY <1>6 DEF Settle, Rest
  <2>2. ASSUME NEW s \in vault' PROVE row'[s] > 0
    BY <1>6, <2>2 DEF Settle, Typed
  <2> QED
    BY <2>1, <2>2
<1>7. ASSUME NEW s \in Sessions, Evict(s) PROVE Backed'
  BY <1>7 DEF Evict
<1>8. ASSUME NEW ask \in Requests, NEW how \in {"prompt", "yes", "yes --files"}, PlanLive(ask, how)
      PROVE  Backed'
  BY <1>8, <1>1 DEF PlanLive
<1>9. CASE PlanRetained
  BY <1>9, <1>1 DEF PlanRetained
<1>10. ASSUME NEW ok \in BOOLEAN, Answer(ok) PROVE Backed'
  BY <1>10, <1>1 DEF Answer
<1>11. CASE Match
  BY <1>11, <1>1 DEF Match
<1>12. ASSUME NEW s \in Sessions, RemoveFile(s) PROVE Backed'
  <2>1. UNCHANGED <<row, vault, pass>>
    BY <1>12, Zenon DEF RemoveFile
  <2> QED
    BY <2>1, <1>1
<1>13. CASE TombstoneLive \/ TombstoneIDs
  BY <1>13, <1>1 DEF TombstoneLive, TombstoneIDs
<1>14. CASE Receipt \/ Kill
  BY <1>14, <1>1 DEF Receipt, Kill
<1> QED
  BY <1>2, <1>3, <1>4, <1>5, <1>6, <1>7, <1>8, <1>9, <1>10, <1>11, <1>12, <1>13, <1>14 DEF Next

(* A command tombstones before its receipt names.                          *)
LEMMA EntombedStep == ASSUME Typed, Entombed, Next PROVE Entombed'
<1> USE DEF Entombed, index, history, bounds
<1>1. ASSUME UNCHANGED <<tombs, told, cmd>> PROVE Entombed'
  BY <1>1
<1>2. ASSUME tombs' = tombs, told' = told, cmd'.pc \notin {"retained", "evict"} PROVE Entombed'
  BY <1>2
<1>3. ASSUME NEW s \in Sessions, Write(s) PROVE Entombed'
  <2>1. cmd'.pc = cmd.pc /\ cmd'.done = cmd.done /\ cmd'.kept = cmd.kept
    BY <1>3 DEF Write, Noted, Typed, Cmds
  <2> QED
    BY <1>3, <2>1 DEF Write
<1>4. ASSUME NEW s \in Sessions, Archive(s) \/ Read(s) PROVE Entombed'
  BY <1>4, <1>1 DEF Archive, Read
<1>5. CASE BeginPass \/ Commit \/ Settle
  BY <1>5, <1>1 DEF BeginPass, Commit, Settle
<1>6. ASSUME NEW ask \in Requests, NEW how \in {"prompt", "yes", "yes --files"}, PlanLive(ask, how)
      PROVE  Entombed'
  BY <1>6, <1>2 DEF PlanLive, NoCmd
<1>7. CASE PlanRetained
  <2>1. cmd'.pc \in {"idle", "prompt", "match"}
    BY <1>7 DEF PlanRetained, NoCmd, Typed, Cmds
  <2> QED
    BY <1>7, <2>1, <1>2 DEF PlanRetained
<1>8. ASSUME NEW ok \in BOOLEAN, Answer(ok) PROVE Entombed'
  <2>1. cmd'.pc \in {"idle", "match"}
    BY <1>8 DEF Answer, NoCmd, Typed, Cmds
  <2> QED
    BY <1>8, <2>1, <1>2 DEF Answer
<1>9. CASE Match
  <2>1. cmd'.pc = "remove"
    BY <1>9 DEF Match, Typed, Cmds
  <2> QED
    BY <1>9, <2>1, <1>2 DEF Match
<1>10. ASSUME NEW s \in Sessions, RemoveFile(s) PROVE Entombed'
  <2>1. tombs' = tombs /\ told' = told
    BY <1>10, Zenon DEF RemoveFile
  <2>2. cmd' = NoCmd \/ cmd' = [cmd EXCEPT !.todo = @ \ {s}, !.back = @ \ {s}]
    BY <1>10, Zenon DEF RemoveFile
  <2>3. cmd'.pc \in {"idle", "remove"}
    <3>1. cmd.pc = "remove"
      BY <1>10, Zenon DEF RemoveFile
    <3>2. CASE cmd' = NoCmd
      BY <3>2 DEF NoCmd
    <3>3. CASE cmd' = [cmd EXCEPT !.todo = @ \ {s}, !.back = @ \ {s}]
      BY <3>1, <3>3 DEF Typed, Cmds
    <3> QED
      BY <2>2, <3>2, <3>3
  <2> QED
    BY <2>1, <2>3, <1>2
<1>11. ASSUME NEW s \in Sessions, Evict(s) PROVE Entombed'
  BY <1>11 DEF Evict, Typed, Cmds
<1>12. CASE TombstoneLive
  BY <1>12 DEF TombstoneLive, Typed, Cmds
<1>13. CASE TombstoneIDs
  BY <1>13 DEF TombstoneIDs, Typed, Cmds
<1>14. CASE Receipt
  BY <1>14 DEF Receipt, NoCmd
<1>15. CASE Kill
  BY <1>15, <1>2 DEF Kill, NoCmd
<1> QED
  BY <1>3, <1>4, <1>5, <1>6, <1>7, <1>8, <1>9, <1>10, <1>11, <1>12, <1>13, <1>14, <1>15 DEF Next

(* What a command planned or removed has no transcript, unless an agent    *)
(* wrote under it.                                                         *)
LEMMA EmptiedStep == ASSUME Parameters, Typed, Emptied, Next PROVE Emptied'
<1> USE DEF Emptied, index, history, bounds
<1>a. NoCmd.pc = "idle"
  BY DEF NoCmd
<1>1. ASSUME UNCHANGED <<files, told, cmd>> PROVE Emptied'
  BY <1>1 DEF Deciding
<1>2. ASSUME UNCHANGED <<files, told>>, cmd'.pc \in {"idle", "plan"} PROVE Emptied'
  BY <1>2 DEF Deciding
<1>3. ASSUME NEW s \in Sessions, Write(s) PROVE Emptied'
  <2>1. /\ cmd'.pc = cmd.pc /\ cmd'.done = cmd.done /\ cmd'.kept = cmd.kept
        /\ cmd'.todo = cmd.todo /\ cmd.back \subseteq cmd'.back
        /\ s \in cmd'.back \/ cmd.pc = "idle" \/ files[s] > 0
    <3>1. CASE cmd.pc = "idle" \/ files[s] > 0
      BY <1>3, <3>1 DEF Write, Noted
    <3>2. CASE ~(cmd.pc = "idle" \/ files[s] > 0)
      <4>1. cmd' = [cmd EXCEPT !.born = @ \cup {s}, !.back = @ \cup {s}]
        BY <1>3, <3>2 DEF Write, Noted
      <4> QED
        BY <4>1 DEF Typed, Cmds
    <3> QED
      BY <3>1, <3>2
  <2>2. \A x \in Sessions \ {s} : files'[x] = files[x]
    BY <1>3 DEF Write, Typed
  <2>3. \A x \in told' : files'[x] = 0
    BY <1>3, <2>2 DEF Write, Typed
  <2>4. cmd.done \subseteq Sessions /\ cmd.kept \subseteq Sessions
    BY DEF Typed, Cmds
  <2>5. ASSUME cmd.pc \in {"remove", "retained", "evict"}, NEW x \in cmd.done \ cmd'.back
        PROVE  files'[x] = 0 \/ (cmd.pc = "remove" /\ x \in cmd.todo)
    BY <2>1, <2>2, <2>4, <2>5
  <2>6. ASSUME Deciding, NEW x \in cmd.kept \ cmd'.back PROVE files'[x] = 0
    BY <2>1, <2>2, <2>4, <2>6 DEF Deciding
  <2> QED
    BY <2>1, <2>3, <2>5, <2>6 DEF Deciding
<1>4. ASSUME NEW s \in Sessions, Archive(s) PROVE Emptied'
  <2>1. \A x \in Sessions : files[x] = 0 => files'[x] = 0
    BY <1>4 DEF Archive, Typed
  <2> QED
    BY <1>4, <2>1 DEF Archive, Typed, Cmds, Deciding
<1>5. ASSUME NEW s \in Sessions, Read(s) PROVE Emptied'
  BY <1>5, <1>1 DEF Read
<1>6. CASE BeginPass \/ Commit \/ Settle
  BY <1>6, <1>1 DEF BeginPass, Commit, Settle
<1>7. ASSUME NEW ask \in Requests, NEW how \in {"prompt", "yes", "yes --files"}, PlanLive(ask, how)
      PROVE  Emptied'
  BY <1>7, <1>2 DEF PlanLive, NoCmd
<1>8. CASE PlanRetained
  <2>1. files' = files /\ told' = told
    BY <1>8 DEF PlanRetained
  <2>2. CASE cmd' = NoCmd
    BY <2>1, <2>2, <1>a, <1>2
  <2>3. CASE cmd' # NoCmd
    <3> DEFINE kept == RetainedMatches(cmd.ask) \ cmd.live
    <3>1. cmd' = [cmd EXCEPT !.pc = IF cmd.how = "prompt" THEN "prompt" ELSE "match",
                             !.kept = kept, !.back = @ \cup (kept \cap Present)]
      BY <1>8, <2>3 DEF PlanRetained
    <3>2. cmd'.pc \in {"prompt", "match"} /\ kept \cap Present \subseteq cmd'.back /\ cmd'.kept = kept
      BY <3>1 DEF Typed, Cmds
    <3>3. kept \subseteq Sessions
      BY DEF Typed, RetainedMatches
    <3>4. \A x \in kept \ cmd'.back : files[x] = 0
      BY <3>2, <3>3 DEF Present, Typed
    <3> QED
      BY <2>1, <3>2, <3>4
  <2> QED
    BY <2>2, <2>3
<1>9. ASSUME NEW ok \in BOOLEAN, Answer(ok) PROVE Emptied'
  <2>1. CASE ok
    BY <1>9, <2>1 DEF Answer, Deciding, Typed, Cmds
  <2>2. CASE ~ok
    BY <1>9, <2>2, <1>2, <1>a DEF Answer
  <2> QED
    BY <2>1, <2>2
<1>10. CASE Match
  <2>1. /\ cmd'.pc = "remove" /\ cmd'.done = cmd'.todo /\ cmd'.kept = cmd.kept
        /\ cmd'.back = cmd.back
    BY <1>10 DEF Match, Typed, Cmds
  <2> QED
    BY <1>10, <2>1 DEF Match, Deciding
<1>11. ASSUME NEW s \in Sessions, RemoveFile(s) PROVE Emptied'
  <2>1. files' = [files EXCEPT ![s] = 0] /\ told' = told
    BY <1>11, Zenon DEF RemoveFile
  <2>2. \A x \in Sessions : files'[x] = (IF x = s THEN 0 ELSE files[x])
    BY <2>1 DEF Typed
  <2>3. \A x \in told' : files'[x] = 0
    BY <2>1, <2>2 DEF Typed
  <2>4. CASE files[s] = 0
    <3>1. cmd' = NoCmd
      BY <1>11, <2>4, Zenon DEF RemoveFile
    <3> QED
      BY <2>3, <3>1, <1>a DEF Deciding
  <2>5. CASE files[s] # 0
    <3>1. cmd' = [cmd EXCEPT !.todo = @ \ {s}, !.back = @ \ {s}] /\ cmd.pc = "remove"
      BY <1>11, <2>5, Zenon DEF RemoveFile
    <3>2. /\ cmd'.pc = "remove" /\ cmd'.done = cmd.done /\ cmd'.kept = cmd.kept
          /\ cmd'.todo = cmd.todo \ {s} /\ cmd'.back = cmd.back \ {s}
      BY <3>1 DEF Typed, Cmds
    <3>3. \A x \in cmd.done \ cmd'.back : files'[x] = 0 \/ x \in cmd'.todo
      BY <2>2, <3>1, <3>2 DEF Typed, Cmds
    <3>4. \A x \in cmd.kept \ cmd'.back : files'[x] = 0
      BY <2>2, <3>1, <3>2 DEF Typed, Cmds, Deciding
    <3> QED
      BY <2>3, <3>2, <3>3, <3>4
  <2> QED
    BY <2>4, <2>5
<1>12. ASSUME NEW s \in Sessions, Evict(s) PROVE Emptied'
  BY <1>12 DEF Evict, Typed, Cmds, Deciding
<1>13. CASE TombstoneLive
  BY <1>13 DEF TombstoneLive, Typed, Cmds, Deciding
<1>14. CASE TombstoneIDs
  BY <1>14 DEF TombstoneIDs, Typed, Cmds, Deciding
<1>15. CASE Receipt
  BY <1>15, <1>a DEF Receipt, Deciding
<1>16. CASE Kill
  BY <1>16, <1>2, <1>a DEF Kill
<1> QED
  BY <1>3, <1>4, <1>5, <1>6, <1>7, <1>8, <1>9, <1>10, <1>11, <1>12, <1>13, <1>14, <1>15, <1>16
     DEF Next

(* A pass that begins after a receipt walks and reads nothing of what it   *)
(* names, and prunes its row.                                              *)
LEMMA FollowedStep ==
    ASSUME Parameters, Typed, Entombed, Emptied, Followed, Next PROVE Followed'
<1> USE DEF Followed, index, history, bounds
<1>1. ASSUME UNCHANGED <<row, pass, told, clean>> PROVE Followed'
  BY <1>1
<1>2. ASSUME NEW s \in Sessions, Write(s) PROVE Followed'
  BY <1>2 DEF Write
<1>3. ASSUME NEW s \in Sessions, Archive(s) PROVE Followed'
  BY <1>3, <1>1 DEF Archive
<1>4. CASE BeginPass
  <2>1. /\ pass'.pc = "files" /\ pass'.who = {} /\ pass'.told = told
        /\ pass'.dead = LoadTombstones /\ pass'.walk = Present
    BY <1>4 DEF BeginPass, Rest
  <2>2. told \subseteq LoadTombstones /\ told \cap Present = {}
    BY DEF Entombed, Emptied, LoadTombstones, Present, Typed
  <2> QED
    BY <1>4, <2>1, <2>2 DEF BeginPass
<1>5. ASSUME NEW s \in Sessions, Read(s) PROVE Followed'
  <2>1. /\ pass'.pc = "files" /\ pass'.told = pass.told /\ pass'.dead = pass.dead
        /\ pass'.walk = pass.walk /\ pass.pc = "files"
    BY <1>5 DEF Read, Typed, Passes
  <2>2. pass'.who \cap pass'.dead = {}
    BY <1>5 DEF Read, Typed, Passes
  <2> QED
    BY <1>5, <2>1, <2>2 DEF Read
<1>6. CASE Commit
  <2>1. pass.pc = "files"
    BY <1>6 DEF Commit, Typed, Passes
  <2>2. /\ pass'.pc = "files" /\ pass'.told = pass.told /\ pass'.dead = pass.dead
        /\ pass'.walk = pass.walk /\ pass'.who = {}
    BY <1>6, <2>1 DEF Commit, Typed, Passes
  <2>3. \A s \in clean : row'[s] = row[s]
    BY <1>6, <2>1 DEF Commit, Typed
  <2> QED
    BY <1>6, <2>1, <2>2, <2>3 DEF Commit
<1>7. CASE Settle
  <2>1. pass'.pc = "idle" /\ pass'.who = {} /\ told' = told
    BY <1>7 DEF Settle, Rest
  <2>2. ASSUME NEW s \in clean' PROVE row'[s] = 0
    <3>1. s \in Sessions /\ s \in pass.dead /\ s \notin pass.walk
      BY <1>7, <2>2 DEF Settle, Typed
    <3> QED
      BY <1>7, <3>1 DEF Settle, Typed
  <2>3. clean' \subseteq told'
    BY <1>7 DEF Settle
  <2> QED
    BY <2>1, <2>2, <2>3
<1>8. ASSUME NEW s \in Sessions, RemoveFile(s) PROVE Followed'
  <2>1. UNCHANGED <<row, pass, told, clean>>
    BY <1>8, Zenon DEF RemoveFile
  <2> QED
    BY <2>1, <1>1
<1>9. ASSUME NEW s \in Sessions, Evict(s) PROVE Followed'
  BY <1>9, <1>1 DEF Evict
<1>10. ASSUME NEW ask \in Requests, NEW how \in {"prompt", "yes", "yes --files"}, PlanLive(ask, how)
       PROVE  Followed'
  BY <1>10, <1>1 DEF PlanLive
<1>11. CASE PlanRetained
  BY <1>11, <1>1 DEF PlanRetained
<1>12. ASSUME NEW ok \in BOOLEAN, Answer(ok) PROVE Followed'
  BY <1>12, <1>1 DEF Answer
<1>13. CASE Match \/ TombstoneLive \/ TombstoneIDs \/ Kill
  BY <1>13, <1>1 DEF Match, TombstoneLive, TombstoneIDs, Kill
<1>14. CASE Receipt
  BY <1>14 DEF Receipt
<1> QED
  BY <1>2, <1>3, <1>4, <1>5, <1>6, <1>7, <1>8, <1>9, <1>10, <1>11, <1>12, <1>13, <1>14 DEF Next

(* After the first whole pass that follows a receipt, neither transcript   *)
(* nor row nor copy is left of what it names and nobody wrote since, for   *)
(* any requests and sessions (runDelete, lifecycle.Delete, retainOrphans). *)
THEOREM NothingLeft ==
    ASSUME Parameters PROVE Spec => []ReceiptHolds
<1>1. Init => ReceiptInv
  BY ReceiptInit
<1>2. ReceiptInv /\ [Next]_vars => ReceiptInv'
  <2> SUFFICES ASSUME ReceiptInv, [Next]_vars PROVE ReceiptInv'
    OBVIOUS
  <2>1. CASE Next
    BY <2>1, TypedStep, BackedStep, EntombedStep, EmptiedStep, FollowedStep DEF ReceiptInv
  <2>2. CASE UNCHANGED vars
    BY <2>2 DEF vars, index, history, bounds, ReceiptInv, Typed, Backed, Entombed, Emptied,
                Followed, Deciding
  <2> QED
    BY <2>1, <2>2
<1>3. ReceiptInv => ReceiptHolds
  BY DEF ReceiptInv, ReceiptHolds, Typed, Backed, Emptied, Followed
<1> QED
  BY <1>1, <1>2, <1>3, PTL DEF Spec

----------------------------------------------------------------------------
(* Types, and where a row's copy is.                                       *)

(* A row is kept as a copy or tombstoned, and what is kept as the only     *)
(* copy has a row; an eviction takes the copies of what is tombstoned.     *)
Shown ==
    /\ files \in [Sessions -> 0 .. MaxLines] /\ row \in [Sessions -> 0 .. MaxLines]
    /\ pass.who # {} => pass.read \in 1 .. MaxLines
    /\ \A s \in retained : row[s] > 0
    /\ \A s \in Sessions : row[s] > 0 => s \in tombs \cup vault
    /\ cmd.pc = "evict" => cmd.todo \subseteq tombs

LEMMA ShownInit == ASSUME Parameters, MaxLines > 0, Init PROVE Shown
<1>1. PICK had \in SUBSET Sessions :
        /\ row = [s \in Sessions |-> IF s \notin had THEN 0
                                     ELSE IF files[s] > 0 THEN files[s] ELSE 1]
        /\ vault = had /\ retained = had \ Present
  BY DEF Init
<1>2. files \in [Sessions -> 0 .. MaxLines] /\ row \in [Sessions -> 0 .. MaxLines]
  BY <1>1 DEF Init, Parameters
<1>3. \A s \in Sessions : (s \in had => row[s] > 0) /\ (row[s] > 0 => s \in had)
  BY <1>1, <1>2
<1> QED
  BY <1>1, <1>2, <1>3 DEF Init, Shown, NoCmd, Rest

LEMMA ShownStep == ASSUME Parameters, Typed, Entombed, Shown, Next PROVE Shown'
<1> USE DEF Shown, index, history, bounds
<1>a. NoCmd.pc = "idle" /\ MaxLines \in Nat
  BY DEF NoCmd, Parameters
<1>1. ASSUME UNCHANGED <<files, row, retained, vault, tombs, pass>>, cmd'.pc # "evict"
      PROVE  Shown'
  BY <1>1
<1>2. ASSUME UNCHANGED <<files, row, retained, vault, tombs, cmd>>,
             pass'.who # {} => pass'.read \in 1 .. MaxLines
      PROVE  Shown'
  BY <1>2
<1>3. ASSUME NEW s \in Sessions, Write(s) PROVE Shown'
  <2>1. files' \in [Sessions -> 0 .. MaxLines]
    BY <1>3, <1>a DEF Write
  <2>2. cmd'.pc = cmd.pc /\ cmd'.todo = cmd.todo
    BY <1>3 DEF Write, Noted, Typed, Cmds
  <2> QED
    BY <1>3, <2>1, <2>2 DEF Write
<1>4. ASSUME NEW s \in Sessions, Archive(s) PROVE Shown'
  <2>1. files' \in [Sessions -> 0 .. MaxLines]
    BY <1>4, <1>a DEF Archive
  <2> QED
    BY <1>4, <2>1 DEF Archive
<1>5. CASE BeginPass
  <2>1. pass'.who = {}
    BY <1>5 DEF BeginPass, Rest
  <2> QED
    BY <1>5, <2>1, <1>2 DEF BeginPass
<1>6. ASSUME NEW s \in Sessions, Read(s) PROVE Shown'
  <2>1. files[s] \in 0 .. MaxLines
    OBVIOUS
  <2>2. pass'.who # {} => pass'.read \in 1 .. MaxLines
    BY <1>6, <1>a, <2>1 DEF Read, Typed, Passes
  <2> QED
    BY <1>6, <2>2, <1>2 DEF Read
<1>7. CASE Commit
  <2>1. pass'.who = {} /\ pass.read \in 1 .. MaxLines /\ pass.who \subseteq Sessions
    BY <1>7 DEF Commit, Typed, Passes
  <2>2. \A s \in Sessions : row'[s] = IF s \in pass.who THEN pass.read ELSE row[s]
    BY <1>7 DEF Commit
  <2>3. row' \in [Sessions -> 0 .. MaxLines]
    BY <1>7, <1>a, <2>1 DEF Commit
  <2>4. \A s \in Sessions : row[s] > 0 => row'[s] > 0
    BY <2>1, <2>2
  <2>5. \A s \in retained' : row'[s] > 0
    BY <1>7, <2>4 DEF Commit, Typed
  <2>6. \A s \in Sessions : row'[s] > 0 => s \in tombs' \cup vault'
    BY <1>7, <2>2 DEF Commit
  <2> QED
    BY <1>7, <2>1, <2>3, <2>5, <2>6 DEF Commit
<1>8. CASE Settle
  <2>1. PICK pruned \in SUBSET Sessions :
          /\ row' = [s \in Sessions |-> IF s \in pruned THEN 0 ELSE row[s]]
          /\ vault' = vault \ pruned
          /\ \A s \in retained' : row[s] > 0 /\ s \notin pruned /\ s \in Sessions
    BY <1>8 DEF Settle, Typed
  <2>2. row' \in [Sessions -> 0 .. MaxLines]
    BY <1>a, <2>1
  <2>3. \A s \in retained' : row'[s] > 0
    BY <2>1
  <2>4. \A s \in Sessions : row'[s] > 0 => s \in tombs \cup vault'
    BY <2>1
  <2>5. pass'.who = {}
    BY <1>8 DEF Settle, Rest
  <2> QED
    BY <1>8, <2>2, <2>3, <2>4, <2>5 DEF Settle
<1>9. ASSUME NEW ask \in Requests, NEW how \in {"prompt", "yes", "yes --files"}, PlanLive(ask, how)
      PROVE  Shown'
  BY <1>9, <1>1 DEF PlanLive, NoCmd
<1>10. CASE PlanRetained
  <2>1. cmd'.pc # "evict"
    BY <1>10, <1>a DEF PlanRetained, Typed, Cmds
  <2> QED
    BY <1>10, <2>1, <1>1 DEF PlanRetained
<1>11. ASSUME NEW ok \in BOOLEAN, Answer(ok) PROVE Shown'
  <2>1. cmd'.pc # "evict"
    BY <1>11, <1>a DEF Answer, Typed, Cmds
  <2> QED
    BY <1>11, <2>1, <1>1 DEF Answer
<1>12. CASE Match
  <2>1. cmd'.pc # "evict"
    BY <1>12 DEF Match, Typed, Cmds
  <2> QED
    BY <1>12, <2>1, <1>1 DEF Match
<1>13. ASSUME NEW s \in Sessions, RemoveFile(s) PROVE Shown'
  <2>1. UNCHANGED <<row, retained, vault, tombs, pass>> /\ files' = [files EXCEPT ![s] = 0]
    BY <1>13, Zenon DEF RemoveFile
  <2>2. files' \in [Sessions -> 0 .. MaxLines]
    BY <1>a, <2>1
  <2>3. cmd.pc = "remove" /\ cmd' \in {NoCmd, [cmd EXCEPT !.todo = @ \ {s}, !.back = @ \ {s}]}
    BY <1>13, Zenon DEF RemoveFile
  <2>4. cmd'.pc # "evict"
    BY <1>a, <2>3 DEF Typed, Cmds
  <2> QED
    BY <2>1, <2>2, <2>4
<1>14. ASSUME NEW s \in Sessions, Evict(s) PROVE Shown'
  <2>1. s \in tombs /\ cmd.pc = "evict"
    BY <1>14 DEF Evict
  <2>2. cmd'.todo \subseteq tombs
    BY <1>14, <2>1 DEF Evict, Typed, Cmds
  <2> QED
    BY <1>14, <2>1, <2>2 DEF Evict
<1>15. CASE TombstoneLive
  <2>1. cmd'.pc = "retained" /\ tombs \subseteq tombs'
    BY <1>15 DEF TombstoneLive, Typed, Cmds
  <2> QED
    BY <1>15, <2>1 DEF TombstoneLive
<1>16. CASE TombstoneIDs
  <2>1. /\ tombs' = tombs \cup cmd.kept /\ cmd.done \subseteq tombs
        /\ cmd'.todo = cmd.done \cup cmd.kept
    BY <1>16 DEF TombstoneIDs, Entombed, Typed, Cmds
  <2> QED
    BY <1>16, <2>1 DEF TombstoneIDs
<1>17. CASE Receipt \/ Kill
  BY <1>17, <1>1, <1>a DEF Receipt, Kill
<1> QED
  BY <1>3, <1>4, <1>5, <1>6, <1>7, <1>8, <1>9, <1>10, <1>11, <1>12, <1>13, <1>14, <1>15, <1>16, <1>17
     DEF Next

(* What the index shows is in the vault until it is tombstoned, and what a *)
(* receipt names is tombstoned, whatever passes ran between the command's  *)
(* steps (evictVaultCopies comes after lifecycle.TombstoneIDs).            *)
THEOREM TypesHold ==
    ASSUME Parameters, MaxLines > 0 PROVE Spec => []TypeOK
<1>1. Init => ReceiptInv /\ Shown
  BY ReceiptInit, ShownInit
<1>2. ReceiptInv /\ Shown /\ [Next]_vars => (ReceiptInv /\ Shown)'
  <2> SUFFICES ASSUME ReceiptInv, Shown, [Next]_vars PROVE (ReceiptInv /\ Shown)'
    OBVIOUS
  <2>1. CASE Next
    BY <2>1, TypedStep, BackedStep, EntombedStep, EmptiedStep, FollowedStep, ShownStep DEF ReceiptInv
  <2>2. CASE UNCHANGED vars
    BY <2>2 DEF vars, index, history, bounds, ReceiptInv, Typed, Backed, Entombed, Emptied,
                Followed, Deciding, Shown
  <2> QED
    BY <2>1, <2>2
<1>3. ReceiptInv /\ Shown => TypeOK
  BY DEF ReceiptInv, Typed, Entombed, Followed, Shown, TypeOK
<1> QED
  BY <1>1, <1>2, <1>3, PTL DEF Spec
=============================================================================
