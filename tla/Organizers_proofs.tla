-------------------------- MODULE Organizers_proofs --------------------------
(***************************************************************************)
(* Proofs about Organizers, and with it about Accounts, for every set of   *)
(* tabs, credentials, hands and plans.  The first half is about who is      *)
(* signed in and how often a code is counted (IInv), the second about what *)
(* the calls do to the game and report of it (WorkInv).                    *)
(***************************************************************************)
EXTENDS Organizers, WellFoundedInduction, TLAPS

-----------------------------------------------------------------------------
(* The inductive invariant, in four parts.                                 *)

Kept == Good \cup {NoOrg}

\* An organizer who signed out is in no place a sign-in is read from.
ForgottenInv ==
  forgot => hub.cfg = NoOrg /\ hub.org = NoOrg /\ file.org = NoOrg

\* Unless trials met, there is one at most, its credentials are in place or a sign-out took
\* them away, and it can fall back on credentials the engine accepted; beside it, nothing
\* but such credentials is kept.
ProvedInv ==
  ~tangled =>
    /\ file.org \in Kept
    /\ copy # NoCopy => copy \in Kept
    /\ Trying = {} => hub.cfg \in Kept /\ hub.org \in Kept
    /\ \A t \in Trying :
         /\ Trying = {t}
         /\ tries[t].prev \in Kept
         /\ \/ hub.cfg = tries[t].cred /\ hub.org = tries[t].cred
            \/ hub.cfg = NoOrg /\ hub.org = NoOrg
         /\ tries[t].outcome = "accepted" => hub.org \in Kept

AccountInv == AccountsTypeOK /\ ForgottenInv /\ ProvedInv

CallFields == {"front", "op", "org", "step", "page", "answer", "again", "counted", "crossed",
               "report"}

\* A code under way was not counted, and neither was one whose session was refused.
Sound(c) ==
  /\ DOMAIN c = CallFields
  /\ c.org \in Org \cup {NoOrg}
  /\ ~tangled => c.org \in Kept
  /\ c.counted \in {0, 1}
  /\ c.front = "player" => c.step # "read"
  /\ c.front = "player" /\ c.step \in {"post", "wait"} => c.counted = 0
  /\ c.front = "player" /\ c.step = "answered" /\ c.answer = "rejected" => c.counted = 0

Calls(cs) == DOMAIN cs = Hand /\ \A h \in Hand : cs[h] # NoCall => Sound(cs[h])

CallInv == Calls(call)

IInv == AccountInv /\ CallInv

-----------------------------------------------------------------------------
(* Accounts *)

LEMMA SavedType ==
  ASSUME NEW org \in Org \cup {NoOrg}, NEW session \in BOOLEAN
  PROVE  Saved(org, session) \in [org : Org \cup {NoOrg}, session : BOOLEAN]
BY DEF Saved

LEMMA StartedType ==
  ASSUME NEW f \in [org : Org \cup {NoOrg}, session : BOOLEAN]
  PROVE  Started(f) \in [cfg : Org \cup {NoOrg}, org : Org \cup {NoOrg}, session : BOOLEAN,
                         player : {"none", "good", "bad"}]
<1>1. f.org \in Org \cup {NoOrg} /\ f.session \in BOOLEAN
  OBVIOUS
<1> QED BY <1>1, AccountsAssumption, Zenon DEF Started

LEMMA HubParts ==
  ASSUME AccountsTypeOK
  PROVE  /\ hub.cfg \in Org \cup {NoOrg} /\ hub.org \in Org \cup {NoOrg}
         /\ hub.session \in BOOLEAN
         /\ file.org \in Org \cup {NoOrg} /\ file.session \in BOOLEAN
BY DEF AccountsTypeOK

LEMMA AccountsStart == AccountsInit => AccountInv
<1> SUFFICES ASSUME AccountsInit PROVE AccountInv
  OBVIOUS
<1>1. file \in [org : Org \cup {NoOrg}, session : BOOLEAN] /\ file.org \in Kept
  BY AccountsAssumption DEF AccountsInit, Kept
<1>2. AccountsTypeOK
  BY <1>1, StartedType DEF AccountsInit, AccountsTypeOK
<1>3. Trying = {}
  BY DEF AccountsInit, Trying
<1>4. hub.cfg \in Kept /\ hub.org \in Kept
  BY <1>1, AccountsAssumption DEF AccountsInit, Started, Kept
<1> QED BY <1>1, <1>2, <1>3, <1>4 DEF AccountsInit, AccountInv, ForgottenInv, ProvedInv

LEMMA Trials ==
  ASSUME AccountInv, NEW t \in Tab, tries[t] # NoTry
  PROVE  t \in Trying /\ tries[t] \in Tries
BY DEF AccountInv, AccountsTypeOK, Trying

LEMMA AccountsKeepTypes == AccountInv /\ AccountsNext => AccountsTypeOK'
<1> SUFFICES ASSUME AccountInv, AccountsNext PROVE AccountsTypeOK'
  OBVIOUS
<1> USE AccountsAssumption DEF AccountInv, AccountsTypeOK
<1>1. ASSUME NEW t \in Tab, NEW c \in Org, BeginLogin(t, c) PROVE AccountsTypeOK'
  <2>1. [cred |-> c, prev |-> hub.cfg, outcome |-> "asking"] \in Tries
    BY DEF Tries
  <2> QED BY <1>1, <2>1 DEF BeginLogin
<1>2. ASSUME NEW t \in Tab, Prove(t) PROVE AccountsTypeOK'
  <2>1. \A o \in {"refused", "accepted"} : [tries[t] EXCEPT !.outcome = o] \in Tries
    BY <1>2, Trials DEF Prove, Tries
  <2> QED BY <1>2, <2>1 DEF Prove
<1>3. ASSUME NEW t \in Tab, LoginRefused(t) PROVE AccountsTypeOK'
  <2>1. tries[t].prev \in Org \cup {NoOrg}
    BY <1>3, Trials DEF LoginRefused, Tries
  <2> QED BY <1>3, <2>1 DEF LoginRefused, Restored
<1>4. ASSUME NEW t \in Tab, LoginAccepted(t) PROVE AccountsTypeOK'
  BY <1>4, HubParts, SavedType DEF LoginAccepted
<1>5. OrganizerLogout => AccountsTypeOK'
  <2> SUFFICES ASSUME OrganizerLogout PROVE AccountsTypeOK'
    OBVIOUS
  <2>1. file' \in [org : Org \cup {NoOrg}, session : BOOLEAN]
    BY HubParts, SavedType DEF OrganizerLogout
  <2>2. forgot' \in BOOLEAN
    BY DEF OrganizerLogout
  <2> QED BY <2>1, <2>2 DEF OrganizerLogout
<1>6. PlayerLogin => AccountsTypeOK'
  <2> SUFFICES ASSUME PlayerLogin PROVE AccountsTypeOK'
    OBVIOUS
  <2>0. Saved(hub.org, TRUE) \in [org : Org \cup {NoOrg}, session : BOOLEAN]
    BY HubParts, SavedType, Zenon
  <2>1. file' \in [org : Org \cup {NoOrg}, session : BOOLEAN]
    BY <2>0 DEF PlayerLogin, SignIn
  <2>2. tangled' \in BOOLEAN
    BY DEF PlayerLogin, SignIn
  <2> QED BY <2>1, <2>2 DEF PlayerLogin, SignIn
<1>7. PlayerRefused => AccountsTypeOK'
  BY DEF PlayerRefused
<1>8. PlayerLogout => AccountsTypeOK'
  <2>1. Empty \in [org : Org \cup {NoOrg}, session : BOOLEAN]
    BY DEF Empty
  <2>2. PlayerLogout => file' \in [org : Org \cup {NoOrg}, session : BOOLEAN]
    BY <2>1 DEF PlayerLogout
  <2> QED BY <2>2, ZenonT(60) DEF PlayerLogout
<1>9. CatalogueRefresh => AccountsTypeOK'
  <2>1. CASE SignIn("good")
    BY <2>1, HubParts, SavedType, ZenonT(60) DEF CatalogueRefresh, SignIn
  <2>2. CASE hub' = [hub EXCEPT !.session = FALSE] /\ UNCHANGED <<file, tangled>>
    BY <2>2 DEF CatalogueRefresh
  <2> QED BY <2>1, <2>2 DEF CatalogueRefresh
<1>10. Restart => AccountsTypeOK'
  BY StartedType DEF Restart
<1>11. CliOpen => AccountsTypeOK'
  BY DEF CliOpen
<1>12. CliLogin => AccountsTypeOK'
  <2> SUFFICES ASSUME CliLogin PROVE AccountsTypeOK'
    OBVIOUS
  <2>0. copy # NoCopy => Saved(copy, TRUE) \in [org : Org \cup {NoOrg}, session : BOOLEAN]
    BY SavedType, Zenon
  <2>1. file' \in [org : Org \cup {NoOrg}, session : BOOLEAN]
    BY <2>0 DEF CliLogin, WriteBack
  <2>2. forgot' \in BOOLEAN
    BY DEF CliLogin, WriteBack
  <2> QED BY <2>1, <2>2 DEF CliLogin
<1>13. CliLogout => AccountsTypeOK'
  BY DEF CliLogout, Empty
<1> QED BY <1>1, <1>2, <1>3, <1>4, <1>5, <1>6, <1>7, <1>8, <1>9, <1>10, <1>11,
           <1>12, <1>13 DEF AccountsNext

LEMMA AccountsKeepForgotten == AccountInv /\ AccountsNext => ForgottenInv'
<1> SUFFICES ASSUME AccountInv, AccountsNext PROVE ForgottenInv'
  OBVIOUS
<1> USE AccountsAssumption DEF AccountInv, AccountsTypeOK, ForgottenInv
<1>1. ASSUME NEW t \in Tab, NEW c \in Org, BeginLogin(t, c) PROVE ForgottenInv'
  BY <1>1 DEF BeginLogin
<1>2. ASSUME NEW t \in Tab, Prove(t) PROVE ForgottenInv'
  BY <1>2 DEF Prove
<1>3. ASSUME NEW t \in Tab, LoginRefused(t) PROVE ForgottenInv'
  BY <1>3 DEF LoginRefused, Restored, SameLogin
<1>4. ASSUME NEW t \in Tab, LoginAccepted(t) PROVE ForgottenInv'
  BY <1>4 DEF LoginAccepted, Saved
<1>5. OrganizerLogout => ForgottenInv'
  BY DEF OrganizerLogout, Saved
<1>6. PlayerLogin => ForgottenInv'
  BY DEF PlayerLogin, SignIn, Saved
<1>7. PlayerRefused => ForgottenInv'
  BY DEF PlayerRefused
<1>8. PlayerLogout => ForgottenInv'
  BY DEF PlayerLogout, Empty
<1>9. CatalogueRefresh => ForgottenInv'
  <2>1. CASE SignIn("good")
    BY <2>1 DEF CatalogueRefresh, SignIn, Saved
  <2>2. CASE hub' = [hub EXCEPT !.session = FALSE] /\ UNCHANGED <<file, tangled>>
    BY <2>2 DEF CatalogueRefresh
  <2> QED BY <2>1, <2>2 DEF CatalogueRefresh
<1>10. Restart => ForgottenInv'
  <2> SUFFICES ASSUME Restart, forgot' PROVE ForgottenInv'
    BY DEF ForgottenInv
  <2>1. forgot /\ FlagOrg = NoOrg
    BY DEF Restart
  <2> QED BY <2>1 DEF Restart, Started
<1>11. CliOpen => ForgottenInv'
  BY DEF CliOpen
<1>12. CliLogin => ForgottenInv'
  <2>1. CASE WriteBack(copy, TRUE)
    BY <2>1 DEF CliLogin, WriteBack, Saved
  <2>2. CASE UNCHANGED <<file, forgot>>
    BY <2>2 DEF CliLogin
  <2> QED BY <2>1, <2>2 DEF CliLogin
<1>13. CliLogout => ForgottenInv'
  BY DEF CliLogout, Empty
<1> QED BY <1>1, <1>2, <1>3, <1>4, <1>5, <1>6, <1>7, <1>8, <1>9, <1>10, <1>11,
           <1>12, <1>13 DEF AccountsNext

LEMMA AccountsKeepProved == AccountInv /\ AccountsNext => ProvedInv'
<1> SUFFICES ASSUME AccountInv, AccountsNext, ~tangled' PROVE ProvedInv'
  BY DEF ProvedInv
<1>0. ~tangled
  BY DEF AccountsNext, BeginLogin, Prove, LoginRefused, LoginAccepted, OrganizerLogout, PlayerLogin,
         SignIn, PlayerRefused, PlayerLogout, CatalogueRefresh, Restart, CliOpen, CliLogin, CliLogout
<1> USE AccountsAssumption, <1>0 DEF AccountInv, AccountsTypeOK, ProvedInv, Kept
<1>1. ASSUME NEW t \in Tab, NEW c \in Org, BeginLogin(t, c) PROVE ProvedInv'
  <2>1. Trying = {}
    BY <1>1 DEF BeginLogin
  <2>2. [cred |-> c, prev |-> hub.cfg, outcome |-> "asking"] \in Tries
    BY DEF Tries
  <2>3. Trying' = {t}
    BY <1>1, <2>1, <2>2 DEF BeginLogin, Trying
  <2> QED BY <1>1, <2>1, <2>3 DEF BeginLogin
<1>2. ASSUME NEW t \in Tab, Prove(t) PROVE ProvedInv'
  <2>1. t \in Trying /\ tries[t] \in Tries
    BY <1>2, Trials DEF Prove
  <2>2. PICK o \in {"refused", "accepted"} :
          /\ tries' = [tries EXCEPT ![t].outcome = o]
          /\ o = "accepted" => hub.org \in Good
    BY <1>2 DEF Prove
  <2>3. tries'[t] = [tries[t] EXCEPT !.outcome = o] /\ tries'[t] \in Tries
    BY <2>1, <2>2 DEF Tries
  <2>4. Trying' = Trying
    BY <2>1, <2>2, <2>3 DEF Trying
  <2>5. tries'[t].prev = tries[t].prev /\ tries'[t].cred = tries[t].cred /\ tries'[t].outcome = o
    BY <2>1, <2>3 DEF Tries
  <2> QED BY <1>2, <2>1, <2>2, <2>4, <2>5 DEF Prove
<1>3. ASSUME NEW t \in Tab, LoginRefused(t) PROVE ProvedInv'
  <2>1. Trying = {t} /\ tries[t] \in Tries
    BY <1>3, Trials DEF LoginRefused
  <2>2. Trying' = {}
    BY <1>3, <2>1 DEF LoginRefused, Trying
  <2>3. hub'.cfg \in Kept /\ hub'.org \in Kept
    BY <1>3, <2>1 DEF LoginRefused, Restored, SameLogin, Tries
  <2> QED BY <1>3, <2>2, <2>3 DEF LoginRefused
<1>4. ASSUME NEW t \in Tab, LoginAccepted(t) PROVE ProvedInv'
  <2>1. Trying = {t} /\ tries[t] \in Tries
    BY <1>4, Trials DEF LoginAccepted
  <2>2. Trying' = {}
    BY <1>4, <2>1 DEF LoginAccepted, Trying
  <2>3. hub.cfg \in Kept /\ hub.org \in Kept
    BY <1>4, <2>1 DEF LoginAccepted
  <2> QED BY <1>4, <2>2, <2>3 DEF LoginAccepted, Saved
<1>5. OrganizerLogout => ProvedInv'
  <2> SUFFICES ASSUME OrganizerLogout PROVE ProvedInv'
    OBVIOUS
  <2>1. Trying' = Trying /\ tries' = tries
    BY DEF OrganizerLogout, Trying
  <2> QED BY <2>1 DEF OrganizerLogout, Saved
<1>6. PlayerLogin => ProvedInv'
  <2> SUFFICES ASSUME PlayerLogin PROVE ProvedInv'
    OBVIOUS
  <2>1. Trying = {} /\ Trying' = {}
    BY DEF PlayerLogin, SignIn, Trying
  <2> QED BY <2>1 DEF PlayerLogin, SignIn, Saved
<1>7. PlayerRefused => ProvedInv'
  BY DEF PlayerRefused, Trying
<1>8. PlayerLogout => ProvedInv'
  BY DEF PlayerLogout, Empty, Trying
<1>9. CatalogueRefresh => ProvedInv'
  <2>1. CASE SignIn("good")
    <3>1. CatalogueRefresh => Trying = {} /\ Trying' = {}
      BY <2>1 DEF CatalogueRefresh, SignIn, Trying
    <3> QED BY <2>1, <3>1 DEF CatalogueRefresh, SignIn, Saved
  <2>2. CASE hub' = [hub EXCEPT !.session = FALSE] /\ UNCHANGED <<file, tangled>>
    BY <2>2 DEF CatalogueRefresh, Trying
  <2> QED BY <2>1, <2>2 DEF CatalogueRefresh
<1>10. Restart => ProvedInv'
  BY DEF Restart, Started, Trying
<1>11. CliOpen => ProvedInv'
  BY DEF CliOpen, Trying
<1>12. CliLogin => ProvedInv'
  BY DEF CliLogin, WriteBack, Saved, Trying
<1>13. CliLogout => ProvedInv'
  BY DEF CliLogout, Empty, Trying
<1> QED BY <1>1, <1>2, <1>3, <1>4, <1>5, <1>6, <1>7, <1>8, <1>9, <1>10, <1>11,
           <1>12, <1>13 DEF AccountsNext

-----------------------------------------------------------------------------
(* Calls.  Sound depends on the state through tangled alone.               *)

LEMMA CallsHold ==
  ASSUME tangled' = tangled \/ (tangled' /\ ~tangled), Calls(call')
  PROVE  CallInv'
BY DEF CallInv, Calls, Sound

\* One call changes and is still sound.
LEMMA OneBecomes ==
  ASSUME CallInv, NEW h \in Hand, NEW c, Sound(c)
  PROVE  Calls([call EXCEPT ![h] = c])
BY DEF CallInv, Calls

LEMMA CrossingKeeps ==
  ASSUME NEW cs, Calls(cs), NEW mine
  PROVE  Calls(Crossing(cs, mine))
<1>1. ASSUME NEW c, Sound(c) PROVE Sound([c EXCEPT !.crossed = TRUE])
  BY <1>1 DEF Sound, CallFields
<1>2. ASSUME NEW h \in Hand, Crossing(cs, mine)[h] # NoCall PROVE Sound(Crossing(cs, mine)[h])
  BY <1>1, <1>2 DEF Crossing, Calls
<1> QED BY <1>2 DEF Crossing, Calls

\* A call that goes on without its code being sent again stays sound.
LEMMA StaysSound ==
  ASSUME NEW c, Sound(c)
  PROVE  /\ \A r : Sound([c EXCEPT !.step = "over", !.report = r])
         /\ \A s \in {"over", "look"} : Sound([c EXCEPT !.step = s])
         /\ c.step \in {"read", "post"} =>
              \A s \in {"post", "wait"} : Sound([c EXCEPT !.step = s])
         /\ \A p : Sound([c EXCEPT !.page = p, !.crossed = FALSE])
BY DEF Sound, CallFields

LEMMA BeganKeeps ==
  ASSUME IInv, NEW h \in Hand, NEW front, NEW op, NEW step,
         front = "player" => step # "read", Began(h, front, op, step)
  PROVE  Calls(call')
<1>1. file.org \in Org \cup {NoOrg} /\ (~tangled => file.org \in Kept)
  BY HubParts DEF IInv, AccountInv, ProvedInv
<1>2. PICK c : /\ c = [front |-> front, op |-> op, org |-> file.org, step |-> step,
                       page |-> NoPage, answer |-> "none", again |-> FALSE,
                       counted |-> 0, crossed |-> FALSE, report |-> "none"]
               /\ call' = [call EXCEPT ![h] = c]
  BY DEF Began, Becomes
<1>3. Sound(c)
  BY <1>1, <1>2 DEF Sound, CallFields
<1> QED BY <1>2, <1>3, OneBecomes DEF IInv

LEMMA BeginKeeps ==
  ASSUME IInv, NEW h \in Hand, NEW front \in {"cli", "tool", "web"}, NEW verbs,
         Begin(h, front, verbs)
  PROVE  Calls(call') /\ UNCHANGED accountVars
BY BeganKeeps DEF Begin

LEMMA CliBegins ==
  ASSUME IInv, NEW h \in Hand,
         \/ CliShows(h) \/ CliShowsTeams(h) \/ CliShowsLive(h) \/ CliGames(h) \/ CliLevels(h)
         \/ CliTeams(h) \/ CliLevelsOfTeam(h) \/ CliCorrections(h) \/ CliTeamAndEngine(h) \/ CliChat(h)
  PROVE  Calls(call') /\ UNCHANGED accountVars
<1>1. PICK verbs : Begin(h, "cli", verbs)
  BY Zenon DEF CliShows, CliShowsTeams, CliShowsLive, CliGames, CliLevels, CliTeams, CliLevelsOfTeam,
               CliCorrections, CliTeamAndEngine, CliChat
<1> QED BY <1>1, BeginKeeps

LEMMA ToolBegins ==
  ASSUME IInv, NEW h \in Hand,
         \/ ToolShows(h) \/ ToolShowsTeam(h) \/ ToolGames(h) \/ ToolLevels(h) \/ ToolTeams(h) \/ ToolMessages(h)
         \/ ToolLive(h) \/ ToolSwitches(h) \/ ToolLevelsOfTeam(h) \/ ToolProgress(h) \/ ToolEngine(h)
  PROVE  Calls(call') /\ UNCHANGED accountVars
<1>1. PICK verbs : Begin(h, "tool", verbs)
  BY Zenon DEF ToolShows, ToolShowsTeam, ToolGames, ToolLevels, ToolTeams, ToolMessages, ToolLive,
               ToolSwitches, ToolLevelsOfTeam, ToolProgress, ToolEngine
<1> QED BY <1>1, BeginKeeps

LEMMA WebBegins ==
  ASSUME IInv, NEW h \in Hand, WebShows(h) \/ WebGames(h) \/ WebLevels(h)
  PROVE  Calls(call') /\ UNCHANGED accountVars
<1>1. PICK verbs : Begin(h, "web", verbs)
  BY Zenon DEF WebShows, WebGames, WebLevels
<1> QED BY <1>1, BeginKeeps

LEMMA CallOf ==
  ASSUME CallInv, NEW h \in Hand, Busy(h)
  PROVE  Sound(call[h])
BY DEF CallInv, Calls, Busy

\* Every step of a call under way but a player's retry.
LEMMA ReadKeeps ==
  ASSUME IInv, NEW h \in Hand, Read(h)
  PROVE  Calls(call') /\ UNCHANGED accountVars
<1> DEFINE c == call[h]
<1>1. Sound(c) /\ c.step = "read"
  BY CallOf DEF IInv, Read
<1>2. PICK n : /\ Sound(n)
               /\ call' = [call EXCEPT ![h] = n]
  <2>1. CASE Over(h, c, "failed")
    BY <1>1, <2>1, StaysSound DEF Over, Becomes
  <2>2. ASSUME NEW p, NEW read, read = [c EXCEPT !.page = p, !.crossed = FALSE],
               \/ Over(h, read, "shown") \/ Over(h, read, "done")
               \/ Becomes(h, [read EXCEPT !.step = "post"])
        PROVE  \E n : Sound(n) /\ call' = [call EXCEPT ![h] = n]
    <3>1. Sound(read) /\ read.step = "read"
      BY <1>1, <2>2, StaysSound DEF Sound, CallFields
    <3> QED BY <2>2, <3>1, StaysSound DEF Over, Becomes
  <2> QED BY <2>1, <2>2 DEF Read
<1> QED BY <1>2, OneBecomes DEF IInv, Read

LEMMA PostKeeps ==
  ASSUME IInv, NEW h \in Hand, Post(h)
  PROVE  Calls(call') /\ UNCHANGED accountVars
<1>1. Sound(call[h]) /\ call[h].step = "post"
  BY CallOf DEF IInv, Post
<1> QED BY <1>1, StaysSound, OneBecomes DEF IInv, Post, Over, Becomes

LEMMA ServeKeeps ==
  ASSUME IInv, NEW h \in Hand, Serve(h)
  PROVE  Calls(call') /\ UNCHANGED accountVars
<1>1. Sound(call[h]) /\ call[h].front # "player"
  BY CallOf DEF IInv, Serve
<1>2. CASE Over(h, call[h], "failed")
  BY <1>1, <1>2, StaysSound, OneBecomes DEF IInv, Serve, Over, Becomes
<1>3. ASSUME NEW a, NEW mine, mine = [call EXCEPT ![h].step = "answered", ![h].answer = a],
             call' = IF game' = game THEN mine ELSE Crossing(mine, {h})
      PROVE  Calls(call')
  <2>1. Sound([[call[h] EXCEPT !.step = "answered"] EXCEPT !.answer = a])
    BY <1>1 DEF Sound, CallFields
  <2>2. mine = [call EXCEPT ![h] = [[call[h] EXCEPT !.step = "answered"] EXCEPT !.answer = a]]
    BY <1>3 DEF IInv, CallInv, Calls
  <2>3. Calls(mine)
    BY <2>1, <2>2, OneBecomes DEF IInv
  <2> QED BY <1>3, <2>3, CrossingKeeps
<1> QED BY <1>2, <1>3 DEF Serve

LEMMA GiveUpKeeps ==
  ASSUME IInv, NEW h \in Hand, GiveUp(h)
  PROVE  Calls(call') /\ UNCHANGED accountVars
<1>1. Sound(call[h])
  BY CallOf DEF IInv, GiveUp
<1> QED BY <1>1, StaysSound, OneBecomes DEF IInv, GiveUp, Over, Becomes

LEMMA StrayKeeps ==
  ASSUME IInv, NEW h \in Hand, ServeStray(h)
  PROVE  Calls(call') /\ UNCHANGED accountVars
BY CrossingKeeps DEF IInv, CallInv, ServeStray

LEMMA SettleKeeps ==
  ASSUME IInv, NEW h \in Hand, Settle(h)
  PROVE  Calls(call') /\ UNCHANGED accountVars
<1>1. Sound(call[h])
  BY CallOf DEF IInv, Settle
<1>2. \/ Over(h, call[h], "failed") \/ Over(h, call[h], "done")
      \/ Becomes(h, [call[h] EXCEPT !.step = "look"])
  BY DEF Settle
<1>3. UNCHANGED accountVars
  BY DEF Settle
<1> QED BY <1>1, <1>2, <1>3, StaysSound, OneBecomes DEF IInv, Over, Becomes

LEMMA LookKeeps ==
  ASSUME IInv, NEW h \in Hand, Busy(h), NEW report, Look(h, report)
  PROVE  Calls(call') /\ UNCHANGED accountVars
<1>1. Sound(call[h])
  BY CallOf DEF IInv
<1> QED BY <1>1, StaysSound, OneBecomes DEF IInv, Look, Over, Becomes

LEMMA ChecksKeep ==
  ASSUME IInv, NEW h \in Hand,
         CheckDeleted(h) \/ CheckMovedCli(h) \/ CheckMovedTool(h) \/ CheckMovedWeb(h)
  PROVE  Calls(call') /\ UNCHANGED accountVars
BY LookKeeps DEF CheckDeleted, CheckMovedCli, CheckMovedTool, CheckMovedWeb

LEMMA PlayerServedKeeps ==
  ASSUME IInv, NEW h \in Hand, PlayerServed(h)
  PROVE  Calls(call') /\ UNCHANGED accountVars
<1>1. Sound(call[h]) /\ call[h].front = "player" /\ call[h].step = "wait" /\ call[h].counted = 0
  BY CallOf DEF IInv, PlayerServed, Sound
<1>2. CASE Becomes(h, [call[h] EXCEPT !.step = "answered", !.answer = "rejected"])
  <2>1. Sound([call[h] EXCEPT !.step = "answered", !.answer = "rejected"])
    BY <1>1 DEF Sound, CallFields
  <2> QED BY <1>2, <2>1, OneBecomes DEF IInv, PlayerServed, Becomes
<1>3. ASSUME NEW a \in {"ok", "unreadable"}, NEW mine,
             mine = [call EXCEPT ![h].step = "answered", ![h].answer = a, ![h].counted = @ + 1],
             call' = IF game' = game THEN mine ELSE Crossing(mine, {h})
      PROVE  Calls(call')
  <2> DEFINE n == [[[call[h] EXCEPT !.step = "answered"] EXCEPT !.answer = a] EXCEPT !.counted = 1]
  <2>1. Sound(n)
    BY <1>1 DEF Sound, CallFields
  <2>2. mine = [call EXCEPT ![h] = n]
    BY <1>1, <1>3 DEF IInv, CallInv, Calls, Sound, CallFields
  <2>3. Calls(mine)
    BY <2>1, <2>2, OneBecomes DEF IInv
  <2> QED BY <1>3, <2>3, CrossingKeeps
<1> QED BY <1>2, <1>3 DEF PlayerServed

LEMMA PlayerToldKeeps ==
  ASSUME IInv, NEW h \in Hand, PlayerTold(h)
  PROVE  Calls(call') /\ UNCHANGED accountVars
<1>1. Sound(call[h])
  BY CallOf DEF IInv, PlayerTold
<1> QED BY <1>1, StaysSound, OneBecomes DEF IInv, PlayerTold, Over, Becomes

LEMMA RunAgainKeepsCalls ==
  ASSUME IInv, NEW h \in Hand, RunAgain(h)
  PROVE  Calls(call')
<1>1. /\ Sound(call[h]) /\ call[h].front = "player"
      /\ call[h].step = "answered" /\ call[h].answer = "rejected"
  BY CallOf DEF IInv, RunAgain, Retriable
<1>2. Sound([call[h] EXCEPT !.step = "post", !.again = TRUE])
  BY <1>1 DEF Sound, CallFields
<1> QED BY <1>1, <1>2, StaysSound, OneBecomes DEF IInv, RunAgain, Over, Becomes

-----------------------------------------------------------------------------
(* What a command writes over the session file *)

LEMMA WriteBackKeeps ==
  ASSUME AccountInv, NEW org \in Org \cup {NoOrg}, ~tangled => org \in Kept,
         WriteBack(org, TRUE), UNCHANGED <<hub, tries, copy, tangled>>
  PROVE  AccountInv'
<1>1. Saved(org, TRUE) \in [org : Org \cup {NoOrg}, session : BOOLEAN]
  BY SavedType, Zenon
<1>2. file' = Saved(org, TRUE) /\ file'.org = org
  BY DEF WriteBack, Saved
<1>3. forgot' \in BOOLEAN /\ (forgot' => forgot /\ org = NoOrg)
  BY DEF WriteBack
<1>4. AccountsTypeOK'
  BY <1>1, <1>2, <1>3 DEF AccountInv, AccountsTypeOK
<1>5. ForgottenInv'
  BY <1>2, <1>3 DEF AccountInv, ForgottenInv
<1>6. Trying' = Trying
  BY DEF Trying
<1>7. ProvedInv'
  BY <1>2, <1>6 DEF AccountInv, ProvedInv
<1> QED BY <1>4, <1>5, <1>7 DEF AccountInv

LEMMA QuietKeeps ==
  ASSUME AccountInv, UNCHANGED accountVars
  PROVE  AccountInv'
BY DEF AccountInv, AccountsTypeOK, ForgottenInv, ProvedInv, Trying, accountVars

LEMMA AccountsKeep ==
  ASSUME AccountInv, AccountsNext
  PROVE  AccountInv' /\ (tangled => tangled')
<1>1. tangled => tangled'
  BY DEF AccountsNext, BeginLogin, Prove, LoginRefused, LoginAccepted, OrganizerLogout, PlayerLogin,
         SignIn, PlayerRefused, PlayerLogout, CatalogueRefresh, Restart, CliOpen, CliLogin, CliLogout
<1> QED BY <1>1, AccountsKeepTypes, AccountsKeepForgotten, AccountsKeepProved DEF AccountInv

-----------------------------------------------------------------------------

(* The inductive invariant of sign-ins and calls: what the theorems below    *)
(* follow from.                                                              *)
THEOREM Invariance == Spec => []IInv
<1>1. Init => IInv
  BY AccountsStart DEF Init, IInv, CallInv, Calls
<1>2. IInv /\ [Next]_vars => IInv'
  <2> SUFFICES ASSUME IInv, [Next]_vars PROVE IInv'
    OBVIOUS
  <2>1. ASSUME Calls(call'), UNCHANGED accountVars PROVE IInv'
    BY <2>1, CallsHold, QuietKeeps DEF IInv, accountVars
  <2>2. CASE UNCHANGED vars
    BY <2>1, <2>2 DEF vars, workVars, IInv, CallInv
  <2>3. CASE SignIns
    <3>1. AccountInv' /\ (tangled => tangled')
      BY <2>3, AccountsKeep DEF SignIns, IInv
    <3>2. CallInv'
      BY <2>3, <3>1 DEF SignIns, workVars, IInv, CallInv, Calls, Sound
    <3> QED BY <3>1, <3>2 DEF IInv
  <2>4. ASSUME NEW h \in Hand, PlayerBegins(h) PROVE IInv'
    <3>1. Calls(call') /\ UNCHANGED <<hub, tries, copy, tangled>>
      BY <2>4, BeganKeeps DEF PlayerBegins
    <3>2. CASE WriteBack(file.org, TRUE)
      BY <3>1, <3>2, HubParts, WriteBackKeeps, CallsHold DEF IInv, AccountInv, ProvedInv
    <3>3. CASE UNCHANGED <<file, forgot>>
      BY <3>1, <3>3, <2>1 DEF accountVars
    <3> QED BY <2>4, <3>2, <3>3 DEF PlayerBegins
  <2>5. ASSUME NEW h \in Hand, RunAgain(h) PROVE IInv'
    <3>1. Calls(call') /\ UNCHANGED <<hub, tries, copy, tangled>>
      BY <2>5, RunAgainKeepsCalls DEF RunAgain
    <3>2. CASE WriteBack(call[h].org, TRUE)
      <4>1. Sound(call[h])
        BY <2>5, CallOf DEF IInv, RunAgain
      <4> QED BY <3>1, <3>2, <4>1, WriteBackKeeps, CallsHold DEF IInv, Sound
    <3>3. CASE UNCHANGED <<file, forgot>>
      BY <3>1, <3>3, <2>1 DEF accountVars
    <3> QED BY <2>5, <3>2, <3>3 DEF RunAgain
  <2> QED
    BY <2>1, <2>2, <2>3, <2>4, <2>5, CliBegins, ToolBegins, WebBegins, ReadKeeps, PostKeeps,
       ServeKeeps, GiveUpKeeps, StrayKeeps, SettleKeeps, ChecksKeep, PlayerServedKeeps,
       PlayerToldKeeps DEF Next
<1> QED BY <1>1, <1>2, PTL DEF Spec

(* The configuration and the client of the server, the session file, trials  *)
(* and copies have the shapes the code gives them.                           *)
THEOREM AccountsTypeCorrect == Spec => []AccountsTypeOK
<1>1. IInv => AccountsTypeOK
  BY DEF IInv, AccountInv
<1> QED BY <1>1, Invariance, PTL

(* A sign-out is final until somebody signs in or writes back what it had    *)
(* loaded (httpAdminLogout, loginOrganizer, saveSession).                    *)
THEOREM SignOutHolds == Spec => []SignedOutIsForgotten
<1>1. IInv => SignedOutIsForgotten
  BY DEF IInv, AccountInv, ForgottenInv, SignedOutIsForgotten
<1> QED BY <1>1, Invariance, PTL

(* Refused credentials are kept neither by the client nor in the file        *)
(* (loginOrganizer), but for trials that met.                                *)
THEOREM RefusalsAreUndone == Spec => []RefusedIsNotKept
<1>1. IInv => RefusedIsNotKept
  BY DEF IInv, AccountInv, ProvedInv, RefusedIsNotKept, Kept
<1> QED BY <1>1, Invariance, PTL

(* A command that was run again has sent its code to the game once           *)
(* (refreshSession).                                                         *)
THEOREM CodesCountOnce == Spec => []CodeCountedOnce
<1>1. IInv => CodeCountedOnce
  BY DEF IInv, CallInv, Calls, Sound, CodeCountedOnce
<1> QED BY <1>1, Invariance, PTL

-----------------------------------------------------------------------------
(* What a form makes of a game.  Only four forms touch the line of levels.   *)

\* The game has the levels it had.
SameLine(n, e) == IsGame(n) /\ n.levels = e.levels /\ n.dated = e.dated

LEMMA OwnLevels ==
  ASSUME NEW S, NEW s \in Seq(S)
  PROVE  s \in Seq({s[i] : i \in DOMAIN s})
OBVIOUS

\* All but the forms for levels change other fields.
LEMMA OtherField ==
  ASSUME NEW e, IsGame(e), NEW n, NEW v,
         \/ n = [e EXCEPT !.progress = v] \/ n = [e EXCEPT !.bonus = v] \/ n = [e EXCEPT !.penalty = v]
         \/ n = [e EXCEPT !.blocked = v] \/ n = [e EXCEPT !.finished = v] \/ n = [e EXCEPT !.chat = v]
         \/ n = [e EXCEPT !.status = v] \/ n = [e EXCEPT !.points = v] \/ n = [e EXCEPT !.pin = v]
         \/ n = [e EXCEPT !.name = v]
  PROVE  SameLine(n, e)
<1>1. DOMAIN e = GameFields /\ e.dated \in BOOLEAN /\ e.stopped \in BOOLEAN /\ IsLine(e.levels)
  BY DEF IsGame
<1>2. DOMAIN n = GameFields /\ n.dated = e.dated /\ n.stopped = e.stopped /\ n.levels = e.levels
  BY <1>1 DEF GameFields
<1> QED BY <1>1, <1>2 DEF SameLine, IsGame

LEMMA LiveKeepsLine ==
  ASSUME NEW e, IsGame(e), NEW f, f.verb \in LiveForms
  PROVE  SameLine(Intervene(e, f), e)
<1>1. SameLine(e, e)
  BY DEF SameLine
<1>2. \A x, y : IsGame(x) /\ SameLine(y, x) /\ SameLine(x, e) => SameLine(y, e)
  BY DEF SameLine
<1>3. ASSUME NEW x, IsGame(x), NEW k PROVE SameLine(Issue(x, k), x)
  <2>1. PICK v : v = (k :> [codes |-> {}, moved |-> FALSE]) @@ x.progress
    OBVIOUS
  <2>2. Issue(x, k) = x \/ Issue(x, k) = [x EXCEPT !.progress = v]
    BY <2>1 DEF Issue
  <2> QED BY <1>3, <2>2, OtherField DEF SameLine
<1>4. ASSUME NEW x, IsGame(x), NEW k PROVE SameLine(AcceptLevel(x, k), x)
  <2>1. PICK v : v = [x.progress EXCEPT ![k].codes = @ \cup x.levels[k].codes]
    OBVIOUS
  <2>2. AcceptLevel(x, k) = x \/ AcceptLevel(x, k) = [x EXCEPT !.progress = v]
    BY <2>1 DEF AcceptLevel
  <2> QED BY <1>4, <2>2, OtherField DEF SameLine
<1>5. ASSUME NEW k, NEW c PROVE SameLine(AcceptCode(e, k, c), e)
  <2>1. PICK v : v = [e.progress EXCEPT ![k].codes = @ \cup {c}]
    OBVIOUS
  <2>2. AcceptCode(e, k, c) = e \/ AcceptCode(e, k, c) = [e EXCEPT !.progress = v]
    BY <2>1 DEF AcceptCode
  <2> QED BY <1>1, <2>2, OtherField
<1>6. ASSUME NEW k PROVE SameLine(ClearCodes(e, k), e)
  <2>1. PICK v : v = [e.progress EXCEPT ![k].codes = {}]
    OBVIOUS
  <2>2. ClearCodes(e, k) = e \/ ClearCodes(e, k) = [e EXCEPT !.progress = v]
    BY <2>1 DEF ClearCodes
  <2> QED BY <1>1, <2>2, OtherField
<1>7. ASSUME NEW k PROVE SameLine(SetTime(e, k), e)
  <2>1. PICK v : v = [e.progress EXCEPT ![k].moved = TRUE]
    OBVIOUS
  <2>2. SetTime(e, k) = e \/ SetTime(e, k) = [e EXCEPT !.progress = v]
    BY <2>1 DEF SetTime
  <2> QED BY <1>1, <2>2, OtherField
<1>8. ASSUME NEW k PROVE SameLine(RemoveLevel(e, k), e)
  BY OtherField DEF RemoveLevel
<1>9. SameLine(ClearProgress(e), e) /\ SameLine(FinishGame(e), e) /\ \A b : SameLine(Block(e, b), e)
  BY OtherField DEF ClearProgress, FinishGame, Block
<1>10. ASSUME NEW kind PROVE SameLine(Correct(e, kind), e) /\ SameLine(DeleteCorrections(e, kind), e)
  BY OtherField DEF Correct, DeleteCorrections
<1>11. SameLine(SwitchRobot(e), e) /\ SwitchRobot(e).stopped = ~e.stopped
  <2>1. DOMAIN e = GameFields /\ e.dated \in BOOLEAN /\ e.stopped \in BOOLEAN /\ IsLine(e.levels)
    BY DEF IsGame
  <2>2. PICK v \in BOOLEAN : v = ~e.stopped
    OBVIOUS
  <2>3. SwitchRobot(e) = [e EXCEPT !.stopped = v]
    BY <2>2 DEF SwitchRobot
  <2>4. PICK n : n = [e EXCEPT !.stopped = v]
    OBVIOUS
  <2>5. DOMAIN n = GameFields /\ n.dated = e.dated /\ n.stopped = v /\ n.levels = e.levels
    BY <2>1, <2>4 DEF GameFields
  <2>6. SameLine(n, e)
    BY <2>1, <2>5 DEF SameLine, IsGame
  <2> QED BY <2>2, <2>3, <2>4, <2>5, <2>6
<1>12. SameLine(AcceptLevel(Issue(e, f.id), f.id), e)
  BY <1>1, <1>2, <1>3, <1>4 DEF SameLine
<1> QED BY <1>3, <1>4, <1>5, <1>6, <1>7, <1>8, <1>9, <1>10, <1>11, <1>12 DEF Intervene, LiveForms

LEMMA NewLine ==
  ASSUME NEW e, IsGame(e), NEW s, IsLine(s), NEW n, n = [e EXCEPT !.levels = s]
  PROVE  IsGame(n) /\ n.levels = s /\ n.dated = e.dated
<1>1. DOMAIN e = GameFields /\ e.dated \in BOOLEAN /\ e.stopped \in BOOLEAN
  BY DEF IsGame
<1>2. DOMAIN n = GameFields /\ n.dated = e.dated /\ n.stopped = e.stopped /\ n.levels = s
  BY <1>1 DEF GameFields
<1> QED BY <1>1, <1>2 DEF IsGame

\* Sets of numbers have a least one: the only induction the proofs need.
LEMMA Least ==
  ASSUME NEW T, T \subseteq Nat, T # {}
  PROVE  \E x \in T : \A y \in T : x <= y
<1>1. PICK x \in T : \A y \in T : ~ (<<y, x>> \in OpToRel(<, Nat))
  BY NatLessThanWellFounded, WFMin, Zenon
<1>2. ASSUME NEW y \in T PROVE x <= y
  <2>1. <<y, x>> \notin OpToRel(<, Nat) /\ x \in Nat /\ y \in Nat
    BY <1>1
  <2>2. ~(y < x)
    BY <2>1 DEF OpToRel
  <2>3. x \in Nat /\ y \in Nat
    BY <2>1
  <2> QED BY ONLY <2>2, <2>3
<1> QED BY <1>2

LEMMA Through == \A x, y, z \in Nat : x <= y /\ y <= z => x <= z
OBVIOUS

\* The ids of a line, and so of a new level, are bounded.
LEMMA Bounded ==
  ASSUME NEW s, IsLine(s)
  PROVE  \E n \in Nat : \A i \in 1 .. Len(s) : s[i].id <= n
<1>1. /\ Len(s) \in Nat /\ DOMAIN s = 1 .. Len(s)
      /\ \A i \in 1 .. Len(s) : s[i].id \in Nat
  BY DEF IsLine
<1> DEFINE T == {k \in 0 .. Len(s) : \A n \in Nat : \E i \in 1 .. k : ~(s[i].id <= n)}
<1>2. CASE T = {}
  <2>1. Len(s) \in 0 .. Len(s)
    BY <1>1
  <2>2. Len(s) \notin T
    BY <1>2
  <2> QED BY <2>1, <2>2
<1>3. CASE T # {}
  <2>1. T \subseteq Nat
    BY <1>1
  <2>2. PICK k \in T : \A j \in T : k <= j
    BY <1>3, <2>1, Least
  <2>3. k \in 0 .. Len(s) /\ \A n \in Nat : \E i \in 1 .. k : ~(s[i].id <= n)
    OBVIOUS
  <2>4. k # 0
    <3> SUFFICES ASSUME k = 0 PROVE FALSE
      OBVIOUS
    <3>1. 0 \in Nat /\ 1 .. 0 = {}
      OBVIOUS
    <3> QED BY <2>3, <3>1
  <2>5. k - 1 \in 0 .. Len(s) /\ k \in 1 .. Len(s) /\ ~(k <= k - 1)
    BY <1>1, <2>3, <2>4
  <2>6. k - 1 \notin T
    BY <2>2, <2>5
  <2>7. PICK n \in Nat : \A i \in 1 .. (k - 1) : s[i].id <= n
    BY <2>5, <2>6
  <2>8. PICK m \in Nat : m = s[k].id
    BY <1>1, <2>5
  <2>9. PICK b \in Nat : n <= b /\ m <= b
    <3>1. n + m \in Nat /\ n <= n + m /\ m <= n + m
      BY ONLY n \in Nat, m \in Nat
    <3> QED BY <3>1
  <2>10. ASSUME NEW i \in 1 .. k PROVE s[i].id <= b
    <3>1. CASE i = k
      BY <2>8, <2>9, <3>1
    <3>2. CASE i # k
      <4>1. i \in 1 .. (k - 1) /\ i \in 1 .. Len(s)
        BY <1>1, <2>5, <3>2
      <4>2. s[i].id \in Nat /\ s[i].id <= n
        BY <1>1, <2>7, <4>1
      <4>3. PICK d \in Nat : d = s[i].id /\ d <= n
        BY <4>2
      <4>4. n <= b
        BY <2>9
      <4>5. d <= b
        BY <4>3, <4>4, Through
      <4> QED BY <4>3, <4>5
    <3> QED BY <3>1, <3>2
  <2> QED BY <2>3, <2>10
<1> QED BY <1>2, <1>3

LEMMA Largest ==
  ASSUME NEW s, IsLine(s), NEW S, S = {0} \cup {s[i].id : i \in DOMAIN s}
  PROVE  Max(S) \in Nat /\ \A i \in DOMAIN s : s[i].id <= Max(S)
<1>1. S \subseteq Nat /\ 0 \in S
  BY DEF IsLine
<1>2. PICK n \in Nat : \A x \in S : x <= n
  <2>1. PICK n \in Nat : \A i \in 1 .. Len(s) : s[i].id <= n
    BY Bounded
  <2>2. DOMAIN s = 1 .. Len(s) /\ 0 <= n
    BY DEF IsLine
  <2> QED BY <2>1, <2>2
<1> DEFINE B == {m \in Nat : \A x \in S : x <= m}
<1>3. PICK m \in B : \A b \in B : m <= b
  BY <1>2, Least
<1>4. m \in S
  <2>1. CASE m = 0
    BY <1>1, <2>1
  <2>2. CASE m # 0 /\ m \notin S
    <3>1. m \in Nat /\ m - 1 \in Nat /\ ~(m <= m - 1)
      BY <2>2
    <3>2. ASSUME NEW x \in S PROVE x <= m - 1
      BY <1>1, <2>2, <1>3
    <3>3. m - 1 \in B
      BY <3>1, <3>2
    <3> QED BY <1>3, <3>1, <3>3
  <2> QED BY <2>1, <2>2
<1>5. \A y \in S : m >= y
  BY <1>1, <1>3
<1>6. Max(S) \in S /\ \A y \in S : Max(S) >= y
  BY <1>4, <1>5 DEF Max
<1> QED BY <1>1, <1>6

LEMMA AddedLevel ==
  ASSUME NEW e, IsGame(e), NEW f, NEW n, n = AddLevel(e, f)
  PROVE  IsGame(n) /\ n.dated = e.dated
<1>1. PICK m : m = Max({0} \cup LevelIds(e))
  OBVIOUS
<1>2. m \in Nat /\ \A i \in DOMAIN e.levels : e.levels[i].id <= m
  BY <1>1, Largest DEF LevelIds, IsGame
<1>3. PICK l : l = [id |-> 1 + m, title |-> f.fields.title, codes |-> f.fields.codes]
  OBVIOUS
<1>4. DOMAIN l = LevelFields /\ l.id = 1 + m /\ l.id \in Nat
  BY <1>2, <1>3 DEF LevelFields
<1>5. PICK s : s = Append(e.levels, l)
  OBVIOUS
<1>6. IsLine(s)
  <2> DEFINE R == {e.levels[i] : i \in DOMAIN e.levels}
  <2>1. e.levels \in Seq(R) /\ l \in R \cup {l} /\ e.levels \in Seq(R \cup {l})
    BY DEF IsGame, IsLine
  <2> HIDE DEF R
  <2>2. /\ s \in Seq(R \cup {l}) /\ DOMAIN s = 1 .. Len(e.levels) + 1
        /\ \A i \in 1 .. Len(e.levels) : s[i] = e.levels[i]
        /\ s[Len(e.levels) + 1] = l /\ Len(e.levels) \in Nat /\ DOMAIN e.levels = 1 .. Len(e.levels)
    BY <1>5, <2>1
  <2>3. s \in Seq({s[i] : i \in DOMAIN s})
    BY <2>2, OwnLevels
  <2>4. \A i \in 1 .. Len(e.levels) : /\ DOMAIN e.levels[i] = LevelFields /\ e.levels[i].id \in Nat
                                   /\ e.levels[i].id <= m
    BY <1>2, <2>2 DEF IsGame, IsLine
  <2>5. ASSUME NEW i \in DOMAIN s
        PROVE  \/ i \in 1 .. Len(e.levels) /\ s[i] = e.levels[i]
               \/ i = Len(e.levels) + 1 /\ s[i] = l
    BY <2>2
  <2>6. \A i, j \in 1 .. Len(e.levels) : e.levels[i].id = e.levels[j].id => i = j
    BY <2>2 DEF IsGame, IsLine
  <2>7. \A i \in DOMAIN s : DOMAIN s[i] = LevelFields /\ s[i].id \in Nat
    BY <1>4, <2>4, <2>5
  <2>8. \A i \in 1 .. Len(e.levels) : e.levels[i].id # l.id
    <3>1. \A d \in Nat : d <= m => d # 1 + m
      BY <1>2
    <3> QED BY <1>4, <2>4, <3>1
  <2>9. \A i, j \in DOMAIN s : s[i].id = s[j].id => i = j
    BY <2>5, <2>6, <2>8
  <2> QED BY <2>3, <2>7, <2>9 DEF IsLine
<1>7. n = [e EXCEPT !.levels = s]
  BY <1>1, <1>3, <1>5 DEF AddLevel
<1> QED BY <1>6, <1>7, NewLine

\* Where a level stands in the line.
LEMMA Place ==
  ASSUME NEW s, IsLine(s), NEW id, Listed(s, id)
  PROVE  /\ OrderOf(s, id) \in DOMAIN s /\ OrderOf(s, id) \in Nat /\ s[OrderOf(s, id)].id = id
         /\ \A i \in DOMAIN s : s[i].id = id => OrderOf(s, id) = i
<1>1. PICK i \in DOMAIN s : s[i].id = id
  BY DEF Listed
<1>2. OrderOf(s, id) \in DOMAIN s /\ s[OrderOf(s, id)].id = id
  BY <1>1 DEF OrderOf
<1>3. \A j \in DOMAIN s : s[j].id = id => OrderOf(s, id) = j
  BY <1>2 DEF IsLine
<1>4. DOMAIN s \subseteq Nat
  BY DEF IsLine
<1> QED BY <1>2, <1>3, <1>4

\* A line whose levels are another's, each once at most.
LEMMA Rearranged ==
  ASSUME NEW s, IsLine(s), NEW t, NEW n \in Nat, NEW T, t \in [1 .. n -> T],
         NEW at \in [1 .. n -> DOMAIN s], \A i, j \in 1 .. n : at[i] = at[j] => i = j,
         \A i \in 1 .. n : DOMAIN t[i] = LevelFields /\ t[i].id = s[at[i]].id
  PROVE  IsLine(t)
<1>1. DOMAIN t = 1 .. n
  OBVIOUS
<1>2. t \in Seq({t[i] : i \in DOMAIN t})
  BY <1>1
<1>3. \A i \in 1 .. n : at[i] \in DOMAIN s
  OBVIOUS
<1>4. \A i \in 1 .. n : t[i].id \in Nat
  BY <1>3 DEF IsLine
<1>5. \A i, j \in 1 .. n : t[i].id = t[j].id => i = j
  BY <1>3 DEF IsLine
<1> QED BY <1>1, <1>2, <1>4, <1>5 DEF IsLine

LEMMA UpdatedLevel ==
  ASSUME NEW e, IsGame(e), NEW f, NEW n, n = UpdateLevel(e, f)
  PROVE  /\ IsGame(n) /\ n.dated = e.dated
         /\ Listed(e.levels, f.id) =>
              /\ Listed(n.levels, f.id)
              /\ LevelPage(n, f.id).title = f.fields.title
              /\ LevelPage(n, f.id).codes = IF f.fields.codes = {} THEN LevelPage(e, f.id).codes
                                                                   ELSE f.fields.codes
<1> DEFINE Had(l) == IF f.fields.codes = {} THEN l.codes ELSE f.fields.codes
           New(l) == IF l.id = f.id THEN Filled(l, f.fields) ELSE l
<1>1. PICK s : s = [i \in DOMAIN e.levels |-> New(e.levels[i])]
  OBVIOUS
<1>2. n = [e EXCEPT !.levels = s]
  BY <1>1 DEF UpdateLevel
<1>3. IsLine(e.levels) /\ DOMAIN e.levels = 1 .. Len(e.levels) /\ Len(e.levels) \in Nat
  BY DEF IsGame, IsLine
<1>4. ASSUME NEW i \in DOMAIN e.levels
      PROVE  /\ DOMAIN s[i] = LevelFields /\ s[i].id = e.levels[i].id /\ s[i].id \in Nat
             /\ s[i].id = f.id => s[i].title = f.fields.title /\ s[i].codes = Had(e.levels[i])
  <2>1. PICK l : l = e.levels[i]
    OBVIOUS
  <2>2. DOMAIN l = LevelFields /\ l.id \in Nat
    BY <1>3, <2>1 DEF IsLine
  <2>3. DOMAIN New(l) = LevelFields /\ New(l).id = l.id
    BY <2>2 DEF LevelFields, Filled
  <2>4. l.id = f.id => New(l).title = f.fields.title /\ New(l).codes = Had(l)
    BY <2>2 DEF LevelFields, Filled
  <2>5. s[i] = New(l)
    BY <1>1, <2>1
  <2> HIDE DEF New
  <2> QED BY <2>1, <2>2, <2>3, <2>4, <2>5
<1> HIDE DEF New
<1>5. DOMAIN s = 1 .. Len(e.levels) /\ s = [i \in 1 .. Len(e.levels) |-> s[i]]
  BY <1>1, <1>3
<1>6. PICK m \in Nat : m = Len(e.levels)
  BY <1>3
<1>7. IsLine(s)
  <2>1. PICK at : at = [i \in 1 .. m |-> i]
    OBVIOUS
  <2>2. at \in [1 .. m -> DOMAIN e.levels] /\ \A i \in 1 .. m : at[i] = i
    BY <1>3, <1>6, <2>1
  <2>3. \A i, j \in 1 .. m : at[i] = at[j] => i = j
    BY <2>2
  <2>4. \A i \in 1 .. m : DOMAIN s[i] = LevelFields /\ s[i].id = e.levels[at[i]].id
    BY <1>3, <1>4, <1>6, <2>2
  <2>5. PICK T : s \in [1 .. m -> T]
    <3>1. s \in [1 .. m -> {s[i] : i \in 1 .. m}]
      BY <1>5, <1>6
    <3> QED BY <3>1
  <2> QED BY <1>3, <2>2, <2>3, <2>4, <2>5, Rearranged, ZenonT(60)
<1>8. IsGame(n) /\ n.levels = s /\ n.dated = e.dated
  BY <1>2, <1>7, NewLine
<1>9. Listed(e.levels, f.id) => Listed(s, f.id)
  BY <1>3, <1>4, <1>5 DEF Listed
<1>10. ASSUME Listed(e.levels, f.id)
       PROVE  /\ LevelPage(n, f.id).title = f.fields.title
              /\ LevelPage(n, f.id).codes = Had([codes |-> LevelPage(e, f.id).codes])
  <2>1. PICK i \in DOMAIN e.levels : i = OrderOf(e.levels, f.id) /\ e.levels[i].id = f.id
    BY <1>3, <1>10, Place
  <2>2. s[i].id = f.id /\ s[i].title = f.fields.title /\ s[i].codes = Had(e.levels[i])
    BY <1>4, <2>1
  <2>3. OrderOf(s, f.id) = i
    BY <1>3, <1>5, <1>7, <1>9, <1>10, <2>1, <2>2, Place
  <2>4. LevelPage(n, f.id).title = s[i].title /\ LevelPage(n, f.id).codes = s[i].codes
    BY <1>8, <2>3 DEF LevelPage
  <2>5. LevelPage(e, f.id).codes = e.levels[i].codes
    BY <2>1 DEF LevelPage
  <2> QED BY <2>2, <2>4, <2>5
<1> QED BY <1>8, <1>9, <1>10

LEMMA RemovedFromLine ==
  ASSUME NEW s, IsLine(s), NEW k \in DOMAIN s, NEW t, t = RemoveAt(s, k)
  PROVE  IsLine(t) /\ \A i \in DOMAIN t : t[i].id # s[k].id
<1>1. PICK S : s \in Seq(S)
  BY DEF IsLine
<1>2. PICK l \in Nat, p \in Nat : l = Len(s) /\ p = k /\ p \in 1 .. l
  BY <1>1
<1>3. DOMAIN s = 1 .. l /\ l - 1 \in Nat
  BY <1>1, <1>2
<1>4. PICK a, b : a = SubSeq(s, 1, p - 1) /\ b = SubSeq(s, p + 1, l)
  OBVIOUS
<1>5. a \in Seq(S) /\ Len(a) = p - 1 /\ \A i \in 1 .. (p - 1) : a[i] = s[i]
  BY <1>1, <1>2, <1>4
<1>6. b \in Seq(S) /\ Len(b) = l - p /\ \A i \in 1 .. (l - p) : b[i] = s[i + p]
  BY <1>1, <1>2, <1>4, SMTT(40)
<1>7. t = a \o b
  BY <1>2, <1>4 DEF RemoveAt
<1>8. t \in Seq(S) /\ DOMAIN t = 1 .. (l - 1)
  <2>1. a \in Seq(S) /\ b \in Seq(S)
    BY <1>5, <1>6
  <2>2. t \in Seq(S) /\ Len(t) = Len(a) + Len(b)
    BY <1>7, <2>1
  <2>3. (p - 1) + (l - p) = l - 1
    BY <1>2
  <2> QED BY <1>5, <1>6, <2>2, <2>3
<1> DEFINE at(i) == IF i < p THEN i ELSE i + 1
<1>9. ASSUME NEW i \in 1 .. (l - 1)
      PROVE  at(i) \in DOMAIN s /\ at(i) # k /\ t[i] = s[at(i)]
  <2>1. CASE i < p
    BY <1>2, <1>3, <1>5, <1>6, <1>7, <2>1
  <2>2. CASE ~(i < p)
    <3>1. PICK j : j = i - (p - 1) /\ j \in 1 .. (l - p) /\ j + p = i + 1
      BY <1>2, <1>3, <2>2
    <3>2. t[i] = b[j]
      <4>1. /\ a \in Seq(S) /\ b \in Seq(S)
            /\ i - Len(a) = j /\ j \in 1 .. Len(b) /\ i \in 1 .. Len(a) + Len(b) /\ ~(i <= Len(a))
        <5>1. Len(a) = p - 1 /\ Len(b) = l - p
          BY <1>5, <1>6
        <5>2. /\ i - (p - 1) = j /\ j \in 1 .. (l - p)
              /\ i \in 1 .. (p - 1) + (l - p) /\ ~(i <= p - 1)
          BY <1>2, <1>3, <2>2, <3>1
        <5>3. a \in Seq(S) /\ b \in Seq(S)
          BY <1>5, <1>6
        <5> QED BY <5>1, <5>2, <5>3
      <4> QED BY <1>7, <4>1
    <3>3. b[j] = s[i + 1]
      BY <1>6, <3>1
    <3>4. i + 1 \in 1 .. l /\ i + 1 # p
      BY <1>2, <1>3, <2>2
    <3> QED BY <1>2, <1>3, <2>2, <3>2, <3>3, <3>4
  <2> QED BY <2>1, <2>2
<1>10. \A i, j \in 1 .. (l - 1) : at(i) = at(j) => i = j
  BY <1>2, <1>3
<1> HIDE DEF at
<1>11. \A i \in 1 .. (l - 1) : DOMAIN t[i] = LevelFields /\ t[i].id \in Nat
  BY <1>9 DEF IsLine
<1>12. \A i, j \in 1 .. (l - 1) : t[i].id = t[j].id => i = j
  BY <1>9, <1>10 DEF IsLine
<1>13. \A i \in 1 .. (l - 1) : t[i].id # s[k].id
  BY <1>9 DEF IsLine
<1>14. t \in Seq({t[i] : i \in DOMAIN t})
  BY <1>8, OwnLevels
<1> QED BY <1>8, <1>11, <1>12, <1>13, <1>14 DEF IsLine

LEMMA DeletedLevel ==
  ASSUME NEW e, IsGame(e), NEW f, NEW n, n = DeleteLevel(e, f)
  PROVE  IsGame(n) /\ n.dated = e.dated /\ (e.dated => ~Listed(n.levels, f.id))
<1>1. CASE ~(e.dated /\ f.id \in LevelIds(e))
  BY <1>1 DEF DeleteLevel, KeepsLevels, LevelIds, Listed
<1>2. CASE e.dated /\ f.id \in LevelIds(e)
  <2>1. IsLine(e.levels) /\ Listed(e.levels, f.id)
    BY <1>2 DEF IsGame, LevelIds, Listed
  <2>2. PICK k \in DOMAIN e.levels : k = OrderOf(e.levels, f.id) /\ e.levels[k].id = f.id
    BY <2>1, Place
  <2>3. PICK s : s = RemoveAt(e.levels, k)
    OBVIOUS
  <2>4. IsLine(s) /\ \A i \in DOMAIN s : s[i].id # f.id
    BY <2>1, <2>2, <2>3, RemovedFromLine
  <2>5. n = [e EXCEPT !.levels = s]
    BY <1>2, <2>2, <2>3 DEF DeleteLevel, KeepsLevels
  <2> QED BY <2>4, <2>5, NewLine DEF Listed
<1> QED BY <1>1, <1>2

LEMMA MovedLevel ==
  ASSUME NEW e, IsGame(e), NEW f, f.verb \in Moves, NEW n, n = MoveLevel(e, f)
  PROVE  /\ IsGame(n) /\ n.dated = e.dated
         /\ Listed(e.levels, f.id) =>
              /\ Listed(n.levels, f.id)
              /\ \/ n.levels = e.levels /\ (e.dated => AtEdge(e.levels, f))
                 \/ OrderOf(n.levels, f.id) = OrderOf(e.levels, f.id) + Towards(f.verb)
<1>1. IsLine(e.levels) /\ DOMAIN e.levels = 1 .. Len(e.levels) /\ Len(e.levels) \in Nat
  BY DEF IsGame, IsLine
<1>2. CASE ~(e.dated /\ f.id \in LevelIds(e))
  BY <1>2 DEF MoveLevel, KeepsLevels, LevelIds, Listed
<1>3. CASE e.dated /\ f.id \in LevelIds(e)
  <2>1. Listed(e.levels, f.id)
    BY <1>3 DEF LevelIds, Listed
  <2>2. PICK i \in 1 .. Len(e.levels) : i = OrderOf(e.levels, f.id)
    BY <1>1, <2>1, Place
  <2>3. PICK j \in Int : j = i + Towards(f.verb) /\ j = IF f.verb = "move_up" THEN i - 1 ELSE i + 1
    BY DEF Towards
  <2>4. n = IF j \in DOMAIN e.levels THEN [e EXCEPT !.levels = Swapped(e.levels, i, j)] ELSE e
    BY <1>3, <2>2, <2>3 DEF MoveLevel, KeepsLevels
  <2>5. CASE j \notin DOMAIN e.levels
    <3>1. AtEdge(e.levels, f)
      BY <1>1, <2>2, <2>3, <2>5 DEF AtEdge, Moves
    <3> QED BY <2>1, <2>4, <2>5, <3>1
  <2>6. CASE j \in DOMAIN e.levels
    <3>1. PICK s : s = Swapped(e.levels, i, j)
      OBVIOUS
    <3>2. i # j
      BY <2>3
    <3>3. /\ s = [x \in 1 .. Len(e.levels) |-> s[x]] /\ DOMAIN s = 1 .. Len(e.levels)
          /\ s[i] = e.levels[j] /\ s[j] = e.levels[i]
          /\ \A x \in 1 .. Len(e.levels) : x # i /\ x # j => s[x] = e.levels[x]
      BY <1>1, <2>6, <3>1, <3>2 DEF Swapped
    <3>4. PICK at : at = [x \in 1 .. Len(e.levels) |-> IF x = i THEN j ELSE IF x = j THEN i ELSE x]
      OBVIOUS
    <3>5. PICK T : s \in [1 .. Len(e.levels) -> T]
      <4>1. s \in [1 .. Len(e.levels) -> {s[x] : x \in 1 .. Len(e.levels)}]
        BY <3>3
      <4> QED BY <4>1
    <3>6. IsLine(s)
      <4>1. at \in [1 .. Len(e.levels) -> DOMAIN e.levels]
        BY <1>1, <2>6, <3>4
      <4>2. \A x, y \in 1 .. Len(e.levels) : at[x] = at[y] => x = y
        BY <3>4
      <4>3. \A x \in 1 .. Len(e.levels) : s[x] = e.levels[at[x]]
        BY <1>1, <2>6, <3>2, <3>3, <3>4
      <4>4. \A x \in 1 .. Len(e.levels) : at[x] \in DOMAIN e.levels
        BY <4>1
      <4>5. \A y \in DOMAIN e.levels : DOMAIN e.levels[y] = LevelFields
        BY <1>1 DEF IsLine
      <4>6. \A x \in 1 .. Len(e.levels) : DOMAIN s[x] = LevelFields /\ s[x].id = e.levels[at[x]].id
        BY <4>3, <4>4, <4>5
      <4> QED BY <1>1, <3>5, <4>1, <4>2, <4>6, Rearranged
    <3>7. s[j].id = f.id
      BY <1>1, <2>1, <2>2, <3>3, Place
    <3>8. Listed(s, f.id) /\ OrderOf(s, f.id) = j
      <4>1. Listed(s, f.id)
        BY <1>1, <2>6, <3>3, <3>7 DEF Listed
      <4> QED BY <1>1, <2>6, <3>3, <3>6, <3>7, <4>1, Place
    <3>9. n = [e EXCEPT !.levels = s]
      BY <2>4, <2>6, <3>1
    <3> QED BY <2>2, <2>3, <3>6, <3>8, <3>9, NewLine
  <2> QED BY <2>5, <2>6
<1> QED BY <1>2, <1>3

LEMMA UpdatedGame ==
  ASSUME NEW e, IsGame(e), NEW f, NEW n, n = UpdateGame(e, f)
  PROVE  SameLine(n, e) /\ n.name = f.fields.name /\ n.finished = f.fields.finished
<1>1. DOMAIN e = GameFields /\ e.dated \in BOOLEAN /\ e.stopped \in BOOLEAN /\ IsLine(e.levels)
  BY DEF IsGame
<1>2. PICK a, b : a = f.fields.name /\ b = f.fields.finished
  OBVIOUS
<1>3. n = [e EXCEPT !.name = a, !.finished = b]
  BY <1>2 DEF UpdateGame
<1>4. /\ DOMAIN n = GameFields /\ n.dated = e.dated /\ n.stopped = e.stopped /\ n.levels = e.levels
      /\ n.name = a /\ n.finished = b
  BY <1>1, <1>3 DEF GameFields
<1> QED BY <1>1, <1>2, <1>4 DEF SameLine, IsGame

LEMMA UpdatedTeam ==
  ASSUME NEW e, IsGame(e), NEW f, NEW n, n = UpdateTeam(e, f)
  PROVE  /\ SameLine(n, e)
         /\ n.status = f.fields.status /\ n.points = f.fields.points
         /\ n.blocked = f.fields.blocked /\ (~f.fields.newPin => n.pin = e.pin)
<1>1. DOMAIN e = GameFields /\ e.dated \in BOOLEAN /\ e.stopped \in BOOLEAN /\ IsLine(e.levels)
  BY DEF IsGame
<1>2. PICK a, b, c : a = f.fields.status /\ b = f.fields.points /\ c = f.fields.blocked
  OBVIOUS
<1>3. PICK p : p = (IF f.fields.newPin THEN "new" ELSE e.pin)
  OBVIOUS
<1>4. n = [e EXCEPT !.status = a, !.points = b, !.blocked = c, !.pin = p]
  BY <1>2, <1>3 DEF UpdateTeam
<1>5. /\ DOMAIN n = GameFields /\ n.dated = e.dated /\ n.stopped = e.stopped /\ n.levels = e.levels
      /\ n.status = a /\ n.points = b /\ n.blocked = c /\ n.pin = p
  BY <1>1, <1>4 DEF GameFields
<1>6. SameLine(n, e)
  BY <1>1, <1>5 DEF SameLine, IsGame
<1>7. ~f.fields.newPin => p = e.pin
  BY <1>3
<1> QED BY <1>2, <1>5, <1>6, <1>7

LEMMA AcceptedApplications ==
  ASSUME NEW e, IsGame(e), NEW n, n = AcceptApplications(e)
  PROVE  SameLine(n, e)
<1>1. PICK x : x = [e EXCEPT !.status = 1]
  OBVIOUS
<1>2. SameLine(x, e)
  BY <1>1, OtherField
<1>3. n = [x EXCEPT !.pin = "new"]
  BY <1>1 DEF AcceptApplications
<1>4. SameLine(n, x)
  BY <1>2, <1>3, OtherField DEF SameLine
<1> QED BY <1>2, <1>4 DEF SameLine

LEMMA ChatKeepsLine ==
  ASSUME NEW e, IsGame(e), NEW f, NEW now
  PROVE  /\ SameLine(SendMessage(e, f, now), e)
         /\ \A at : SameLine(DeleteMessage(e, at), e)
         /\ SameLine([e EXCEPT !.chat = <<>>], e)
<1>1. SameLine(e, e)
  BY DEF SameLine
<1>2. \A v, n : n = [e EXCEPT !.chat = v] => SameLine(n, e)
  BY OtherField
<1>3. SameLine(SendMessage(e, f, now), e)
  <2>1. PICK v : v = Append(e.chat, [at |-> now, text |-> f.fields.text])
    OBVIOUS
  <2>2. SendMessage(e, f, now) = [e EXCEPT !.chat = v]
    BY <2>1 DEF SendMessage
  <2> QED BY <1>2, <2>2
<1>4. ASSUME NEW at PROVE SameLine(DeleteMessage(e, at), e)
  <2>1. PICK v : v = RemoveAt(e.chat, CHOOSE i \in DOMAIN e.chat :
                       e.chat[i].at = at /\ \A j \in DOMAIN e.chat : e.chat[j].at = at => i <= j)
    OBVIOUS
  <2>2. DeleteMessage(e, at) = e \/ DeleteMessage(e, at) = [e EXCEPT !.chat = v]
    BY <2>1 DEF DeleteMessage
  <2> QED BY <1>1, <1>2, <2>2
<1> QED BY <1>2, <1>3, <1>4

\* Whatever is posted, the engine has a game with one line of levels, and its date.
LEMMA ServedIsGame ==
  ASSUME NEW e, IsGame(e), NEW f, NEW now, NEW n, n = Served(e, f, now)
  PROVE  IsGame(n) /\ n.dated = e.dated
<1>1. CASE f.verb = "update_game"
  <2>1. n = UpdateGame(e, f)
    BY <1>1 DEF Served, LiveForms
  <2>2. SameLine(n, e)
    BY ONLY IsGame(e), <2>1, UpdatedGame
  <2> QED BY <2>2 DEF SameLine
<1>2. CASE f.verb = "create_level"
  <2>1. n = AddLevel(e, f)
    BY <1>2 DEF Served, LiveForms
  <2> QED BY <1>2, <2>1, AddedLevel
<1>3. CASE f.verb = "update_level"
  <2>1. n = UpdateLevel(e, f)
    BY <1>3 DEF Served, LiveForms
  <2> QED BY ONLY IsGame(e), <2>1, UpdatedLevel
<1>4. CASE f.verb = "delete_level"
  <2>1. n = DeleteLevel(e, f)
    BY <1>4 DEF Served, LiveForms
  <2> QED BY <1>4, <2>1, DeletedLevel
<1>5. CASE f.verb \in {"move_up", "move_down"}
  <2>1. n = MoveLevel(e, f)
    BY <1>5 DEF Served, LiveForms
  <2> QED BY <1>5, <2>1, MovedLevel DEF Moves
<1>6. CASE f.verb = "set_application"
  <2>1. n = UpdateTeam(e, f)
    BY <1>6 DEF Served, LiveForms
  <2>2. SameLine(n, e)
    BY ONLY IsGame(e), <2>1, UpdatedTeam
  <2> QED BY <2>2 DEF SameLine
<1>7. CASE f.verb \in {"accept_all", "generate_pins"}
  <2>1. n = AcceptApplications(e)
    BY <1>7 DEF Served, LiveForms
  <2> QED BY <1>7, <2>1, AcceptedApplications DEF SameLine
<1>8. CASE f.verb \in LiveForms
  <2>1. n = Intervene(e, f)
    BY <1>8 DEF Served, LiveForms
  <2> QED BY <1>8, <2>1, LiveKeepsLine DEF SameLine
<1>9. CASE f.verb \in {"send_message", "delete_message", "delete_messages"}
  BY <1>9, ChatKeepsLine DEF Served, SameLine, LiveForms
<1>10. CASE f.verb \notin {"update_game", "create_level", "update_level", "delete_level", "move_up",
                           "move_down", "set_application", "accept_all", "generate_pins",
                           "send_message", "delete_message", "delete_messages"} \cup LiveForms
  BY <1>10 DEF Served
<1> QED BY <1>1, <1>2, <1>3, <1>4, <1>5, <1>6, <1>7, <1>8, <1>9, <1>10

LEMMA CodeKeepsGame ==
  ASSUME NEW e, IsGame(e), NEW k, NEW code, NEW n, n = PlayerCode(e, k, code)
  PROVE  IsGame(n)
<1>1. PICK v : v = [e.progress EXCEPT ![k].codes = @ \cup {code}]
  OBVIOUS
<1>2. n = e \/ n = [e EXCEPT !.progress = v]
  BY <1>1 DEF PlayerCode, AcceptCode
<1> QED BY <1>2, OtherField DEF SameLine

LEMMA Switched ==
  ASSUME NEW e, IsGame(e), NEW f, f.verb = "switch_robot", NEW now, NEW n, n = Served(e, f, now)
  PROVE  n.stopped = ~e.stopped
<1>1. n = SwitchRobot(e)
  BY DEF Served, Intervene, LiveForms
<1>2. PICK v \in BOOLEAN : v = ~e.stopped
  OBVIOUS
<1>3. n = [e EXCEPT !.stopped = v]
  BY <1>1, <1>2 DEF SwitchRobot
<1>4. "stopped" \in DOMAIN e
  BY DEF IsGame, GameFields
<1> QED BY <1>2, <1>3, <1>4

\* A level with nothing beyond it stands at that end of the line.
LEMMA EdgeIsEnd ==
  ASSUME NEW s, IsLine(s), NEW op, op.verb \in Moves, Listed(s, op.id), AtEdge(s, op)
  PROVE  AtItsEnd(s, op)
<1>1. PICK l \in Nat, i \in Nat : l = Len(s) /\ i = OrderOf(s, op.id) /\ i \in 1 .. l
                               /\ s[i].id = op.id /\ DOMAIN s = 1 .. l
  BY Place DEF IsLine
<1>2. ~ \E j \in 1 .. l : IF op.verb = "move_up" THEN j < i ELSE j > i
  BY <1>1 DEF AtEdge
<1>3. CASE op.verb = "move_up"
  <2>1. i = 1
    <3>1. ~(1 < i)
      BY <1>1, <1>2, <1>3
    <3> QED BY <1>1, <3>1
  <2> QED BY <1>1, <1>3, <2>1 DEF AtItsEnd
<1>4. CASE op.verb # "move_up"
  <2>1. i = l
    <3>1. ~(l > i)
      BY <1>1, <1>2, <1>4
    <3> QED BY <1>1, <3>1
  <2> QED BY <1>1, <1>4, <2>1 DEF AtItsEnd, Last
<1> QED BY <1>3, <1>4

-----------------------------------------------------------------------------
(* What a call reads, and what its form does to an engine that is as it was  *)
(* when the call read it.                                                    *)

LEMMA ReadsFirst ==
  ASSUME NEW v
  PROVE  /\ v = "update_game" => ReadFirst(v) = "game"
         /\ v = "update_level" => ReadFirst(v) = "level"
         /\ v = "set_application" => ReadFirst(v) = "team"
         /\ v \in Switches => ReadFirst(v) = "monitor"
         /\ v \in Moves => ReadFirst(v) = "levels"
BY DEF ReadFirst, Switches, Moves

LEMMA Pages ==
  ASSUME NEW e, NEW id
  PROVE  /\ Page(e, "game", id) = GamePage(e) /\ Page(e, "level", id) = LevelPage(e, id)
         /\ Page(e, "team", id) = TeamPage(e) /\ Page(e, "monitor", id) = MonitorPage(e)
         /\ Page(e, "levels", id) = e.levels
BY DEF Page

LEMMA Overlaid ==
  ASSUME NEW page, NEW set
  PROVE  \A k \in DOMAIN page :
           /\ k \in DOMAIN set => Overlay(page, set)[k] = set[k]
           /\ k \notin DOMAIN set => Overlay(page, set)[k] = page[k]
BY DEF Overlay

LEMMA ListedIds ==
  ASSUME NEW e, NEW id
  PROVE  id \in LevelIds(e) <=> Listed(e.levels, id)
BY DEF LevelIds, Listed

\* What a call knows before its form is served.
Fresh(c, e) ==
  LET verb == c.op.verb  id == c.op.id IN
  c.step \in {"post", "wait"} =>
    /\ verb \in Updates \cup Switches \cup Moves =>
         Exists(e, ReadFirst(verb), id) /\ c.page = Page(e, ReadFirst(verb), id)
    /\ verb \in Moves => id \in LevelIds(e)
    /\ verb \in Switches => ~AlreadySo(c.op, c.page)

\* What its form did.
Did(c, e) ==
  LET verb == c.op.verb  id == c.op.id IN
  /\ verb = "delete_level" /\ e.dated => id \notin LevelIds(e)
  /\ verb \in Moves =>
       /\ id \in LevelIds(e) /\ OrderOf(c.page, id) \in Nat
       /\ \/ c.page = e.levels /\ (e.dated => AtEdge(c.page, c.op))
          \/ OrderOf(e.levels, id) = OrderOf(c.page, id) + Towards(verb)
  /\ verb \in Switches => AlreadySo(c.op, MonitorPage(e))
  /\ verb = "update_game" => \A k \in DOMAIN c.op.set : GamePage(e)[k] = c.op.set[k]
  /\ verb = "update_level" =>
       /\ id \in LevelIds(e)
       /\ \A k \in DOMAIN c.op.set : LevelPage(e, id)[k] = c.op.set[k] \/ Emptied(c, k)

LEMMA ServedGameForm ==
  ASSUME NEW e, IsGame(e), NEW op, op.verb = "update_game", NEW id, NEW page, page = GamePage(e),
         NEW now, NEW n, n = Served(e, FormOf(op, page), now)
  PROVE  \A k \in {"name", "finished"} :
           /\ k \in DOMAIN op.set => GamePage(n)[k] = op.set[k]
           /\ k \notin DOMAIN op.set => GamePage(n)[k] = GamePage(e)[k]
<1>1. PICK o : o = Overlay(page, op.set)
  OBVIOUS
<1>2. PICK f : f = FormOf(op, page)
  OBVIOUS
<1>3. f.verb = "update_game" /\ f.fields = o
  BY <1>1, <1>2 DEF FormOf, GameForm, Form, Switches
<1>4. n = UpdateGame(e, f)
  BY <1>2, <1>3 DEF Served, LiveForms
<1>5. n.name = o.name /\ n.finished = o.finished
  BY <1>3, <1>4, UpdatedGame
<1>6. DOMAIN page = {"name", "finished"}
  BY DEF GamePage
<1>7. \A k \in {"name", "finished"} :
        (k \in DOMAIN op.set => o[k] = op.set[k]) /\ (k \notin DOMAIN op.set => o[k] = page[k])
  BY <1>1, <1>6, Overlaid
<1>8. \A k \in {"name", "finished"} : GamePage(n)[k] = o[k]
  BY <1>5 DEF GamePage
<1> QED BY <1>7, <1>8

LEMMA ServedLevelForm ==
  ASSUME NEW e, IsGame(e), NEW op, op.verb = "update_level", Listed(e.levels, op.id),
         NEW page, page = LevelPage(e, op.id),
         NEW now, NEW n, n = Served(e, FormOf(op, page), now)
  PROVE  /\ Listed(n.levels, op.id)
         /\ \A k \in {"title", "codes"} :
              /\ k \in DOMAIN op.set =>
                   LevelPage(n, op.id)[k] = op.set[k] \/ (k = "codes" /\ op.set[k] = {})
              /\ k \notin DOMAIN op.set => LevelPage(n, op.id)[k] = LevelPage(e, op.id)[k]
<1>1. PICK o : o = Overlay(page, op.set)
  OBVIOUS
<1>2. PICK f : f = FormOf(op, page)
  OBVIOUS
<1>3. f.verb = "update_level" /\ f.id = op.id /\ f.fields = o
  BY <1>1, <1>2 DEF FormOf, LevelForm, Form, Switches
<1>4. n = UpdateLevel(e, f)
  BY <1>2, <1>3 DEF Served, LiveForms
<1>5. /\ Listed(n.levels, op.id) /\ LevelPage(n, op.id).title = o.title
      /\ LevelPage(n, op.id).codes = IF o.codes = {} THEN page.codes ELSE o.codes
  <2>1. Listed(e.levels, f.id)
    BY <1>3
  <2>2. /\ Listed(n.levels, f.id) /\ LevelPage(n, f.id).title = f.fields.title
        /\ LevelPage(n, f.id).codes = IF f.fields.codes = {} THEN LevelPage(e, f.id).codes
                                                             ELSE f.fields.codes
    BY ONLY IsGame(e), <1>4, <2>1, UpdatedLevel
  <2> QED BY <1>3, <2>2
<1>6. DOMAIN page = {"title", "codes"}
  BY DEF LevelPage
<1>7. \A k \in {"title", "codes"} :
        (k \in DOMAIN op.set => o[k] = op.set[k]) /\ (k \notin DOMAIN op.set => o[k] = page[k])
  BY <1>1, <1>6, Overlaid
<1>8. \A k \in {"title", "codes"} :
        \/ LevelPage(n, op.id)[k] = o[k]
        \/ k = "codes" /\ o[k] = {} /\ LevelPage(n, op.id)[k] = page[k]
  BY <1>5
<1>9. \A k \in {"title", "codes"} \ DOMAIN op.set : LevelPage(n, op.id)[k] = page[k]
  BY <1>7, <1>8
<1>10. \A k \in {"title", "codes"} \cap DOMAIN op.set :
         LevelPage(n, op.id)[k] = op.set[k] \/ (k = "codes" /\ op.set[k] = {})
  BY <1>7, <1>8
<1> QED BY <1>5, <1>9, <1>10

LEMMA ServedApplicationForm ==
  ASSUME NEW e, IsGame(e), NEW op, op.verb = "set_application", NEW page, page = TeamPage(e),
         NEW now, NEW n, n = Served(e, FormOf(op, page), now)
  PROVE  \A k \in {"status", "points", "blocked", "pin"} \ DOMAIN op.set :
           TeamPage(e)[k] = TeamPage(n)[k] \/ (k = "pin" /\ "newPin" \in DOMAIN op.set)
<1>1. PICK box : box = [status |-> page.status, points |-> page.points,
                        blocked |-> page.blocked, newPin |-> FALSE]
  OBVIOUS
<1>2. PICK o : o = Overlay(box, op.set)
  OBVIOUS
<1>3. PICK f : f = FormOf(op, page)
  OBVIOUS
<1>4. f.verb = "set_application" /\ f.fields = o
  BY <1>1, <1>2, <1>3 DEF FormOf, ApplicationForm, Form, Switches
<1>5. n = UpdateTeam(e, f)
  BY <1>3, <1>4 DEF Served, LiveForms
<1>6. /\ n.status = o.status /\ n.points = o.points /\ n.blocked = o.blocked
      /\ ~o.newPin => n.pin = e.pin
  BY <1>4, <1>5, UpdatedTeam
<1>7. /\ DOMAIN box = {"status", "points", "blocked", "newPin"}
      /\ box.status = e.status /\ box.points = e.points /\ box.blocked = e.blocked /\ box.newPin = FALSE
  BY <1>1 DEF TeamPage
<1>8. \A k \in {"status", "points", "blocked", "newPin"} :
        k \notin DOMAIN op.set => o[k] = box[k]
  BY <1>2, <1>7, Overlaid
<1>9. "newPin" \notin DOMAIN op.set => n.pin = e.pin
  BY <1>6, <1>7, <1>8
<1>10. /\ "status" \notin DOMAIN op.set => n.status = e.status
       /\ "points" \notin DOMAIN op.set => n.points = e.points
       /\ "blocked" \notin DOMAIN op.set => n.blocked = e.blocked
  BY <1>6, <1>7, <1>8
<1> QED BY <1>9, <1>10 DEF TeamPage

LEMMA ServedDoes ==
  ASSUME NEW e, IsGame(e), NEW c, IsOp(c.op), c.step = "wait", Fresh(c, e),
         NEW now, NEW n, n = Served(e, FormOf(c.op, c.page), now)
  PROVE  Did(c, n)
<1>1. PICK f : f = FormOf(c.op, c.page)
  OBVIOUS
<1>2. ASSUME c.op.verb = "delete_level", n.dated PROVE c.op.id \notin LevelIds(n)
  <2>1. f.verb = "delete_level" /\ f.id = c.op.id
    BY <1>1, <1>2 DEF FormOf, Form, Switches
  <2>2. n = DeleteLevel(e, f)
    BY <1>1, <2>1 DEF Served, LiveForms
  <2>3. n.dated = e.dated /\ (e.dated => ~Listed(n.levels, f.id))
    BY ONLY IsGame(e), <2>2, DeletedLevel
  <2> QED BY <1>2, <2>1, <2>3, ListedIds
<1>3. ASSUME c.op.verb \in Moves
      PROVE  /\ c.op.id \in LevelIds(n) /\ OrderOf(c.page, c.op.id) \in Nat
             /\ \/ c.page = n.levels /\ (n.dated => AtEdge(c.page, c.op))
                \/ OrderOf(n.levels, c.op.id) = OrderOf(c.page, c.op.id) + Towards(c.op.verb)
  <2>1. f.verb = c.op.verb /\ f.id = c.op.id
    BY <1>1, <1>3 DEF FormOf, Form, Switches, Moves
  <2>2. n = MoveLevel(e, f)
    BY <1>1, <1>3, <2>1 DEF Served, LiveForms, Moves
  <2>3. c.page = e.levels /\ c.op.id \in LevelIds(e)
    BY <1>3, ReadsFirst, Pages DEF Fresh
  <2>4. Listed(e.levels, f.id) /\ f.verb \in Moves
    BY <1>3, <2>1, <2>3, ListedIds
  <2>5. /\ n.dated = e.dated /\ Listed(n.levels, f.id)
        /\ \/ n.levels = e.levels /\ (e.dated => AtEdge(e.levels, f))
           \/ OrderOf(n.levels, f.id) = OrderOf(e.levels, f.id) + Towards(f.verb)
    BY ONLY IsGame(e), <2>2, <2>4, MovedLevel
  <2>6. OrderOf(e.levels, f.id) \in Nat
    BY <2>4, Place DEF IsGame
  <2>7. AtEdge(e.levels, f) => AtEdge(e.levels, c.op)
    BY <2>1 DEF AtEdge
  <2> QED BY <2>1, <2>3, <2>5, <2>6, <2>7, ListedIds
<1>4. ASSUME c.op.verb \in Switches PROVE AlreadySo(c.op, MonitorPage(n))
  <2>1. f.verb = "switch_robot"
    BY <1>1, <1>4 DEF FormOf, SwitchForm, Form, Switches
  <2>2. n.stopped = ~e.stopped
    BY <1>1, <2>1, Switched
  <2>3. ~AlreadySo(c.op, MonitorPage(e))
    BY <1>4, ReadsFirst, Pages DEF Fresh
  <2>4. e.stopped \in BOOLEAN
    BY DEF IsGame
  <2>5. ~(e.stopped <=> (c.op.verb = "engine_off"))
    BY <2>3, <2>4 DEF AlreadySo, MonitorPage
  <2> QED BY <2>2, <2>4, <2>5 DEF AlreadySo, MonitorPage
<1>5. ASSUME c.op.verb = "update_game"
      PROVE  \A k \in DOMAIN c.op.set : GamePage(n)[k] = c.op.set[k]
  <2>1. c.page = GamePage(e)
    BY <1>5, ReadsFirst, Pages DEF Fresh, Updates
  <2> QED BY <1>5, <2>1, ServedGameForm DEF IsOp
<1>6. ASSUME c.op.verb = "update_level"
      PROVE  /\ c.op.id \in LevelIds(n)
             /\ \A k \in DOMAIN c.op.set :
                  LevelPage(n, c.op.id)[k] = c.op.set[k] \/ Emptied(c, k)
  <2>1. c.page = LevelPage(e, c.op.id) /\ c.op.id \in LevelIds(e)
    BY <1>6, ReadsFirst, Pages DEF Fresh, Updates, Exists
  <2>2. Listed(e.levels, c.op.id)
    BY <2>1, ListedIds
  <2>3. PICK op, page : op = c.op /\ page = c.page
    OBVIOUS
  <2>4. /\ page = LevelPage(e, op.id) /\ op.verb = "update_level" /\ Listed(e.levels, op.id)
        /\ n = Served(e, FormOf(op, page), now)
    BY <1>6, <2>1, <2>2, <2>3
  <2>5. /\ Listed(n.levels, op.id)
        /\ \A k \in {"title", "codes"} : k \in DOMAIN op.set =>
             LevelPage(n, op.id)[k] = op.set[k] \/ (k = "codes" /\ op.set[k] = {})
    BY ONLY IsGame(e), <2>4, ServedLevelForm
  <2>6. DOMAIN op.set \subseteq {"title", "codes"}
    BY <1>6, <2>3 DEF IsOp
  <2> QED BY <2>3, <2>5, <2>6, ListedIds DEF Emptied
<1> QED BY <1>2, <1>3, <1>4, <1>5, <1>6 DEF Did

-----------------------------------------------------------------------------
(* The inductive invariant of the work on the game.                          *)

Steps == {"read", "post", "wait", "answered", "look", "over"}

\* A call fits the engine's game: it is at a step of its own, and unless it was crossed, what
\* it knows, what its form did and what it reports are so.
Fits(c, e) ==
  /\ IsOp(c.op)
  /\ c.front = "player" <=> c.op.verb = "send_code"
  /\ c.step \in Steps
  /\ c.step = "look" => c.op.verb \in Moves \cup {"delete_level"}
  /\ c.step = "answered" /\ c.front # "player" => c.answer \in {"ok", "unreadable"}
  /\ ~c.crossed =>
       /\ Fresh(c, e)
       /\ c.step \in {"answered", "look"} => Did(c, e)
       /\ c.step = "over" => Shows(c, e)

AllFit(cs, e) == \A h \in Hand : cs[h] # NoCall => Fits(cs[h], e)

WorkInv == plan \in Plans /\ IsGame(game) /\ AllFit(call, game)

Like(n, c) == n.op = c.op /\ n.front = c.front /\ n.page = c.page /\ n.crossed = c.crossed

LEMMA AtStep ==
  ASSUME NEW c, DOMAIN c = CallFields, NEW s, NEW n, n = [c EXCEPT !.step = s]
  PROVE  Like(n, c) /\ n.step = s
BY DEF CallFields, Like

LEMMA IsCrossed ==
  ASSUME NEW c, DOMAIN c = CallFields, NEW n, n = [c EXCEPT !.crossed = TRUE]
  PROVE  /\ n.op = c.op /\ n.front = c.front /\ n.step = c.step /\ n.answer = c.answer
         /\ n.crossed
BY DEF CallFields, Like

LEMMA CrossedFits ==
  ASSUME NEW c, DOMAIN c = CallFields, NEW e, Fits(c, e), NEW g, NEW n, n = [c EXCEPT !.crossed = TRUE]
  PROVE  Fits(n, g)
<1>1. n.op = c.op /\ n.front = c.front /\ n.step = c.step /\ n.answer = c.answer /\ n.crossed
  BY IsCrossed
<1> QED BY <1>1 DEF Fits

LEMMA FailedFits ==
  ASSUME NEW c, DOMAIN c = CallFields, NEW e, Fits(c, e), NEW n,
         n = [c EXCEPT !.step = "over", !.report = "failed"]
  PROVE  Fits(n, e)
<1>1. Like(n, c) /\ n.step = "over" /\ n.report = "failed"
  BY DEF CallFields, Like
<1>2. Shows(n, e) /\ Fresh(n, e)
  BY <1>1 DEF Shows, Fresh
<1> QED BY <1>1, <1>2 DEF Fits, Like, Steps

LEMMA ReportFits ==
  ASSUME NEW c, DOMAIN c = CallFields, NEW e, Fits(c, e), NEW r, NEW n,
         n = [c EXCEPT !.step = "over", !.report = r], ~c.crossed => Shows(n, e)
  PROVE  Fits(n, e)
<1>1. Like(n, c) /\ n.step = "over"
  BY DEF CallFields, Like
<1>2. Fresh(n, e)
  BY <1>1 DEF Fresh
<1> QED BY <1>1, <1>2 DEF Fits, Like, Steps

LEMMA OneFits ==
  ASSUME IInv, AllFit(call, game), NEW h \in Hand, NEW c, Becomes(h, c), Fits(c, game),
         game' = game
  PROVE  AllFit(call', game')
<1>1. call' = [call EXCEPT ![h] = c] /\ DOMAIN call = Hand
  BY DEF Becomes, IInv, CallInv, Calls
<1> QED BY <1>1 DEF AllFit

LEMMA AllCrossed ==
  ASSUME NEW cs, Calls(cs), NEW mine, NEW e, NEW g,
         \A h \in Hand \ mine : cs[h] # NoCall => Fits(cs[h], e),
         \A h \in Hand \cap mine : cs[h] # NoCall => Fits(cs[h], g)
  PROVE  AllFit(Crossing(cs, mine), g)
<1> SUFFICES ASSUME NEW h \in Hand, Crossing(cs, mine)[h] # NoCall
             PROVE  Fits(Crossing(cs, mine)[h], g)
  BY DEF AllFit
<1>1. CASE h \in mine \/ cs[h] = NoCall
  BY <1>1 DEF Crossing
<1>2. CASE ~(h \in mine \/ cs[h] = NoCall)
  <2>1. DOMAIN cs[h] = CallFields /\ Fits(cs[h], e)
    BY <1>2 DEF Calls, Sound
  <2>2. Crossing(cs, mine)[h] = [cs[h] EXCEPT !.crossed = TRUE]
    BY <1>2 DEF Crossing
  <2> QED BY <2>1, <2>2, CrossedFits
<1> QED BY <1>1, <1>2

\* A form that was served crosses everybody else, if it did anything.
LEMMA ServingFits ==
  ASSUME IInv, AllFit(call, game), NEW h \in Hand, NEW g, NEW c, DOMAIN c = CallFields, Fits(c, g),
         NEW mine, Calls(mine), mine = [call EXCEPT ![h] = c],
         NEW cs, cs = IF g = game THEN mine ELSE Crossing(mine, {h})
  PROVE  AllFit(cs, g)
<1>1. DOMAIN call = Hand
  BY DEF IInv, CallInv, Calls
<1>2. mine[h] = c /\ \A x \in Hand \ {h} : mine[x] = call[x]
  BY <1>1
<1>3. CASE g = game
  BY <1>2, <1>3 DEF AllFit
<1>4. CASE g # game
  <2>1. \A x \in Hand \ {h} : mine[x] # NoCall => Fits(mine[x], game)
    BY <1>2 DEF AllFit
  <2>2. \A x \in Hand \cap {h} : mine[x] # NoCall => Fits(mine[x], g)
    BY <1>2
  <2> QED BY <1>4, <2>1, <2>2, AllCrossed
<1> QED BY <1>3, <1>4

-----------------------------------------------------------------------------
(* Each step of a call leaves every call fitting.                            *)

LEMMA BeganFits ==
  ASSUME IInv, WorkInv, NEW h \in Hand, NEW front, NEW op \in plan.ops, NEW step,
         Began(h, front, op, step), front = "player" <=> op.verb = "send_code",
         \/ step = "read"
         \/ step = "post" /\ op.verb \notin Updates \cup Switches \cup Moves
  PROVE  AllFit(call', game')
<1>1. PICK c : /\ c = [front |-> front, op |-> op, org |-> file.org, step |-> step,
                       page |-> NoPage, answer |-> "none", again |-> FALSE,
                       counted |-> 0, crossed |-> FALSE, report |-> "none"]
               /\ Becomes(h, c)
  BY DEF Began
<1>2. c.op = op /\ c.front = front /\ c.step = step /\ ~c.crossed
  BY <1>1
<1>3. IsOp(op)
  BY PlansAssumption DEF WorkInv
<1>4. Fresh(c, game)
  BY <1>2 DEF Fresh, Switches, Moves
<1>5. Fits(c, game)
  BY <1>2, <1>3, <1>4 DEF Fits, Steps
<1> QED BY <1>1, <1>5, OneFits DEF WorkInv, Began

LEMMA BeginFits ==
  ASSUME IInv, WorkInv, NEW h \in Hand, NEW front \in {"cli", "tool", "web"}, NEW verbs,
         "send_code" \notin verbs, Begin(h, front, verbs)
  PROVE  AllFit(call', game') /\ UNCHANGED <<game, plan>>
<1>1. PICK op \in plan.ops : op.verb \in verbs /\ Began(h, front, op, FirstStep(op))
  BY DEF Begin
<1>2. op.verb \in Updates \cup Switches \cup Moves => ReadFirst(op.verb) # "nothing"
  BY ReadsFirst DEF Updates
<1>3. \/ FirstStep(op) = "read"
      \/ FirstStep(op) = "post" /\ op.verb \notin Updates \cup Switches \cup Moves
  BY <1>2 DEF FirstStep
<1>4. op.verb # "send_code" /\ front # "player"
  BY <1>1
<1> QED BY <1>1, <1>3, <1>4, BeganFits DEF Began

LEMMA BegunFits ==
  ASSUME IInv, WorkInv, NEW h \in Hand,
         \/ CliShows(h) \/ CliShowsTeams(h) \/ CliShowsLive(h) \/ CliGames(h) \/ CliLevels(h)
         \/ CliTeams(h) \/ CliLevelsOfTeam(h) \/ CliCorrections(h) \/ CliTeamAndEngine(h) \/ CliChat(h)
         \/ ToolShows(h) \/ ToolShowsTeam(h) \/ ToolGames(h) \/ ToolLevels(h) \/ ToolTeams(h) \/ ToolMessages(h)
         \/ ToolLive(h) \/ ToolSwitches(h) \/ ToolLevelsOfTeam(h) \/ ToolProgress(h) \/ ToolEngine(h)
         \/ WebShows(h) \/ WebGames(h) \/ WebLevels(h)
  PROVE  AllFit(call', game') /\ UNCHANGED <<game, plan>>
<1> DEFINE Mine == ReadVerbs \cup GameVerbs \cup LevelVerbs \cup TeamVerbs \cup LiveVerbs \cup ChatVerbs
<1>1. "send_code" \notin Mine
  BY DEF ReadVerbs, GameVerbs, LevelVerbs, TeamVerbs, LiveVerbs, ChatVerbs, LiveForms, Switches, Moves
<1>2. \E front \in {"cli", "tool", "web"} : \E verbs : Begin(h, front, verbs) /\ verbs \subseteq Mine
  <2>1. {"show_game", "show_levels", "show_level"} \subseteq Mine /\ {"show_team"} \subseteq Mine
        /\ {"show_monitor", "show_messages"} \subseteq Mine
    BY DEF ReadVerbs
  <2>2. /\ {"block", "unblock", "send_message"} \cup Switches \subseteq Mine
        /\ {"give_level", "accept_code", "add_correction"} \subseteq Mine
        /\ {"accept_level", "give_and_accept", "clear_codes", "remove_level"} \subseteq Mine
        /\ {"clear_progress", "plan_level", "unplan_level", "delete_corrections"} \subseteq Mine
        /\ {"switch_robot", "finish_game", "set_time"} \subseteq Mine
        /\ Corrections \subseteq Mine /\ TeamAndEngine \subseteq Mine
    BY DEF LiveVerbs, LiveForms, ChatVerbs, Corrections, TeamAndEngine
  <2>3. CASE \/ CliShows(h) \/ CliShowsTeams(h) \/ CliShowsLive(h) \/ CliGames(h) \/ CliLevels(h)
             \/ CliTeams(h) \/ CliLevelsOfTeam(h) \/ CliCorrections(h) \/ CliTeamAndEngine(h) \/ CliChat(h)
    BY <2>1, <2>2, <2>3, Zenon DEF CliShows, CliShowsTeams, CliShowsLive, CliGames, CliLevels, CliTeams,
       CliLevelsOfTeam, CliCorrections, CliTeamAndEngine, CliChat
  <2>4. CASE \/ ToolShows(h) \/ ToolShowsTeam(h) \/ ToolGames(h) \/ ToolLevels(h) \/ ToolTeams(h)
             \/ ToolMessages(h) \/ ToolLive(h) \/ ToolSwitches(h) \/ ToolLevelsOfTeam(h)
             \/ ToolProgress(h) \/ ToolEngine(h)
    BY <2>1, <2>2, <2>4, Zenon DEF ToolShows, ToolShowsTeam, ToolGames, ToolLevels, ToolTeams, ToolMessages,
       ToolLive, ToolSwitches, ToolLevelsOfTeam, ToolProgress, ToolEngine
  <2>5. CASE WebShows(h) \/ WebGames(h) \/ WebLevels(h)
    BY <2>1, <2>2, <2>5, Zenon DEF WebShows, WebGames, WebLevels
  <2> QED BY <2>3, <2>4, <2>5
<1> QED BY <1>1, <1>2, BeginFits

LEMMA FitOf ==
  ASSUME IInv, WorkInv, NEW h \in Hand, Busy(h)
  PROVE  DOMAIN call[h] = CallFields /\ Fits(call[h], game) /\ call[h].step # "over"
BY CallOf DEF IInv, Sound, WorkInv, AllFit, Busy

LEMMA ReadFits ==
  ASSUME IInv, WorkInv, NEW h \in Hand, Read(h)
  PROVE  AllFit(call', game')
<1>1. PICK c : c = call[h]
  OBVIOUS
<1>2. DOMAIN c = CallFields /\ Fits(c, game) /\ c.step = "read" /\ game' = game
  BY <1>1, FitOf DEF Read
<1>3. PICK verb, id : verb = c.op.verb /\ id = c.op.id
  OBVIOUS
<1>4. CASE Over(h, c, "failed")
  BY <1>2, <1>4, FailedFits, OneFits DEF Over, WorkInv
<1>5. ASSUME NEW page, page = Page(game, ReadFirst(verb), id), Exists(game, ReadFirst(verb), id),
             verb \in Moves => id \in LevelIds(game),
             NEW r, r = [c EXCEPT !.page = page, !.crossed = FALSE],
             \/ verb \in ReadVerbs /\ Over(h, r, "shown")
             \/ verb \in Switches /\ AlreadySo(c.op, page) /\ Over(h, r, "done")
             \/ /\ ~(verb \in Switches /\ AlreadySo(c.op, page))
                /\ Becomes(h, [r EXCEPT !.step = "post"])
      PROVE  AllFit(call', game')
  <2>1. /\ DOMAIN r = CallFields /\ r.op = c.op /\ r.front = c.front /\ r.step = "read"
        /\ r.page = page /\ ~r.crossed
    BY <1>2, <1>5 DEF CallFields
  <2>2. Fits(r, game)
    BY <1>2, <2>1 DEF Fits, Fresh
  <2>3. CASE verb \in ReadVerbs /\ Over(h, r, "shown")
    <3>1. PICK n : n = [r EXCEPT !.step = "over", !.report = "shown"]
      OBVIOUS
    <3>2. Like(n, r) /\ n.report = "shown"
      BY <2>1, <3>1 DEF CallFields, Like
    <3>3. Shows(n, game)
      BY <1>3, <1>5, <2>1, <3>2 DEF Shows, Like
    <3>4. Fits(n, game)
      BY <2>1, <2>2, <3>1, <3>3, ReportFits
    <3> QED BY <1>2, <2>3, <3>1, <3>4, OneFits DEF Over, WorkInv
  <2>4. CASE verb \in Switches /\ AlreadySo(c.op, page) /\ Over(h, r, "done")
    <3>1. page = MonitorPage(game)
      BY <1>5, <2>4, ReadsFirst, Pages
    <3>2. PICK n : n = [r EXCEPT !.step = "over", !.report = "done"]
      OBVIOUS
    <3>3. Like(n, r) /\ n.report = "done"
      BY <2>1, <3>2 DEF CallFields, Like
    <3>4. Shows(n, game)
      BY <1>3, <2>1, <2>4, <3>1, <3>3 DEF Shows, Like, Switches
    <3>5. Fits(n, game)
      BY <2>1, <2>2, <3>2, <3>4, ReportFits
    <3> QED BY <1>2, <2>4, <3>2, <3>5, OneFits DEF Over, WorkInv
  <2>5. CASE /\ ~(verb \in Switches /\ AlreadySo(c.op, page))
             /\ Becomes(h, [r EXCEPT !.step = "post"])
    <3>1. PICK n : n = [r EXCEPT !.step = "post"]
      OBVIOUS
    <3>2. Like(n, r) /\ n.step = "post"
      BY <2>1, <3>1, AtStep
    <3>3. Fresh(n, game)
      BY <1>3, <1>5, <2>1, <2>5, <3>2 DEF Fresh, Like
    <3>4. Fits(n, game)
      BY <2>1, <2>2, <3>2, <3>3 DEF Fits, Like, Steps
    <3> QED BY <1>2, <2>5, <3>1, <3>4, OneFits DEF WorkInv
  <2> QED BY <1>5, <2>3, <2>4, <2>5
<1>6. CASE ~Over(h, c, "failed")
  <2>1. /\ Exists(game, ReadFirst(verb), id)
        /\ verb \in Moves => id \in LevelIds(game)
    BY <1>1, <1>3, <1>6 DEF Read
  <2>2. PICK page, r : /\ page = Page(game, ReadFirst(verb), id)
                       /\ r = [c EXCEPT !.page = page, !.crossed = FALSE]
    OBVIOUS
  <2>3. \/ verb \in ReadVerbs /\ Over(h, r, "shown")
        \/ verb \in Switches /\ AlreadySo(c.op, page) /\ Over(h, r, "done")
        \/ /\ ~(verb \in Switches /\ AlreadySo(c.op, page))
           /\ Becomes(h, [r EXCEPT !.step = "post"])
    <3>1. verb \in ReadVerbs => verb \notin Switches
      BY DEF ReadVerbs, Switches
    <3> QED BY <1>1, <1>3, <1>6, <2>2, <3>1 DEF Read
  <2> QED BY <1>5, <2>1, <2>2, <2>3
<1> QED BY <1>4, <1>6

LEMMA PostFits ==
  ASSUME IInv, WorkInv, NEW h \in Hand, Post(h)
  PROVE  AllFit(call', game')
<1>1. PICK c : c = call[h]
  OBVIOUS
<1>2. DOMAIN c = CallFields /\ Fits(c, game) /\ c.step = "post" /\ game' = game
  BY <1>1, FitOf DEF Post
<1>3. CASE Over(h, c, "failed")
  BY <1>2, <1>3, FailedFits, OneFits DEF Over, WorkInv
<1>4. CASE Becomes(h, [c EXCEPT !.step = "wait"])
  <2>1. PICK n : n = [c EXCEPT !.step = "wait"]
    OBVIOUS
  <2>2. Like(n, c) /\ n.step = "wait"
    BY <1>2, <2>1, AtStep
  <2>3. Fits(n, game)
    BY <1>2, <2>2 DEF Fits, Fresh, Like, Steps
  <2> QED BY <1>2, <1>4, <2>1, <2>3, OneFits DEF WorkInv
<1> QED BY <1>1, <1>3, <1>4 DEF Post

LEMMA ServeFits ==
  ASSUME IInv, WorkInv, NEW h \in Hand, Serve(h)
  PROVE  IsGame(game') /\ AllFit(call', game')
<1>1. PICK c : c = call[h]
  OBVIOUS
<1>2. /\ DOMAIN c = CallFields /\ Fits(c, game) /\ c.step = "wait" /\ c.front # "player"
      /\ IsGame(game) /\ Sound(c)
  BY <1>1, FitOf, CallOf DEF Serve, WorkInv, IInv
<1>3. CASE Over(h, c, "failed") /\ game' = game
  BY <1>2, <1>3, FailedFits, OneFits DEF Over, WorkInv
<1>4. CASE ~(Over(h, c, "failed") /\ game' = game)
  <2>1. PICK now, a, mine :
          /\ a \in {"ok", "unreadable"} /\ game' = Served(game, FormOf(c.op, c.page), now)
          /\ mine = [call EXCEPT ![h].step = "answered", ![h].answer = a]
          /\ call' = IF game' = game THEN mine ELSE Crossing(mine, {h})
    BY <1>1, <1>4 DEF Serve
  <2>2. PICK f, g : f = FormOf(c.op, c.page) /\ g = game'
    OBVIOUS
  <2>3. IsGame(g)
    BY <1>2, <2>1, <2>2, ServedIsGame
  <2>4. PICK n : n = [c EXCEPT !.step = "answered", !.answer = a]
    OBVIOUS
  <2>5. Like(n, c) /\ n.step = "answered" /\ n.answer = a /\ DOMAIN n = CallFields
    BY <1>2, <2>4 DEF CallFields, Like
  <2>6. Sound(n)
    BY <1>2, <2>4 DEF Sound, CallFields
  <2>7. ~c.crossed => Did(c, g)
    BY <1>2, <2>1, <2>2, ServedDoes DEF Fits
  <2>8. Did(c, g) => Did(n, g)
    BY <2>5 DEF Did, Like, Emptied
  <2>9. a \in {"ok", "unreadable"}
    BY <2>1
  <2>10. Fits(n, g)
    BY <1>2, <2>5, <2>7, <2>8, <2>9 DEF Fits, Fresh, Like, Steps
  <2>11. mine = [call EXCEPT ![h] = n]
    BY <1>1, <2>1, <2>4 DEF IInv, CallInv, Calls
  <2>12. Calls(mine)
    BY <2>6, <2>11, OneBecomes DEF IInv
  <2>13. PICK cs : cs = IF g = game THEN mine ELSE Crossing(mine, {h})
    OBVIOUS
  <2>14. AllFit(cs, g)
    BY <2>5, <2>10, <2>11, <2>12, <2>13, ServingFits DEF WorkInv
  <2>15. call' = cs
    BY <2>1, <2>2, <2>13
  <2> QED BY <2>2, <2>3, <2>14, <2>15
<1> QED BY <1>2, <1>3, <1>4

LEMMA GiveUpFits ==
  ASSUME IInv, WorkInv, NEW h \in Hand, GiveUp(h)
  PROVE  AllFit(call', game')
<1>1. PICK c : c = call[h]
  OBVIOUS
<1>2. DOMAIN c = CallFields /\ Fits(c, game) /\ game' = game /\ Over(h, c, "failed")
  BY <1>1, FitOf DEF GiveUp
<1> QED BY <1>2, FailedFits, OneFits DEF Over, WorkInv

LEMMA StrayFits ==
  ASSUME IInv, WorkInv, NEW h \in Hand, ServeStray(h)
  PROVE  IsGame(game') /\ AllFit(call', game')
<1>1. game' = game \/ \E now : game' = Served(game, stray[h], now)
  BY DEF ServeStray
<1>2. \A g, now : g = Served(game, stray[h], now) => IsGame(g)
  BY ServedIsGame DEF WorkInv
<1>3. IsGame(game')
  BY <1>1, <1>2 DEF WorkInv
<1>4. CASE game' = game
  BY <1>4 DEF ServeStray, WorkInv
<1>5. CASE game' # game
  <2>1. \A g : AllFit(Crossing(call, {}), g)
    BY AllCrossed DEF IInv, CallInv, WorkInv, AllFit
  <2> QED BY <1>3, <1>5, <2>1 DEF ServeStray
<1> QED BY <1>3, <1>4, <1>5

LEMMA SettleFits ==
  ASSUME IInv, WorkInv, NEW h \in Hand, Settle(h)
  PROVE  AllFit(call', game')
<1>1. PICK c : c = call[h]
  OBVIOUS
<1>2. /\ DOMAIN c = CallFields /\ Fits(c, game) /\ c.step = "answered" /\ game' = game
      /\ \/ Over(h, c, "failed")
         \/ LooksAfter(c) /\ Becomes(h, [c EXCEPT !.step = "look"])
         \/ ~LooksAfter(c) /\ Over(h, c, "done")
  <2>1. DOMAIN c = CallFields /\ Fits(c, game) /\ c.step = "answered" /\ game' = game /\ c.front # "player"
    BY <1>1, FitOf DEF Settle
  <2>2. c.answer \in {"ok", "unreadable"}
    BY <2>1 DEF Fits
  <2> QED BY <1>1, <2>1, <2>2 DEF Settle
<1>3. CASE Over(h, c, "failed")
  BY <1>2, <1>3, FailedFits, OneFits DEF Over, WorkInv
<1>4. CASE LooksAfter(c) /\ Becomes(h, [c EXCEPT !.step = "look"])
  <2>1. PICK n : n = [c EXCEPT !.step = "look"]
    OBVIOUS
  <2>2. Like(n, c) /\ n.step = "look"
    BY <1>2, <2>1, AtStep
  <2>3. Did(c, game) => Did(n, game)
    BY <2>2 DEF Did, Like, Emptied
  <2>4. Fits(n, game)
    BY <1>2, <1>4, <2>2, <2>3 DEF Fits, Fresh, Like, Steps, LooksAfter
  <2> QED BY <1>2, <1>4, <2>1, <2>4, OneFits DEF WorkInv
<1>5. CASE ~LooksAfter(c) /\ Over(h, c, "done")
  <2>1. PICK n : n = [c EXCEPT !.step = "over", !.report = "done"]
    OBVIOUS
  <2>2. Like(n, c) /\ n.report = "done"
    BY <1>2, <2>1 DEF CallFields, Like
  <2>3. ASSUME Did(c, game) PROVE Shows(n, game)
    <3>1. n.op = c.op /\ n.front = c.front /\ n.report = "done"
      BY <2>2 DEF Like
    <3>2. CASE c.op.verb = "delete_level"
      BY <1>5, <2>3, <3>1, <3>2, ListedIds DEF Shows, Did, LooksAfter, Unlooked, KeepsLevels
    <3>3. CASE c.op.verb \in Switches
      BY <2>3, <3>1, <3>3 DEF Shows, Did, Switches
    <3>4. CASE c.op.verb = "update_game"
      BY <2>3, <3>1, <3>4 DEF Shows, Did, Switches
    <3>5. CASE c.op.verb = "update_level"
      BY <2>3, <3>1, <3>5 DEF Shows, Did, Switches, Emptied
    <3>6. CASE c.op.verb \notin {"delete_level", "update_game", "update_level"} \cup Switches
      BY <3>1, <3>6 DEF Shows
    <3> QED BY <3>2, <3>3, <3>4, <3>5, <3>6
  <2>4. Fits(n, game)
    <3>1. ~c.crossed => Shows(n, game)
      BY <1>2, <2>3 DEF Fits
    <3> QED BY <1>2, <2>1, <3>1, ReportFits
  <2> QED BY <1>2, <1>5, <2>1, <2>4, OneFits DEF Over, WorkInv
<1> QED BY <1>2, <1>3, <1>4, <1>5

\* The list is read again, and what is reported of it is so.
LEMMA LookFits ==
  ASSUME IInv, WorkInv, NEW h \in Hand, Busy(h), NEW r, Look(h, r), NEW c, c = call[h],
         \A n : /\ Did(c, game) /\ n.op = c.op /\ n.front = c.front /\ n.page = c.page /\ n.report = r
                => Shows(n, game)
  PROVE  AllFit(call', game')
<1>1. DOMAIN c = CallFields /\ Fits(c, game) /\ c.step = "look" /\ game' = game
  BY FitOf DEF Look
<1>2. CASE Over(h, c, "failed")
  BY <1>1, <1>2, FailedFits, OneFits DEF Over, WorkInv
<1>3. CASE Over(h, c, r)
  <2>1. PICK n : n = [c EXCEPT !.step = "over", !.report = r]
    OBVIOUS
  <2>2. Like(n, c) /\ n.report = r
    BY <1>1, <2>1 DEF CallFields, Like
  <2>3. ~c.crossed => Shows(n, game)
    BY <1>1, <2>2 DEF Like, Fits
  <2>4. Fits(n, game)
    BY <1>1, <2>1, <2>3, ReportFits
  <2> QED BY <1>1, <1>3, <2>1, <2>4, OneFits DEF Over, WorkInv
<1> QED BY <1>2, <1>3 DEF Look

LEMMA MovedSays ==
  ASSUME IsGame(game), NEW c, c.op.verb \in Moves, Did(c, game),
         NEW n, n.op = c.op, n.page = c.page
  PROVE  /\ Listed(game.levels, c.op.id)
         /\ OrderOf(game.levels, c.op.id) # OrderOf(c.page, c.op.id) /\ n.report = "moved" => Shows(n, game)
         /\ OrderOf(game.levels, c.op.id) = OrderOf(c.page, c.op.id) =>
              /\ AtEdge(c.page, c.op) /\ n.report = "edge" => Shows(n, game)
              /\ ~AtEdge(c.page, c.op) /\ n.report = "refused" => Shows(n, game)
              /\ n.report = "stood" => Shows(n, game)
<1>1. PICK id, verb : id = c.op.id /\ verb = c.op.verb
  OBVIOUS
<1>2. Listed(game.levels, id) /\ IsLine(game.levels)
  BY <1>1, ListedIds DEF Did, IsGame
<1>3. /\ OrderOf(c.page, id) \in Nat
      /\ \/ c.page = game.levels /\ (game.dated => AtEdge(c.page, c.op))
         \/ OrderOf(game.levels, id) = OrderOf(c.page, id) + Towards(verb)
  BY <1>1 DEF Did
<1>4. ASSUME OrderOf(game.levels, id) = OrderOf(c.page, id)
      PROVE  c.page = game.levels /\ (game.dated => AtEdge(c.page, c.op))
  <2>1. \A k \in Nat : k # k + Towards(verb)
    BY DEF Towards
  <2> QED BY <1>3, <1>4, <2>1
<1>5. c.page = game.levels /\ AtEdge(c.page, c.op) => AtItsEnd(game.levels, c.op)
  BY <1>1, <1>2, EdgeIsEnd
<1>6. OrderOf(game.levels, id) # OrderOf(c.page, id) /\ n.report = "moved" => Shows(n, game)
  BY <1>1, <1>2, <1>3 DEF Shows
<1>7. ASSUME OrderOf(game.levels, id) = OrderOf(c.page, id)
      PROVE  /\ AtEdge(c.page, c.op) /\ n.report = "edge" => Shows(n, game)
             /\ ~AtEdge(c.page, c.op) /\ n.report = "refused" => Shows(n, game)
             /\ n.report = "stood" => Shows(n, game)
  <2>1. /\ AtEdge(c.page, c.op) => AtItsEnd(game.levels, n.op)
        /\ game.dated => AtItsEnd(game.levels, n.op)
        /\ ~AtEdge(c.page, c.op) => ~game.dated
    BY <1>4, <1>5, <1>7
  <2> QED BY <1>1, <1>2, <2>1 DEF Shows, KeepsLevels
<1> QED BY <1>1, <1>2, <1>6, <1>7

LEMMA CheckDeletedFits ==
  ASSUME IInv, WorkInv, NEW h \in Hand, CheckDeleted(h)
  PROVE  AllFit(call', game')
<1>1. PICK c, r : c = call[h] /\ r = CliDeleted(c, game.levels)
  OBVIOUS
<1>2. Busy(h) /\ c.op.verb = "delete_level" /\ Look(h, r)
  BY <1>1 DEF CheckDeleted
<1>3. \/ r = "refused" /\ c.op.id \in LevelIds(game)
      \/ r = "done" /\ c.op.id \notin LevelIds(game)
  BY <1>1 DEF CliDeleted, LevelIds
<1>4. ASSUME NEW n, Did(c, game), n.op = c.op, n.report = r PROVE Shows(n, game)
  BY <1>2, <1>3, <1>4, ListedIds DEF Did, Shows, KeepsLevels
<1> QED BY <1>1, <1>2, <1>4, LookFits

LEMMA CheckMovedFits ==
  ASSUME IInv, WorkInv, NEW h \in Hand, CheckMovedCli(h) \/ CheckMovedTool(h) \/ CheckMovedWeb(h)
  PROVE  AllFit(call', game')
<1>1. PICK c : c = call[h]
  OBVIOUS
<1>2. PICK r : /\ Busy(h) /\ c.op.verb \in Moves /\ Look(h, r)
               /\ r = CliMoved(c, game.levels) \/ r = Moved(c, game.levels)
  BY <1>1 DEF CheckMovedCli, CheckMovedTool, CheckMovedWeb
<1>3. PICK id : id = c.op.id
  OBVIOUS
<1>4. ASSUME NEW n, Did(c, game), n.op = c.op, n.page = c.page, n.report = r PROVE Shows(n, game)
  <2>1. /\ Listed(game.levels, id)
        /\ OrderOf(game.levels, id) # OrderOf(c.page, id) /\ n.report = "moved" => Shows(n, game)
        /\ OrderOf(game.levels, id) = OrderOf(c.page, id) =>
             /\ AtEdge(c.page, c.op) /\ n.report = "edge" => Shows(n, game)
             /\ ~AtEdge(c.page, c.op) /\ n.report = "refused" => Shows(n, game)
             /\ n.report = "stood" => Shows(n, game)
    BY <1>2, <1>3, <1>4, MovedSays DEF WorkInv
  <2>2. CASE OrderOf(game.levels, id) # OrderOf(c.page, id)
    <3>1. r = "moved"
      BY <1>2, <1>3, <2>1, <2>2 DEF CliMoved, Moved
    <3> QED BY <1>4, <2>1, <2>2, <3>1
  <2>3. CASE OrderOf(game.levels, id) = OrderOf(c.page, id)
    <3>1. \/ AtEdge(c.page, c.op) /\ r = "edge"
          \/ ~AtEdge(c.page, c.op) /\ r = "refused"
          \/ r = "stood"
      BY <1>2, <1>3, <2>1, <2>3 DEF CliMoved, Moved
    <3> QED BY <1>4, <2>1, <2>3, <3>1
  <2> QED BY <2>2, <2>3
<1> QED BY <1>1, <1>2, <1>4, LookFits

\* A player's code knows nothing of the game, and nothing is said of it.
LEMMA CodeFits ==
  ASSUME NEW c, IsOp(c.op), c.front = "player", c.op.verb = "send_code", NEW e,
         c.step \in {"post", "wait", "answered"}
  PROVE  Fits(c, e)
BY DEF Fits, Fresh, Did, Steps, Updates, Switches, Moves

LEMMA PlayerBeginsFits ==
  ASSUME IInv, WorkInv, NEW h \in Hand, PlayerBegins(h)
  PROVE  AllFit(call', game') /\ UNCHANGED <<game, plan>>
<1>1. PICK op \in plan.ops : op.verb = "send_code" /\ Began(h, "player", op, "post")
  BY DEF PlayerBegins, Codes
<1>2. op.verb \notin Updates \cup Switches \cup Moves
  BY <1>1 DEF Updates, Switches, Moves
<1> QED BY <1>1, <1>2, BeganFits DEF Began

LEMMA PlayerServedFits ==
  ASSUME IInv, WorkInv, NEW h \in Hand, PlayerServed(h)
  PROVE  IsGame(game') /\ AllFit(call', game')
<1>1. PICK c : c = call[h]
  OBVIOUS
<1>2. /\ DOMAIN c = CallFields /\ Fits(c, game) /\ c.step = "wait" /\ c.front = "player"
      /\ IsGame(game) /\ Sound(c) /\ c.op.verb = "send_code" /\ IsOp(c.op) /\ c.counted = 0
  BY <1>1, FitOf, CallOf DEF PlayerServed, WorkInv, IInv, Fits, Sound
<1>3. CASE Becomes(h, [c EXCEPT !.step = "answered", !.answer = "rejected"]) /\ game' = game
  <2>1. PICK n : n = [c EXCEPT !.step = "answered", !.answer = "rejected"]
    OBVIOUS
  <2>2. Like(n, c) /\ n.step = "answered"
    BY <1>2, <2>1 DEF CallFields, Like
  <2>3. Fits(n, game)
    BY <1>2, <2>2, CodeFits DEF Like
  <2> QED BY <1>2, <1>3, <2>1, <2>3, OneFits DEF WorkInv
<1>4. ASSUME game' = PlayerCode(game, Current, c.op.set.code), NEW a \in {"ok", "unreadable"},
             NEW mine, mine = [call EXCEPT ![h].step = "answered", ![h].answer = a, ![h].counted = @ + 1],
             call' = IF game' = game THEN mine ELSE Crossing(mine, {h})
      PROVE  IsGame(game') /\ AllFit(call', game')
  <2>1. PICK g : g = game'
    OBVIOUS
  <2>2. IsGame(g)
    BY <1>2, <1>4, <2>1, CodeKeepsGame
  <2>3. PICK n : n = [[[c EXCEPT !.step = "answered"] EXCEPT !.answer = a] EXCEPT !.counted = 1]
    OBVIOUS
  <2>4. Like(n, c) /\ n.step = "answered" /\ DOMAIN n = CallFields
    BY <1>2, <2>3 DEF CallFields, Like
  <2>5. Sound(n)
    BY <1>2, <2>3 DEF Sound, CallFields
  <2>6. Fits(n, g)
    BY <1>2, <2>4, CodeFits DEF Like
  <2>7. mine = [call EXCEPT ![h] = n]
    BY <1>1, <1>2, <1>4, <2>3 DEF IInv, CallInv, Calls, CallFields
  <2>8. Calls(mine)
    BY <2>5, <2>7, OneBecomes DEF IInv
  <2>9. PICK cs : cs = IF g = game THEN mine ELSE Crossing(mine, {h})
    OBVIOUS
  <2>10. AllFit(cs, g)
    BY <2>4, <2>6, <2>7, <2>8, <2>9, ServingFits DEF WorkInv
  <2>11. call' = cs
    BY <1>4, <2>1, <2>9
  <2> QED BY <2>1, <2>2, <2>10, <2>11
<1> QED BY <1>1, <1>2, <1>3, <1>4 DEF PlayerServed

LEMMA RunAgainFits ==
  ASSUME IInv, WorkInv, NEW h \in Hand, RunAgain(h)
  PROVE  AllFit(call', game')
<1>1. PICK c : c = call[h]
  OBVIOUS
<1>2. /\ DOMAIN c = CallFields /\ Fits(c, game) /\ c.front = "player" /\ game' = game
      /\ c.op.verb = "send_code" /\ IsOp(c.op)
      /\ \/ Becomes(h, [c EXCEPT !.step = "post", !.again = TRUE])
         \/ Over(h, c, "failed")
  BY <1>1, FitOf DEF RunAgain, Fits
<1>3. CASE Over(h, c, "failed")
  BY <1>2, <1>3, FailedFits, OneFits DEF Over, WorkInv
<1>4. CASE Becomes(h, [c EXCEPT !.step = "post", !.again = TRUE])
  <2>1. PICK n : n = [c EXCEPT !.step = "post", !.again = TRUE]
    OBVIOUS
  <2>2. Like(n, c) /\ n.step = "post"
    BY <1>2, <2>1 DEF CallFields, Like
  <2>3. Fits(n, game)
    BY <1>2, <2>2, CodeFits DEF Like
  <2> QED BY <1>2, <1>4, <2>1, <2>3, OneFits DEF WorkInv
<1> QED BY <1>2, <1>3, <1>4

LEMMA PlayerToldFits ==
  ASSUME IInv, WorkInv, NEW h \in Hand, PlayerTold(h)
  PROVE  AllFit(call', game')
<1>1. PICK c : c = call[h]
  OBVIOUS
<1>2. PICK r : /\ DOMAIN c = CallFields /\ Fits(c, game) /\ c.front = "player" /\ game' = game
               /\ c.op.verb = "send_code" /\ r \in {"done", "failed"} /\ Over(h, c, r)
  BY <1>1, FitOf DEF PlayerTold, Fits
<1>3. PICK n : n = [c EXCEPT !.step = "over", !.report = r]
  OBVIOUS
<1>4. Like(n, c) /\ n.report = r
  BY <1>2, <1>3 DEF CallFields, Like
<1>5. Shows(n, game)
  BY <1>2, <1>4 DEF Shows, Like, Switches
<1> QED BY <1>2, <1>3, <1>5, ReportFits, OneFits DEF Over, WorkInv

-----------------------------------------------------------------------------

(* The engine keeps a game with one line of levels, and every call that was  *)
(* not crossed fits it: what the other theorems about the game follow from.  *)
THEOREM WorkInvariance == Spec => []WorkInv
<1>1. Init => WorkInv
  <2> SUFFICES ASSUME Init PROVE WorkInv
    OBVIOUS
  <2>1. plan \in Plans /\ game = plan.game
    BY DEF Init
  <2>2. IsGame(game)
    BY <2>1, PlansAssumption
  <2>3. AllFit(call, game)
    BY DEF Init, AllFit
  <2> QED BY <2>1, <2>2, <2>3 DEF WorkInv
<1>2. IInv /\ WorkInv /\ [Next]_vars => WorkInv'
  <2> SUFFICES ASSUME IInv, WorkInv, [Next]_vars PROVE WorkInv'
    OBVIOUS
  <2>1. ASSUME plan' = plan, IsGame(game'), AllFit(call', game') PROVE WorkInv'
    BY <2>1 DEF WorkInv
  <2>2. ASSUME UNCHANGED <<plan, game>>, AllFit(call', game') PROVE WorkInv'
    BY <2>1, <2>2 DEF WorkInv
  <2>3. CASE UNCHANGED vars \/ SignIns
    BY <2>3 DEF vars, workVars, SignIns, WorkInv
  <2>4. ASSUME NEW h \in Hand,
               \/ Read(h) \/ Post(h) \/ GiveUp(h) \/ Settle(h) \/ CheckDeleted(h) \/ CheckMovedCli(h)
               \/ CheckMovedTool(h) \/ CheckMovedWeb(h) \/ RunAgain(h) \/ PlayerTold(h)
        PROVE  WorkInv'
    <3>1. UNCHANGED <<plan, game>>
      BY <2>4 DEF Read, Post, GiveUp, Settle, CheckDeleted, CheckMovedCli, CheckMovedTool, CheckMovedWeb,
                  Look, RunAgain, PlayerTold
    <3> QED BY <2>2, <2>4, <3>1, ReadFits, PostFits, GiveUpFits, SettleFits, CheckDeletedFits,
               CheckMovedFits, RunAgainFits, PlayerToldFits
  <2>5. ASSUME NEW h \in Hand, Serve(h) \/ ServeStray(h) \/ PlayerServed(h) PROVE WorkInv'
    <3>1. plan' = plan
      BY <2>5 DEF Serve, ServeStray, PlayerServed
    <3> QED BY <2>1, <2>5, <3>1, ServeFits, StrayFits, PlayerServedFits
  <2> QED BY <2>2, <2>3, <2>4, <2>5, BegunFits, PlayerBeginsFits DEF Next
<1> QED BY <1>1, <1>2, Invariance, PTL DEF Spec

(* What a call reports of the game is so, unless somebody else changed the   *)
(* game after the call had read it (AdminSetEngine, AdminDeleteLevel,        *)
(* AdminMoveLevel, AdminUpdateGame, AdminUpdateLevel and the commands and    *)
(* tools that call them), although the engine refuses without saying so: but *)
(* for the two reports ReportsAreTrue names, a deletion the editor or a tool *)
(* does not look after and a list of codes that was to be emptied.           *)
THEOREM ReportsTrue == Spec => []ReportsAreTrue
<1>1. WorkInv => ReportsAreTrue
  BY DEF WorkInv, AllFit, Fits, ReportsAreTrue
<1> QED BY <1>1, WorkInvariance, PTL

\* A call that was crossed is where it was.
LEMMA CrossingStays ==
  ASSUME NEW cs, Calls(cs), NEW mine, NEW h \in Hand, cs[h] # NoCall
  PROVE  Crossing(cs, mine)[h].step = cs[h].step
<1>1. DOMAIN cs[h] = CallFields
  BY DEF Calls, Sound
<1>2. PICK n : n = [cs[h] EXCEPT !.crossed = TRUE]
  OBVIOUS
<1>3. n.step = cs[h].step
  BY <1>1, <1>2, IsCrossed
<1>4. Crossing(cs, mine)[h] = cs[h] \/ Crossing(cs, mine)[h] = n
  BY <1>2 DEF Crossing
<1> QED BY <1>3, <1>4

\* Only the engine's serving its form takes a call from waiting to answered.
LEMMA AnswerIsServed ==
  ASSUME IInv, WorkInv, Next, NEW h \in Hand, Answered(h), call[h].front # "player"
  PROVE  \E now : game' = Served(game, FormOf(call[h].op, call[h].page), now)
<1>1. call[h].step = "wait" /\ call'[h].step = "answered" /\ Busy(h) /\ call[h] # NoCall
  BY DEF Answered, Busy
<1>2. DOMAIN call = Hand /\ Calls(call)
  BY DEF IInv, CallInv, Calls
<1>3. ASSUME NEW x \in Hand, NEW c, Becomes(x, c), x # h PROVE FALSE
  BY <1>1, <1>2, <1>3 DEF Becomes
<1>4. ASSUME NEW mine, call' = Crossing(call, mine) PROVE FALSE
  BY <1>1, <1>2, <1>4, CrossingStays
<1>5. ASSUME NEW c, Becomes(h, c), c.step # "answered" PROVE FALSE
  BY <1>1, <1>2, <1>5 DEF Becomes
<1>6. ASSUME NEW x \in Hand, NEW r, Over(x, call[x], r) PROVE FALSE
  <2>1. CASE x # h
    BY <1>3, <1>6, <2>1 DEF Over
  <2>2. CASE x = h
    <3>1. PICK n : n = [call[h] EXCEPT !.step = "over", !.report = r]
      OBVIOUS
    <3>2. n.step = "over"
      BY <1>1, <1>2, <3>1 DEF Calls, Sound, CallFields
    <3> QED BY <1>5, <1>6, <2>2, <3>1, <3>2 DEF Over
  <2> QED BY <2>1, <2>2
<1>7. ASSUME NEW x \in Hand, NEW f, NEW op, NEW s, Began(x, f, op, s) PROVE FALSE
  <2>1. x # h
    BY <1>1, <1>7 DEF Began
  <2> QED BY <1>3, <1>7, <2>1 DEF Began
<1>8. ASSUME NEW x \in Hand, NEW f, NEW verbs, Begin(x, f, verbs) PROVE FALSE
  BY <1>7, <1>8 DEF Begin
<1>9. ASSUME NEW x \in Hand, Read(x) \/ Post(x) \/ Settle(x) \/ RunAgain(x) \/ PlayerTold(x) PROVE FALSE
  <2>1. x # h
    BY <1>1, <1>9 DEF Read, Post, Settle, RunAgain, PlayerTold
  <2>2. \E c : Becomes(x, c)
    BY <1>9 DEF Read, Post, Settle, RunAgain, PlayerTold, Over
  <2> QED BY <1>3, <2>1, <2>2
<1>10. ASSUME NEW x \in Hand, NEW r, Look(x, r) PROVE FALSE
  BY <1>6, <1>10 DEF Look
<1>11. ASSUME NEW x \in Hand, CheckDeleted(x) \/ CheckMovedCli(x) \/ CheckMovedTool(x) \/ CheckMovedWeb(x)
       PROVE  FALSE
  BY <1>10, <1>11 DEF CheckDeleted, CheckMovedCli, CheckMovedTool, CheckMovedWeb
<1>12. ASSUME NEW x \in Hand, GiveUp(x) PROVE FALSE
  BY <1>6, <1>12 DEF GiveUp
<1>13. ASSUME NEW x \in Hand, ServeStray(x) PROVE FALSE
  BY <1>1, <1>4, <1>13 DEF ServeStray
<1>14. ASSUME NEW x \in Hand, x # h, NEW c, Sound(c), NEW mine, mine = [call EXCEPT ![x] = c],
              call' = mine \/ call' = Crossing(mine, {x})
       PROVE  FALSE
  <2>1. Calls(mine)
    BY <1>14, OneBecomes DEF IInv
  <2>2. mine[h] = call[h]
    BY <1>2, <1>14
  <2>3. CASE call' = mine
    BY <1>1, <2>2, <2>3
  <2>4. CASE call' = Crossing(mine, {x})
    BY <1>1, <2>1, <2>2, <2>4, CrossingStays
  <2> QED BY <1>14, <2>3, <2>4
<1>15. ASSUME NEW x \in Hand, x # h, Serve(x) PROVE FALSE
  <2>1. Sound(call[x])
    BY <1>15, CallOf DEF IInv, Serve
  <2>2. PICK a, mine : /\ mine = [call EXCEPT ![x].step = "answered", ![x].answer = a]
                       /\ call' = IF game' = game THEN mine ELSE Crossing(mine, {x})
    <3>1. ~Over(x, call[x], "failed")
      BY <1>6
    <3> QED BY <1>15, <3>1 DEF Serve
  <2>3. PICK n : n = [call[x] EXCEPT !.step = "answered", !.answer = a]
    OBVIOUS
  <2>4. mine = [call EXCEPT ![x] = n]
    BY <1>2, <2>2, <2>3
  <2>5. CASE call[x].front # "player"
    <3>1. Sound(n)
      BY <2>1, <2>3, <2>5 DEF Sound, CallFields
    <3> QED BY <1>14, <1>15, <2>2, <2>4, <3>1
  <2> QED BY <1>15, <2>5 DEF Serve
<1>16. ASSUME NEW x \in Hand, PlayerServed(x) PROVE FALSE
  <2>1. x # h
    BY <1>16 DEF PlayerServed
  <2>2. /\ Sound(call[x]) /\ call[x].counted = 0 /\ call[x].front = "player"
        /\ ~ \E c : Becomes(x, c)
    BY <1>3, <1>16, <2>1, CallOf DEF IInv, PlayerServed, Sound
  <2>3. PICK a \in {"ok", "unreadable"} :
          \E mine : /\ mine = [call EXCEPT ![x].step = "answered", ![x].answer = a,
                                           ![x].counted = @ + 1]
                    /\ call' = IF game' = game THEN mine ELSE Crossing(mine, {x})
    BY <1>16, <2>2 DEF PlayerServed
  <2>4. PICK mine : /\ mine = [call EXCEPT ![x].step = "answered", ![x].answer = a,
                                           ![x].counted = @ + 1]
                    /\ call' = IF game' = game THEN mine ELSE Crossing(mine, {x})
    BY <2>3
  <2>5. PICK n : n = [[[call[x] EXCEPT !.step = "answered"] EXCEPT !.answer = a] EXCEPT !.counted = 1]
    OBVIOUS
  <2>6. mine = [call EXCEPT ![x] = n]
    BY <1>2, <2>2, <2>5, <2>4 DEF Sound, CallFields
  <2>7. Sound(n)
    <3>1. a # "rejected"
      BY <2>3
    <3> QED BY <2>2, <2>5, <3>1 DEF Sound, CallFields
  <2> QED BY <1>14, <2>1, <2>6, <2>7, <2>4
<1>17. ASSUME NEW x \in Hand, PlayerBegins(x) PROVE FALSE
  BY <1>7, <1>17 DEF PlayerBegins
<1>18. ASSUME SignIns PROVE FALSE
  BY <1>1, <1>18 DEF SignIns, workVars
<1>19. Serve(h)
  <2>1. PICK x \in Hand : Serve(x) \/ \E f, verbs : Begin(x, f, verbs)
    BY <1>9, <1>11, <1>12, <1>13, <1>16, <1>17, <1>18, Zenon
       DEF Next, CliShows, CliShowsTeams, CliShowsLive, CliGames, CliLevels, CliTeams,
           CliLevelsOfTeam, CliCorrections, CliTeamAndEngine, CliChat, ToolShows, ToolShowsTeam,
           ToolGames, ToolLevels, ToolTeams, ToolMessages, ToolLive, ToolSwitches, ToolLevelsOfTeam,
           ToolProgress, ToolEngine, WebShows, WebGames, WebLevels
  <2> QED BY <1>8, <1>15, <2>1
<1> QED BY <1>6, <1>19 DEF Serve

(* A call that changes some fields of a game, a level or an application      *)
(* leaves the others as they are (AdminUpdateGame, AdminUpdateLevel,         *)
(* AdminSetApplication lay the change over the form they read), a block and  *)
(* a PIN included, unless somebody changed them after the form was read.     *)
THEOREM OthersStay == Spec => OnlyNamedChange
<1>1. IInv /\ WorkInv /\ [Next]_vars =>
        [\A h \in Hand :
           LET c == call[h]  name == ReadFirst(c.op.verb)
               before == Page(game, name, c.op.id)  after == Page(game', name, c.op.id) IN
           (Answered(h) /\ c.op.verb \in Updates /\ ~c.crossed /\ Exists(game, name, c.op.id)) =>
             \A k \in DOMAIN before \ DOMAIN c.op.set :
               before[k] = after[k] \/ (k = "pin" /\ "newPin" \in DOMAIN c.op.set)]_vars
  <2> SUFFICES ASSUME IInv, WorkInv, Next, NEW h \in Hand, NEW c, c = call[h],
                      NEW verb, verb = c.op.verb, NEW id, id = c.op.id,
                      Answered(h), verb \in Updates, ~c.crossed, Exists(game, ReadFirst(verb), id)
               PROVE  \A k \in DOMAIN Page(game, ReadFirst(verb), id) \ DOMAIN c.op.set :
                        \/ Page(game, ReadFirst(verb), id)[k] = Page(game', ReadFirst(verb), id)[k]
                        \/ k = "pin" /\ "newPin" \in DOMAIN c.op.set
    OBVIOUS
  <2>1. Busy(h) /\ c.step = "wait"
    BY DEF Answered
  <2>2. Fits(c, game) /\ IsGame(game)
    BY <2>1, FitOf DEF WorkInv
  <2>3. c.front # "player"
    BY <2>2 DEF Fits, Updates
  <2>4. PICK now : game' = Served(game, FormOf(c.op, c.page), now)
    BY <2>3, AnswerIsServed
  <2>5. PICK g, op, page : g = game' /\ op = c.op /\ page = c.page
    OBVIOUS
  <2>6. page = Page(game, ReadFirst(verb), id)
    BY <2>1, <2>2, <2>5 DEF Fits, Fresh
  <2>7. g = Served(game, FormOf(op, page), now) /\ IsGame(game) /\ op.verb = verb /\ op.id = id
    BY <2>2, <2>4, <2>5
  <2>8. CASE verb = "update_game"
    <3>1. /\ Page(game, ReadFirst(verb), id) = GamePage(game)
          /\ Page(g, ReadFirst(verb), id) = GamePage(g)
      BY <2>8, ReadsFirst, Pages
    <3>2. DOMAIN GamePage(game) = {"name", "finished"}
      BY DEF GamePage
    <3>3. \A k \in {"name", "finished"} \ DOMAIN op.set : GamePage(g)[k] = GamePage(game)[k]
      <4>1. page = GamePage(game) /\ op.verb = "update_game"
        BY <2>6, <2>8, <2>7, <3>1
      <4> QED BY ONLY <2>7, <4>1, ServedGameForm
    <3> QED BY <2>5, <3>1, <3>2, <3>3
  <2>9. CASE verb = "update_level"
    <3>1. /\ Page(game, ReadFirst(verb), id) = LevelPage(game, id)
          /\ Page(g, ReadFirst(verb), id) = LevelPage(g, id)
      BY <2>9, ReadsFirst, Pages
    <3>2. DOMAIN LevelPage(game, id) = {"title", "codes"}
      BY DEF LevelPage
    <3>3. Listed(game.levels, id)
      BY <2>9, ReadsFirst, ListedIds DEF Exists
    <3>4. \A k \in {"title", "codes"} \ DOMAIN op.set : LevelPage(g, op.id)[k] = LevelPage(game, op.id)[k]
      <4>1. page = LevelPage(game, op.id) /\ op.verb = "update_level" /\ Listed(game.levels, op.id)
        BY <2>6, <2>9, <2>7, <3>1, <3>3
      <4> QED BY ONLY <2>7, <4>1, ServedLevelForm
    <3> QED BY <2>5, <2>7, <3>1, <3>2, <3>4
  <2>10. CASE verb = "set_application"
    <3>1. /\ Page(game, ReadFirst(verb), id) = TeamPage(game)
          /\ Page(g, ReadFirst(verb), id) = TeamPage(g)
      BY <2>10, ReadsFirst, Pages
    <3>2. DOMAIN TeamPage(game) = {"status", "points", "blocked", "pin"}
      BY DEF TeamPage
    <3>3. \A k \in {"status", "points", "blocked", "pin"} \ DOMAIN op.set :
            TeamPage(game)[k] = TeamPage(g)[k] \/ (k = "pin" /\ "newPin" \in DOMAIN op.set)
      <4>1. page = TeamPage(game) /\ op.verb = "set_application"
        BY <2>6, <2>10, <2>7, <3>1
      <4> QED BY ONLY <2>7, <4>1, ServedApplicationForm
    <3> QED BY <2>5, <3>1, <3>2, <3>3
  <2> QED BY <2>8, <2>9, <2>10 DEF Updates
<1> QED BY <1>1, Invariance, WorkInvariance, PTL DEF Spec, OnlyNamedChange

=============================================================================
