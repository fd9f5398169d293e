--------------------------- MODULE PlayerCommands ---------------------------
(* A captain's command to the engine, as the command line, the agent's tools  *)
(* and the mobile library give it: what is not said - the level, the hint -   *)
(* is taken from a game page, and the form is posted a while later.  Between  *)
(* the two the team plays on and time passes.                                 *)
(*                                                                            *)
(* The engine is MockEngine's, which knows a level by its place; the page     *)
(* tells its number, the how-manieth it is for the team.  One command runs at *)
(* a time.  A command that names everything reads no page: it is the request  *)
(* of MockEngine itself.  So are, here, a hint or spoiler code that is sent    *)
(* for the level of the page: the engine files it under whatever level the    *)
(* form names, and an early hint under the level in hand.                     *)
EXTENDS MockPages

VARIABLE cmd   \* the command between its page and its form

allVars == <<vars, cmd>>

\* level: the number the form will carry; shown: the place of the level on the page; hidden:
\* the hints that page hid, when the command named none.
None == [verb |-> "none", level |-> 0, hint |-> 0, next |-> 0, shown |-> 0, hidden |-> {}]
Command(verb, level, next) ==
  [None EXCEPT !.verb = verb, !.level = level, !.next = next, !.shown = Now.current]

\* The number a page gives the level in hand, when it shows one.
LevelNumber(s) == s.progress[s.current].number
ShowsLevel(s) == ~s.finished /\ InHand(s) /\ LevelNumber(s) # 0

\* The first hint a page hides; none when both are out.
NextHint(shown) == IF 1 \notin shown THEN 1 ELSE IF 2 \notin shown THEN 2 ELSE 0

-----------------------------------------------------------------------------
(* The command *)

\* A GET of go/, which ticks.  A page without a numbered level ends the command.
ReadPage(c) ==
  /\ cmd = None /\ ByCaptain /\ ShowsLevel(Now)
  /\ Answer(Now)
  /\ cmd' = c

AskNextLevel == ReadPage(Command("next_level", LevelNumber(Now), 0))

AskSelectLevel == \E next \in Order : ReadPage(Command("select_level", LevelNumber(Now), next))

\* An early hint that names neither its level nor itself: the first one the page hides.
HintTarget(shown) ==
  [Command("hint_early", LevelNumber(Now), 0)
     EXCEPT !.hint = NextHint(shown), !.hidden = {1, 2} \ shown]

\* With both out, nothing is sent.
AskHintEarly ==
  LET shown == HintsShown(Now.progress[Now.current])
  IN ShowsLevel(Now) /\ NextHint(shown) # 0 /\ ReadPage(HintTarget(shown))

\* What the form asks of the engine.  An early hint carries the level too, but the engine
\* takes the level in hand.
Asks ==
  \/ cmd.verb = "next_level" /\ NextLevel(cmd.level)
  \/ cmd.verb = "select_level" /\ SelectLevel(cmd.level, cmd.next)
  \/ cmd.verb = "hint_early" /\ BeforeClue(cmd.hint = 1)

Performable == ENABLED Asks

\* The form is served: performed, or refused, which leaves the tick alone.
PostForm ==
  /\ cmd # None /\ ByCaptain
  /\ cmd' = None
  /\ Asks \/ (~Performable /\ Answer(Now))

\* The form never reached the engine.
Fails == cmd # None /\ cmd' = None /\ UNCHANGED vars

-----------------------------------------------------------------------------

PlayInit == Init /\ cmd = None

Commands ==
  \/ "choices" \in plan /\ (AskNextLevel \/ AskSelectLevel)
  \/ "hints" \in plan /\ AskHintEarly
  \/ PostForm
  \/ Fails

PlayNext ==
  \/ Next /\ UNCHANGED cmd
  \/ "commands" \in plan /\ Commands /\ UNCHANGED plan

PlaySpec == PlayInit /\ [][PlayNext]_allVars

-----------------------------------------------------------------------------
(* Properties *)

\* A form was served that left something behind: one that was lost did not.
Posting == cmd # None /\ cmd' = None /\ vars' # vars
Issued(o) == g'.progress[o].early \ Now.progress[o].early

\* A command that took its level from a page makes the team leave no other level than the
\* one the page showed, however far the team got before the form is served; and an early
\* hint that was not named is the first one the page hid (levelArg, currentLevel, hintTarget,
\* nextHint against nextLevel, selectLevel, beforeClue).  Excused: a level whose number is
\* not its place, as after a choice; and a hint the page hid that came out before the form
\* was served, where the engine issues the other one.
CommandsActOnWhatTheySaw ==
  [][Posting /\ InHand(Now) =>
       /\ cmd.level = cmd.shown /\ g'.current # Now.current => Now.current = cmd.shown
       /\ cmd.hidden # {} /\ Now.current = cmd.shown
            /\ cmd.hidden \cap HintsShown(Now.progress[cmd.shown]) = {} =>
              Issued(cmd.shown) \subseteq {h \in cmd.hidden : \A x \in cmd.hidden : h <= x}]_allVars

=============================================================================
