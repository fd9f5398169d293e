----------------------------- MODULE Organizers -----------------------------
(* Everybody who works on one game of the engine: organizers at the command   *)
(* line, in the editor of "dzzzr web" and through the agent's tools, and a    *)
(* player who sends codes from the command line.  The engine answers a form   *)
(* it refused like one it performed, and an answer may be lost; what a call   *)
(* reports has to be true all the same.                                       *)
(*                                                                            *)
(* Accounts says with whose credentials a call is made: the command line      *)
(* takes them from the session file when it starts, the server's client has   *)
(* one organizer for all its requests.                                        *)
EXTENDS Accounts, OrganizerClient

CONSTANTS
  Hand,       \* those who have a call under way
  NoCall, NoForm, NoPage,
  Plans,      \* what a behaviour may do: [game, ops, fronts, calls, tabs, files]:
              \* the game it begins with, the operations and who calls them, how many
              \* calls, the tabs that sign in (none: nobody signs in or out), and what
              \* the session file may hold at first
  Current     \* the level the player is on

\* A change names fields of the form it is laid over.
IsOp(op) ==
  /\ op.verb = "update_game" => DOMAIN op.set \subseteq {"name", "finished"}
  /\ op.verb = "update_level" => DOMAIN op.set \subseteq {"title", "codes"}

ASSUME PlansAssumption ==
  \A p \in Plans : IsGame(p.game) /\ \A op \in p.ops : IsOp(op)

VARIABLES
  game,       \* the engine's
  call,       \* hand -> its call, under way or over
  stray,      \* hand -> a form given up on that the engine may still serve
  calls,      \* how many calls were made
  plan        \* one of Plans, throughout

workVars == <<game, call, stray, calls, plan>>
vars == <<workVars, accountVars>>

Init ==
  /\ AccountsInit
  /\ plan \in Plans
  /\ game = plan.game
  /\ file \in plan.files
  /\ call = [h \in Hand |-> NoCall]
  /\ stray = [h \in Hand |-> NoForm]
  /\ calls = 0

-----------------------------------------------------------------------------
(* A call *)

Busy(h) == call[h] # NoCall /\ call[h].step # "over"

\* Whose credentials the next request of a call carries.
Sender(c) == IF c.front = "web" THEN hub.org ELSE c.org

Becomes(h, c) == call' = [call EXCEPT ![h] = c]

Over(h, c, report) == Becomes(h, [c EXCEPT !.step = "over", !.report = report])

Began(h, front, op, step) ==
  /\ calls < plan.calls
  /\ ~Busy(h)
  /\ front \in plan.fronts
  /\ calls' = calls + 1
  /\ Becomes(h, [front |-> front, op |-> op, org |-> file.org, step |-> step,
                 page |-> NoPage, answer |-> "none", again |-> FALSE,
                 counted |-> 0, crossed |-> FALSE, report |-> "none"])
  /\ UNCHANGED <<game, stray, plan>>

FirstStep(op) == IF ReadFirst(op.verb) = "nothing" THEN "post" ELSE "read"

\* requireAdminAuth at the command line, requireAdmin in the server: no call without an
\* organizer.  The agent's tools work with the server's client too.
Allowed(front) == IF front = "cli" THEN file.org # NoOrg ELSE hub.org # NoOrg

Begin(h, front, verbs) ==
  \E op \in plan.ops :
    /\ op.verb \in verbs
    /\ Allowed(front)
    /\ Began(h, front, op, FirstStep(op))
    /\ UNCHANGED accountVars

GameVerbs == {"update_game", "create_game", "delete_game", "copy_game"}
LevelVerbs == {"create_level", "update_level", "delete_level", "copy_levels"} \cup Moves
TeamVerbs == {"set_application", "accept_all", "generate_pins", "add_team",
              "remove_application", "create_team"}
LiveVerbs == (LiveForms \cup Switches \cup {"plan_level", "unplan_level"})
ChatVerbs == {"send_message", "delete_message", "delete_messages"}

(* At the command line.                                                      *)
CliShows(h) == Begin(h, "cli", {"show_game", "show_levels", "show_level"})
CliShowsTeams(h) == Begin(h, "cli", {"show_team"})
CliShowsLive(h) == Begin(h, "cli", {"show_monitor", "show_messages"})
CliGames(h) == Begin(h, "cli", GameVerbs)
CliLevels(h) == Begin(h, "cli", LevelVerbs)
CliTeams(h) == Begin(h, "cli", TeamVerbs)
TeamAndEngine == {"block", "unblock", "switch_robot", "finish_game", "set_time"} \cup Switches
Corrections == {"add_correction", "delete_corrections"}
CliLevelsOfTeam(h) ==
  Begin(h, "cli", LiveVerbs \ (TeamAndEngine \cup Corrections \cup {"give_and_accept"}))
CliCorrections(h) == Begin(h, "cli", Corrections)
CliTeamAndEngine(h) == Begin(h, "cli", TeamAndEngine)
CliChat(h) == Begin(h, "cli", ChatVerbs)

(* The agent's tools.                                                        *)
ToolShows(h) == Begin(h, "tool", ReadVerbs \ {"show_team"})
ToolShowsTeam(h) == Begin(h, "tool", {"show_team"})
ToolGames(h) == Begin(h, "tool", GameVerbs)
ToolLevels(h) == Begin(h, "tool", LevelVerbs)
ToolTeams(h) == Begin(h, "tool", TeamVerbs)
ToolMessages(h) == Begin(h, "tool", ChatVerbs \ {"send_message"})
ToolLive(h) == Begin(h, "tool", {"give_level", "accept_code", "add_correction"})
ToolSwitches(h) == Begin(h, "tool", {"block", "unblock", "send_message"} \cup Switches)
ToolLevelsOfTeam(h) ==
  Begin(h, "tool", {"accept_level", "give_and_accept", "clear_codes", "remove_level"})
ToolProgress(h) ==
  Begin(h, "tool", {"clear_progress", "plan_level", "unplan_level", "delete_corrections"})
ToolEngine(h) == Begin(h, "tool", {"switch_robot", "finish_game", "set_time"})

(* The editor.                                                               *)
WebShows(h) == Begin(h, "web", {"show_game", "show_levels", "show_level"})
WebGames(h) == Begin(h, "web", GameVerbs)
WebLevels(h) == Begin(h, "web", LevelVerbs \ {"copy_levels"})

-----------------------------------------------------------------------------
(* Requests *)

\* A page comes, the engine refuses the credentials, or nothing comes at all.
Read(h) ==
  LET c == call[h]  name == ReadFirst(c.op.verb) IN
  /\ Busy(h) /\ c.step = "read"
  /\ \/ /\ Sender(c) \in Good
        /\ Exists(game, name, c.op.id)
        /\ c.op.verb \in Moves => c.op.id \in LevelIds(game)
        /\ LET page == Page(game, name, c.op.id)
               read == [c EXCEPT !.page = page, !.crossed = FALSE]
           IN CASE c.op.verb \in ReadVerbs -> Over(h, read, "shown")
                [] c.op.verb \in Switches /\ AlreadySo(c.op, page) -> Over(h, read, "done")
                [] OTHER -> Becomes(h, [read EXCEPT !.step = "post"])
     \/ Over(h, c, "failed")
  /\ UNCHANGED <<game, stray, calls, plan, accountVars>>

\* A form is held back until the last one is far enough behind; who gives up by then
\* has sent nothing.
Post(h) ==
  /\ Busy(h) /\ call[h].step = "post"
  /\ \/ Becomes(h, [call[h] EXCEPT !.step = "wait"])
     \/ Over(h, call[h], "failed")
  /\ UNCHANGED <<game, stray, calls, plan, accountVars>>

\* The engine's game changed: whoever else is at it, or has reported, was crossed.
Crossing(cs, mine) ==
  [h \in Hand |-> IF h \in mine \/ cs[h] = NoCall THEN cs[h] ELSE [cs[h] EXCEPT !.crossed = TRUE]]

Moments(f) == IF f.verb = "send_message" THEN {1, 2} ELSE {0}

\* The engine serves the form of a call that waits; its answer says nothing of what it did.
Serve(h) ==
  LET c == call[h] f == FormOf(c.op, c.page) IN
  /\ Busy(h) /\ c.step = "wait" /\ c.front # "player"
  /\ \/ /\ Sender(c) \in Good
        /\ \E now \in Moments(f), a \in {"ok", "unreadable"} :
             /\ game' = Served(game, f, now)
             /\ LET mine == [call EXCEPT ![h].step = "answered", ![h].answer = a]
                IN call' = IF game' = game THEN mine ELSE Crossing(mine, {h})
     \/ /\ Sender(c) \notin Good
        /\ Over(h, c, "failed")
        /\ UNCHANGED game
  /\ UNCHANGED <<stray, calls, plan, accountVars>>

\* The caller stops waiting; the form may be served later, or never.
GiveUp(h) ==
  LET c == call[h] IN
  /\ Busy(h) /\ c.step \in {"wait", "answered", "look"}
  /\ Over(h, c, "failed")
  /\ stray' = [stray EXCEPT ![h] =
       IF c.step = "wait" /\ c.front # "player" /\ Sender(c) \in Good
         THEN FormOf(c.op, c.page) ELSE @]
  /\ UNCHANGED <<game, calls, plan, accountVars>>

ServeStray(h) ==
  /\ stray[h] # NoForm
  /\ \/ \E now \in Moments(stray[h]) : game' = Served(game, stray[h], now)
     \/ UNCHANGED game
  /\ stray' = [stray EXCEPT ![h] = NoForm]
  /\ call' = IF game' = game THEN call ELSE Crossing(call, {})
  /\ UNCHANGED <<calls, plan, accountVars>>

\* What the engine may have done without saying so is looked up: a deleted level at the
\* command line, a moved one everywhere.
LooksAfter(c) == c.op.verb \in Moves \/ (c.op.verb = "delete_level" /\ c.front = "cli")

Settle(h) ==
  LET c == call[h] IN
  /\ Busy(h) /\ c.step = "answered" /\ c.front # "player"
  /\ CASE c.answer = "unreadable" -> Over(h, c, "failed")
       [] c.answer = "ok" /\ LooksAfter(c) -> Becomes(h, [c EXCEPT !.step = "look"])
       [] OTHER -> Over(h, c, "done")
  /\ UNCHANGED <<game, stray, calls, plan, accountVars>>

\* The list is read again; a request that fails here fails the call, done or not.
Look(h, report) ==
  LET c == call[h] IN
  /\ c.step = "look"
  /\ \/ Sender(c) \in Good /\ Over(h, c, report)
     \/ Over(h, c, "failed")
  /\ UNCHANGED <<game, stray, calls, plan, accountVars>>

CliDeleted(c, levels) ==
  IF c.op.id \in {levels[i].id : i \in DOMAIN levels} THEN "refused" ELSE "done"

CheckDeleted(h) ==
  /\ Busy(h) /\ call[h].op.verb = "delete_level"
  /\ Look(h, CliDeleted(call[h], game.levels))

Listed(levels, id) == \E i \in DOMAIN levels : levels[i].id = id

\* Mutant: either end will do.
MutAtEdge(levels, op) == OrderOf(levels, op.id) \in {1, Len(levels)}

\* Nothing stands beyond the level in the direction of the move.
AtEdge(levels, op) ==
  LET i == OrderOf(levels, op.id) IN
  ~ \E j \in DOMAIN levels : IF op.verb = "move_up" THEN j < i ELSE j > i

\* The edge is the one the level stood at before the move.
CliMoved(c, levels) ==
  IF ~Listed(levels, c.op.id) THEN "failed"
  ELSE IF OrderOf(levels, c.op.id) # OrderOf(c.page, c.op.id) THEN "moved"
  ELSE IF AtEdge(c.page, c.op) THEN "edge"
  ELSE "refused"

CheckMovedCli(h) ==
  /\ Busy(h) /\ call[h].op.verb \in Moves /\ call[h].front = "cli"
  /\ Look(h, CliMoved(call[h], game.levels))

Moved(c, levels) ==
  IF ~Listed(levels, c.op.id) THEN "failed"
  ELSE IF OrderOf(levels, c.op.id) # OrderOf(c.page, c.op.id) THEN "moved"
  ELSE "stood"

CheckMovedTool(h) ==
  /\ Busy(h) /\ call[h].op.verb \in Moves /\ call[h].front = "tool"
  /\ Look(h, Moved(call[h], game.levels))

CheckMovedWeb(h) ==
  /\ Busy(h) /\ call[h].op.verb \in Moves /\ call[h].front = "web"
  /\ Look(h, Moved(call[h], game.levels))

-----------------------------------------------------------------------------
(* A player's code, from the command line *)

Codes == {op \in plan.ops : op.verb = "send_code"}

\* Without a stored session the command signs in first, and stores all it has.
PlayerBegins(h) ==
  \E op \in Codes :
    /\ Began(h, "player", op, "post")
    /\ IF file.session THEN UNCHANGED <<file, forgot>> ELSE WriteBack(file.org, TRUE)
    /\ UNCHANGED <<hub, tries, copy, tangled>>

\* The engine looks at the session before anything else; it may refuse any.
PlayerServed(h) ==
  LET c == call[h] counted == PlayerCode(game, Current, c.op.set.code) IN
  /\ Busy(h) /\ c.step = "wait" /\ c.front = "player"
  /\ \/ /\ UNCHANGED game
        /\ Becomes(h, [c EXCEPT !.step = "answered", !.answer = "rejected"])
     \/ /\ game' = counted
        /\ \E a \in {"ok", "unreadable"} :
             LET mine == [call EXCEPT ![h].step = "answered", ![h].answer = a,
                                      ![h].counted = @ + 1]
             IN call' = IF game' = game THEN mine ELSE Crossing(mine, {h})
  /\ UNCHANGED <<stray, calls, plan, accountVars>>

\* Only a refused session is known not to have reached the game.
Retriable(answer) == answer = "rejected"

\* refreshSession: sign in once more, store everything the command had loaded, run again.
RunAgain(h) ==
  LET c == call[h] IN
  /\ Busy(h) /\ c.step = "answered" /\ c.front = "player"
  /\ Retriable(c.answer) /\ ~c.again
  /\ \/ /\ WriteBack(c.org, TRUE)
        /\ Becomes(h, [c EXCEPT !.step = "post", !.again = TRUE])
     \/ /\ Over(h, c, "failed")
        /\ UNCHANGED <<file, forgot>>
  /\ UNCHANGED <<hub, tries, copy, tangled, game, stray, calls, plan>>

PlayerTold(h) ==
  LET c == call[h] IN
  /\ Busy(h) /\ c.step = "answered" /\ c.front = "player"
  /\ ~(Retriable(c.answer) /\ ~c.again)
  /\ Over(h, c, IF c.answer = "ok" THEN "done" ELSE "failed")
  /\ UNCHANGED <<game, stray, calls, plan, accountVars>>

-----------------------------------------------------------------------------

SignIns ==
  /\ plan.tabs # {}
  /\ AccountsNext
  /\ {t \in Tab : tries'[t] # NoTry} \subseteq plan.tabs
  /\ UNCHANGED workVars

Next ==
  \/ \E h \in Hand :
       \/ CliShows(h) \/ CliShowsTeams(h) \/ CliShowsLive(h) \/ CliGames(h) \/ CliLevels(h)
       \/ CliTeams(h) \/ CliLevelsOfTeam(h) \/ CliCorrections(h) \/ CliTeamAndEngine(h) \/ CliChat(h)
       \/ ToolShows(h) \/ ToolShowsTeam(h) \/ ToolGames(h) \/ ToolLevels(h) \/ ToolTeams(h) \/ ToolMessages(h)
       \/ ToolLive(h) \/ ToolSwitches(h) \/ ToolLevelsOfTeam(h) \/ ToolProgress(h) \/ ToolEngine(h)
       \/ WebShows(h) \/ WebGames(h) \/ WebLevels(h)
       \/ Read(h) \/ Post(h) \/ Serve(h) \/ GiveUp(h) \/ ServeStray(h) \/ Settle(h)
       \/ CheckDeleted(h) \/ CheckMovedCli(h) \/ CheckMovedTool(h) \/ CheckMovedWeb(h)
       \/ PlayerBegins(h) \/ PlayerServed(h) \/ RunAgain(h) \/ PlayerTold(h)
  \/ SignIns

Spec == Init /\ [][Next]_vars

-----------------------------------------------------------------------------

TypeOK ==
  /\ AccountsTypeOK
  /\ plan \in Plans
  /\ IsGame(game)
  /\ calls \in 0 .. plan.calls
  /\ DOMAIN call = Hand /\ DOMAIN stray = Hand

\* The level of a move is the outermost on the side it was to move to.
AtItsEnd(levels, op) ==
  (IF op.verb = "move_up" THEN Head(levels) ELSE Last(levels)).id = op.id

Towards(verb) == IF verb = "move_up" THEN -1 ELSE 1

\* The editor and the agent's tool report a deletion without reading the list again.
Unlooked(c) == c.op.verb = "delete_level" /\ c.front # "cli"

\* A list of codes cannot be emptied: the form without codes changes none.
Emptied(c, k) == k = "codes" /\ c.op.set[k] = {}

\* What a settled call of an organizer shows of the game.
Shows(c, e) ==
  LET id == c.op.id  levels == e.levels IN
  CASE c.report = "shown" -> c.page = Page(e, ReadFirst(c.op.verb), id)
    [] c.report = "refused" -> KeepsLevels(e) /\ Listed(levels, id)
    [] c.report = "edge" -> AtItsEnd(levels, c.op)
    [] c.report = "stood" -> AtItsEnd(levels, c.op) \/ KeepsLevels(e)
    [] c.report = "moved" ->
         Listed(levels, id) /\ OrderOf(levels, id) = OrderOf(c.page, id) + Towards(c.op.verb)
    [] c.report = "done" /\ c.op.verb = "delete_level" ->
         ~Listed(levels, id) \/ (KeepsLevels(e) /\ Unlooked(c))
    [] c.report = "done" /\ c.op.verb \in Switches -> AlreadySo(c.op, MonitorPage(e))
    [] c.report = "done" /\ c.op.verb = "update_game" ->
         \A k \in DOMAIN c.op.set : GamePage(e)[k] = c.op.set[k]
    [] c.report = "done" /\ c.op.verb = "update_level" ->
         \A k \in DOMAIN c.op.set : LevelPage(e, id)[k] = c.op.set[k] \/ Emptied(c, k)
    [] OTHER -> TRUE

(* What a call reports is true of the game unless somebody else changed it    *)
(* meanwhile, although the engine answers what it refused like what it did: a *)
(* stalled move is blamed on the missing date only when the date is missing   *)
(* and on the edge only at that edge, an engine switched on is on, a level    *)
(* that is saved has what was given, and one the command line says to be      *)
(* deleted is gone.  Two reports are not true, and are excepted by name: a    *)
(* deletion the site's engine refuses is reported done by the editor          *)
(* (cmd/dzzzr/web_admin_levels.go:156) and the tool                           *)
(* (agenttools/admin_extended.go:278), which do not look, as                  *)
(* cmd/dzzzr/admin.go:469 says one has to (Unlooked); and an emptied list of  *)
(* codes is reported saved and is not (Emptied).                              *)
ReportsAreTrue ==
  \A h \in Hand :
    LET c == call[h] IN
    c # NoCall => (c.step = "over" /\ ~c.crossed => Shows(c, game))

Answered(h) == Busy(h) /\ call[h].step = "wait" /\ call'[h].step = "answered"

\* A call that changes some fields of a game, a level or an application leaves the others
\* as they are, a block, a finished game and a PIN included, unless somebody changed them
\* after the call had read the form.
OnlyNamedChange ==
  [][\A h \in Hand :
       LET c == call[h]  name == ReadFirst(c.op.verb)
           before == Page(game, name, c.op.id)  after == Page(game', name, c.op.id) IN
       (Answered(h) /\ c.op.verb \in Updates /\ ~c.crossed /\ Exists(game, name, c.op.id)) =>
         \A k \in DOMAIN before \ DOMAIN c.op.set :
           before[k] = after[k] \/ (k = "pin" /\ "newPin" \in DOMAIN c.op.set)]_vars

\* A player's command, run again after its session was refused, counts its code once.
CodeCountedOnce == \A h \in Hand : call[h] # NoCall => call[h].counted <= 1

=============================================================================
