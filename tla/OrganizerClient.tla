-------------------------- MODULE OrganizerClient --------------------------
(* The organizer's half of the engine client (dzzzr/admin*.go): which page a  *)
(* call reads first, and the form it posts.  A call is [verb, id, set]: set   *)
(* holds the parameters that were given, and only those.                      *)
EXTENDS EngineForms

(* The pages a call may read, by the page's name.                            *)
Page(e, name, id) ==
  CASE name = "game"     -> GamePage(e)
    [] name = "level"    -> LevelPage(e, id)
    [] name = "levels"   -> e.levels
    [] name = "team"     -> TeamPage(e)
    [] name = "monitor"  -> MonitorPage(e)
    [] name = "messages" -> e.chat

(* A page of a level that is gone has no form, and the client says so.       *)
Exists(e, name, id) == name # "level" \/ id \in LevelIds(e)

ReadVerbs == {"show_game", "show_levels", "show_level", "show_team", "show_monitor",
              "show_messages"}
Moves == {"move_up", "move_down"}
Updates == {"update_game", "update_level", "set_application"}
Switches == {"engine_on", "engine_off"}

(* What is read before anything is posted: the form a change is laid over,   *)
(* the switch before it is pressed, the order before a move.                 *)
ReadFirst(verb) ==
  CASE verb \in {"show_game", "update_game"}       -> "game"
    [] verb \in {"show_level", "update_level"}     -> "level"
    [] verb \in {"show_team", "set_application"}   -> "team"
    [] verb \in {"show_monitor"} \cup Switches     -> "monitor"
    [] verb \in {"show_levels"} \cup Moves         -> "levels"
    [] verb = "show_messages"                      -> "messages"
    [] OTHER                                       -> "nothing"

-----------------------------------------------------------------------------
(* Forms *)

Form(verb, id, fields) == [verb |-> verb, id |-> id, fields |-> fields]

\* Parameters over the fields of the page that was read.
Overlay(page, set) == [k \in DOMAIN page |-> IF k \in DOMAIN set THEN set[k] ELSE page[k]]

GameForm(op, page) == Form("update_game", 0, Overlay(page, op.set))

LevelForm(op, page) == Form("update_level", op.id, Overlay(page, op.set))

\* Mutant: the boxes of the page are not carried over.
MutApplicationForm(op, page) ==
  Form("set_application", 0,
       Overlay([status |-> page.status, points |-> page.points,
                blocked |-> FALSE, newPin |-> FALSE], op.set))

\* The PIN shown is not sent back; the box that asks for a new one is the call's.
ApplicationForm(op, page) ==
  Form("set_application", 0,
       Overlay([status |-> page.status, points |-> page.points,
                blocked |-> page.blocked, newPin |-> FALSE], op.set))

\* A new level is sent with what was given alone; a title or a text is required.
CreateForm(op) == Form("create_level", 0, op.set)

\* AdminSetEngine presses the one switch there is when the page disagrees.
AlreadySo(op, page) == page.stopped = (op.verb = "engine_off")

SwitchForm == Form("switch_robot", 0, <<>>)

FormOf(op, page) ==
  CASE op.verb = "update_game"     -> GameForm(op, page)
    [] op.verb = "update_level"    -> LevelForm(op, page)
    [] op.verb = "set_application" -> ApplicationForm(op, page)
    [] op.verb = "create_level"    -> CreateForm(op)
    [] op.verb \in Switches        -> SwitchForm
    [] OTHER                       -> Form(op.verb, op.id, op.set)

=============================================================================
