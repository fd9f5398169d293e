---------------------------- MODULE EngineForms ----------------------------
(* The organizer's side of the engine, as cmd/dzzzr-mock serves it: the       *)
(* pages that show a game and what each posted form does to it.  Operators    *)
(* only; Organizers has the programs that read the pages and post the forms.  *)
(*                                                                            *)
(* A game is a record                                                         *)
(*   name, finished, dated (whether it has a date),                           *)
(*   levels    sequence of [id, title, codes],                                *)
(*   status, points, blocked, pin     the one application,                    *)
(*   progress  order of an issued level -> [codes, moved],                    *)
(*   bonus, penalty, stopped,                                                 *)
(*   chat      sequence of [at, text].                                        *)
(* A form is [verb, id, fields]: id names a level, an order or a second.      *)
EXTENDS Integers, Sequences, SequencesExt, FiniteSetsExt

GameFields == {"name", "finished", "dated", "levels", "status", "points", "blocked", "pin",
               "progress", "bonus", "penalty", "stopped", "chat"}
LevelFields == {"id", "title", "codes"}

\* The line of levels: no two have one id.
IsLine(levels) ==
  /\ levels \in Seq({levels[i] : i \in DOMAIN levels})
  /\ \A i \in DOMAIN levels : DOMAIN levels[i] = LevelFields /\ levels[i].id \in Nat
  /\ \A i, j \in DOMAIN levels : levels[i].id = levels[j].id => i = j

IsGame(e) ==
  /\ DOMAIN e = GameFields
  /\ e.dated \in BOOLEAN /\ e.stopped \in BOOLEAN
  /\ IsLine(e.levels)

-----------------------------------------------------------------------------
(* Pages *)

GamePage(e) == [name |-> e.name, finished |-> e.finished]

LevelIds(e) == {e.levels[i].id : i \in DOMAIN e.levels}

\* Where a level stands, for one the game has.
OrderOf(levels, id) == CHOOSE i \in DOMAIN levels : levels[i].id = id

LevelPage(e, id) ==
  LET l == e.levels[OrderOf(e.levels, id)] IN [title |-> l.title, codes |-> l.codes]

TeamPage(e) ==
  [status |-> e.status, points |-> e.points, blocked |-> e.blocked, pin |-> e.pin]

MonitorPage(e) == [stopped |-> e.stopped, issued |-> DOMAIN e.progress]

-----------------------------------------------------------------------------
(* admin/: the game, its levels, the application *)

\* The box "finished" that is not sent is a box cleared.
UpdateGame(e, f) ==
  [e EXCEPT !.name = f.fields.name, !.finished = f.fields.finished]

\* The id is one above the largest in use: the id of a deleted last level comes again.
AddLevel(e, f) ==
  [e EXCEPT !.levels =
     Append(@, [id |-> 1 + Max({0} \cup LevelIds(e)),
                title |-> f.fields.title, codes |-> f.fields.codes])]

\* A form with a list of codes replaces the level's; one that has no code at all carries no
\* field code[0], and the engine leaves the codes as they were.
Filled(level, fields) ==
  [level EXCEPT !.title = fields.title, !.codes = IF fields.codes = {} THEN @ ELSE fields.codes]

UpdateLevel(e, f) ==
  [e EXCEPT !.levels =
     [i \in DOMAIN @ |-> IF @[i].id = f.id THEN Filled(@[i], f.fields) ELSE @[i]]]

(* The site's engine neither deletes nor moves a level of a game without a    *)
(* date, and answers as if it had.  This is what was measured of it           *)
(* (silentRefusal, cmd/dzzzr/admin.go:530), not code of the repository:       *)
(* cmd/dzzzr-mock does both for every game, as it does here for a dated one.  *)
KeepsLevels(e) == ~e.dated

DeleteLevel(e, f) ==
  IF ~KeepsLevels(e) /\ f.id \in LevelIds(e)
    THEN [e EXCEPT !.levels = RemoveAt(@, OrderOf(@, f.id))]
    ELSE e

Swapped(s, i, j) == [s EXCEPT ![i] = s[j], ![j] = s[i]]

MoveLevel(e, f) ==
  IF ~KeepsLevels(e) /\ f.id \in LevelIds(e)
    THEN LET i == OrderOf(e.levels, f.id)
             j == IF f.verb = "move_up" THEN i - 1 ELSE i + 1
         IN IF j \in DOMAIN e.levels THEN [e EXCEPT !.levels = Swapped(@, i, j)] ELSE e
    ELSE e

\* Status, points and the block are stored as sent, a block that is not sent as none.
UpdateTeam(e, f) ==
  [e EXCEPT !.status = f.fields.status, !.points = f.fields.points,
            !.blocked = f.fields.blocked, !.pin = IF f.fields.newPin THEN "new" ELSE @]

AcceptApplications(e) == [e EXCEPT !.status = 1, !.pin = "new"]

-----------------------------------------------------------------------------
(* admin/gmstat1.php: the live game *)

Issued(e, n) == n \in DOMAIN e.progress

Issue(e, n) ==
  IF n \in DOMAIN e.levels
    THEN [e EXCEPT !.progress = (n :> [codes |-> {}, moved |-> FALSE]) @@ @]
    ELSE e

\* All codes of a level the team has, or nothing.
AcceptLevel(e, n) ==
  IF n \in DOMAIN e.levels /\ Issued(e, n)
    THEN [e EXCEPT !.progress[n].codes = @ \cup e.levels[n].codes]
    ELSE e

AcceptCode(e, n, code) ==
  IF Issued(e, n) THEN [e EXCEPT !.progress[n].codes = @ \cup {code}] ELSE e

ClearCodes(e, n) == IF Issued(e, n) THEN [e EXCEPT !.progress[n].codes = {}] ELSE e

Without(f, k) == [x \in DOMAIN f \ {k} |-> f[x]]

RemoveLevel(e, n) == [e EXCEPT !.progress = Without(@, n)]

ClearProgress(e) == [e EXCEPT !.progress = <<>>]

SetTime(e, n) == IF Issued(e, n) THEN [e EXCEPT !.progress[n].moved = TRUE] ELSE e

MaxMinutes == 2   \* bound: corrections are counted up to this
Counted(n) == Min({n + 1, MaxMinutes})

Correct(e, kind) ==
  IF kind = "bonus" THEN [e EXCEPT !.bonus = Counted(@)] ELSE [e EXCEPT !.penalty = Counted(@)]

DeleteCorrections(e, kind) ==
  IF kind = "bonus" THEN [e EXCEPT !.bonus = 0] ELSE [e EXCEPT !.penalty = 0]

Block(e, b) == [e EXCEPT !.blocked = b]

\* The one switch the engine has.
SwitchRobot(e) == [e EXCEPT !.stopped = ~@]

FinishGame(e) == [e EXCEPT !.finished = TRUE]

Intervene(e, f) ==
  CASE f.verb = "give_level"         -> Issue(e, f.id)
    [] f.verb = "accept_level"       -> AcceptLevel(e, f.id)
    [] f.verb = "give_and_accept"    -> AcceptLevel(Issue(e, f.id), f.id)
    [] f.verb = "accept_code"        -> AcceptCode(e, f.id, f.fields.code)
    [] f.verb = "clear_codes"        -> ClearCodes(e, f.id)
    [] f.verb = "remove_level"       -> RemoveLevel(e, f.id)
    [] f.verb = "clear_progress"     -> ClearProgress(e)
    [] f.verb = "set_time"           -> SetTime(e, f.id)
    [] f.verb = "add_correction"     -> Correct(e, f.fields.kind)
    [] f.verb = "delete_corrections" -> DeleteCorrections(e, f.fields.kind)
    [] f.verb \in {"block", "unblock"} -> Block(e, f.verb = "block")
    [] f.verb = "switch_robot"       -> SwitchRobot(e)
    [] f.verb = "finish_game"        -> FinishGame(e)

LiveForms == {"give_level", "accept_level", "give_and_accept", "accept_code", "clear_codes",
              "remove_level", "clear_progress", "set_time", "add_correction",
              "delete_corrections", "block", "unblock", "switch_robot", "finish_game"}

-----------------------------------------------------------------------------
(* admin/gmcht.php: the chat with the teams *)

Seconds(e) == {e.chat[i].at : i \in DOMAIN e.chat}

\* A delayed message bears the moment it will be shown; two may bear one second.
SendMessage(e, f, now) == [e EXCEPT !.chat = Append(@, [at |-> now, text |-> f.fields.text])]

\* The first message of that second goes, whichever was meant.
DeleteMessage(e, at) ==
  IF at \in Seconds(e)
    THEN [e EXCEPT !.chat = RemoveAt(@, CHOOSE i \in DOMAIN @ :
                              @[i].at = at /\ \A j \in DOMAIN @ : @[j].at = at => i <= j)]
    ELSE e

-----------------------------------------------------------------------------

(* A form served at a moment.  Forms for further games, teams of the city    *)
(* and planned levels change nothing in an engine that has one game and one  *)
(* team.                                                                     *)
Served(e, f, now) ==
  CASE f.verb = "update_game"       -> UpdateGame(e, f)
    [] f.verb = "create_level"      -> AddLevel(e, f)
    [] f.verb = "update_level"      -> UpdateLevel(e, f)
    [] f.verb = "delete_level"      -> DeleteLevel(e, f)
    [] f.verb \in {"move_up", "move_down"} -> MoveLevel(e, f)
    [] f.verb = "set_application"   -> UpdateTeam(e, f)
    [] f.verb \in {"accept_all", "generate_pins"} -> AcceptApplications(e)
    [] f.verb \in LiveForms         -> Intervene(e, f)
    [] f.verb = "send_message"      -> SendMessage(e, f, now)
    [] f.verb = "delete_message"    -> DeleteMessage(e, f.id)
    [] f.verb = "delete_messages"   -> [e EXCEPT !.chat = <<>>]
    [] OTHER                        -> e

\* A team's code: counted on a level it has, while neither it nor the engine is stopped.
PlayerCode(e, n, code) ==
  IF e.stopped \/ e.blocked \/ e.finished THEN e ELSE AcceptCode(e, n, code)

=============================================================================
