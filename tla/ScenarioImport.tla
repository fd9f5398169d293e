--------------------------- MODULE ScenarioImport ---------------------------
(* gamesource: ImportScenario and Plan.Apply write a whole game through the  *)
(* engine's admin pages, request by request, with no transaction around it.  *)
(* A request may fail, may be carried out and lose its answer, and may store *)
(* something else than it was given; another organizer works in the same     *)
(* game meanwhile.  What both promise instead of atomicity is a report: what *)
(* was done, where it stopped, and no publication before the content was     *)
(* read back.                                                                *)
(*                                                                           *)
(* A level's content is the key of the scenario level it equals, or one of   *)
(* the words of Content; the order of games[n] is the order the players get. *)
EXTENDS Naturals, Sequences, FiniteSets, FiniteSetsExt, SequencesExt

CONSTANTS
  Scenario,       \* the keys of the source's levels, in order
  Published,      \* the keys whose level the source publishes
  GamePublished,  \* whether the source publishes the game
  MaxGames, MaxLevels,   \* bounds: the ids the engine still has to give
  OtherMoves,     \* bound: how often another organizer changes something
  Calls           \* bound: how many calls are made, one after the other

Keys == Range(Scenario)
Count == Len(Scenario)

ASSUME ScenarioAssumption ==
  /\ Scenario \in Seq(Keys) /\ IsInjective(Scenario)
  /\ Published \subseteq Keys /\ GamePublished \in BOOLEAN
  /\ {MaxGames, MaxLevels, OtherMoves, Calls} \subseteq Nat

Content == Keys \cup {"scenario", "seed", "shell", "foreign", "altered"}
Flag == {"off", "ours", "theirs"}      \* Publish, and who switched it on

VARIABLES
  games,      \* id -> [content, pub, asset, order]
  levels,     \* id -> [game, content, pub]; game 0 when it was deleted
  job,        \* the call under way: [kind, at, k, game, ids], the last two its arguments
  r,          \* its report, ScenarioImportResult or Result
  seen,       \* the list of levels orderScenarioLevels read last
  touched,    \* history: what the other organizer changed since it was last read back
  made,       \* history: the levels this call's requests created
  raced,      \* history: the list of levels changed under FindLevel
  moves,      \* how often the other organizer acted
  calls       \* how many calls were made

engine == <<games, levels>>
vars == <<games, levels, job, r, seen, touched, made, raced, moves, calls>>

On(f) == f # "off"
Position(s, x) == CHOOSE i \in DOMAIN s : s[i] = x
Ours(on) == IF on THEN "ours" ELSE "off"
LevelIs(l, c, on) == levels[l].content = c /\ On(levels[l].pub) = on
InGame(l) == l \in DOMAIN levels /\ levels[l].game = r.gameID

Report(g) == [gameID |-> g, createdGame |-> FALSE, levelIDs |-> <<>>, completed |-> <<>>,
              stage |-> "preflight", key |-> "", complete |-> FALSE]

(* Stage and FailedKey name the request that is about to be sent. *)
StageOf(at) ==
  CASE at \in {"write_game", "verify_game"} -> "write_game"
    [] at \in {"write_level", "find_level", "replace_level", "verify_level"} -> "write_level"
    [] at \in {"list", "move", "relist"} -> "order_levels"
    [] at \in {"flags", "verify_flags"} -> "restore_level_flags"
    [] at \in {"game_flags", "verify_game_flags"} -> "restore_game_flags"
    [] at \in {"apply", "find_applied"} -> "apply"
    [] OTHER -> at
PerLevel == {"write_level", "restore_level_flags", "apply"}

Step(at, k, report) ==
  LET s == StageOf(at)
  IN /\ job' = [job EXCEPT !.at = at, !.k = k]
     /\ r' = [report EXCEPT !.stage = s, !.key = IF s \in PerLevel THEN Scenario[k] ELSE ""]
Return(report) == job' = [job EXCEPT !.at = "idle", !.k = 1, !.ids = <<>>] /\ r' = report
Stop == Return(r)
Finished(report) == Return([report EXCEPT !.complete = TRUE])

-----------------------------------------------------------------------------
(* The engine's side of a request (package dzzzr).  A request that commits   *)
(* may still be answered with an error: Carry chooses.                       *)

Carry(at, k, report) == Step(at, k, report) \/ Stop
Stored(old, new) == {new, [new EXCEPT !.content = "altered"], [new EXCEPT !.pub = old.pub]}

ReplaceGame(c, on) ==
  LET old == games[r.gameID]
  IN /\ \E rec \in Stored(old, [old EXCEPT !.content = c, !.pub = Ours(on)]) :
          games' = [games EXCEPT ![r.gameID] = rec]
     /\ UNCHANGED levels

ReplaceLevel(l, c, on) ==
  /\ InGame(l)
  /\ \E rec \in Stored(levels[l], [levels[l] EXCEPT !.content = c, !.pub = Ours(on)]) :
       levels' = [levels EXCEPT ![l] = rec]
  /\ UNCHANGED games

NewLevel == Len(levels) + 1
AddLevel(g, c, pub) ==
  /\ NewLevel <= MaxLevels
  /\ levels' = Append(levels, [game |-> g, content |-> c, pub |-> pub])
  /\ games' = [games EXCEPT ![g].order = Append(@, NewLevel)]

(* One place up; nothing happens at the top, or to a level that is gone.     *)
MoveUp(g, l) ==
  LET o == games[g].order
      i == Position(o, l)
  IN games' = IF l \in Range(o) /\ i > 1
              THEN [games EXCEPT ![g].order = [o EXCEPT ![i] = o[i - 1], ![i - 1] = l]]
              ELSE games

-----------------------------------------------------------------------------
(* ImportScenario *)

(* validateLevelMapping: a game that has levels is only written over whole.  *)
MappingValid(existing, ids) ==
  IF existing = <<>> THEN ids = <<>>
  ELSE /\ Len(existing) = Count
       /\ DOMAIN ids = Keys
       /\ IsInjective(ids)
       /\ Range(ids) \subseteq Range(existing)

Start(kind, g, ids) ==
  /\ job.at = "idle" /\ calls < Calls /\ calls' = calls + 1
  /\ job' = [kind |-> kind, at |-> "preflight", k |-> 1, game |-> g, ids |-> ids]
  /\ r' = Report(IF kind = "import" THEN 0 ELSE g)
  /\ made' = {} /\ raced' = FALSE /\ seen' = <<>>
  /\ UNCHANGED <<engine, touched, moves>>

(* The reads before the first write: game, list, every mapped level, assets. *)
Preflight ==
  /\ job.kind = "import" /\ job.at = "preflight"
  /\ IF job.game = 0
       THEN job.ids = <<>> /\ Step("create_game", 1, r)
       ELSE /\ job.game \in DOMAIN games
            /\ MappingValid(games[job.game].order, job.ids)
            /\ Step("upload_asset", 1, [r EXCEPT !.gameID = job.game])
  /\ UNCHANGED <<engine, seen, touched, made, raced, moves, calls>>

CreateGame ==
  LET g == Len(games) + 1
  IN /\ job.at = "create_game" /\ g <= MaxGames
     /\ games' = Append(games, [content |-> "seed", pub |-> "off", asset |-> "none", order |-> <<>>])
     /\ Carry("upload_asset", 1, [r EXCEPT !.gameID = g, !.createdGame = TRUE])
     /\ UNCHANGED <<levels, seen, touched, made, raced, moves, calls>>

\* Mutant: a file that is there already is taken for the asset.
MutUploadAsset ==
  /\ job.at = "upload_asset"
  /\ games' = [games EXCEPT ![r.gameID].asset = IF @ = "none" THEN "same" ELSE @]
  /\ Carry("write_game", 1, r)
  /\ touched' = touched \ {<<"asset", r.gameID>>}
  /\ UNCHANGED <<levels, seen, made, raced, moves, calls>>

(* A file is named by its digest; one that is there already is fetched.      *)
UploadAsset ==
  /\ job.at = "upload_asset"
  /\ games[r.gameID].asset # "other"
  /\ games' = [games EXCEPT ![r.gameID].asset = "same"]
  /\ Carry("write_game", 1, r)
  /\ touched' = touched \ {<<"asset", r.gameID>>}
  /\ UNCHANGED <<levels, seen, made, raced, moves, calls>>

\* Mutant: the draft of the game keeps the source's publication flag.
MutWriteGame ==
  /\ job.at = "write_game"
  /\ ReplaceGame("scenario", GamePublished)
  /\ Carry("verify_game", 1, r)
  /\ UNCHANGED <<seen, touched, made, raced, moves, calls>>

WriteGame ==
  /\ job.at = "write_game"
  /\ ReplaceGame("scenario", FALSE)
  /\ Carry("verify_game", 1, r)
  /\ UNCHANGED <<seen, touched, made, raced, moves, calls>>

ReadBackGame(on) ==
  /\ games[r.gameID].content = "scenario" /\ On(games[r.gameID].pub) = on
  /\ touched' = touched \ {<<"game", r.gameID>>}
  /\ UNCHANGED <<engine, seen, made, raced, moves, calls>>

VerifyGame ==
  /\ job.at = "verify_game" /\ ReadBackGame(FALSE)
  /\ IF Count > 0 THEN Step("write_level", 1, r) ELSE Step("list", 1, r)

Key == Scenario[job.k]
Target == r.levelIDs[Key]
Recorded(l) == [r EXCEPT !.levelIDs = [x \in DOMAIN @ \cup {Key} |-> IF x = Key THEN l ELSE @[x]]]

UseMapped ==
  /\ job.at = "write_level" /\ Key \in DOMAIN job.ids
  /\ Step("replace_level", job.k, Recorded(job.ids[Key]))
  /\ UNCHANGED <<engine, seen, touched, made, raced, moves, calls>>

\* Mutant: a creation that got no answer is sent again.
MutCreateShell ==
  /\ job.at = "write_level" /\ Key \notin DOMAIN job.ids
  /\ AddLevel(r.gameID, "shell", "off")
  /\ made' = made \cup {NewLevel}
  /\ \/ Step("replace_level", job.k, Recorded(NewLevel))
     \/ UNCHANGED <<job, r>>
  /\ UNCHANGED <<seen, touched, raced, moves, calls>>

(* AdminCreateLevel: the id is in the redirect, or it is the last level of   *)
(* the list that is read next.                                               *)
CreateShell ==
  /\ job.at = "write_level" /\ Key \notin DOMAIN job.ids
  /\ AddLevel(r.gameID, "shell", "off")
  /\ made' = made \cup {NewLevel}
  /\ Carry("replace_level", job.k, Recorded(NewLevel)) \/ Step("find_level", job.k, r)
  /\ UNCHANGED <<seen, touched, raced, moves, calls>>

FindLevel(at, next) ==
  LET o == games[r.gameID].order
  IN /\ job.at = at /\ o # <<>>
     /\ Step(next, job.k, Recorded(Last(o)))
     /\ UNCHANGED <<engine, seen, touched, made, raced, moves, calls>>

FindShell == FindLevel("find_level", "replace_level")

WriteLevel ==
  /\ job.at = "replace_level"
  /\ ReplaceLevel(Target, Key, FALSE)
  /\ Carry("verify_level", job.k, r)
  /\ UNCHANGED <<seen, touched, made, raced, moves, calls>>

ReadBackLevel(on) ==
  /\ InGame(Target) /\ LevelIs(Target, Key, on)
  /\ touched' = touched \ {<<"level", Target>>}
  /\ UNCHANGED <<engine, seen, made, raced, moves, calls>>

VerifyLevel ==
  /\ job.at = "verify_level" /\ ReadBackLevel(FALSE)
  /\ LET done == [r EXCEPT !.completed = Append(@, Key)]
     IN IF job.k < Count THEN Step("write_level", job.k + 1, done) ELSE Step("list", 1, done)

-----------------------------------------------------------------------------
(* orderScenarioLevels: one move at a time, the list read after each *)

ReadList ==
  /\ seen' = games[r.gameID].order
  /\ Len(seen') = Count
  /\ touched' = touched \ {<<"order", r.gameID>>}
  /\ UNCHANGED <<engine, made, raced, moves, calls>>

\* The first published level from k on, or else the game's own flags.
FlagsFrom(k) ==
  LET rest == {j \in k .. Count : Scenario[j] \in Published}
  IN IF rest = {} THEN Step("game_flags", 1, r) ELSE Step("flags", Min(rest), r)

ListLevels ==
  /\ job.at = "list" /\ ReadList
  /\ IF Count > 0 THEN Step("move", 1, r) ELSE FlagsFrom(1)

InPlace ==
  /\ job.at = "move" /\ Target \in Range(seen) /\ Position(seen, Target) = job.k
  /\ IF job.k < Count THEN Step("move", job.k + 1, r)
     ELSE /\ \A i \in 1 .. Count : seen[i] = r.levelIDs[Scenario[i]]
          /\ FlagsFrom(1)
  /\ UNCHANGED <<engine, seen, touched, made, raced, moves, calls>>

MoveLevel ==
  /\ job.at = "move" /\ Target \in Range(seen) /\ Position(seen, Target) > job.k
  /\ MoveUp(r.gameID, Target) \/ UNCHANGED games
  /\ Carry("relist", job.k, r)
  /\ UNCHANGED <<levels, seen, touched, made, raced, moves, calls>>

Relist ==
  /\ job.at = "relist" /\ ReadList
  /\ Target \in Range(seen') /\ Position(seen', Target) = Position(seen, Target) - 1
  /\ Step("move", job.k, r)

-----------------------------------------------------------------------------
(* The publication flags, restored last *)

RestoreLevel ==
  /\ job.at = "flags"
  /\ ReplaceLevel(Target, Key, TRUE)
  /\ Carry("verify_flags", job.k, r)
  /\ UNCHANGED <<seen, touched, made, raced, moves, calls>>

VerifyFlags ==
  /\ job.at = "verify_flags" /\ ReadBackLevel(TRUE)
  /\ FlagsFrom(job.k + 1)

RestoreGame ==
  /\ job.at = "game_flags"
  /\ ReplaceGame("scenario", GamePublished)
  /\ Carry("verify_game_flags", 1, r)
  /\ UNCHANGED <<seen, touched, made, raced, moves, calls>>

VerifyGameFlags ==
  /\ job.at = "verify_game_flags" /\ ReadBackGame(GamePublished)
  /\ Finished([r EXCEPT !.stage = "complete"])

-----------------------------------------------------------------------------
(* Plan.Apply: the same levels, created or replaced in order, not read back *)

BeginApply ==
  /\ job.at = "preflight" /\ job.kind \in {"create", "update"}
  /\ job.kind = "update" => \A x \in Keys : InGame(job.ids[x])
  /\ Step("apply", 1, r)
  /\ UNCHANGED <<engine, seen, touched, made, raced, moves, calls>>

Applied(l) == [Recorded(l) EXCEPT !.completed = Append(@, Key)]
NextApply(l) ==
  IF job.k < Count THEN Step("apply", job.k + 1, Applied(l)) ELSE Finished(Applied(l))

ApplyCreate ==
  /\ job.at = "apply" /\ job.kind = "create"
  /\ \E c \in {Key, "altered"} : AddLevel(r.gameID, c, Ours(Key \in Published))
  /\ made' = made \cup {NewLevel}
  /\ NextApply(NewLevel) \/ Stop \/ Step("find_applied", job.k, r)
  /\ UNCHANGED <<seen, touched, raced, moves, calls>>

FindApplied ==
  LET o == games[r.gameID].order
  IN /\ job.at = "find_applied" /\ o # <<>>
     /\ NextApply(Last(o))
     /\ UNCHANGED <<engine, seen, touched, made, raced, moves, calls>>

ApplyUpdate ==
  /\ job.at = "apply" /\ job.kind = "update"
  /\ ReplaceLevel(job.ids[Key], Key, Key \in Published)
  /\ NextApply(job.ids[Key]) \/ Stop
  /\ touched' = touched \ {<<"level", job.ids[Key]>>}
  /\ UNCHANGED <<seen, made, raced, moves, calls>>

(* Every request, and every check of an answer, may end the call: an error,  *)
(* a cancelled context, a read-back that differs, an id that is not there.   *)
RequestFails ==
  /\ job.at # "idle" /\ Stop
  /\ UNCHANGED <<engine, seen, touched, made, raced, moves, calls>>

-----------------------------------------------------------------------------
(* The other organizer, and the calls that are made *)

Touch(items) ==
  /\ moves < OtherMoves /\ moves' = moves + 1
  /\ touched' = touched \cup items
  /\ UNCHANGED <<job, r, seen, made, calls>>

OtherListChange(g, items) ==
  /\ Touch(items \cup {<<"order", g>>})
  /\ raced' = (raced \/ job.at \in {"find_level", "find_applied"})

OtherAdds(g) == AddLevel(g, "foreign", "off") /\ OtherListChange(g, {<<"level", NewLevel>>})

OtherDeletes(l) ==
  LET g == levels[l].game
  IN /\ g # 0
     /\ levels' = [levels EXCEPT ![l].game = 0]
     /\ games' = [games EXCEPT ![g].order = RemoveAt(@, Position(@, l))]
     /\ OtherListChange(g, {<<"level", l>>})

OtherMovesUp(l) ==
  /\ levels[l].game # 0 /\ Head(games[levels[l].game].order) # l
  /\ MoveUp(levels[l].game, l) /\ UNCHANGED levels
  /\ OtherListChange(levels[l].game, {})

OtherEdits(l) ==
  /\ levels[l].game # 0
  /\ \/ levels' = [levels EXCEPT ![l].content = "foreign"]
     \/ levels' = [levels EXCEPT ![l].pub = IF On(@) THEN "off" ELSE "theirs"]
  /\ Touch({<<"level", l>>})
  /\ UNCHANGED <<games, raced>>

OtherEditsGame(g) ==
  /\ \/ games' = [games EXCEPT ![g].content = "foreign"]
     \/ games' = [games EXCEPT ![g].pub = IF On(@) THEN "off" ELSE "theirs"]
  /\ Touch({<<"game", g>>})
  /\ UNCHANGED <<levels, raced>>

OtherUploads(g) ==
  /\ games' = [games EXCEPT ![g].asset = "other"]
  /\ Touch({<<"asset", g>>})
  /\ UNCHANGED <<levels, raced>>

Mappings(g) == [Keys -> Range(games[g].order)]

StartImport ==
  \/ Start("import", 0, <<>>)
  \/ \E g \in DOMAIN games : \E f \in {<<>>} \cup Mappings(g) : Start("import", g, f)
StartPlan ==
  /\ Count > 0
  /\ \E g \in DOMAIN games :
       \/ Start("create", g, <<>>)
       \/ \E f \in Mappings(g) : IsInjective(f) /\ Start("update", g, f)

Init ==
  /\ \E p \in {"off", "theirs"}, n \in {0, Count} :
       /\ games = <<[content |-> "foreign", pub |-> p, asset |-> "none", order |-> [i \in 1 .. n |-> i]]>>
       /\ levels = [i \in 1 .. n |-> [game |-> 1, content |-> "foreign", pub |-> p]]
  /\ job = [kind |-> "import", at |-> "idle", k |-> 1, game |-> 0, ids |-> <<>>]
  /\ r = Report(0) /\ seen = <<>> /\ touched = {} /\ made = {} /\ raced = FALSE /\ moves = 0 /\ calls = 0

Others ==
  \/ \E g \in DOMAIN games : OtherAdds(g) \/ OtherEditsGame(g) \/ OtherUploads(g)
  \/ \E l \in DOMAIN levels : OtherDeletes(l) \/ OtherMovesUp(l) \/ OtherEdits(l)

Writes ==
  \/ CreateGame \/ UploadAsset \/ WriteGame \/ CreateShell \/ WriteLevel
  \/ MoveLevel \/ RestoreLevel \/ RestoreGame \/ ApplyCreate \/ ApplyUpdate
Reads ==
  \/ Preflight \/ VerifyGame \/ UseMapped \/ FindShell \/ VerifyLevel
  \/ ListLevels \/ InPlace \/ Relist \/ VerifyFlags \/ VerifyGameFlags
  \/ BeginApply \/ FindApplied

Next == StartImport \/ StartPlan \/ Writes \/ Reads \/ RequestFails \/ Others

Spec == Init /\ [][Next]_vars

-----------------------------------------------------------------------------
(* Properties *)

(* Every variable has its type. *)
TypeOK ==
  /\ games \in Seq([content : Content, pub : Flag, asset : {"none", "same", "other"},
                     order : Seq(DOMAIN levels)])
  /\ levels \in Seq([game : 0 .. MaxGames, content : Content, pub : Flag])
  /\ job.at \in STRING /\ job.k \in 1 .. Count \cup {1}
  /\ r.gameID \in 0 .. MaxGames /\ r.completed \in Seq(Keys)
  /\ seen \in Seq(DOMAIN levels) /\ made \subseteq DOMAIN levels
  /\ moves \in 0 .. OtherMoves /\ calls \in 0 .. Calls

Written(g, i, l) ==
  \/ <<"level", l>> \in touched
  \/ levels[l].game = g /\ levels[l].content = Scenario[i]
Flagged(i, l) == <<"level", l>> \in touched \/ On(levels[l].pub) = (Scenario[i] \in Published)
WholeBut(g, some) ==
  <<"order", g>> \notin touched =>
    /\ Len(games[g].order) = Count
    /\ \A i \in 1 .. Count \ some : Written(g, i, games[g].order[i])
AllFlagged(g) ==
  <<"order", g>> \notin touched => \A i \in 1 .. Count : Flagged(i, games[g].order[i])

(* The import publishes nothing before the whole scenario was read back in   *)
(* the destination: a level's flag is only switched on when every level has  *)
(* its content and its place, the game's when every level has its flag too.  *)
(* What the other organizer changed after it was read back is excepted.      *)
PublishedOnlyWhole ==
  [][job.kind = "import" =>
       /\ \A l \in DOMAIN levels : levels'[l].pub = "ours" /\ levels[l].pub # "ours" =>
            WholeBut(levels[l].game, {i \in 1 .. Count : Scenario[i] = r.key})'
       /\ \A g \in DOMAIN games : games'[g].pub = "ours" /\ games[g].pub # "ours" =>
            WholeBut(g, {})' /\ AllFlagged(g)'
    ]_vars

(* The report is true wherever the call stopped: a level it lists as done    *)
(* holds what the scenario has for that key (Plan.Apply does not read back   *)
(* what the engine stored), and every level the call created is in it, but   *)
(* for the one whose request it stopped at, which the failed key names.      *)
(* Excepted: the other organizer's later changes, and a list that changed    *)
(* while the id of a new level was read from its end.                        *)
ReportTellsTruth ==
  /\ \A i \in DOMAIN r.completed :
       LET l == r.levelIDs[r.completed[i]]
       IN \/ <<"level", l>> \in touched \/ raced
          \/ /\ l \in DOMAIN levels /\ levels[l].game = r.gameID
             /\ \/ levels[l].content = r.completed[i]
                \/ levels[l].content = "altered" /\ (job.kind # "import" \/ r.key = r.completed[i])
  /\ raced \/ \A l \in made \ Range(r.levelIDs) :
       /\ made \ Range(r.levelIDs) = {l}
       /\ r.key \notin DOMAIN r.levelIDs /\ r.stage \in {"write_level", "apply"}

(* A report of a complete import means that the game is the scenario: its    *)
(* settings and flag, the asset, and every level's content, flag and place,  *)
(* but for what the other organizer changed after it was read back.          *)
CompleteMeansEqual ==
  r.stage = "complete" =>
    /\ <<"game", r.gameID>> \notin touched =>
         games[r.gameID].content = "scenario" /\ On(games[r.gameID].pub) = GamePublished
    /\ <<"asset", r.gameID>> \notin touched => games[r.gameID].asset = "same"
    /\ WholeBut(r.gameID, {}) /\ AllFlagged(r.gameID)
=============================================================================
