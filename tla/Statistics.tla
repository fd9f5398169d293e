----------------------------- MODULE Statistics -----------------------------
(***************************************************************************)
(* The statistics of a game, reconstructed from its exported log            *)
(* (gamestats: Parse in parse.go, inferLimits, resolve, evalLevel,          *)
(* evalThrough and Compute in compute.go).                                  *)
(*                                                                         *)
(* An event is a record [t, kind, team, level, code, at]; times are whole   *)
(* seconds, as exports write them. Left out: attempts at spoilers and the   *)
(* correction they lead to, manual values of the hints' times and of the    *)
(* additional time, prices of single codes, and what is only shown.         *)
(***************************************************************************)
EXTENDS Integers, Sequences, FiniteSets, SequencesExt

CONSTANTS
    Teams,
    Levels,
    Codes,
    Minute,         \* seconds in a minute
    DefaultDur,     \* the limit of a level nothing is known of, in minutes (90)
    Family,         \* the family of a level, by its number
    NamedThrough,   \* the levels whose names say "through" or "technical"
    NamedBonus      \* the levels whose names say "stub" or "bonus"

\* A third and a sixth of a limit are whole seconds.
ASSUME MinuteAssumption == Minute \in Nat /\ Minute > 2 /\ Minute % 6 = 0
ASSUME DefaultDurAssumption == DefaultDur \in Nat \ {0}

Null == -1      \* a time that is not known
Late == 2       \* a transition recorded two seconds late belongs to the timeout

Least(S) == CHOOSE x \in S : \A y \in S : x <= y
Greatest(S) == CHOOSE x \in S : \A y \in S : x >= y
Total(S, f(_)) == MapThenFoldSet(+, 0, f, LAMBDA T : CHOOSE x \in T : TRUE, S)
Ceiling(x, y) == (x + y - 1) \div y

-----------------------------------------------------------------------------
(* Parse: the order of the events.                                          *)

Rising(log)  == Cardinality({i \in 2..Len(log) : log[i].t > log[i - 1].t})
Falling(log) == Cardinality({i \in 2..Len(log) : log[i].t < log[i - 1].t})

\* An event goes behind those that are not later: the sort is stable.
Insert(seq, e) ==
    LET k == Cardinality({i \in 1..Len(seq) : seq[i].t <= e.t})
    IN SubSeq(seq, 1, k) \o <<e>> \o SubSeq(seq, k + 1, Len(seq))

Sorted(log) == FoldLeft(Insert, <<>>, log)

\* Mutant: an export that starts with the newest event is only sorted.
MutChronicle(log) == Sorted(log)

\* An export that starts with the newest event is turned round before it is sorted.
Chronicle(log) == Sorted(IF Falling(log) > Rising(log) THEN Reverse(log) ELSE log)

Issues(log) == {i \in 1..Len(log) : log[i].kind = "ISSUE"}
Readable(log) == Issues(log) # {}

\* The statistics were wiped before the game really began.
CutAt(rows) ==
    LET wiped == {i \in 1..Len(rows) :
                     rows[i].kind = "RESET" /\ \E j \in Issues(rows) : rows[i].t < rows[j].t}
    IN IF wiped = {} THEN Null ELSE rows[Greatest(wiped)].t

Play(log) ==
    LET rows == Chronicle(log)
        cut  == CutAt(rows)
    IN SelectSeq(rows, LAMBDA e : e.t >= cut \/ e.kind \in {"PLAN", "PREQUEL", "RESET"})

-----------------------------------------------------------------------------
(* Parse: what happened to each team on each level.                         *)

NoRecord ==
    [issued |-> Null, closed |-> Null, timeout |-> Null, refused |-> Null,
     override |-> [kind |-> "none", at |-> Null],
     codes |-> [c \in Codes |-> Null], bonus |-> {}, hintReq |-> 0]

Once(old, t) == IF old = Null THEN t ELSE old

\* An event that concerns one record only.
Noted(r, e) ==
    CASE e.kind = "ISSUE"   -> [r EXCEPT !.issued = Once(@, e.t)]
      [] e.kind = "ISSUE_T" -> [r EXCEPT !.issued = Once(@, IF e.at = Null THEN e.t ELSE e.at)]
      [] e.kind = "CODE"    -> [r EXCEPT !.codes[e.code] = Once(@, e.t)]
      [] e.kind = "BONUS"   -> [r EXCEPT !.bonus = @ \cup {e.code}]
      [] e.kind = "TIMEOUT" -> [r EXCEPT !.timeout = Once(@, e.t)]
      [] e.kind = "REFUSE"  -> [r EXCEPT !.refused = Once(@, e.t)]
      [] e.kind = "HINTREQ" -> [r EXCEPT !.hintReq = Greatest({@, e.at})]
      [] e.kind \in {"CREDIT", "AVG"} ->
            [r EXCEPT !.override = [kind |-> IF e.kind = "AVG" THEN "avg" ELSE "credit",
                                    at   |-> IF e.at = Null THEN e.t ELSE e.at]]

\* The record an issued level closes: that of the level the team was on.
Left(g, e) == {<<e.team, g.current[e.team]>>} \ {<<e.team, e.level>>}

\* A level that is issued again after it was closed is ignored.
Again(r, e) == e.kind = "ISSUE" /\ r.issued # Null /\ r.closed # Null

Replayed(g, e) ==
    LET r == g.rec[e.team][e.level]
        touched == [g EXCEPT !.levels = @ \cup {e.level},
                             !.through = IF e.kind = "ISSUE_T" THEN @ \cup {e.level} ELSE @]
        noted == [touched.rec EXCEPT ![e.team][e.level] = Noted(r, e)]
    IN IF Again(r, e) THEN touched
       ELSE IF e.kind # "ISSUE" THEN [touched EXCEPT !.rec = noted]
       ELSE [touched EXCEPT
                !.rec = [team \in Teams |-> [l \in Levels |->
                            IF <<team, l>> \in Left(g, e)
                            THEN [noted[team][l] EXCEPT !.closed = Once(@, e.t)]
                            ELSE noted[team][l]]],
                !.current[e.team] = e.level]

Replay(g, e) ==
    CASE e.kind = "END"     -> [g EXCEPT !.endAt = e.t]
      [] e.kind = "PREQUEL" -> [g EXCEPT !.prequel = @ \cup {e.team}]
      [] e.kind = "RESET"   -> g
      [] e.kind = "PLAN"    -> [g EXCEPT !.levels = @ \cup {e.level}]
      [] OTHER              -> IF e.team \in g.teams THEN Replayed(g, e) ELSE g

LastOf(play, kinds) == Greatest({play[i].t : i \in {j \in 1..Len(play) : play[j].kind \in kinds}})

Replays(play, teams) ==
    FoldLeft(Replay,
        [teams |-> teams, levels |-> {}, through |-> {}, prequel |-> {}, endAt |-> Null,
         current |-> [team \in Teams |-> "none"],
         rec |-> [team \in Teams |-> [l \in Levels |-> NoRecord]]], play)

Parse(log) ==
    LET play  == Play(log)
        teams == {play[i].team : i \in Issues(play)}
        g     == Replays(play, teams)
    IN [g EXCEPT !.endAt = IF @ # Null THEN @
                           ELSE LastOf(play, {"ISSUE", "CODE", "TIMEOUT", "BONUS"})]

Taken(r) == {c \in Codes : r.codes[c] # Null}
TimedOut(r) == r.timeout # Null /\ r.timeout <= r.closed + Late

\* How many codes closed the level for the team that needed the fewest.
ReqCodes(g, l) ==
    LET counts == {Cardinality(Taken(r)) : r \in
                      {g.rec[team][l] : team \in {u \in g.teams :
                          LET q == g.rec[u][l] IN
                          /\ q.closed # Null /\ ~TimedOut(q) /\ q.refused = Null
                          /\ Taken(q) # {}}}}
    IN IF counts = {} THEN 0 ELSE Least(counts)

\* When a team had that many codes.
DoneAt(g, team, l) ==
    LET r == g.rec[team][l]
        n == ReqCodes(g, l)
        by(t) == Cardinality({c \in Taken(r) : r.codes[c] <= t})
    IN IF n = 0 \/ Cardinality(Taken(r)) < n THEN Null
       ELSE Least({t \in {r.codes[c] : c \in Taken(r)} : by(t) >= n})

AutoKind(g, l) ==
    IF l \in g.through \cup NamedThrough THEN "through"
    ELSE IF l \in NamedBonus THEN "bonus" ELSE "main"

-----------------------------------------------------------------------------
(* inferLimits: how many minutes a level was given for.                     *)

Held(g, l) == {g.rec[team][l] : team \in {u \in g.teams : g.rec[u][l].issued # Null}}

\* Timeouts with which the team went on, and those recorded when it was noticed.
Prompt(r) == r.timeout # Null /\ r.closed # Null /\ r.closed - r.timeout \in -Late..Late
Lazy(r)   == r.timeout # Null /\ ~Prompt(r)
Lasted(S) == {r.timeout - r.issued : r \in S}
PromptOnes(g, l) == {r \in Held(g, l) : Prompt(r)}
LazyOnes(g, l)   == {r \in Held(g, l) : Lazy(r)}

Timed(g) == {l \in g.levels : AutoKind(g, l) # "through"}

Measured(g, l) == Least(Lasted(PromptOnes(g, l))) \div Minute
Reliable(g) == {l \in Timed(g) : PromptOnes(g, l) # {}}

\* The limit most levels of the family have, the longer one of two; Null for none.
Usual(g, l) ==
    LET kin == {k \in Reliable(g) : Family[k] = Family[l]}
        often(n) == Cardinality({k \in kin : Measured(g, k) = n})
        modes == {n \in {Measured(g, k) : k \in kin} :
                     \A k \in kin : often(Measured(g, k)) <= often(n)}
    IN IF kin = {} THEN Null ELSE Greatest(modes)

Inferred(g, l, default) ==
    LET usual == Usual(g, l)
        seen  == Least(Lasted(LazyOnes(g, l))) \div Minute
    IN CASE l \in Reliable(g)      -> Measured(g, l)
         [] l \notin Reliable(g) /\ LazyOnes(g, l) # {} ->
               IF usual # Null /\ usual < seen THEN usual ELSE seen
         [] OTHER                  -> IF usual # Null THEN usual ELSE default

\* The longest a team held the level and left it by itself, in minutes.
Longest(g, l) ==
    LET open == {r \in Held(g, l) : r.timeout = Null /\ r.closed # Null /\ r.refused = Null}
    IN IF open = {} THEN 0 ELSE Ceiling(Greatest({r.closed - r.issued : r \in open}), Minute)

\* Mutant: what the teams did does not count against the estimate.
MutAutoDur(g, l, default) == IF l \in Timed(g) THEN Inferred(g, l, default) ELSE default

\* An estimate below what a team really had is raised to full five minutes, unless it
\* was measured.
AutoDur(g, l, default) ==
    IF l \notin Timed(g) THEN default
    ELSE LET dur == Inferred(g, l, default)
         IN IF l \notin Reliable(g) /\ Longest(g, l) > dur
            THEN Ceiling(Longest(g, l), 5) * 5 ELSE dur

-----------------------------------------------------------------------------
(* resolve: the parameters, [game, level, team]; Null stands for one not set. *)

Kind(g, cfg, l) == IF cfg.level[l].kind = "auto" THEN AutoKind(g, l) ELSE cfg.level[l].kind
Dur(g, cfg, l) ==
    IF cfg.level[l].dur # Null THEN cfg.level[l].dur
    ELSE AutoDur(g, l, IF cfg.game.defaultDur # Null THEN cfg.game.defaultDur ELSE DefaultDur)
StopAt(g, cfg) == IF cfg.game.stopAt # Null THEN cfg.game.stopAt ELSE g.endAt

DefaultConfig ==
    [game  |-> [defaultDur |-> Null, stopAt |-> Null, noneMode |-> "limit",
                stopMode |-> "actual", prequelMin |-> 0],
     level |-> [l \in Levels |-> [kind |-> "auto", dur |-> Null, done |-> 0, perBonus |-> 0,
                                  perCode |-> 0, hintPen |-> 0, cap |-> 0]],
     team  |-> [team \in Teams |-> [hidden |-> FALSE, penalty |-> 0, bonus |-> 0]]]

-----------------------------------------------------------------------------
(* evalLevel, evalThrough: what a level costs a team, and brings it.         *)

Capped(minutes, cap) ==
    LET n == IF cap > 0 /\ minutes > cap THEN cap ELSE minutes
    IN IF n > 0 THEN n * Minute ELSE 0

\* When the team got the level; one it never got but was credited with after the end
\* counts as given at the end.
Given(r, stop) ==
    IF r.issued = Null /\ r.override.kind # "none" /\ r.override.at >= stop THEN stop
    ELSE r.issued

\* How the level ended for the team, and when; the first line that applies counts.
Ending(g, team, l, stop, dur) ==
    LET r == g.rec[team][l]
        given == Given(r, stop)
        expires == given + dur * Minute
        done == DoneAt(g, team, l)
        end(how, at) == [how |-> how, at |-> at]
        of == IF r.override.kind # "none" /\ r.override.at >= given
              THEN end(r.override.kind, r.override.at)
              ELSE IF r.refused # Null THEN end("refuse", r.refused)
              ELSE IF r.closed # Null
                   THEN IF r.timeout # Null /\ TimedOut(r) THEN end("timeout", expires)
                        ELSE end("code", r.closed)
              ELSE IF done # Null /\ done <= expires THEN end("code", done)
              ELSE IF r.timeout # Null \/ expires <= stop THEN end("timeout", expires)
              ELSE end("stop", Null)
    IN IF of.how = "code" /\ of.at > stop THEN end("stop", Null) ELSE of

NotGiven(mode, dur) ==
    [how   |-> "none",
     count |-> IF mode = "limit" THEN dur * Minute ELSE 0,
     add   |-> IF mode = "ignore" THEN 0 ELSE (dur * Minute) \div 6,
     bonus |-> 0]

Cell(g, cfg, team, l) ==
    LET r    == g.rec[team][l]
        o    == cfg.level[l]
        stop == StopAt(g, cfg)
        dur  == Dur(g, cfg, l)
        given == Given(r, stop)
        e    == Ending(g, team, l, stop, dur)
        solved == e.how \in {"code", "credit", "avg"}
        codes == Cardinality(r.bonus) * o.perBonus
    IN IF given = Null \/ given > stop THEN NotGiven(cfg.game.noneMode, dur)
       ELSE [how   |-> e.how,
             count |-> CASE solved -> e.at - given
                         [] e.how = "stop" /\ cfg.game.stopMode # "limit" ->
                               Least({stop - given, dur * Minute})
                         [] OTHER -> dur * Minute,
             add   |-> IF solved THEN 0 ELSE (dur * Minute) \div 6,
             bonus |-> Capped(codes + (IF solved THEN o.done ELSE 0), o.cap)]

Through(g, cfg, team, l) ==
    LET r == g.rec[team][l]
        o == cfg.level[l]
        n == Cardinality(Taken(r))
        most == Greatest({Cardinality(Taken(g.rec[u][l])) : u \in g.teams})
    IN IF r.issued = Null THEN 0
       ELSE Capped(n * o.perCode + Cardinality(r.bonus) * o.perBonus - r.hintReq * o.hintPen
                     + (IF most > 0 /\ n >= most THEN o.done ELSE 0), o.cap)

-----------------------------------------------------------------------------
(* Compute: the rows of the table and the places.                           *)

OfKind(g, cfg, kinds) == {l \in g.levels : Kind(g, cfg, l) \in kinds}

\* What a level adds to a team's result; a bonus level only takes away from it.
Cost(g, cfg, team, l) ==
    LET cell == Cell(g, cfg, team, l)
    IN IF Kind(g, cfg, l) = "main" THEN cell.count + cell.add - cell.bonus ELSE -cell.bonus

Result(g, cfg, team) ==
    Total(OfKind(g, cfg, {"main", "bonus"}), LAMBDA l : Cost(g, cfg, team, l))
    - Total(OfKind(g, cfg, {"through"}), LAMBDA l : Through(g, cfg, team, l))
    - (IF team \in g.prequel THEN cfg.game.prequelMin * Minute ELSE 0)
    + (cfg.team[team].penalty - cfg.team[team].bonus) * Minute

Listed(g, cfg) == {team \in g.teams : ~cfg.team[team].hidden}

\* Teams with one result share a place.
Place(g, cfg, team) ==
    1 + Cardinality({u \in Listed(g, cfg) : Result(g, cfg, u) < Result(g, cfg, team)})

=============================================================================
