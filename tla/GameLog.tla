------------------------------- MODULE GameLog -------------------------------
(***************************************************************************)
(* A game whose log is exported while it is played: the engine writes an    *)
(* event for everything the teams and the organizers do (it is not part of  *)
(* the repository: the events are those action in gamestats/parse.go reads, *)
(* the limits those inferLimits looks for), and the statistics are computed *)
(* from what has been written so far.                                       *)
(***************************************************************************)
EXTENDS Statistics

CONSTANTS
    Limit,      \* the limits the organizers gave the levels, in minutes
    Pauses,     \* how many seconds may pass between two events
    MaxLog,     \* bound: events in the log
    MaxNotes    \* bound: events of teams and organizers that move nobody on

VARIABLES
    log,        \* the events written so far
    on,         \* the level each team is on, or "none"
    since,      \* when it got it
    free,       \* the teams whose level ended by itself and that get the next one
    notes,      \* how many of the events move nobody on
    over

vars == <<log, on, since, free, notes, over>>

Init ==
    /\ log = <<>>
    /\ on = [team \in Teams |-> "none"]
    /\ since = [team \in Teams |-> 0]
    /\ free = {}
    /\ notes = 0
    /\ over = FALSE

Now == IF log = <<>> THEN 0 ELSE log[Len(log)].t

Write(t, kind, team, level, code, at) ==
    /\ ~over
    /\ Len(log) < MaxLog
    /\ log' = Append(log, [t |-> t, kind |-> kind, team |-> team, level |-> level,
                           code |-> code, at |-> at])

Numbered == Levels \ NamedThrough
Had(team) == {log[i].level : i \in {j \in 1..Len(log) : log[j].kind = "ISSUE" /\ log[j].team = team}}

Deadline(team) == since[team] + Limit[on[team]] * Minute

\* A team gets its next level: when it has entered the codes, when the time is over, or
\* after it refused the level. Nobody holds a level for longer than it was given for.
Issue(team, l, t) ==
    /\ l \in Numbered \ Had(team)
    /\ \/ on[team] = "none"
       \/ team \in free
       \/ on[team] \in Levels /\ t <= Deadline(team)
    /\ Write(t, "ISSUE", team, l, "none", Null)
    /\ on' = [on EXCEPT ![team] = l]
    /\ since' = [since EXCEPT ![team] = t]
    /\ free' = free \ {team}
    /\ UNCHANGED <<notes, over>>

\* The end of the time is recorded within two seconds where the next level follows, and
\* on a team's last level when somebody looks.
Expire(team, t) ==
    /\ on[team] # "none" /\ team \notin free
    /\ t >= Deadline(team)
    /\ t <= Deadline(team) + Late \/ Had(team) = Numbered
    /\ Write(t, "TIMEOUT", team, on[team], "none", Null)
    /\ free' = free \cup {team}
    /\ UNCHANGED <<on, since, notes, over>>

Refuse(team, t) ==
    /\ on[team] # "none" /\ team \notin free
    /\ Write(t, "REFUSE", team, on[team], "none", Null)
    /\ free' = free \cup {team}
    /\ UNCHANGED <<on, since, notes, over>>

Finish(t) ==
    /\ Write(t, "END", "none", "none", "none", Null)
    /\ over' = TRUE
    /\ UNCHANGED <<on, since, free, notes>>

\* Everything that moves nobody on: codes, hints, a level that is open all the time,
\* the organizers' credits, the plan, the prequel.
Note(team, l, t) ==
    /\ notes < MaxNotes
    /\ notes' = notes + 1
    /\ \/ l = on[team] /\ \E c \in Codes, kind \in {"CODE", "BONUS"} : Write(t, kind, team, l, c, Null)
       \/ l = on[team] /\ Write(t, "HINTREQ", team, l, "none", 1)
       \/ l \in Numbered /\ \E at \in {Null, t - 1} : Write(t, "CREDIT", team, l, "none", at)
       \/ l \in Numbered /\ Write(t, "AVG", team, l, "none", Null)
       \/ l \in NamedThrough /\ Write(t, "ISSUE_T", team, l, "none", Null)
       \/ l \in Numbered /\ Write(t, "PLAN", team, l, "none", Null)
       \/ Write(t, "PREQUEL", team, "none", "none", Null)
    /\ UNCHANGED <<on, since, free, over>>

\* The statistics are wiped: the teams are sent to their first level again.
Wipe(t) ==
    /\ notes < MaxNotes
    /\ notes' = notes + 1
    /\ Write(t, "RESET", "none", "none", "none", Null)
    /\ on' = [team \in Teams |-> "none"]
    /\ free' = {}
    /\ UNCHANGED <<since, over>>

Next ==
    \E d \in Pauses :
        LET t == Now + d IN
        \/ \E team \in Teams :
              \/ \E l \in Levels : Issue(team, l, t)
              \/ Expire(team, t) \/ Refuse(team, t)
              \/ \E l \in Levels : Note(team, l, t)
        \/ Wipe(t) \/ Finish(t)

Spec == Init /\ [][Next]_vars

-----------------------------------------------------------------------------
(* Properties of the statistics, whatever was written so far.               *)

TypeOK ==
    /\ Len(log) <= MaxLog
    /\ on \in [Teams -> Levels \cup {"none"}]
    /\ since \in [Teams -> Nat]
    /\ free \subseteq Teams
    /\ notes \in 0..MaxNotes
    /\ over \in BOOLEAN

\* An export that starts with the newest event tells the same game as one that starts
\* with the oldest, events of one second included (parse.go: "Equal timestamps retain
\* export order"), as soon as two events differ in time.
ExportOrderIsForgotten ==
    Readable(log) /\ Rising(log) > 0 => Parse(Reverse(log)) = Parse(log)

\* Limits that are inferred are right.  A level that a team ended by itself never costs
\* more than the limit that is shown for the level, however that limit was found; and where
\* a team's time ran out and it went on at once, it is the limit the organizers gave.
LimitsAreRight ==
    Readable(log) =>
        LET g == Parse(log) IN
        /\ \A l \in Reliable(g) : AutoDur(g, l, DefaultDur) = Limit[l]
        /\ \A team \in g.teams, l \in OfKind(g, DefaultConfig, {"main"}) :
            LET cell == Cell(g, DefaultConfig, team, l) IN
            cell.how \in {"code", "timeout", "stop"} =>
                cell.count <= Dur(g, DefaultConfig, l) * Minute

=============================================================================
