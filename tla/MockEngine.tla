----------------------------- MODULE MockEngine -----------------------------
(* The game that cmd/dzzzr-mock serves: one team, the main line of levels    *)
(* with the bonus (skvoz) levels beside it, codes, hints, breaks, the time   *)
(* that passes, the organizer who intervenes, and the sessions of the        *)
(* players.  Every handler runs under the server's mutex, so a request is    *)
(* one step: the tick it begins with and the whole action after it.          *)
(*                                                                           *)
(* The state of the game is one record g, as gameState is one struct; an     *)
(* operator with an argument s of that shape returns the struct a method     *)
(* leaves behind.  Minutes are counted as charges (one per item that costs   *)
(* or earns anything); a deadline is the number of ticks that remain.        *)
(*                                                                           *)
(* Left out: synonyms of a code and several codes in one request; what the   *)
(* mock's own game cannot reach (a deadline of the skvoz line, a game that   *)
(* has not begun); messages and the log.  The pages are in MockPages.        *)
EXTENDS Integers, Sequences, FiniteSets, SequencesExt

CONSTANTS
  Account,        \* the site accounts that play
  Captain,        \* the one that may drive the game
  Level,          \* level ids, the ones an organizer may still add included
  Line0,          \* the ids of the demo game, in order
  Def0,           \* id -> what the level asks for
  EditCodes,      \* the sets of main codes an organizer may put into a level
  Wrong,          \* a code that opens nothing
  Master,         \* the universal code
  WrongTries, BreakTicks, BlockTicks,     \* wrongTriesBeforeBlock, breakDuration, wrongCodeBlock
  HintTicks,      \* the length of one hint interval; three of them end a level
  BreaksAllowed, AbandonsAllowed,         \* both 2 in the code
  OrgMoves,       \* bound: how often the organizer intervenes
  Plans           \* bound: the sets of kinds of request one behaviour may mix; hold: a quirk

ASSUME MockAssumption ==
  /\ Captain \in Account
  /\ Line0 \in Seq(Level) /\ IsInjective(Line0)
  /\ Def0 \in [Level -> [codes : SUBSET STRING, bonusCodes : SUBSET STRING,
                         fakeCodes : SUBSET STRING, spoilers : SUBSET STRING,
                         codeCount : Nat, bonus : BOOLEAN, noMaster : BOOLEAN]]
  /\ {WrongTries, BreakTicks, BlockTicks, HintTicks} \subseteq Nat \ {0}
  /\ {BreaksAllowed, AbandonsAllowed, OrgMoves} \subseteq Nat

VARIABLES
  g,          \* the gameState
  session,    \* account -> "out", "in", or "down" while its network outage lasts
  moves,      \* how often the organizer intervened
  notes,      \* history: what happened that the properties make an exception for
  plan        \* the kinds of request of this behaviour, one of Plans

vars == <<g, session, moves, notes, plan>>

Order == 1 .. Len(g.line)
At(s, o) == s.defs[s.line[o]]
OnLine(s, o) == o \in DOMAIN s.line
InHand(s) == s.current # 0 /\ OnLine(s, s.current)

-----------------------------------------------------------------------------
(* state.go *)

NewProgress(n) ==
  [number |-> n, codes |-> {}, bonusCodes |-> {}, fakeCodes |-> {}, spoilers |-> {},
   hinted |-> {}, early |-> {}, age |-> 0, limit |-> 3 * HintTicks,
   wrong |-> 0, blockLeft |-> 0, nextRequest |-> FALSE, masterCode |-> FALSE, done |-> FALSE]

With(f, o, p) == [x \in DOMAIN f \cup {o} |-> IF x = o THEN p ELSE f[x]]
Without(f, o) == [x \in DOMAIN f \ {o} |-> f[x]]
Put(s, o, p) == [s EXCEPT !.progress = With(@, o, p)]

IssueLevel(s, o) ==
  [s EXCEPT !.issued = Append(@, o), !.current = o,
            !.progress = With(@, o, NewProgress(Len(s.issued) + 1))]

(* newGameState: the first level and the skvoz levels are handed out at the  *)
(* start; applyQuirks may hold a level open for its bonus codes.             *)
Fresh(hold) ==
  LET empty == [line |-> Line0, defs |-> Def0, hold |-> hold, finished |-> FALSE,
                engineStopped |-> FALSE, blocked |-> FALSE, issued |-> <<>>, current |-> 0,
                progress |-> [o \in {x \in DOMAIN Line0 : Def0[Line0[x]].bonus} |-> NewProgress(0)],
                breaks |-> 0, abandons |-> 0, breakPending |-> 0, breakLeft |-> 0,
                pendingNext |-> FALSE, masterUsed |-> FALSE, penaltyMin |-> 0, bonusMin |-> 0]
  IN IssueLevel(empty, 1)

MainLine(s) == {o \in DOMAIN s.line : ~At(s, o).bonus}
NextMainOrder(s) ==
  LET rest == MainLine(s) \ Range(s.issued)
  IN IF rest = {} THEN 0 ELSE CHOOSE o \in rest : \A x \in rest : o <= x

OnBreak(s) == s.breakLeft > 0

\* Mutant: the break begins and the hand-over that is due after it is forgotten.
MutAdvance(s) ==
  IF NextMainOrder(s) = 0
    THEN [s EXCEPT !.current = 0, !.finished = TRUE]
  ELSE IF s.breakPending # 0 /\ s.breakPending = s.current
    THEN [s EXCEPT !.breakPending = 0, !.breakLeft = BreakTicks, !.current = 0]
  ELSE IssueLevel(s, NextMainOrder(s))

(* The next main level, or the end of the game; a break that was asked for   *)
(* on this level, or one that runs, delays the hand-over to a later tick.    *)
Advance(s) ==
  IF NextMainOrder(s) = 0
    THEN [s EXCEPT !.current = 0, !.finished = TRUE]
  ELSE IF s.breakPending # 0 /\ s.breakPending = s.current
    THEN [s EXCEPT !.breakPending = 0, !.breakLeft = BreakTicks,
                   !.pendingNext = TRUE, !.current = 0]
  ELSE IF OnBreak(s)
    THEN [s EXCEPT !.pendingNext = TRUE, !.current = 0]
  ELSE IssueLevel(s, NextMainOrder(s))

Tick(s) ==
  IF ~s.finished /\ s.pendingNext /\ ~OnBreak(s)
    THEN Advance([s EXCEPT !.pendingNext = FALSE])
    ELSE s

NeededCodes(d) == IF d.codeCount > 0 THEN d.codeCount ELSE Cardinality(d.codes)
MainDone(d, p) == Cardinality(p.codes) + (IF p.masterCode THEN 1 ELSE 0) >= NeededCodes(d)
BonusPending(s, d, p) ==
  /\ MainDone(d, p)
  /\ Cardinality(p.bonusCodes) < Cardinality(d.bonusCodes)
  /\ s.hold
  /\ ~p.nextRequest

Expired(d, p) == ~d.bonus /\ p.age > p.limit

Complete(s, o) == [s EXCEPT !.progress[o].done = TRUE]

(* fillStat: a column for every level that was handed out, in that order,    *)
(* with the time of the ones that were closed.                               *)
StatTable(s) ==
  [i \in DOMAIN s.issued |-> LET p == s.progress[s.issued[i]]
                             IN [number |-> p.number, timed |-> p.done]]

-----------------------------------------------------------------------------
(* player.go: who may act, and the levels a code can be meant for *)

SignedIn(a) == session[a] = "in"

(* The request of account a: tick, then the action on what tick leaves.      *)
Now == Tick(g)
ByCaptain == SignedIn(Captain)
Answer(s) == g' = s /\ UNCHANGED <<session, moves, notes>>

(* The checks entcod makes before it looks at the code.  A code is entered   *)
(* for the level in hand or, with the skvoz flag, for a bonus level that was *)
(* handed out.                                                               *)
MayEnter(s) == ~s.engineStopped /\ ~s.blocked /\ ~OnBreak(s)
Target(s, o, skvoz) ==
  /\ o \in DOMAIN s.progress
  /\ OnLine(s, o)
  /\ IF skvoz THEN At(s, o).bonus ELSE o = s.current
  /\ s.progress[o].blockLeft = 0

(* What a code is on a level: the first list that has it, as entcod asks.    *)
Kind(d, c) ==
  CASE c = Master          -> "master"
    [] c \in d.spoilers    -> "spoiler"
    [] c \in d.codes       -> "main"
    [] c \in d.bonusCodes  -> "bonus"
    [] c \in d.fakeCodes   -> "fake"
    [] OTHER               -> "wrong"

CodesOf(d) == d.codes \cup d.bonusCodes \cup d.fakeCodes \cup d.spoilers
AnyCode == UNION {CodesOf(Def0[l]) : l \in Level} \cup UNION EditCodes \cup {Wrong}

AfterMainCode(s, o, skvoz) ==
  LET d == At(s, o)  p == s.progress[o]
  IN IF ~MainDone(d, p) \/ BonusPending(s, d, p) THEN s
     ELSE IF skvoz \/ d.bonus THEN Complete(s, o)
     ELSE Advance(Complete(s, o))

EnterMaster(a) ==
  LET s == Now  o == s.current
  IN /\ SignedIn(a) /\ MayEnter(s) /\ Target(s, o, FALSE)
     /\ ~At(s, o).noMaster /\ ~s.masterUsed
     /\ Answer(AfterMainCode([s EXCEPT !.progress[o].masterCode = TRUE,
                                       !.masterUsed = TRUE, !.penaltyMin = @ + 1], o, FALSE))

OpenSpoiler(s, o, c) ==
  IF c \in s.progress[o].spoilers THEN s
  ELSE [s EXCEPT !.progress[o].spoilers = @ \cup {c}, !.penaltyMin = @ + 1]

EnterSpoiler(a, o, c, skvoz) ==
  LET s == Now
  IN /\ SignedIn(a) /\ MayEnter(s) /\ Target(s, o, skvoz)
     /\ Kind(At(s, o), c) = "spoiler"
     /\ Answer(OpenSpoiler(s, o, c))

(* The time of the level in hand ran out: the code is not looked at.         *)
Late(s, o, skvoz) == ~skvoz /\ Expired(At(s, o), s.progress[o])

EnterLate(a, c) ==
  LET s == Now  o == s.current  past == Complete(s, o)
  IN /\ SignedIn(a) /\ MayEnter(s) /\ Target(s, o, FALSE)
     /\ Kind(At(s, o), c) \notin {"master", "spoiler"} /\ Late(s, o, FALSE)
     /\ Answer(IF NextMainOrder(past) = 0
                 THEN [past EXCEPT !.current = 0, !.finished = TRUE]
                 ELSE Advance(past))

Enterable(a, o, c, skvoz, kind) ==
  /\ SignedIn(a) /\ MayEnter(Now) /\ Target(Now, o, skvoz)
  /\ Kind(At(Now, o), c) = kind
  /\ ~Late(Now, o, skvoz)

EnterMain(a, o, c, skvoz) ==
  LET s == Now
  IN /\ Enterable(a, o, c, skvoz, "main")
     /\ c \notin s.progress[o].codes
     /\ ~BonusPending(s, At(s, o), s.progress[o])
     /\ Answer(AfterMainCode([s EXCEPT !.progress[o].codes = @ \cup {c}], o, skvoz))

\* Mutant: a bonus code sent again is paid again.
MutEnterBonus(a, o, c, skvoz) ==
  /\ Enterable(a, o, c, skvoz, "bonus")
  /\ Answer([Now EXCEPT !.progress[o].bonusCodes = @ \cup {c}, !.bonusMin = @ + 1])

EnterBonus(a, o, c, skvoz) ==
  LET s == Now
  IN /\ Enterable(a, o, c, skvoz, "bonus")
     /\ c \notin s.progress[o].bonusCodes
     /\ Answer([s EXCEPT !.progress[o].bonusCodes = @ \cup {c}, !.bonusMin = @ + 1])

EnterFake(a, o, c, skvoz) ==
  LET s == Now
  IN /\ Enterable(a, o, c, skvoz, "fake")
     /\ c \notin s.progress[o].fakeCodes
     /\ Answer([s EXCEPT !.progress[o].fakeCodes = @ \cup {c}, !.penaltyMin = @ + 1])

(* The count of wrong codes is never taken back: past the limit each further *)
(* wrong code blocks the level again.  Counted up to the limit.              *)
EnterWrong(a, o, c, skvoz) ==
  LET s == Now  n == s.progress[o].wrong + 1
  IN /\ Enterable(a, o, c, skvoz, "wrong")
     /\ Answer([s EXCEPT !.progress[o].wrong = IF n > WrongTries THEN WrongTries ELSE n,
                         !.progress[o].blockLeft = IF n >= WrongTries THEN BlockTicks ELSE @])

\* Mutant: the level given up is not closed.
MutAbandon ==
  /\ ByCaptain /\ InHand(Now) /\ Now.abandons < AbandonsAllowed /\ NextMainOrder(Now) # 0
  /\ Answer(Advance([Now EXCEPT !.abandons = @ + 1]))

Abandon ==
  LET s == Now
  IN /\ ByCaptain /\ InHand(s)
     /\ s.abandons < AbandonsAllowed
     /\ NextMainOrder(s) # 0
     /\ Answer(Advance(Complete([s EXCEPT !.abandons = @ + 1], s.current)))

(* A break asked for with no level in hand is used up without effect.        *)
TakeBreak ==
  LET s == Now
  IN /\ ByCaptain /\ s.breaks < BreaksAllowed
     /\ Answer([s EXCEPT !.breaks = @ + 1, !.breakPending = s.current])

StopBreak ==
  ByCaptain /\ Answer(Tick([Now EXCEPT !.breakPending = 0, !.breakLeft = 0]))

TakeClue(o, h) ==
  LET s == Now
  IN /\ ByCaptain /\ o \in DOMAIN s.progress
     /\ Answer([s EXCEPT !.progress[o].hinted = @ \cup {h}])

\* Mutant: the first hint is issued "early" although it is out already.
MutBeforeClue(first) ==
  LET s == Now  p == s.progress[s.current]
  IN /\ ByCaptain /\ InHand(s)
     /\ IF first /\ 1 \notin p.hinted \cup p.early
          THEN Answer([s EXCEPT !.progress[s.current].early = @ \cup {1},
                                !.progress[s.current].limit =
                                   IF 2 \in p.early THEN @ ELSE p.age + 2 * HintTicks,
                                !.penaltyMin = @ + 1])
          ELSE /\ 2 \notin p.hinted \cup p.early
               /\ Answer([s EXCEPT !.progress[s.current].early = @ \cup {2},
                                   !.progress[s.current].limit = p.age + HintTicks,
                                   !.penaltyMin = @ + 1])

(* An early hint moves the end of the level; without the clue field the      *)
(* second hint is the one that is issued.                                    *)
BeforeClue(first) ==
  LET s == Now  p == s.progress[s.current]
  IN /\ ByCaptain /\ InHand(s)
     /\ IF first /\ 1 \notin p.hinted \cup p.early /\ p.age < HintTicks
          THEN Answer([s EXCEPT !.progress[s.current].early = @ \cup {1},
                                !.progress[s.current].limit =
                                   IF 2 \in p.early THEN @ ELSE p.age + 2 * HintTicks,
                                !.penaltyMin = @ + 1])
          ELSE /\ 2 \notin p.hinted \cup p.early
               /\ Answer([s EXCEPT !.progress[s.current].early = @ \cup {2},
                                   !.progress[s.current].limit = p.age + HintTicks,
                                   !.penaltyMin = @ + 1])

\* Mutant: a form of a level the team has left hands out the next one again.
MutNextLevel(o) ==
  LET s == [Now EXCEPT !.progress[o].nextRequest = TRUE]
  IN /\ ByCaptain /\ o \in DOMAIN Now.progress
     /\ Answer(IF OnLine(s, o) /\ MainDone(At(s, o), s.progress[o])
                 THEN Advance(Complete(s, o)) ELSE s)

NextLevel(o) ==
  LET s == [Now EXCEPT !.progress[o].nextRequest = TRUE]
  IN /\ ByCaptain /\ o \in DOMAIN Now.progress
     /\ Answer(IF OnLine(s, o) /\ o = s.current /\ MainDone(At(s, o), s.progress[o])
                 THEN Advance(Complete(s, o)) ELSE s)

(* llevel is the level the form was rendered for; 0 when there was none.  A  *)
(* choice made with no level in hand is noted: it is the one way a level is  *)
(* handed out while another hand-over is still due.                          *)
SelectLevel(llevel, o) ==
  LET s == Now
      left == IF s.current \in DOMAIN s.progress THEN Complete(s, s.current) ELSE s
  IN /\ ByCaptain /\ llevel = s.current
     /\ o \in MainLine(s) \ DOMAIN s.progress
     /\ g' = IssueLevel(left, o)
     /\ notes' = IF s.current = 0 THEN notes \cup {"late choice"} ELSE notes
     /\ UNCHANGED <<session, moves>>

(* The spoiler form: no check of the block, the break or the end of the game *)
SpoilerCode(a, o, c) ==
  LET s == Now
  IN /\ SignedIn(a) /\ o \in DOMAIN s.progress /\ OnLine(s, o)
     /\ c \in At(s, o).spoilers
     /\ Answer(OpenSpoiler(s, o, c))

(* Any other request of a signed-in player, and every refused one: tick only *)
Poll == (\E a \in Account : SignedIn(a)) /\ Answer(Now)

-----------------------------------------------------------------------------
(* Sessions, the simulated outage, reset, the clock *)

Login(a) ==
  /\ session[a] = "out"
  /\ session' = [session EXCEPT ![a] = "in"]
  /\ UNCHANGED <<g, moves, notes>>

(* The code PZDC, accepted before any check but that of a stopped engine.    *)
NetDown(a) ==
  /\ SignedIn(a) /\ ~g.engineStopped
  /\ g' = Now
  /\ session' = [session EXCEPT ![a] = "down"]
  /\ UNCHANGED <<moves, notes>>

Reset ==
  /\ g' = Fresh(g.hold)
  /\ session' = [a \in Account |-> "out"]
  /\ moves' = 0 /\ notes' = {}

Sub1(n) == IF n = 0 THEN 0 ELSE n - 1
Aged(p, inHand) ==
  [p EXCEPT !.blockLeft = Sub1(@), !.age = IF inHand /\ @ <= p.limit THEN @ + 1 ELSE @]

(* One tick of the clock: the break and the blocks run down, the level in    *)
(* hand grows older (up to one tick past its end), an outage is over.        *)
PassTime ==
  /\ g' = [g EXCEPT !.breakLeft = Sub1(@),
                    !.progress = [o \in DOMAIN g.progress |-> Aged(g.progress[o], o = g.current)]]
  /\ session' = [a \in Account |-> IF session[a] = "down" THEN "in" ELSE session[a]]
  /\ UNCHANGED <<moves, notes>>

-----------------------------------------------------------------------------
(* admin.go: the organizer's forms and the live monitor; neither ticks.      *)

Intervene(s, what) ==
  /\ moves < OrgMoves /\ moves' = moves + 1
  /\ g' = s /\ notes' = notes \cup what
  /\ UNCHANGED session

UpdateGame(over) == Intervene([g EXCEPT !.finished = over], {"end forced"})
SetBlocked(b) == Intervene([g EXCEPT !.blocked = b], {})
SwitchRobot == Intervene([g EXCEPT !.engineStopped = ~@], {})

AddZadanie(l) ==
  /\ l \notin Range(g.line)
  /\ Intervene([g EXCEPT !.line = Append(@, l)], {"level added"})

UpdateZadanie(o, codes, count) ==
  Intervene([g EXCEPT !.defs[g.line[o]].codes = codes, !.defs[g.line[o]].codeCount = count], {})

(* Progress is kept by order, not by id: it stays where it is when the       *)
(* levels move under it.                                                     *)
DelZadanie(o) == Intervene([g EXCEPT !.line = RemoveAt(@, o)], {"levels moved"})
MoveLevel(o) ==
  /\ o + 1 \in Order
  /\ Intervene([g EXCEPT !.line = [@ EXCEPT ![o] = g.line[o + 1], ![o + 1] = g.line[o]]],
               {"levels moved"})

GiveLevel(o) == Intervene(IssueLevel(g, o), {"steered"})

AcceptAll(s, o) == [s EXCEPT !.progress[o].codes = @ \cup At(s, o).codes]
AcceptLevel(o) == o \in DOMAIN g.progress /\ Intervene(AcceptAll(g, o), {})
GiveAndAccept(o) == Intervene(AcceptAll(IssueLevel(g, o), o), {"steered"})
AcceptCode(o, c) ==
  o \in DOMAIN g.progress /\ Intervene([g EXCEPT !.progress[o].codes = @ \cup {c}], {})
DelLevel(o) ==
  o \in DOMAIN g.progress /\ Intervene([g EXCEPT !.progress[o].codes = {}], {})

(* Only the first entry of Issued goes. *)
DropIssued(seq, o) ==
  IF o \in Range(seq)
    THEN RemoveAt(seq, CHOOSE i \in DOMAIN seq : seq[i] = o /\ \A j \in 1 .. i - 1 : seq[j] # o)
    ELSE seq

RemoveLevel(o) ==
  Intervene([g EXCEPT !.progress = Without(@, o), !.issued = DropIssued(@, o),
                      !.current = IF @ = o THEN 0 ELSE @], {"steered"})
DelStat ==
  Intervene([g EXCEPT !.progress = [o \in {} |-> NewProgress(0)], !.issued = <<>>, !.current = 0],
            {"steered"})

Bonus == \/ Intervene([g EXCEPT !.bonusMin = @ + 1], {"points set"})
         \/ Intervene([g EXCEPT !.penaltyMin = @ + 1], {"points set"})
DelBonus == \/ Intervene([g EXCEPT !.bonusMin = 0], {"points set"})
            \/ Intervene([g EXCEPT !.penaltyMin = 0], {"points set"})

(* The hour a level was issued at, moved: its age becomes another.  The hour *)
(* of an early hint, and the end that follows from it, stay where they are.  *)
ChTime(o) ==
  /\ o \in DOMAIN g.progress
  /\ LET p == g.progress[o]
     IN \E n \in 0 .. p.limit + 1 :
          Intervene([g EXCEPT !.progress[o].age = n,
                              !.progress[o].limit = IF p.early = {} THEN @ ELSE @ + n - p.age], {})

-----------------------------------------------------------------------------
Init ==
  /\ plan \in Plans
  /\ g = Fresh("hold" \in plan)
  /\ session = [a \in Account |-> "out"]
  /\ moves = 0 /\ notes = {}

Codes(a) ==
  \/ EnterMaster(a)
  \/ \E o \in Order, c \in AnyCode, skvoz \in BOOLEAN : EnterMain(a, o, c, skvoz)

Extras(a) ==
  \E o \in Order, c \in AnyCode :
    \/ SpoilerCode(a, o, c)
    \/ \E skvoz \in BOOLEAN :
         EnterSpoiler(a, o, c, skvoz) \/ EnterBonus(a, o, c, skvoz) \/ EnterFake(a, o, c, skvoz)

Failures(a) == \E o \in Order, skvoz \in BOOLEAN : EnterWrong(a, o, Wrong, skvoz)

Hints == \E first \in BOOLEAN : BeforeClue(first)
Clues == \E o \in Order, h \in {1, 2} : TakeClue(o, h)

Picks == \E o \in Order : NextLevel(o) \/ \E llevel \in Order \cup {0} : SelectLevel(llevel, o)

Lists ==
  \/ \E l \in Level : AddZadanie(l)
  \/ \E o \in Order :
       \/ DelZadanie(o) \/ MoveLevel(o)
       \/ \E codes \in EditCodes, count \in {0, 1} : UpdateZadanie(o, codes, count)

Switches ==
  \/ \E b \in BOOLEAN : UpdateGame(b) \/ SetBlocked(b)
  \/ SwitchRobot \/ Bonus \/ DelBonus

Monitor ==
  \/ DelStat
  \/ \E o \in Order :
       \/ GiveLevel(o) \/ AcceptLevel(o) \/ GiveAndAccept(o) \/ DelLevel(o) \/ RemoveLevel(o)
       \/ ChTime(o)
       \/ \E c \in AnyCode : AcceptCode(o, c)

Step ==
  \/ \E a \in Account :
       \/ Login(a) /\ (a = Captain \/ "sessions" \in plan)
       \/ Codes(a)
       \/ "extras" \in plan /\ Extras(a)
       \/ "failures" \in plan /\ Failures(a)
       \/ "late" \in plan /\ \E c \in AnyCode : EnterLate(a, c)
       \/ "sessions" \in plan /\ NetDown(a)
  \/ Poll
  \/ Reset
  \/ "hints" \in plan /\ Hints
  \/ "clues" \in plan /\ Clues
  \/ "choices" \in plan /\ (Picks \/ Abandon)
  \/ "breaks" \in plan /\ (TakeBreak \/ StopBreak)
  \/ "lists" \in plan /\ Lists
  \/ "switches" \in plan /\ Switches
  \/ "monitor" \in plan /\ Monitor
  \/ "time" \in plan /\ PassTime

Next == Step /\ UNCHANGED plan

Spec == Init /\ [][Next]_vars

-----------------------------------------------------------------------------
(* Properties *)

TypeOK ==
  /\ g.line \in Seq(Level) /\ g.issued \in Seq(Nat \ {0})
  /\ g.current \in Nat /\ g.breakPending \in Nat
  /\ g.breakLeft \in 0 .. BreakTicks
  /\ {g.finished, g.engineStopped, g.blocked, g.pendingNext, g.masterUsed} \subseteq BOOLEAN
  /\ g.current # 0 => g.current \in DOMAIN g.progress
  /\ session \in [Account -> {"out", "in", "down"}]

Excused(what) == notes \cap what # {}

\* What the records keep of one kind, each thing with the place of its level.
Taken(s, what) ==
  UNION {{<<o, c>> : c \in s.progress[o][what]} : o \in DOMAIN s.progress}

(* Every charge and every bonus minute of the team stands for one thing the  *)
(* team did, counted once: a code, a fake code, a spoiler, an early hint or  *)
(* the universal code, however often and by whichever account a request is   *)
(* repeated (entcod, spoilerCode, beforeClue), until an organizer sets the   *)
(* points or takes a level's record away.                                    *)
LedgerBalances ==
  ~Excused({"points set", "steered", "levels moved"}) =>
    /\ g.bonusMin = Cardinality(Taken(g, "bonusCodes"))
    /\ g.penaltyMin = Cardinality(Taken(g, "fakeCodes")) + Cardinality(Taken(g, "spoilers"))
                      + Cardinality(Taken(g, "early")) + (IF g.masterUsed THEN 1 ELSE 0)

(* The team gets each level once, numbered in the order it got them, and has *)
(* closed every one but the last (codes, expiry, abandon, a choice), through *)
(* breaks, outages and edits of the level list.  Excused: a level chosen     *)
(* while a hand-over is due (it is dropped when the break ends), and the     *)
(* organizer handing out or taking away levels.                              *)
NoLevelSkipped ==
  ~Excused({"late choice", "steered"}) =>
    \A i \in DOMAIN StatTable(g) :
      /\ StatTable(g)[i].number = i
      /\ i < Len(g.issued) => StatTable(g)[i].timed

(* The game is over for the team only when it was given and has closed every *)
(* main level; until then it has a level or the next hand-over is due, so it *)
(* never waits for nothing (advance, tick, the expiry branch of entcod).     *)
PlayGoesOn ==
  ~Excused({"late choice", "end forced", "steered", "level added", "levels moved"}) =>
    IF g.finished
      THEN /\ g.current = 0 /\ ~g.pendingNext
           /\ \A o \in MainLine(g) : o \in Range(g.issued) /\ g.progress[o].done
      ELSE g.current = 0 => g.pendingNext

=============================================================================
