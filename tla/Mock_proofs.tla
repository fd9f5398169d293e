----------------------------- MODULE Mock_proofs -----------------------------
(* What is proved of the game of cmd/dzzzr-mock and of the captain's         *)
(* commands against it: MockEngine, MockPages, PlayerCommands.               *)
(*                                                                           *)
(* The invariant is Good: the shape of the game, and four facts that each    *)
(* hold as long as nothing happened that excuses it - the history notes says *)
(* what did.  Every level that was handed out has a record (Issuing); the    *)
(* others with a record are bonus levels (Bonuses), so that the next level   *)
(* of the main line never has one; the levels are numbered in the order they *)
(* were handed out and all but the one in hand are closed (Numbers, Closed); *)
(* the game ends when the main line does (Ending).  Closed needs one fact    *)
(* more, that no level is in hand while a hand-over is due: a tick would     *)
(* otherwise hand out a second one over it.                                  *)
(*                                                                           *)
(* Requests are built of three things: the record of one level changes       *)
(* (TouchGood), the team leaves the level in hand (LeaveGood), and the tick  *)
(* before each of them (TickGood).  What a request keeps is Stays: the       *)
(* records grow, which is what the game page needs.                          *)
(*                                                                           *)
(* The points are an invariant of their own (Ledger), beside Good: a step    *)
(* leaves what the records keep and the minutes alone (Free), or one record  *)
(* gets one thing more and one minute is counted (Takes).                    *)
EXTENDS PlayerCommands, WellFoundedInduction, SequenceTheorems, FiniteSetTheorems, TLAPS

GameFields == {"line", "defs", "hold", "finished", "engineStopped", "blocked", "issued", "current",
               "progress", "breaks", "abandons", "breakPending", "breakLeft", "pendingNext",
               "masterUsed", "penaltyMin", "bonusMin"}
RecordFields == {"number", "codes", "bonusCodes", "fakeCodes", "spoilers", "hinted", "early",
                 "age", "limit", "wrong", "blockLeft", "nextRequest", "masterCode", "done"}

(* A level's record.                                                         *)
IsRecord(p) ==
  /\ p = [f \in RecordFields |-> p[f]]
  /\ p.number \in Nat /\ p.age \in Nat /\ p.limit \in Int
  /\ p.done \in BOOLEAN

(* The shape of the game: places of levels count from 1, the level in hand   *)
(* has a record, and no edit turns a main level into a bonus level.          *)
Levels(defs) ==
  /\ defs = [l \in Level |-> defs[l]]
  /\ \A l \in Level : /\ defs[l] = [f \in DOMAIN Def0[l] |-> defs[l][f]]
                      /\ defs[l].bonus = Def0[l].bonus
Records(progress) ==
  /\ progress = [o \in DOMAIN progress |-> progress[o]]
  /\ DOMAIN progress \subseteq Nat \ {0}
  /\ \A o \in DOMAIN progress : IsRecord(progress[o])
Shape(s) ==
  /\ s = [f \in GameFields |-> s[f]]
  /\ s.line \in Seq(Level) /\ s.issued \in Seq(Nat \ {0})
  /\ s.current \in Nat /\ s.breakPending \in Nat /\ s.breakLeft \in 0 .. BreakTicks
  /\ {s.finished, s.engineStopped, s.blocked, s.pendingNext, s.masterUsed} \subseteq BOOLEAN
  /\ Levels(s.defs)
  /\ Records(s.progress)
  /\ s.current # 0 => s.current \in DOMAIN s.progress

(* Every level that was handed out has a record, and the others with a       *)
(* record are the bonus levels.                                              *)
Issuing(s) == \A i \in DOMAIN s.issued : s.issued[i] \in DOMAIN s.progress
Bonuses(s) == \A o \in DOMAIN s.progress :
                o \in Range(s.issued) \/ (OnLine(s, o) /\ At(s, o).bonus)

(* The levels are numbered in the order they were handed out, all but the    *)
(* one in hand, which is the last, are closed, and while a hand-over is due  *)
(* none is in hand.                                                          *)
Numbers(s) ==
  \A i \in DOMAIN s.issued : s.progress[s.issued[i]].number = i
Closed(s) ==
  /\ \A i \in DOMAIN s.issued :
       s.progress[s.issued[i]].done \/ (i = Len(s.issued) /\ s.current = s.issued[i])
  /\ s.current # 0 => s.issued # <<>> /\ s.current = s.issued[Len(s.issued)]
  /\ s.pendingNext => s.current = 0

(* The end: every main level was handed out, and nothing is due.             *)
Ending(s) ==
  /\ s.line = Line0
  /\ s.finished => s.current = 0 /\ ~s.pendingNext /\ MainLine(s) \subseteq Range(s.issued)
  /\ ~s.finished /\ s.current = 0 => s.pendingNext

(* All of it, with what each part is excused by.                             *)
Good(s, n) ==
  /\ Shape(s)
  /\ "steered" \notin n => Issuing(s)
  /\ n \cap {"steered", "levels moved"} = {} => Bonuses(s)
  /\ n \cap {"late choice", "steered"} = {} => Numbers(s) /\ Closed(s)
  /\ n \cap {"late choice", "end forced", "steered", "level added", "levels moved"} = {} => Ending(s)

(* A command knows the page it was made from.                                *)
Commanded ==
  cmd.hidden # {} =>
    /\ cmd.verb = "hint_early"
    /\ \/ cmd.hidden = {1, 2} /\ cmd.hint = 1
       \/ cmd.hidden = {2} /\ cmd.hint = 2

IInv ==
  /\ Good(g, notes)
  /\ session \in [Account -> {"out", "in", "down"}] /\ moves \in Nat
  /\ Commanded

-----------------------------------------------------------------------------
(* The steps of the clock and of the levels, as changes of the record.       *)

LEMMA RecordNew ==
  ASSUME NEW n \in Nat
  PROVE  /\ IsRecord(NewProgress(n))
         /\ NewProgress(n).number = n /\ NewProgress(n).age = 0
         /\ NewProgress(n).codes = {} /\ NewProgress(n).bonusCodes = {}
         /\ NewProgress(n).spoilers = {} /\ NewProgress(n).hinted = {} /\ NewProgress(n).early = {}
<1>1. 3 * HintTicks \in Int
  BY MockAssumption
<1>2. IsRecord(NewProgress(n))
  BY <1>1 DEF NewProgress, IsRecord, RecordFields
<1> QED BY <1>2 DEF NewProgress

\* The level o is handed out.
Handed(s, o, t) ==
  /\ t.line = s.line /\ t.defs = s.defs /\ t.finished = s.finished
  /\ t.pendingNext = s.pendingNext /\ t.current = o
  /\ t.issued = Append(s.issued, o)
  /\ DOMAIN t.progress = DOMAIN s.progress \cup {o}
  /\ t.progress[o] = NewProgress(Len(s.issued) + 1)
  /\ \A x \in DOMAIN s.progress : x # o => t.progress[x] = s.progress[x]

LEMMA IssueFacts ==
  ASSUME NEW s, Shape(s), NEW o \in Nat \ {0}, NEW t, t = IssueLevel(s, o)
  PROVE  Shape(t) /\ Handed(s, o, t)
<1> DEFINE n == Len(s.issued) + 1
           f == With(s.progress, o, NewProgress(n))
           q == Append(s.issued, o)
<1>1. n \in Nat /\ q \in Seq(Nat \ {0})
  BY DEF Shape
<1>2. /\ f = [x \in DOMAIN f |-> f[x]] /\ DOMAIN f = DOMAIN s.progress \cup {o}
      /\ f[o] = NewProgress(n)
      /\ \A x \in DOMAIN s.progress : x # o => f[x] = s.progress[x]
  BY DEF With
<1>3. IsRecord(NewProgress(n))
  BY <1>1, RecordNew
<1>4. \A x \in DOMAIN f : IsRecord(f[x])
  BY <1>2, <1>3 DEF Shape, Records
<1> HIDE DEF f, q, n
<1>5. t = [s EXCEPT !.issued = q, !.current = o, !.progress = f]
  BY DEF IssueLevel, f, q, n
<1>6. /\ t = [x \in GameFields |-> t[x]]
      /\ t.line = s.line /\ t.defs = s.defs /\ t.finished = s.finished
      /\ t.pendingNext = s.pendingNext /\ t.current = o /\ t.issued = q /\ t.progress = f
      /\ t.breakPending = s.breakPending /\ t.breakLeft = s.breakLeft
      /\ t.engineStopped = s.engineStopped /\ t.blocked = s.blocked /\ t.masterUsed = s.masterUsed
  BY <1>5 DEF Shape, GameFields
<1>7. Records(f)
  BY <1>2, <1>4 DEF Shape, Records
<1>8. Shape(t)
  BY <1>1, <1>2, <1>6, <1>7 DEF Shape
<1> QED BY <1>2, <1>6, <1>8 DEF q, n, Handed

-----------------------------------------------------------------------------
(* What a step keeps.                                                        *)

\* A record keeps all that was found or told.
Grows(p, q) ==
  /\ q.number = p.number /\ (p.done => q.done)
  /\ p.codes \subseteq q.codes /\ p.bonusCodes \subseteq q.bonusCodes
  /\ p.spoilers \subseteq q.spoilers
  /\ HintsShown(p) \subseteq HintsShown(q)

\* The levels keep their places, and their records grow.
Stays(s, t) ==
  /\ t.line = s.line /\ t.defs = s.defs
  /\ DOMAIN s.progress \subseteq DOMAIN t.progress
  /\ \A o \in DOMAIN s.progress : Grows(s.progress[o], t.progress[o])

\* The team stands where it stood.
Keep(s, t) ==
  /\ t.issued = s.issued /\ t.current = s.current /\ t.pendingNext = s.pendingNext
  /\ DOMAIN t.progress = DOMAIN s.progress
  /\ \A o \in DOMAIN s.progress :
       /\ t.progress[o].number = s.progress[o].number
       /\ s.progress[o].done => t.progress[o].done

LEMMA StaysHere == ASSUME NEW s PROVE Stays(s, s)
BY DEF Stays, Grows

LEMMA StaysOn ==
  ASSUME NEW r, NEW s, NEW t, Stays(r, s), Stays(s, t) PROVE Stays(r, t)
<1>1. /\ t.line = r.line /\ t.defs = r.defs
      /\ DOMAIN r.progress \subseteq DOMAIN t.progress
  BY DEF Stays
<1>2. ASSUME NEW o \in DOMAIN r.progress PROVE Grows(r.progress[o], t.progress[o])
  <2>1. o \in DOMAIN s.progress /\ Grows(r.progress[o], s.progress[o]) /\ Grows(s.progress[o], t.progress[o])
    BY DEF Stays
  <2> QED BY <2>1 DEF Grows
<1> QED BY <1>1, <1>2 DEF Stays

\* Whether a level is a bonus level is a matter of its place.
LEMMA BonusByPlace ==
  ASSUME NEW s, NEW t, Shape(s), Shape(t), NEW o \in Nat,
         OnLine(s, o), OnLine(t, o), t.line[o] = s.line[o]
  PROVE  At(t, o).bonus = At(s, o).bonus
<1>1. s.line[o] \in Level
  BY DEF Shape, OnLine
<1> QED BY <1>1 DEF Shape, Levels, At

LEMMA KeepGood ==
  ASSUME NEW s, NEW t, NEW n, NEW m, Good(s, n), Shape(t), Keep(s, t), n \subseteq m,
         t.line = s.line \/ "levels moved" \in m
           \/ ("level added" \in m /\ \E l \in Level : t.line = Append(s.line, l)),
         t.finished = s.finished \/ "end forced" \in m
  PROVE  Good(t, m)
<1>1. "steered" \notin m => Issuing(t)
  BY DEF Good, Keep, Issuing
<1>2. ASSUME m \cap {"steered", "levels moved"} = {} PROVE Bonuses(t)
  <2>1. Bonuses(s) /\ Shape(s)
    BY <1>2 DEF Good
  <2> SUFFICES ASSUME NEW o \in DOMAIN t.progress, o \notin Range(t.issued)
               PROVE  OnLine(t, o) /\ At(t, o).bonus
    BY DEF Bonuses
  <2>2. o \in Nat /\ OnLine(s, o) /\ At(s, o).bonus
    BY <2>1 DEF Bonuses, Keep, Shape, Records
  <2>3. OnLine(t, o) /\ t.line[o] = s.line[o]
    <3>1. CASE t.line = s.line
      BY <2>2, <3>1 DEF OnLine
    <3>2. CASE t.line # s.line
      <4>1. PICK l \in Level : t.line = Append(s.line, l)
        BY <1>2, <3>2
      <4>2. s.line \in Seq(Level) /\ DOMAIN s.line = 1 .. Len(s.line)
        BY <2>1, LenProperties DEF Shape
      <4>3. o \in 1 .. Len(s.line)
        BY <2>2, <4>2 DEF OnLine
      <4>4. Len(s.line) \in Nat
        BY <4>2, LenProperties
      <4>5. o \in 1 .. Len(t.line) /\ t.line[o] = s.line[o] /\ DOMAIN t.line = 1 .. Len(t.line)
        BY ONLY <4>1, <4>2, <4>3, <4>4
      <4> QED BY <4>5 DEF OnLine
    <3> QED BY <3>1, <3>2
  <2> QED BY <2>1, <2>2, <2>3, BonusByPlace
<1>3. ASSUME m \cap {"late choice", "steered"} = {} PROVE Numbers(t) /\ Closed(t)
  <2>1. Numbers(s) /\ Closed(s) /\ Issuing(s)
    BY <1>3 DEF Good
  <2>2. /\ t.issued = s.issued /\ t.current = s.current /\ t.pendingNext = s.pendingNext
    BY DEF Keep
  <2>3. ASSUME NEW i \in DOMAIN s.issued
        PROVE  /\ t.progress[s.issued[i]].number = i
               /\ t.progress[s.issued[i]].done \/ (i = Len(s.issued) /\ s.current = s.issued[i])
    <3>1. PICK o \in DOMAIN s.progress : o = s.issued[i]
      BY <2>1 DEF Issuing
    <3>2. s.progress[o].number = i /\ (s.progress[o].done \/ (i = Len(s.issued) /\ s.current = o))
      BY <2>1, <3>1 DEF Numbers, Closed
    <3>3. t.progress[o].number = s.progress[o].number /\ (s.progress[o].done => t.progress[o].done)
      <4>1. Keep(s, t)
        OBVIOUS
      <4> QED BY ONLY <3>1, <4>1 DEF Keep
    <3>4. t.progress[o].done \/ (i = Len(s.issued) /\ s.current = o)
      BY <3>2, <3>3
    <3> QED BY ONLY <3>1, <3>2, <3>3, <3>4
  <2> QED BY <2>1, <2>2, <2>3 DEF Numbers, Closed
<1>4. ASSUME m \cap {"late choice", "end forced", "steered", "level added", "levels moved"} = {}
      PROVE  Ending(t)
  <2>1. Ending(s) /\ Shape(s)
    BY <1>4 DEF Good
  <2>2. t.line = s.line /\ t.finished = s.finished
    BY <1>4
  <2>3. ASSUME NEW o \in MainLine(t) PROVE o \in MainLine(s)
    <3>1. o \in DOMAIN s.line /\ ~At(t, o).bonus
      BY <2>2 DEF MainLine
    <3>3. o \in Nat
      <4>1. s.line \in Seq(Level)
        BY <2>1 DEF Shape
      <4>2. DOMAIN s.line = 1 .. Len(s.line) /\ Len(s.line) \in Nat
        BY <4>1, LenProperties
      <4>3. o \in DOMAIN s.line
        BY <3>1
      <4> QED BY ONLY <4>2, <4>3
    <3>2. At(t, o).bonus = At(s, o).bonus
      BY <2>1, <2>2, <3>1, <3>3, BonusByPlace DEF OnLine
    <3> QED BY <3>1, <3>2 DEF MainLine
  <2> QED BY <2>1, <2>2, <2>3 DEF Ending, Keep
<1> QED BY <1>1, <1>2, <1>3, <1>4 DEF Good

-----------------------------------------------------------------------------
(* Handing out the next level.                                               *)

LEMMA Least ==
  ASSUME NEW S, S \subseteq Nat, S # {}
  PROVE  \E m \in S : \A n \in S : m <= n
<1> SUFFICES ASSUME \A m \in S : ~\A n \in S : m <= n PROVE FALSE
  OBVIOUS
<1>1. IsWellFoundedOn(OpToRel(<, Nat), Nat)
  BY NatLessThanWellFounded
<1>2. PICK x \in S : \A y \in S : ~(<<y, x>> \in OpToRel(<, Nat))
  BY <1>1, WFMin
<1>3. \A y \in S : ~(y < x)
  BY <1>2 DEF OpToRel
<1> QED BY <1>3

\* A place of the line is a positive number.
LEMMA PlacesCount ==
  ASSUME NEW s, Shape(s), NEW o, OnLine(s, o) PROVE o \in Nat \ {0}
<1>1. s.line \in Seq(Level)
  BY DEF Shape
<1>2. DOMAIN s.line = 1 .. Len(s.line) /\ Len(s.line) \in Nat
  BY <1>1, LenProperties
<1>3. o \in DOMAIN s.line
  BY DEF OnLine
<1> QED BY ONLY <1>2, <1>3

\* The next main level is one that was not handed out yet; there is none when all were.
LEMMA NextIsNew ==
  ASSUME NEW s, Shape(s), NextMainOrder(s) # 0
  PROVE  /\ NextMainOrder(s) \in MainLine(s)
         /\ NextMainOrder(s) \notin Range(s.issued)
         /\ NextMainOrder(s) \in Nat \ {0}
<1>1. PICK rest : rest = MainLine(s) \ Range(s.issued)
  OBVIOUS
<1>2. NextMainOrder(s) = IF rest = {} THEN 0 ELSE CHOOSE o \in rest : \A x \in rest : o <= x
  BY <1>1 DEF NextMainOrder
<1>3. rest # {} /\ NextMainOrder(s) = CHOOSE o \in rest : \A x \in rest : o <= x
  BY <1>2
<1>4. rest \subseteq Nat
  BY <1>1, PlacesCount DEF MainLine, OnLine
<1>5. \E o \in rest : \A x \in rest : o <= x
  BY <1>3, <1>4, Least
<1>6. NextMainOrder(s) \in rest
  BY <1>3, <1>5
<1> QED BY <1>1, <1>6, PlacesCount DEF MainLine, OnLine

LEMMA NoneIsLeft ==
  ASSUME NEW s, Shape(s), NextMainOrder(s) = 0 PROVE MainLine(s) \subseteq Range(s.issued)
<1>1. PICK rest : rest = MainLine(s) \ Range(s.issued)
  OBVIOUS
<1>2. NextMainOrder(s) = IF rest = {} THEN 0 ELSE CHOOSE o \in rest : \A x \in rest : o <= x
  BY <1>1 DEF NextMainOrder
<1>4. rest \subseteq Nat \ {0}
  BY <1>1, PlacesCount DEF MainLine, OnLine
<1>5. ASSUME rest # {} PROVE FALSE
  <2>1. \E o \in rest : \A x \in rest : o <= x
    BY <1>4, <1>5, Least
  <2>2. NextMainOrder(s) \in rest
    BY <1>2, <1>5, <2>1
  <2> QED BY <1>4, <2>2
<1> QED BY <1>1, <1>5

\* A game whose levels are all closed and that owes no hand-over.
Ready(s, n) ==
  /\ Shape(s)
  /\ "steered" \notin n => Issuing(s)
  /\ n \cap {"steered", "levels moved"} = {} => Bonuses(s)
  /\ n \cap {"late choice", "steered"} = {} =>
       /\ Numbers(s) /\ ~s.pendingNext
       /\ \A i \in DOMAIN s.issued : s.progress[s.issued[i]].done
  /\ n \cap {"late choice", "end forced", "steered", "level added", "levels moved"} = {} =>
       s.line = Line0 /\ ~s.finished

LEMMA AppendIssued ==
  ASSUME NEW s, Shape(s), NEW o, NEW q, q = Append(s.issued, o)
  PROVE  /\ DOMAIN q = 1 .. Len(s.issued) + 1 /\ Len(q) = Len(s.issued) + 1
         /\ DOMAIN s.issued = 1 .. Len(s.issued) /\ Len(s.issued) \in Nat
         /\ \A i \in DOMAIN s.issued : q[i] = s.issued[i]
         /\ q[Len(s.issued) + 1] = o
         /\ Range(q) = Range(s.issued) \cup {o}
<1>1. s.issued \in Seq(Nat \ {0})
  BY DEF Shape
<1>2. DOMAIN s.issued = 1 .. Len(s.issued) /\ Len(s.issued) \in Nat
  BY <1>1, LenProperties
<1>3. /\ DOMAIN q = 1 .. Len(s.issued) + 1 /\ Len(q) = Len(s.issued) + 1
      /\ \A i \in 1 .. Len(s.issued) : q[i] = s.issued[i]
      /\ q[Len(s.issued) + 1] = o
  BY <1>1, <1>2
<1>4. DOMAIN q = DOMAIN s.issued \cup {Len(s.issued) + 1}
  BY <1>2, <1>3
<1>5. \A i \in DOMAIN s.issued : q[i] = s.issued[i]
  BY <1>2, <1>3
<1>6. ASSUME NEW y PROVE y \in Range(q) <=> y \in Range(s.issued) \cup {o}
  <2>1. y \in Range(q) <=> \E i \in DOMAIN q : y = q[i]
    BY DEF Range
  <2>2. y \in Range(s.issued) <=> \E i \in DOMAIN s.issued : y = s.issued[i]
    BY DEF Range
  <2> QED BY <1>3, <1>4, <1>5, <2>1, <2>2
<1> QED BY <1>2, <1>3, <1>5, <1>6

LEMMA IssueGood ==
  ASSUME NEW s, NEW n, Ready(s, n), NEW o \in Nat \ {0}, "steered" \notin n => o \notin Range(s.issued)
  PROVE  Good(IssueLevel(s, o), n)
<1>1. PICK t : t = IssueLevel(s, o)
  OBVIOUS
<1>2. Shape(s)
  BY DEF Ready
<1>3. /\ Shape(t)
      /\ t.line = s.line /\ t.defs = s.defs /\ t.finished = s.finished
      /\ t.pendingNext = s.pendingNext /\ t.current = o
      /\ t.issued = Append(s.issued, o)
      /\ DOMAIN t.progress = DOMAIN s.progress \cup {o}
      /\ t.progress[o] = NewProgress(Len(s.issued) + 1)
      /\ \A x \in DOMAIN s.progress : x # o => t.progress[x] = s.progress[x]
  <2>1. Shape(t) /\ Handed(s, o, t)
    BY <1>1, <1>2, IssueFacts
  <2> QED BY <2>1 DEF Handed
<1>4. /\ DOMAIN t.issued = 1 .. Len(s.issued) + 1 /\ Len(t.issued) = Len(s.issued) + 1
      /\ DOMAIN s.issued = 1 .. Len(s.issued) /\ Len(s.issued) \in Nat
      /\ \A i \in DOMAIN s.issued : t.issued[i] = s.issued[i]
      /\ t.issued[Len(s.issued) + 1] = o
      /\ Range(t.issued) = Range(s.issued) \cup {o}
  <2>1. t.issued = Append(s.issued, o)
    BY <1>3
  <2> QED BY ONLY <1>2, <2>1, AppendIssued
<1>5. t.progress[o].number = Len(s.issued) + 1
  BY <1>3, <1>4, RecordNew
<1>6. ASSUME "steered" \notin n PROVE Issuing(t)
  <2>1. Issuing(s)
    BY <1>6 DEF Ready
  <2>2. ASSUME NEW i \in DOMAIN t.issued PROVE t.issued[i] \in DOMAIN t.progress
    <3>1. CASE i \in DOMAIN s.issued
      BY <1>3, <1>4, <2>1, <3>1 DEF Issuing
    <3>2. CASE i = Len(s.issued) + 1
      BY <1>3, <1>4, <3>2
    <3> QED BY <1>4, <3>1, <3>2
  <2> QED BY <2>2 DEF Issuing
<1>7. ASSUME n \cap {"steered", "levels moved"} = {} PROVE Bonuses(t)
  <2>1. Bonuses(s)
    BY <1>7 DEF Ready
  <2>2. ASSUME NEW x \in DOMAIN t.progress, x \notin Range(t.issued) PROVE OnLine(t, x) /\ At(t, x).bonus
    <3>1. x \in DOMAIN s.progress /\ x \notin Range(s.issued)
      BY <1>3, <1>4, <2>2
    <3>2. OnLine(s, x) /\ At(s, x).bonus
      BY <2>1, <3>1 DEF Bonuses
    <3> QED BY <1>3, <3>2 DEF OnLine, At
  <2> QED BY <2>2 DEF Bonuses
<1>8. ASSUME n \cap {"late choice", "steered"} = {} PROVE Numbers(t) /\ Closed(t)
  <2>1. /\ Numbers(s) /\ ~s.pendingNext /\ Issuing(s)
        /\ \A i \in DOMAIN s.issued : s.progress[s.issued[i]].done
    BY <1>8 DEF Ready
  <2>2. ASSUME NEW i \in DOMAIN s.issued
        PROVE  t.progress[t.issued[i]].number = i /\ t.progress[t.issued[i]].done
    <3>1. s.issued[i] \in DOMAIN s.progress /\ s.issued[i] # o
      BY <1>8, <2>1 DEF Issuing, Range
    <3>2. t.progress[t.issued[i]] = s.progress[s.issued[i]]
      BY <1>3, <1>4, <3>1
    <3> QED BY <2>1, <3>2 DEF Numbers
  <2>3. \A i \in DOMAIN t.issued : i \in DOMAIN s.issued \/ i = Len(s.issued) + 1
    BY <1>4
  <2>4. Numbers(t)
    BY <1>4, <1>5, <2>2, <2>3 DEF Numbers
  <2>5. t.issued # <<>>
    BY <1>4
  <2>6. Closed(t)
    BY <1>3, <1>4, <2>1, <2>2, <2>3, <2>5 DEF Closed
  <2> QED BY <2>4, <2>6
<1>9. ASSUME n \cap {"late choice", "end forced", "steered", "level added", "levels moved"} = {}
      PROVE  Ending(t)
  BY <1>3, <1>9 DEF Ready, Ending
<1> QED BY <1>1, <1>3, <1>6, <1>7, <1>8, <1>9 DEF Good

\* Nothing changes but that levels get records.
Adds(s, t) ==
  /\ t.line = s.line /\ t.defs = s.defs
  /\ \A o \in DOMAIN s.progress : o \in DOMAIN t.progress /\ t.progress[o] = s.progress[o]
  /\ \A o \in DOMAIN t.progress : o \in DOMAIN s.progress \/ \E k \in Nat : t.progress[o] = NewProgress(k)

LEMMA AddsStays == ASSUME NEW s, NEW t, Adds(s, t) PROVE Stays(s, t)
<1>1. ASSUME NEW o \in DOMAIN s.progress PROVE o \in DOMAIN t.progress /\ Grows(s.progress[o], t.progress[o])
  <2>1. o \in DOMAIN t.progress /\ t.progress[o] = s.progress[o]
    BY DEF Adds
  <2> QED BY <2>1 DEF Grows
<1> QED BY <1>1 DEF Stays, Adds

\* A new place of the main line has no record yet.
LEMMA IssueAdds ==
  ASSUME NEW s, Shape(s), Bonuses(s), NEW o \in Nat \ {0}, o \notin DOMAIN s.progress
  PROVE  Adds(s, IssueLevel(s, o))
<1>1. PICK t : t = IssueLevel(s, o)
  OBVIOUS
<1>2. Handed(s, o, t)
  BY <1>1, IssueFacts
<1>3. Len(s.issued) + 1 \in Nat
  <2>1. s.issued \in Seq(Nat \ {0})
    BY DEF Shape
  <2> QED BY <2>1, LenProperties
<1> QED BY <1>1, <1>2, <1>3 DEF Handed, Adds

LEMMA MainIsNew ==
  ASSUME NEW s, Shape(s), Bonuses(s), NEW o \in MainLine(s), o \notin Range(s.issued)
  PROVE  o \notin DOMAIN s.progress
BY DEF Bonuses, MainLine

\* No level in hand: the team waits, or its game is over.
LEMMA WaitShape ==
  ASSUME NEW s, Shape(s), NEW t, t = [f \in GameFields |-> t[f]],
         t.line = s.line, t.defs = s.defs, t.issued = s.issued, t.progress = s.progress,
         t.engineStopped = s.engineStopped, t.blocked = s.blocked, t.masterUsed = s.masterUsed,
         t.current = 0, t.pendingNext \in BOOLEAN, t.finished \in BOOLEAN,
         t.breakPending \in Nat, t.breakLeft \in 0 .. BreakTicks
  PROVE  Shape(t)
BY DEF Shape

LEMMA WaitGood ==
  ASSUME NEW s, NEW n, Ready(s, n), NEW t, Shape(t),
         t.line = s.line, t.defs = s.defs, t.issued = s.issued, t.progress = s.progress, t.current = 0,
         \/ t.finished = s.finished /\ t.pendingNext
         \/ t.finished /\ t.pendingNext = s.pendingNext /\ MainLine(s) \subseteq Range(s.issued)
  PROVE  Good(t, n) /\ Adds(s, t)
<1>1. ASSUME "steered" \notin n PROVE Issuing(t)
  BY <1>1 DEF Ready, Issuing
<1>2. ASSUME n \cap {"steered", "levels moved"} = {} PROVE Bonuses(t)
  BY <1>2 DEF Ready, Bonuses, OnLine, At
<1>3. ASSUME n \cap {"late choice", "steered"} = {} PROVE Numbers(t) /\ Closed(t)
  BY <1>3 DEF Ready, Numbers, Closed
<1>4. ASSUME n \cap {"late choice", "end forced", "steered", "level added", "levels moved"} = {}
      PROVE  Ending(t)
  <2>1. s.line = Line0 /\ ~s.finished /\ ~s.pendingNext
    BY <1>4 DEF Ready
  <2>2. MainLine(t) = MainLine(s)
    BY DEF MainLine, At
  <2> QED BY <2>1, <2>2 DEF Ending
<1>5. Adds(s, t)
  BY DEF Adds
<1> QED BY <1>1, <1>2, <1>3, <1>4, <1>5 DEF Good

LEMMA AdvanceGood ==
  ASSUME NEW s, NEW n, Ready(s, n)
  PROVE  /\ Good(Advance(s), n)
         /\ n \cap {"steered", "levels moved"} = {} => Adds(s, Advance(s))
<1>1. PICK t : t = Advance(s)
  OBVIOUS
<1>2. Shape(s)
  BY DEF Ready
<1>3. CASE NextMainOrder(s) = 0
  <2>1. t = [s EXCEPT !.current = 0, !.finished = TRUE]
    BY <1>1, <1>3 DEF Advance
  <2>2. /\ t = [f \in GameFields |-> t[f]]
        /\ t.line = s.line /\ t.defs = s.defs /\ t.issued = s.issued /\ t.progress = s.progress
        /\ t.engineStopped = s.engineStopped /\ t.blocked = s.blocked /\ t.masterUsed = s.masterUsed
        /\ t.current = 0 /\ t.pendingNext = s.pendingNext /\ t.finished = TRUE
        /\ t.breakPending = s.breakPending /\ t.breakLeft = s.breakLeft
    BY <1>2, <2>1 DEF Shape, GameFields
  <2>3. Shape(t)
    <3>1. s.pendingNext \in BOOLEAN /\ s.finished \in BOOLEAN /\ s.breakPending \in Nat /\ s.breakLeft \in 0 .. BreakTicks
      BY <1>2 DEF Shape
    <3> QED BY ONLY <1>2, <2>2, <3>1, WaitShape
  <2>4. MainLine(s) \subseteq Range(s.issued)
    BY <1>2, <1>3, NoneIsLeft
  <2> QED BY <1>1, <2>2, <2>3, <2>4, WaitGood
<1>4. CASE NextMainOrder(s) # 0 /\ s.breakPending # 0 /\ s.breakPending = s.current
  <2>1. t = [s EXCEPT !.breakPending = 0, !.breakLeft = BreakTicks, !.pendingNext = TRUE, !.current = 0]
    BY <1>1, <1>4 DEF Advance
  <2>2. /\ t = [f \in GameFields |-> t[f]]
        /\ t.line = s.line /\ t.defs = s.defs /\ t.issued = s.issued /\ t.progress = s.progress
        /\ t.engineStopped = s.engineStopped /\ t.blocked = s.blocked /\ t.masterUsed = s.masterUsed
        /\ t.current = 0 /\ t.pendingNext = TRUE /\ t.finished = s.finished
        /\ t.breakPending = 0 /\ t.breakLeft = BreakTicks
    BY <1>2, <2>1 DEF Shape, GameFields
  <2>3. BreakTicks \in 0 .. BreakTicks
    BY MockAssumption
  <2>4. Shape(t)
    <3>1. s.finished \in BOOLEAN
      BY <1>2 DEF Shape
    <3>2. t.finished \in BOOLEAN /\ t.pendingNext \in BOOLEAN
      BY ONLY <2>2, <3>1
    <3>3. t.breakLeft = BreakTicks /\ t.breakPending = 0
      BY <2>2
    <3>4. t.breakPending \in Nat /\ t.breakLeft \in 0 .. BreakTicks
      BY ONLY <2>3, <3>3
    <3> QED BY ONLY <1>2, <2>2, <3>2, <3>4, WaitShape
  <2> QED BY <1>1, <2>2, <2>4, WaitGood
<1>5. CASE NextMainOrder(s) # 0 /\ ~(s.breakPending # 0 /\ s.breakPending = s.current) /\ OnBreak(s)
  <2>1. t = [s EXCEPT !.pendingNext = TRUE, !.current = 0]
    BY <1>1, <1>5 DEF Advance
  <2>2. /\ t = [f \in GameFields |-> t[f]]
        /\ t.line = s.line /\ t.defs = s.defs /\ t.issued = s.issued /\ t.progress = s.progress
        /\ t.engineStopped = s.engineStopped /\ t.blocked = s.blocked /\ t.masterUsed = s.masterUsed
        /\ t.current = 0 /\ t.pendingNext = TRUE /\ t.finished = s.finished
        /\ t.breakPending = s.breakPending /\ t.breakLeft = s.breakLeft
    BY <1>2, <2>1 DEF Shape, GameFields
  <2>3. Shape(t)
    <3>1. s.pendingNext \in BOOLEAN /\ s.finished \in BOOLEAN /\ s.breakPending \in Nat /\ s.breakLeft \in 0 .. BreakTicks
      BY <1>2 DEF Shape
    <3> QED BY ONLY <1>2, <2>2, <3>1, WaitShape
  <2> QED BY <1>1, <2>2, <2>3, WaitGood
<1>6. CASE NextMainOrder(s) # 0 /\ ~(s.breakPending # 0 /\ s.breakPending = s.current) /\ ~OnBreak(s)
  <2>1. t = IssueLevel(s, NextMainOrder(s))
    BY <1>1, <1>6 DEF Advance
  <2>2. /\ NextMainOrder(s) \in MainLine(s) /\ NextMainOrder(s) \notin Range(s.issued)
        /\ NextMainOrder(s) \in Nat \ {0}
    BY <1>2, <1>6, NextIsNew
  <2>3. Good(t, n)
    BY <2>1, <2>2, IssueGood
  <2>4. ASSUME n \cap {"steered", "levels moved"} = {} PROVE Adds(s, t)
    <3>1. Bonuses(s)
      BY <2>4 DEF Ready
    <3>2. NextMainOrder(s) \notin DOMAIN s.progress
      BY <1>2, <2>2, <3>1, MainIsNew
    <3> QED BY <1>2, <2>1, <2>2, <3>1, <3>2, IssueAdds
  <2> QED BY <1>1, <2>3, <2>4
<1> QED BY <1>3, <1>4, <1>5, <1>6

LEMMA TickGood ==
  ASSUME NEW s, NEW n, Good(s, n)
  PROVE  /\ Good(Tick(s), n)
         /\ n \cap {"steered", "levels moved"} = {} => Adds(s, Tick(s))
<1>1. CASE ~s.finished /\ s.pendingNext /\ ~OnBreak(s)
  <2>1. PICK t : t = [s EXCEPT !.pendingNext = FALSE]
    OBVIOUS
  <2>2. Shape(s)
    BY DEF Good
  <2>3. /\ t = [f \in GameFields |-> t[f]]
        /\ t.line = s.line /\ t.defs = s.defs /\ t.issued = s.issued /\ t.progress = s.progress
        /\ t.engineStopped = s.engineStopped /\ t.blocked = s.blocked /\ t.masterUsed = s.masterUsed
        /\ t.current = s.current /\ t.pendingNext = FALSE /\ t.finished = s.finished
        /\ t.breakPending = s.breakPending /\ t.breakLeft = s.breakLeft
    BY <2>1, <2>2 DEF Shape, GameFields
  <2>4. Shape(t)
    BY <2>2, <2>3 DEF Shape
  <2>5. ASSUME "steered" \notin n PROVE Issuing(t)
    BY <2>3, <2>5 DEF Good, Issuing
  <2>6. ASSUME n \cap {"steered", "levels moved"} = {} PROVE Bonuses(t)
    BY <2>3, <2>6 DEF Good, Bonuses, OnLine, At
  <2>7. ASSUME n \cap {"late choice", "steered"} = {}
        PROVE  Numbers(t) /\ ~t.pendingNext /\ \A i \in DOMAIN t.issued : t.progress[t.issued[i]].done
    <3>1. Numbers(s) /\ Closed(s) /\ s.current = 0
      BY <1>1, <2>7 DEF Good, Closed
    <3>2. ASSUME NEW i \in DOMAIN s.issued PROVE s.issued[i] # 0
      BY <2>2 DEF Shape
    <3> QED BY <2>3, <3>1, <3>2 DEF Numbers, Closed
  <2>8. ASSUME n \cap {"late choice", "end forced", "steered", "level added", "levels moved"} = {}
        PROVE  t.line = Line0 /\ ~t.finished
    BY <1>1, <2>3, <2>8 DEF Good, Ending
  <2>9. Ready(t, n)
    BY <2>4, <2>5, <2>6, <2>7, <2>8 DEF Ready
  <2>10. Tick(s) = Advance(t)
    BY <1>1, <2>1 DEF Tick
  <2>11. Adds(t, Advance(t)) => Adds(s, Advance(t))
    BY <2>3 DEF Adds
  <2> QED BY <2>9, <2>10, <2>11, AdvanceGood
<1>2. CASE ~(~s.finished /\ s.pendingNext /\ ~OnBreak(s))
  BY <1>2 DEF Tick, Adds
<1> QED BY <1>1, <1>2

-----------------------------------------------------------------------------
(* A change of one level's record.                                           *)

LEMMA SameHints ==
  ASSUME NEW p, NEW r, r.hinted = p.hinted, r.early = p.early, r.age = p.age, r.limit = p.limit
  PROVE  HintsShown(r) = HintsShown(p)
BY DEF HintsShown

LEMMA RecordKept ==
  ASSUME NEW p, IsRecord(p), NEW r, r = [f \in RecordFields |-> r[f]],
         r.number = p.number, r.done \in BOOLEAN, p.done => r.done,
         p.codes \subseteq r.codes, p.bonusCodes \subseteq r.bonusCodes, p.spoilers \subseteq r.spoilers,
         r.hinted = p.hinted, r.early = p.early, r.age = p.age, r.limit = p.limit
  PROVE  IsRecord(r) /\ Grows(p, r)
BY SameHints DEF IsRecord, Grows

\* The game around the record of the level o.
Around(s, o, r, t) ==
  /\ t = [f \in GameFields |-> t[f]]
  /\ t.line = s.line /\ t.defs = s.defs /\ t.issued = s.issued /\ t.current = s.current
  /\ t.pendingNext = s.pendingNext /\ t.finished = s.finished
  /\ t.engineStopped = s.engineStopped /\ t.blocked = s.blocked /\ t.masterUsed \in BOOLEAN
  /\ t.breakPending = s.breakPending /\ t.breakLeft = s.breakLeft
  /\ t.progress = [s.progress EXCEPT ![o] = r]

LEMMA TouchShape ==
  ASSUME NEW s, Shape(s), NEW o \in DOMAIN s.progress, NEW r, IsRecord(r), NEW t, Around(s, o, r, t)
  PROVE  /\ Shape(t)
         /\ DOMAIN t.progress = DOMAIN s.progress /\ t.progress[o] = r
         /\ \A x \in DOMAIN s.progress : x # o => t.progress[x] = s.progress[x]
<1>1. Records(s.progress)
  BY DEF Shape
<1>2. PICK f : f = [s.progress EXCEPT ![o] = r]
  OBVIOUS
<1>3. /\ f = [x \in DOMAIN f |-> f[x]] /\ DOMAIN f = DOMAIN s.progress /\ f[o] = r
      /\ \A x \in DOMAIN s.progress : x # o => f[x] = s.progress[x]
  BY <1>1, <1>2 DEF Records
<1>4. Records(f)
  BY <1>1, <1>3 DEF Records
<1>5. t.progress = f
  BY <1>2 DEF Around
<1>6. Shape(t)
  BY <1>3, <1>4, <1>5 DEF Around, Shape
<1> QED BY <1>3, <1>5, <1>6

LEMMA TouchGood ==
  ASSUME NEW s, NEW n, Good(s, n), NEW o \in DOMAIN s.progress, NEW r, IsRecord(r),
         Grows(s.progress[o], r), NEW t, Around(s, o, r, t)
  PROVE  Good(t, n) /\ Stays(s, t)
<1>1. Shape(s)
  BY DEF Good
<1>2. /\ Shape(t)
      /\ DOMAIN t.progress = DOMAIN s.progress /\ t.progress[o] = r
      /\ \A x \in DOMAIN s.progress : x # o => t.progress[x] = s.progress[x]
  <2>1. IsRecord(r) /\ Around(s, o, r, t)
    OBVIOUS
  <2> QED BY ONLY <1>1, <2>1, TouchShape
<1>3. ASSUME NEW x \in DOMAIN s.progress PROVE Grows(s.progress[x], t.progress[x])
  <2>1. CASE x = o
    BY <1>2, <2>1
  <2>2. CASE x # o
    BY <1>2, <2>2 DEF Grows
  <2> QED BY <2>1, <2>2
<1>4. Stays(s, t)
  BY <1>2, <1>3 DEF Stays, Around
<1>5. Keep(s, t)
  BY <1>2, <1>3 DEF Keep, Around, Grows
<1>6. t.line = s.line /\ t.finished = s.finished
  BY DEF Around
<1>7. Good(s, n)
  OBVIOUS
<1>8. Good(t, n)
  BY ONLY <1>2, <1>5, <1>6, <1>7, KeepGood
<1> QED BY <1>4, <1>8

LEMMA MainCodeGood ==
  ASSUME NEW s, NEW n, Good(s, n), NEW o \in DOMAIN s.progress, NEW c,
         NEW t, t = [s EXCEPT !.progress[o].codes = @ \cup {c}]
  PROVE  Good(t, n) /\ Stays(s, t) /\ t.current = s.current
<1>1. Shape(s) /\ IsRecord(s.progress[o])
  BY DEF Good, Shape, Records
<1>2. PICK p : p = s.progress[o]
  OBVIOUS
<1>3. PICK r : r = [p EXCEPT !.codes = p.codes \cup {c}]
  OBVIOUS
<1>4. IsRecord(r) /\ Grows(p, r)
  <2>1. /\ r = [f \in RecordFields |-> r[f]]
        /\ r.number = p.number /\ r.done = p.done /\ r.codes = p.codes \cup {c}
        /\ r.bonusCodes = p.bonusCodes /\ r.spoilers = p.spoilers
        /\ r.hinted = p.hinted /\ r.early = p.early /\ r.age = p.age /\ r.limit = p.limit
    BY <1>1, <1>2, <1>3 DEF IsRecord, RecordFields
  <2>2. IsRecord(p) /\ p.done \in BOOLEAN /\ p.codes \subseteq r.codes
    BY <1>1, <1>2, <2>1 DEF IsRecord
  <2> QED BY ONLY <2>1, <2>2, RecordKept
<1>5. Around(s, o, r, t)
  BY <1>1, <1>2, <1>3 DEF Shape, GameFields, Around
<1>6. Good(s, n) /\ o \in DOMAIN s.progress /\ IsRecord(r) /\ Grows(s.progress[o], r)
  BY <1>2, <1>4
<1>7. Good(t, n) /\ Stays(s, t)
  BY ONLY <1>5, <1>6, TouchGood
<1> QED BY <1>5, <1>7 DEF Around

LEMMA MasterCodeGood ==
  ASSUME NEW s, NEW n, Good(s, n), NEW o \in DOMAIN s.progress
  PROVE  \E t : /\ t = [s EXCEPT !.progress[o].masterCode = TRUE, !.masterUsed = TRUE,
                                 !.penaltyMin = @ + 1]
                /\ Good(t, n) /\ Stays(s, t) /\ t.current = s.current
<1>1. Shape(s) /\ IsRecord(s.progress[o])
  BY DEF Good, Shape, Records
<1>2. PICK p : p = s.progress[o]
  OBVIOUS
<1>3. PICK r : r = [p EXCEPT !.masterCode = TRUE]
  OBVIOUS
<1>4. IsRecord(r) /\ Grows(p, r)
  <2>1. /\ r = [f \in RecordFields |-> r[f]]
        /\ r.number = p.number /\ r.done = p.done
        /\ r.codes = p.codes /\ r.bonusCodes = p.bonusCodes
        /\ r.spoilers = p.spoilers /\ r.hinted = p.hinted /\ r.early = p.early
        /\ r.age = p.age /\ r.limit = p.limit
    BY <1>1, <1>2, <1>3 DEF IsRecord, RecordFields
  <2>2. IsRecord(p) /\ p.done \in BOOLEAN /\ p.codes \subseteq r.codes
        /\ p.bonusCodes \subseteq r.bonusCodes /\ p.spoilers \subseteq r.spoilers
    BY <1>1, <1>2, <2>1 DEF IsRecord
  <2> QED BY ONLY <2>1, <2>2, RecordKept
<1>5. PICK t : t = [s EXCEPT !.progress[o].masterCode = TRUE, !.masterUsed = TRUE, !.penaltyMin = @ + 1]
  OBVIOUS
<1>6. Around(s, o, r, t)
  BY <1>1, <1>2, <1>3, <1>5 DEF Shape, GameFields, Around
<1>7. Good(s, n) /\ o \in DOMAIN s.progress /\ IsRecord(r) /\ Grows(s.progress[o], r)
  BY <1>2, <1>4
<1>8. Good(t, n) /\ Stays(s, t)
  BY ONLY <1>6, <1>7, TouchGood
<1>9. t.current = s.current
  BY <1>6 DEF Around
<1> QED BY <1>5, <1>8, <1>9

LEMMA SpoilerGood ==
  ASSUME NEW s, NEW n, Good(s, n), NEW o \in DOMAIN s.progress, NEW c,
         NEW t, t = [s EXCEPT !.progress[o].spoilers = @ \cup {c}, !.penaltyMin = @ + 1]
  PROVE  Good(t, n) /\ Stays(s, t) /\ t.current = s.current
<1>1. Shape(s) /\ IsRecord(s.progress[o])
  BY DEF Good, Shape, Records
<1>2. PICK p : p = s.progress[o]
  OBVIOUS
<1>3. PICK r : r = [p EXCEPT !.spoilers = p.spoilers \cup {c}]
  OBVIOUS
<1>4. IsRecord(r) /\ Grows(p, r)
  <2>1. /\ r = [f \in RecordFields |-> r[f]]
        /\ r.number = p.number /\ r.done = p.done
        /\ r.codes = p.codes /\ r.bonusCodes = p.bonusCodes
        /\ r.spoilers = p.spoilers \cup {c} /\ r.hinted = p.hinted /\ r.early = p.early
        /\ r.age = p.age /\ r.limit = p.limit
    BY <1>1, <1>2, <1>3 DEF IsRecord, RecordFields
  <2>2. IsRecord(p) /\ p.done \in BOOLEAN /\ p.codes \subseteq r.codes
        /\ p.bonusCodes \subseteq r.bonusCodes /\ p.spoilers \subseteq r.spoilers
    BY <1>1, <1>2, <2>1 DEF IsRecord
  <2> QED BY ONLY <2>1, <2>2, RecordKept
<1>5. Around(s, o, r, t)
  BY <1>1, <1>2, <1>3 DEF Shape, GameFields, Around
<1>6. Good(s, n) /\ o \in DOMAIN s.progress /\ IsRecord(r) /\ Grows(s.progress[o], r)
  BY <1>2, <1>4
<1>7. Good(t, n) /\ Stays(s, t)
  BY ONLY <1>5, <1>6, TouchGood
<1> QED BY <1>5, <1>7 DEF Around

LEMMA BonusCodeGood ==
  ASSUME NEW s, NEW n, Good(s, n), NEW o \in DOMAIN s.progress, NEW c,
         NEW t, t = [s EXCEPT !.progress[o].bonusCodes = @ \cup {c}, !.bonusMin = @ + 1]
  PROVE  Good(t, n) /\ Stays(s, t) /\ t.current = s.current
<1>1. Shape(s) /\ IsRecord(s.progress[o])
  BY DEF Good, Shape, Records
<1>2. PICK p : p = s.progress[o]
  OBVIOUS
<1>3. PICK r : r = [p EXCEPT !.bonusCodes = p.bonusCodes \cup {c}]
  OBVIOUS
<1>4. IsRecord(r) /\ Grows(p, r)
  <2>1. /\ r = [f \in RecordFields |-> r[f]]
        /\ r.number = p.number /\ r.done = p.done
        /\ r.codes = p.codes /\ r.bonusCodes = p.bonusCodes \cup {c}
        /\ r.spoilers = p.spoilers /\ r.hinted = p.hinted /\ r.early = p.early
        /\ r.age = p.age /\ r.limit = p.limit
    BY <1>1, <1>2, <1>3 DEF IsRecord, RecordFields
  <2>2. IsRecord(p) /\ p.done \in BOOLEAN /\ p.codes \subseteq r.codes
        /\ p.bonusCodes \subseteq r.bonusCodes /\ p.spoilers \subseteq r.spoilers
    BY <1>1, <1>2, <2>1 DEF IsRecord
  <2> QED BY ONLY <2>1, <2>2, RecordKept
<1>5. Around(s, o, r, t)
  BY <1>1, <1>2, <1>3 DEF Shape, GameFields, Around
<1>6. Good(s, n) /\ o \in DOMAIN s.progress /\ IsRecord(r) /\ Grows(s.progress[o], r)
  BY <1>2, <1>4
<1>7. Good(t, n) /\ Stays(s, t)
  BY ONLY <1>5, <1>6, TouchGood
<1> QED BY <1>5, <1>7 DEF Around

LEMMA FakeCodeGood ==
  ASSUME NEW s, NEW n, Good(s, n), NEW o \in DOMAIN s.progress, NEW c,
         NEW t, t = [s EXCEPT !.progress[o].fakeCodes = @ \cup {c}, !.penaltyMin = @ + 1]
  PROVE  Good(t, n) /\ Stays(s, t) /\ t.current = s.current
<1>1. Shape(s) /\ IsRecord(s.progress[o])
  BY DEF Good, Shape, Records
<1>2. PICK p : p = s.progress[o]
  OBVIOUS
<1>3. PICK r : r = [p EXCEPT !.fakeCodes = p.fakeCodes \cup {c}]
  OBVIOUS
<1>4. IsRecord(r) /\ Grows(p, r)
  <2>1. /\ r = [f \in RecordFields |-> r[f]]
        /\ r.number = p.number /\ r.done = p.done
        /\ r.codes = p.codes /\ r.bonusCodes = p.bonusCodes
        /\ r.spoilers = p.spoilers /\ r.hinted = p.hinted /\ r.early = p.early
        /\ r.age = p.age /\ r.limit = p.limit
    BY <1>1, <1>2, <1>3 DEF IsRecord, RecordFields
  <2>2. IsRecord(p) /\ p.done \in BOOLEAN /\ p.codes \subseteq r.codes
        /\ p.bonusCodes \subseteq r.bonusCodes /\ p.spoilers \subseteq r.spoilers
    BY <1>1, <1>2, <2>1 DEF IsRecord
  <2> QED BY ONLY <2>1, <2>2, RecordKept
<1>5. Around(s, o, r, t)
  BY <1>1, <1>2, <1>3 DEF Shape, GameFields, Around
<1>6. Good(s, n) /\ o \in DOMAIN s.progress /\ IsRecord(r) /\ Grows(s.progress[o], r)
  BY <1>2, <1>4
<1>7. Good(t, n) /\ Stays(s, t)
  BY ONLY <1>5, <1>6, TouchGood
<1> QED BY <1>5, <1>7 DEF Around

LEMMA WrongCodeGood ==
  ASSUME NEW s, NEW n, Good(s, n), NEW o \in DOMAIN s.progress, NEW k, NEW b,
         NEW t, t = [s EXCEPT !.progress[o].wrong = k, !.progress[o].blockLeft = b]
  PROVE  Good(t, n) /\ Stays(s, t) /\ t.current = s.current
<1>1. Shape(s) /\ IsRecord(s.progress[o])
  BY DEF Good, Shape, Records
<1>2. PICK p : p = s.progress[o]
  OBVIOUS
<1>3. PICK r : r = [p EXCEPT !.wrong = k, !.blockLeft = b]
  OBVIOUS
<1>4. IsRecord(r) /\ Grows(p, r)
  <2>1. /\ r = [f \in RecordFields |-> r[f]]
        /\ r.number = p.number /\ r.done = p.done
        /\ r.codes = p.codes /\ r.bonusCodes = p.bonusCodes
        /\ r.spoilers = p.spoilers /\ r.hinted = p.hinted /\ r.early = p.early
        /\ r.age = p.age /\ r.limit = p.limit
    BY <1>1, <1>2, <1>3 DEF IsRecord, RecordFields
  <2>2. IsRecord(p) /\ p.done \in BOOLEAN /\ p.codes \subseteq r.codes
        /\ p.bonusCodes \subseteq r.bonusCodes /\ p.spoilers \subseteq r.spoilers
    BY <1>1, <1>2, <2>1 DEF IsRecord
  <2> QED BY ONLY <2>1, <2>2, RecordKept
<1>5. Around(s, o, r, t)
  BY <1>1, <1>2, <1>3 DEF Shape, GameFields, Around
<1>6. Good(s, n) /\ o \in DOMAIN s.progress /\ IsRecord(r) /\ Grows(s.progress[o], r)
  BY <1>2, <1>4
<1>7. Good(t, n) /\ Stays(s, t)
  BY ONLY <1>5, <1>6, TouchGood
<1> QED BY <1>5, <1>7 DEF Around

LEMMA NextRequestGood ==
  ASSUME NEW s, NEW n, Good(s, n), NEW o \in DOMAIN s.progress,
         NEW t, t = [s EXCEPT !.progress[o].nextRequest = TRUE]
  PROVE  Good(t, n) /\ Stays(s, t) /\ t.current = s.current
<1>1. Shape(s) /\ IsRecord(s.progress[o])
  BY DEF Good, Shape, Records
<1>2. PICK p : p = s.progress[o]
  OBVIOUS
<1>3. PICK r : r = [p EXCEPT !.nextRequest = TRUE]
  OBVIOUS
<1>4. IsRecord(r) /\ Grows(p, r)
  <2>1. /\ r = [f \in RecordFields |-> r[f]]
        /\ r.number = p.number /\ r.done = p.done
        /\ r.codes = p.codes /\ r.bonusCodes = p.bonusCodes
        /\ r.spoilers = p.spoilers /\ r.hinted = p.hinted /\ r.early = p.early
        /\ r.age = p.age /\ r.limit = p.limit
    BY <1>1, <1>2, <1>3 DEF IsRecord, RecordFields
  <2>2. IsRecord(p) /\ p.done \in BOOLEAN /\ p.codes \subseteq r.codes
        /\ p.bonusCodes \subseteq r.bonusCodes /\ p.spoilers \subseteq r.spoilers
    BY <1>1, <1>2, <2>1 DEF IsRecord
  <2> QED BY ONLY <2>1, <2>2, RecordKept
<1>5. Around(s, o, r, t)
  BY <1>1, <1>2, <1>3 DEF Shape, GameFields, Around
<1>6. Good(s, n) /\ o \in DOMAIN s.progress /\ IsRecord(r) /\ Grows(s.progress[o], r)
  BY <1>2, <1>4
<1>7. Good(t, n) /\ Stays(s, t)
  BY ONLY <1>5, <1>6, TouchGood
<1> QED BY <1>5, <1>7 DEF Around

LEMMA CompleteGood ==
  ASSUME NEW s, NEW n, Good(s, n), NEW o \in DOMAIN s.progress,
         NEW t, t = [s EXCEPT !.progress[o].done = TRUE]
  PROVE  Good(t, n) /\ Stays(s, t) /\ t.current = s.current
<1>1. Shape(s) /\ IsRecord(s.progress[o])
  BY DEF Good, Shape, Records
<1>2. PICK p : p = s.progress[o]
  OBVIOUS
<1>3. PICK r : r = [p EXCEPT !.done = TRUE]
  OBVIOUS
<1>4. IsRecord(r) /\ Grows(p, r)
  <2>1. /\ r = [f \in RecordFields |-> r[f]]
        /\ r.number = p.number /\ r.done = TRUE
        /\ r.codes = p.codes /\ r.bonusCodes = p.bonusCodes
        /\ r.spoilers = p.spoilers /\ r.hinted = p.hinted /\ r.early = p.early
        /\ r.age = p.age /\ r.limit = p.limit
    BY <1>1, <1>2, <1>3 DEF IsRecord, RecordFields
  <2>2. IsRecord(p) /\ p.done \in BOOLEAN /\ p.codes \subseteq r.codes
        /\ p.bonusCodes \subseteq r.bonusCodes /\ p.spoilers \subseteq r.spoilers
    BY <1>1, <1>2, <2>1 DEF IsRecord
  <2> QED BY ONLY <2>1, <2>2, RecordKept
<1>5. Around(s, o, r, t)
  BY <1>1, <1>2, <1>3 DEF Shape, GameFields, Around
<1>6. Good(s, n) /\ o \in DOMAIN s.progress /\ IsRecord(r) /\ Grows(s.progress[o], r)
  BY <1>2, <1>4
<1>7. Good(t, n) /\ Stays(s, t)
  BY ONLY <1>5, <1>6, TouchGood
<1> QED BY <1>5, <1>7 DEF Around

-----------------------------------------------------------------------------
(* Hints.                                                                    *)

FirstOut(p) == 1 \in p.hinted \cup p.early \/ p.age >= HintTicks
SecondDue(p) == IF p.early = {1} THEN p.limit - HintTicks ELSE 2 * HintTicks
SecondOut(p) == 2 \in p.hinted \cup p.early \/ p.age >= SecondDue(p)

LEMMA HintsAre ==
  ASSUME NEW p
  PROVE  /\ 1 \in HintsShown(p) <=> FirstOut(p)
         /\ 2 \in HintsShown(p) <=> FirstOut(p) /\ SecondOut(p)
         /\ HintsShown(p) \subseteq {1, 2}
BY DEF HintsShown, FirstOut, SecondOut, SecondDue

\* Neither a hint nor the time takes a hint back, as long as the end of the level stays.
LEMMA MoreHints ==
  ASSUME NEW p, NEW r, IsRecord(p), IsRecord(r), p.hinted \subseteq r.hinted, r.early = p.early,
         r.limit = p.limit, p.age <= r.age
  PROVE  HintsShown(p) \subseteq HintsShown(r)
<1>1. HintTicks \in Nat /\ p.age \in Nat /\ r.age \in Nat /\ p.limit \in Int
  BY MockAssumption DEF IsRecord
<1>2. SecondDue(r) = SecondDue(p) /\ SecondDue(p) \in Int
  BY <1>1 DEF SecondDue
<1>3. FirstOut(p) => FirstOut(r)
  BY <1>1 DEF FirstOut
<1>4. SecondOut(p) => SecondOut(r)
  BY <1>1, <1>2 DEF SecondOut
<1> QED BY <1>3, <1>4, HintsAre

\* The first hint taken early: nothing was out.
LEMMA FirstHintNew ==
  ASSUME NEW p, IsRecord(p), 1 \notin p.hinted \cup p.early, p.age < HintTicks
  PROVE  HintsShown(p) = {}
<1>1. ~FirstOut(p)
  BY MockAssumption DEF FirstOut, IsRecord
<1> QED BY <1>1, HintsAre

\* The second hint taken early is out when the first one is.
LEMMA SecondHintNew ==
  ASSUME NEW p, IsRecord(p), NEW r, IsRecord(r), r.hinted = p.hinted, r.early = p.early \cup {2},
         r.age = p.age
  PROVE  HintsShown(p) \subseteq HintsShown(r)
<1>1. SecondOut(r)
  BY DEF SecondOut
<1>2. FirstOut(p) => FirstOut(r)
  BY DEF FirstOut
<1> QED BY <1>1, <1>2, HintsAre

LEMMA HintRecord ==
  ASSUME NEW p, IsRecord(p), NEW r, r = [f \in RecordFields |-> r[f]],
         r.number = p.number, r.done = p.done, r.codes = p.codes,
         r.bonusCodes = p.bonusCodes, r.spoilers = p.spoilers,
         r.age \in Nat, r.limit \in Int,
         IsRecord(r) => HintsShown(p) \subseteq HintsShown(r)
  PROVE  IsRecord(r) /\ Grows(p, r)
BY DEF IsRecord, Grows

LEMMA ClueGood ==
  ASSUME NEW s, NEW n, Good(s, n), NEW o \in DOMAIN s.progress, NEW h,
         NEW t, t = [s EXCEPT !.progress[o].hinted = @ \cup {h}]
  PROVE  Good(t, n) /\ Stays(s, t) /\ t.current = s.current
<1>1. Shape(s) /\ IsRecord(s.progress[o])
  BY DEF Good, Shape, Records
<1>2. PICK p : p = s.progress[o]
  OBVIOUS
<1>3. PICK r : r = [p EXCEPT !.hinted = p.hinted \cup {h}]
  OBVIOUS
<1>4. IsRecord(r) /\ Grows(p, r)
  <2>1. /\ r = [f \in RecordFields |-> r[f]]
        /\ r.number = p.number /\ r.done = p.done /\ r.codes = p.codes
        /\ r.bonusCodes = p.bonusCodes /\ r.spoilers = p.spoilers
        /\ r.hinted = p.hinted \cup {h} /\ r.early = p.early
        /\ r.age = p.age /\ r.limit = p.limit
    BY <1>1, <1>2, <1>3 DEF IsRecord, RecordFields
  <2>2. IsRecord(p) /\ p.age \in Nat /\ p.limit \in Int
    BY <1>1, <1>2 DEF IsRecord
  <2>3. p.hinted \subseteq r.hinted /\ p.age <= r.age
    BY <2>1, <2>2
  <2>4. IsRecord(r) => HintsShown(p) \subseteq HintsShown(r)
    BY ONLY <2>1, <2>2, <2>3, MoreHints
  <2> QED BY ONLY <2>1, <2>2, <2>4, HintRecord
<1>5. Around(s, o, r, t)
  BY <1>1, <1>2, <1>3 DEF Shape, GameFields, Around
<1>6. Good(s, n) /\ o \in DOMAIN s.progress /\ IsRecord(r) /\ Grows(s.progress[o], r)
  BY <1>2, <1>4
<1>7. Good(t, n) /\ Stays(s, t)
  BY ONLY <1>5, <1>6, TouchGood
<1> QED BY <1>5, <1>7 DEF Around

LEMMA FirstEarly ==
  ASSUME NEW p, IsRecord(p), 1 \notin p.hinted \cup p.early, p.age < HintTicks, NEW k \in Int,
         NEW r, r = [p EXCEPT !.early = p.early \cup {1}, !.limit = k]
  PROVE  IsRecord(r) /\ Grows(p, r)
<1>1. /\ r = [f \in RecordFields |-> r[f]]
      /\ r.number = p.number /\ r.done = p.done /\ r.codes = p.codes
      /\ r.bonusCodes = p.bonusCodes /\ r.spoilers = p.spoilers
      /\ r.age = p.age /\ r.limit = k
  BY DEF IsRecord, RecordFields
<1>2. IsRecord(p) /\ p.age \in Nat /\ k \in Int
  BY DEF IsRecord
<1>3. IsRecord(r) => HintsShown(p) \subseteq HintsShown(r)
  BY FirstHintNew
<1> QED BY ONLY <1>1, <1>2, <1>3, HintRecord

LEMMA SecondEarly ==
  ASSUME NEW p, IsRecord(p), NEW r, r = [p EXCEPT !.early = p.early \cup {2}, !.limit = p.age + HintTicks]
  PROVE  IsRecord(r) /\ Grows(p, r)
<1>1. /\ r = [f \in RecordFields |-> r[f]]
      /\ r.number = p.number /\ r.done = p.done /\ r.codes = p.codes
      /\ r.bonusCodes = p.bonusCodes /\ r.spoilers = p.spoilers
      /\ r.hinted = p.hinted /\ r.early = p.early \cup {2}
      /\ r.age = p.age /\ r.limit = p.age + HintTicks
  BY DEF IsRecord, RecordFields
<1>2. IsRecord(p) /\ p.age \in Nat /\ HintTicks \in Nat
  BY MockAssumption DEF IsRecord
<1>3. r.age \in Nat /\ r.limit \in Int
  BY <1>1, <1>2
<1>4. IsRecord(r) => HintsShown(p) \subseteq HintsShown(r)
  BY ONLY <1>1, <1>2, SecondHintNew
<1> QED BY ONLY <1>1, <1>2, <1>3, <1>4, HintRecord

-----------------------------------------------------------------------------
(* The team leaves the level in hand.                                        *)

Told(s, t, n) == n \cap {"steered", "levels moved"} = {} => Stays(s, t)

LEMMA CompleteDone ==
  ASSUME NEW s, Shape(s), NEW o \in DOMAIN s.progress
  PROVE  Complete(s, o).progress[o].done = TRUE
<1>1. PICK p : p = s.progress[o]
  OBVIOUS
<1>2. p = [f \in RecordFields |-> p[f]]
  BY <1>1 DEF Shape, Records, IsRecord
<1>3. PICK r : r = [p EXCEPT !.done = TRUE]
  OBVIOUS
<1>4. r.done = TRUE
  BY <1>2, <1>3 DEF RecordFields
<1>5. PICK f : f = [s.progress EXCEPT ![o] = r]
  OBVIOUS
<1>6. f[o] = r
  BY <1>5 DEF Shape, Records
<1>7. Complete(s, o) = [s EXCEPT !.progress = f]
  BY <1>1, <1>3, <1>5 DEF Complete
<1>8. Complete(s, o).progress = f
  BY <1>7 DEF Shape, GameFields
<1> QED BY <1>4, <1>6, <1>8

LEMMA LeaveReady ==
  ASSUME NEW s, NEW n, Good(s, n), s.current # 0
  PROVE  Ready(Complete(s, s.current), n) /\ Stays(s, Complete(s, s.current))
<1>1. PICK o : o = s.current
  OBVIOUS
<1>2. PICK t : t = Complete(s, o)
  OBVIOUS
<1>3. o \in DOMAIN s.progress /\ Shape(s)
  BY <1>1 DEF Good, Shape
<1>4. Good(t, n) /\ Stays(s, t) /\ t.current = o
  BY <1>1, <1>2, <1>3, CompleteGood DEF Complete
<1>5. t.progress[o].done = TRUE
  BY <1>2, <1>3, CompleteDone
<1>6. Shape(t) /\ t.current # 0
  BY <1>1, <1>4 DEF Good
<1>7. ASSUME n \cap {"late choice", "steered"} = {}
      PROVE  /\ Numbers(t) /\ ~t.pendingNext
             /\ \A i \in DOMAIN t.issued : t.progress[t.issued[i]].done
  BY <1>4, <1>5, <1>6, <1>7 DEF Good, Closed
<1>8. ASSUME n \cap {"late choice", "end forced", "steered", "level added", "levels moved"} = {}
      PROVE  t.line = Line0 /\ ~t.finished
  BY <1>4, <1>6, <1>8 DEF Good, Ending
<1>9. Ready(t, n)
  BY <1>4, <1>6, <1>7, <1>8 DEF Good, Ready
<1> QED BY <1>1, <1>2, <1>4, <1>9

LEMMA LeaveGood ==
  ASSUME NEW s, NEW n, Good(s, n), s.current # 0
  PROVE  Good(Advance(Complete(s, s.current)), n) /\ Told(s, Advance(Complete(s, s.current)), n)
<1>1. PICK t : t = Complete(s, s.current)
  OBVIOUS
<1>2. Ready(t, n) /\ Stays(s, t)
  BY <1>1, LeaveReady
<1>3. Good(Advance(t), n)
  BY <1>2, AdvanceGood
<1>4. ASSUME n \cap {"steered", "levels moved"} = {} PROVE Stays(s, Advance(t))
  <2>1. Stays(t, Advance(t))
    BY <1>2, <1>4, AdvanceGood, AddsStays
  <2> QED BY <1>2, <2>1, StaysOn
<1> QED BY <1>1, <1>3, <1>4 DEF Told

LEMMA AfterMainCodeGood ==
  ASSUME NEW s, NEW n, Good(s, n), NEW o \in DOMAIN s.progress, NEW skvoz, skvoz \/ o = s.current
  PROVE  Good(AfterMainCode(s, o, skvoz), n) /\ Told(s, AfterMainCode(s, o, skvoz), n)
<1>1. PICK t : t = AfterMainCode(s, o, skvoz)
  OBVIOUS
<1>2. \/ t = s
      \/ t = Complete(s, o)
      \/ ~skvoz /\ t = Advance(Complete(s, o))
  BY <1>1 DEF AfterMainCode
<1>3. CASE t = s
  BY <1>1, <1>3, StaysHere DEF Told
<1>4. CASE t = Complete(s, o)
  <2>1. Good(t, n) /\ Stays(s, t)
    BY <1>4, CompleteGood DEF Complete
  <2> QED BY <1>1, <2>1 DEF Told
<1>5. CASE ~skvoz /\ t = Advance(Complete(s, o))
  <2>1. o = s.current /\ s.current # 0
    BY <1>5 DEF Good, Shape, Records
  <2>2. t = Advance(Complete(s, s.current))
    BY <1>5, <2>1
  <2>3. Good(t, n) /\ Told(s, t, n)
    BY <2>1, <2>2, LeaveGood
  <2> QED BY <1>1, <2>3
<1> QED BY <1>2, <1>3, <1>4, <1>5

\* Two steps of one request.
LEMMA TwoSteps ==
  ASSUME NEW r, NEW s, NEW t, NEW n, Stays(r, s), Told(s, t, n) PROVE Told(r, t, n)
BY StaysOn DEF Told

-----------------------------------------------------------------------------
(* The requests of the players.                                              *)

LEMMA NowGood ==
  ASSUME Good(g, notes)
  PROVE  Good(Now, notes) /\ Shape(Now) /\ Told(g, Now, notes)
<1>1. Good(Now, notes)
  BY TickGood DEF Now
<1>2. Told(g, Now, notes)
  BY TickGood, AddsStays DEF Now, Told
<1> QED BY <1>1, <1>2 DEF Good

LEMMA TargetHasRecord ==
  ASSUME NEW s, NEW o, NEW skvoz, Target(s, o, skvoz)
  PROVE  o \in DOMAIN s.progress /\ (skvoz \/ o = s.current)
BY DEF Target

LEMMA EnterMasterGood ==
  ASSUME Good(g, notes), NEW a, EnterMaster(a) PROVE Good(g', notes') /\ Told(Now, g', notes)
<1>1. PICK s : s = Now
  OBVIOUS
<1>2. Good(s, notes)
  BY <1>1, NowGood
<1>3. PICK o : o = s.current
  OBVIOUS
<1>4. o \in DOMAIN s.progress
  BY <1>1, <1>3 DEF EnterMaster, Target
<1>5. PICK t : /\ t = [s EXCEPT !.progress[o].masterCode = TRUE, !.masterUsed = TRUE,
                                !.penaltyMin = @ + 1]
               /\ Good(t, notes) /\ Stays(s, t) /\ t.current = s.current
  BY <1>2, <1>4, MasterCodeGood
<1>6. g' = AfterMainCode(t, o, FALSE) /\ notes' = notes
  BY <1>1, <1>3, <1>5 DEF EnterMaster, Answer
<1>7. o \in DOMAIN t.progress /\ o = t.current
  BY <1>3, <1>4, <1>5 DEF Stays
<1>8. Good(g', notes) /\ Told(t, g', notes)
  BY <1>5, <1>6, <1>7, AfterMainCodeGood
<1>9. Told(s, g', notes)
  BY <1>5, <1>8, TwoSteps
<1> QED BY <1>1, <1>6, <1>8, <1>9

LEMMA EnterMainGood ==
  ASSUME Good(g, notes), NEW a, NEW o, NEW c, NEW skvoz, EnterMain(a, o, c, skvoz)
  PROVE  Good(g', notes') /\ Told(Now, g', notes)
<1>1. PICK s : s = Now
  OBVIOUS
<1>2. Good(s, notes)
  BY <1>1, NowGood
<1>4. PICK t : t = [s EXCEPT !.progress[o].codes = @ \cup {c}]
  OBVIOUS
<1>5. o \in DOMAIN s.progress /\ (skvoz \/ o = s.current)
  BY <1>1, TargetHasRecord DEF EnterMain, Enterable
<1>6. g' = AfterMainCode(t, o, skvoz) /\ notes' = notes
  BY <1>1, <1>4 DEF EnterMain, Answer
<1>7. Good(t, notes) /\ Stays(s, t) /\ t.current = s.current
  BY <1>2, <1>4, <1>5, MainCodeGood
<1>8. o \in DOMAIN t.progress
  BY <1>5, <1>7 DEF Stays
<1>9. Good(g', notes) /\ Told(t, g', notes)
  BY <1>5, <1>6, <1>7, <1>8, AfterMainCodeGood
<1>10. Told(s, g', notes)
  BY ONLY <1>7, <1>9, TwoSteps
<1> QED BY <1>1, <1>6, <1>9, <1>10

LEMMA OpenSpoilerGood ==
  ASSUME NEW s, NEW n, Good(s, n), NEW o \in DOMAIN s.progress, NEW c
  PROVE  Good(OpenSpoiler(s, o, c), n) /\ Told(s, OpenSpoiler(s, o, c), n)
<1>1. CASE c \in s.progress[o].spoilers
  BY <1>1, StaysHere DEF OpenSpoiler, Told
<1>2. CASE c \notin s.progress[o].spoilers
  <2>1. PICK t : t = [s EXCEPT !.progress[o].spoilers = @ \cup {c}, !.penaltyMin = @ + 1]
    OBVIOUS
  <2>2. OpenSpoiler(s, o, c) = t
    BY <1>2, <2>1 DEF OpenSpoiler
  <2>3. Good(t, n) /\ Stays(s, t)
    BY <2>1, SpoilerGood
  <2> QED BY <2>2, <2>3 DEF Told
<1> QED BY <1>1, <1>2

LEMMA SpoilersGood ==
  ASSUME Good(g, notes), NEW a, NEW o, NEW c, NEW skvoz,
         EnterSpoiler(a, o, c, skvoz) \/ SpoilerCode(a, o, c)
  PROVE  Good(g', notes') /\ Told(Now, g', notes)
<1>1. PICK s : s = Now
  OBVIOUS
<1>2. Good(s, notes)
  BY <1>1, NowGood
<1>3. o \in DOMAIN s.progress /\ g' = OpenSpoiler(s, o, c) /\ notes' = notes
  BY <1>1 DEF EnterSpoiler, SpoilerCode, Target, Answer
<1> QED BY <1>1, <1>2, <1>3, OpenSpoilerGood

LEMMA EnterLateGood ==
  ASSUME Good(g, notes), NEW a, NEW c, EnterLate(a, c) PROVE Good(g', notes') /\ Told(Now, g', notes)
<1>1. PICK s : s = Now
  OBVIOUS
<1>2. Good(s, notes)
  BY <1>1, NowGood
<1>3. PICK past : past = Complete(s, s.current)
  OBVIOUS
<1>4. s.current \in DOMAIN s.progress
  BY <1>1 DEF EnterLate, Target
<1>5. s.current # 0
  BY <1>2, <1>4 DEF Good, Shape, Records
<1>6. g' = Advance(past) /\ notes' = notes
  <2>1. /\ g' = IF NextMainOrder(past) = 0 THEN [past EXCEPT !.current = 0, !.finished = TRUE]
                                          ELSE Advance(past)
        /\ notes' = notes
    BY <1>1, <1>3 DEF EnterLate, Answer
  <2> QED BY <2>1 DEF Advance
<1> QED BY <1>1, <1>2, <1>3, <1>5, <1>6, LeaveGood

LEMMA ExtraCodesGood ==
  ASSUME Good(g, notes), NEW a, NEW o, NEW c, NEW skvoz,
         EnterBonus(a, o, c, skvoz) \/ EnterFake(a, o, c, skvoz)
  PROVE  Good(g', notes') /\ Told(Now, g', notes)
<1>1. PICK s : s = Now
  OBVIOUS
<1>2. Good(s, notes)
  BY <1>1, NowGood
<1>3. o \in DOMAIN s.progress
  BY <1>1 DEF EnterBonus, EnterFake, Enterable, Target
<1>4. notes' = notes
  BY DEF EnterBonus, EnterFake, Answer
<1>5. CASE EnterBonus(a, o, c, skvoz)
  <2>1. g' = [s EXCEPT !.progress[o].bonusCodes = @ \cup {c}, !.bonusMin = @ + 1]
    BY <1>1, <1>5 DEF EnterBonus, Answer
  <2>2. Good(g', notes) /\ Stays(s, g')
    BY <1>2, <1>3, <2>1, BonusCodeGood
  <2> QED BY <1>1, <1>4, <2>2 DEF Told
<1>6. CASE EnterFake(a, o, c, skvoz)
  <2>1. g' = [s EXCEPT !.progress[o].fakeCodes = @ \cup {c}, !.penaltyMin = @ + 1]
    BY <1>1, <1>6 DEF EnterFake, Answer
  <2>2. Good(g', notes) /\ Stays(s, g')
    BY <1>2, <1>3, <2>1, FakeCodeGood
  <2> QED BY <1>1, <1>4, <2>2 DEF Told
<1> QED BY <1>5, <1>6

LEMMA EnterWrongGood ==
  ASSUME Good(g, notes), NEW a, NEW o, NEW c, NEW skvoz, EnterWrong(a, o, c, skvoz)
  PROVE  Good(g', notes') /\ Told(Now, g', notes)
<1>1. PICK s : s = Now
  OBVIOUS
<1>2. Good(s, notes)
  BY <1>1, NowGood
<1>3. o \in DOMAIN s.progress
  BY <1>1 DEF EnterWrong, Enterable, Target
<1>4. PICK k : k = IF s.progress[o].wrong + 1 > WrongTries THEN WrongTries ELSE s.progress[o].wrong + 1
  OBVIOUS
<1>5. PICK b : b = IF s.progress[o].wrong + 1 >= WrongTries THEN BlockTicks ELSE s.progress[o].blockLeft
  OBVIOUS
<1>6. g' = [s EXCEPT !.progress[o].wrong = k, !.progress[o].blockLeft = b] /\ notes' = notes
  <2>1. /\ g' = [s EXCEPT !.progress[o].wrong = k,
                   !.progress[o].blockLeft = IF s.progress[o].wrong + 1 >= WrongTries THEN BlockTicks ELSE @]
        /\ notes' = notes
    BY <1>1, <1>4 DEF EnterWrong, Answer
  <2>2. PICK p : p = s.progress[o]
    OBVIOUS
  <2>3. PICK q : q = [p EXCEPT !.wrong = k]
    OBVIOUS
  <2>4. q.blockLeft = p.blockLeft
    <3>1. IsRecord(p)
      BY <1>2, <1>3, <2>2 DEF Good, Shape, Records
    <3> QED BY <2>3, <3>1 DEF IsRecord, RecordFields
  <2> QED BY <1>5, <2>1, <2>2, <2>3, <2>4
<1>7. Good(g', notes) /\ Stays(s, g')
  BY <1>2, <1>3, <1>6, WrongCodeGood
<1> QED BY <1>1, <1>6, <1>7 DEF Told

\* Only what the counters and switches of the game say changes.
LEMMA SideGood ==
  ASSUME NEW s, NEW n, NEW m, Good(s, n), n \subseteq m, NEW t, t = [f \in GameFields |-> t[f]],
         t.line = s.line, t.defs = s.defs, t.issued = s.issued, t.current = s.current,
         t.pendingNext = s.pendingNext, t.finished = s.finished, t.progress = s.progress,
         {t.engineStopped, t.blocked, t.masterUsed} \subseteq BOOLEAN,
         t.breakPending \in Nat, t.breakLeft \in 0 .. BreakTicks
  PROVE  Good(t, m) /\ Stays(s, t)
<1>1. Shape(s)
  BY DEF Good
<1>2. Shape(t)
  BY <1>1 DEF Shape
<1>3. Keep(s, t)
  BY DEF Keep
<1>4. Stays(s, t)
  BY DEF Stays, Grows
<1>5. Good(s, n) /\ n \subseteq m /\ t.line = s.line /\ t.finished = s.finished
  OBVIOUS
<1>6. Good(t, m)
  BY ONLY <1>2, <1>3, <1>5, KeepGood
<1> QED BY <1>4, <1>6

LEMMA AbandonGood ==
  ASSUME Good(g, notes), Abandon PROVE Good(g', notes') /\ Told(Now, g', notes)
<1>1. PICK s : s = Now
  OBVIOUS
<1>2. Good(s, notes) /\ Shape(s)
  BY <1>1, NowGood
<1>3. PICK t : t = [s EXCEPT !.abandons = @ + 1]
  OBVIOUS
<1>4. Good(t, notes) /\ Stays(s, t) /\ t.current = s.current
  <2>1. /\ t = [f \in GameFields |-> t[f]]
        /\ t.line = s.line /\ t.defs = s.defs /\ t.issued = s.issued /\ t.current = s.current
        /\ t.pendingNext = s.pendingNext /\ t.finished = s.finished /\ t.progress = s.progress
        /\ t.engineStopped = s.engineStopped /\ t.blocked = s.blocked /\ t.masterUsed = s.masterUsed
        /\ t.breakPending = s.breakPending /\ t.breakLeft = s.breakLeft
    BY <1>2, <1>3 DEF Shape, GameFields
  <2>2. {t.engineStopped, t.blocked, t.masterUsed} \subseteq BOOLEAN
        /\ t.breakPending \in Nat /\ t.breakLeft \in 0 .. BreakTicks
    BY <1>2, <2>1 DEF Shape
  <2>3. Good(t, notes) /\ Stays(s, t)
    BY ONLY <1>2, <2>1, <2>2, SideGood
  <2> QED BY <2>1, <2>3
<1>5. g' = Advance(Complete(t, t.current)) /\ notes' = notes /\ t.current # 0
  BY <1>1, <1>3, <1>4 DEF Abandon, Answer, InHand
<1>6. Good(g', notes) /\ Told(t, g', notes)
  BY <1>4, <1>5, LeaveGood
<1>7. Told(s, g', notes)
  BY <1>4, <1>6, TwoSteps
<1> QED BY <1>1, <1>5, <1>6, <1>7

LEMMA TakeBreakGood ==
  ASSUME Good(g, notes), TakeBreak PROVE Good(g', notes') /\ Told(Now, g', notes)
<1>1. PICK s : s = Now
  OBVIOUS
<1>2. Good(s, notes) /\ Shape(s)
  BY <1>1, NowGood
<1>3. PICK t : t = [s EXCEPT !.breaks = @ + 1, !.breakPending = s.current]
  OBVIOUS
<1>4. g' = t /\ notes' = notes
  BY <1>1, <1>3 DEF TakeBreak, Answer
<1>5. /\ t = [f \in GameFields |-> t[f]]
      /\ t.line = s.line /\ t.defs = s.defs /\ t.issued = s.issued /\ t.current = s.current
      /\ t.pendingNext = s.pendingNext /\ t.finished = s.finished /\ t.progress = s.progress
      /\ t.engineStopped = s.engineStopped /\ t.blocked = s.blocked /\ t.masterUsed = s.masterUsed
      /\ t.breakPending = s.current /\ t.breakLeft = s.breakLeft
  BY <1>2, <1>3 DEF Shape, GameFields
<1>6. {t.engineStopped, t.blocked, t.masterUsed} \subseteq BOOLEAN
      /\ t.breakPending \in Nat /\ t.breakLeft \in 0 .. BreakTicks
  BY <1>2, <1>5 DEF Shape
<1>7. Good(t, notes) /\ Stays(s, t)
  BY ONLY <1>2, <1>5, <1>6, SideGood
<1> QED BY <1>1, <1>4, <1>7 DEF Told

LEMMA StopBreakGood ==
  ASSUME Good(g, notes), StopBreak PROVE Good(g', notes') /\ Told(Now, g', notes)
<1>1. PICK s : s = Now
  OBVIOUS
<1>2. Good(s, notes) /\ Shape(s)
  BY <1>1, NowGood
<1>3. PICK t : t = [s EXCEPT !.breakPending = 0, !.breakLeft = 0]
  OBVIOUS
<1>4. g' = Tick(t) /\ notes' = notes
  BY <1>1, <1>3 DEF StopBreak, Answer
<1>5. /\ t = [f \in GameFields |-> t[f]]
      /\ t.line = s.line /\ t.defs = s.defs /\ t.issued = s.issued /\ t.current = s.current
      /\ t.pendingNext = s.pendingNext /\ t.finished = s.finished /\ t.progress = s.progress
      /\ t.engineStopped = s.engineStopped /\ t.blocked = s.blocked /\ t.masterUsed = s.masterUsed
      /\ t.breakPending = 0 /\ t.breakLeft = 0
  BY <1>2, <1>3 DEF Shape, GameFields
<1>6. 0 \in 0 .. BreakTicks
  BY MockAssumption
<1>7. {t.engineStopped, t.blocked, t.masterUsed} \subseteq BOOLEAN
      /\ t.breakPending \in Nat /\ t.breakLeft \in 0 .. BreakTicks
  BY <1>2, <1>5, <1>6 DEF Shape
<1>8. Good(t, notes) /\ Stays(s, t)
  BY ONLY <1>2, <1>5, <1>7, SideGood
<1>9. Good(g', notes) /\ Told(t, g', notes)
  BY <1>4, <1>8, TickGood, AddsStays DEF Told
<1>10. Told(s, g', notes)
  BY <1>8, <1>9, TwoSteps
<1> QED BY <1>1, <1>4, <1>9, <1>10

LEMMA TakeClueGood ==
  ASSUME Good(g, notes), NEW o, NEW h, TakeClue(o, h) PROVE Good(g', notes') /\ Told(Now, g', notes)
<1>1. PICK s : s = Now
  OBVIOUS
<1>2. Good(s, notes)
  BY <1>1, NowGood
<1>3. o \in DOMAIN s.progress /\ g' = [s EXCEPT !.progress[o].hinted = @ \cup {h}] /\ notes' = notes
  BY <1>1 DEF TakeClue, Answer
<1>4. Good(g', notes) /\ Stays(s, g')
  BY <1>2, <1>3, ClueGood
<1> QED BY <1>1, <1>3, <1>4 DEF Told

\* An early hint changes two fields of the record.
LEMMA EarlyAround ==
  ASSUME NEW s, Shape(s), NEW o \in DOMAIN s.progress, NEW p, p = s.progress[o],
         NEW e, NEW k, NEW m,
         NEW r, r = [p EXCEPT !.early = e, !.limit = k],
         NEW t, t = [s EXCEPT !.progress[o].early = e, !.progress[o].limit = k, !.penaltyMin = m]
  PROVE  Around(s, o, r, t)
<1>1. PICK q : q = [p EXCEPT !.early = e]
  OBVIOUS
<1>2. r = [q EXCEPT !.limit = k]
  BY <1>1
<1>3. PICK f : f = [s.progress EXCEPT ![o] = q]
  OBVIOUS
<1>4. PICK v : v = [s EXCEPT !.progress = f]
  OBVIOUS
<1>5. v = [s EXCEPT !.progress[o].early = e]
  BY <1>1, <1>3, <1>4
<1>6. PICK h : h = [f EXCEPT ![o] = r]
  OBVIOUS
<1>7. Shape(s) /\ o \in DOMAIN s.progress
  OBVIOUS
<1>8. f[o] = q /\ h = [s.progress EXCEPT ![o] = r]
  BY ONLY <1>3, <1>6, <1>7 DEF Shape, Records
<1>9. v.progress = f
  BY ONLY <1>4, <1>7 DEF Shape, GameFields
<1>10. PICK w : w = [v EXCEPT !.progress = h]
  OBVIOUS
<1>11. w = [v EXCEPT !.progress[o].limit = k]
  BY <1>2, <1>6, <1>8, <1>9, <1>10
<1>12. t = [w EXCEPT !.penaltyMin = m]
  BY <1>5, <1>11
<1> QED BY ONLY <1>4, <1>7, <1>8, <1>10, <1>12 DEF Shape, GameFields, Around

LEMMA EarlyLimit ==
  ASSUME NEW s, Shape(s), NEW o \in DOMAIN s.progress, NEW p, p = s.progress[o],
         NEW e, NEW v, v = [s EXCEPT !.progress[o].early = e]
  PROVE  v.progress[o].limit = p.limit
<1>1. PICK q : q = [p EXCEPT !.early = e]
  OBVIOUS
<1>2. PICK f : f = [s.progress EXCEPT ![o] = q]
  OBVIOUS
<1>3. v = [s EXCEPT !.progress = f]
  BY <1>1, <1>2
<1>4. Shape(s) /\ IsRecord(p) /\ o \in DOMAIN s.progress
  BY DEF Shape, Records
<1>5. q.limit = p.limit
  BY ONLY <1>1, <1>4 DEF IsRecord, RecordFields
<1>6. f[o] = q
  BY ONLY <1>2, <1>4 DEF Shape, Records
<1>7. v.progress = f
  BY ONLY <1>3, <1>4 DEF Shape, GameFields
<1> QED BY ONLY <1>5, <1>6, <1>7

LEMMA BeforeClueGood ==
  ASSUME Good(g, notes), NEW first, BeforeClue(first)
  PROVE  /\ Good(g', notes') /\ Told(Now, g', notes) /\ g'.current = Now.current
         /\ LET p == Now.progress[Now.current]
            IN g'.progress[Now.current].early =
                 p.early \cup {IF first /\ 1 \notin p.hinted \cup p.early /\ p.age < HintTicks THEN 1 ELSE 2}
<1>1. PICK s : s = Now
  OBVIOUS
<1>2. Good(s, notes) /\ Shape(s)
  BY <1>1, NowGood
<1>3. PICK o : o = s.current
  OBVIOUS
<1>4. o \in DOMAIN s.progress
  BY <1>1, <1>2, <1>3 DEF BeforeClue, InHand, Shape
<1>5. PICK p : p = s.progress[o]
  OBVIOUS
<1>6. notes' = notes
  BY DEF BeforeClue, Answer
<1>7. IsRecord(p)
  BY <1>2, <1>4, <1>5 DEF Shape, Records
<1>8. PICK r : /\ IsRecord(r) /\ Grows(p, r) /\ Around(s, o, r, g')
               /\ r.early = p.early \cup {IF first /\ 1 \notin p.hinted \cup p.early /\ p.age < HintTicks
                                          THEN 1 ELSE 2}
  <2>1. CASE first /\ 1 \notin p.hinted \cup p.early /\ p.age < HintTicks /\ 2 \in p.early
    <3>1. PICK k : k = p.limit
      OBVIOUS
    <3>2. k \in Int
      BY <1>7, <3>1 DEF IsRecord
    <3>3. PICK r : r = [p EXCEPT !.early = p.early \cup {1}, !.limit = k]
      OBVIOUS
    <3>4. IsRecord(r) /\ Grows(p, r)
      BY <1>7, <2>1, <3>2, <3>3, FirstEarly
    <3>5. g' = [s EXCEPT !.progress[o].early = p.early \cup {1}, !.progress[o].limit = @,
                         !.penaltyMin = @ + 1]
      BY <1>1, <1>3, <1>5, <2>1 DEF BeforeClue, Answer
    <3>6. PICK v : v = [s EXCEPT !.progress[o].early = p.early \cup {1}]
      OBVIOUS
    <3>7. v.progress[o].limit = k
      BY ONLY <1>2, <1>4, <1>5, <3>1, <3>6, EarlyLimit
    <3>8. PICK m : m = s.penaltyMin + 1
      OBVIOUS
    <3>9. g' = [s EXCEPT !.progress[o].early = p.early \cup {1}, !.progress[o].limit = k,
                         !.penaltyMin = m]
      BY <1>2, <3>5, <3>6, <3>7, <3>8, ZenonT(60) DEF Shape, GameFields
    <3>10. Around(s, o, r, g')
      BY ONLY <1>2, <1>4, <1>5, <3>3, <3>9, EarlyAround
    <3>11. r.early = p.early \cup {1}
      BY ONLY <1>7, <3>3 DEF IsRecord, RecordFields
    <3> QED BY <2>1, <3>4, <3>10, <3>11
  <2>2. CASE first /\ 1 \notin p.hinted \cup p.early /\ p.age < HintTicks /\ 2 \notin p.early
    <3>1. PICK k : k = p.age + 2 * HintTicks
      OBVIOUS
    <3>2. k \in Int
      BY <1>7, <3>1, MockAssumption DEF IsRecord
    <3>3. PICK r : r = [p EXCEPT !.early = p.early \cup {1}, !.limit = k]
      OBVIOUS
    <3>4. IsRecord(r) /\ Grows(p, r)
      BY <1>7, <2>2, <3>2, <3>3, FirstEarly
    <3>5. PICK m : m = s.penaltyMin + 1
      OBVIOUS
    <3>6. g' = [s EXCEPT !.progress[o].early = p.early \cup {1}, !.progress[o].limit = k,
                         !.penaltyMin = m]
      BY <1>1, <1>3, <1>5, <2>2, <3>1, <3>5 DEF BeforeClue, Answer
    <3>7. Around(s, o, r, g')
      BY ONLY <1>2, <1>4, <1>5, <3>3, <3>6, EarlyAround
    <3>8. r.early = p.early \cup {1}
      BY ONLY <1>7, <3>3 DEF IsRecord, RecordFields
    <3> QED BY <2>2, <3>4, <3>7, <3>8
  <2>3. CASE ~(first /\ 1 \notin p.hinted \cup p.early /\ p.age < HintTicks)
    <3>1. PICK k : k = p.age + HintTicks
      OBVIOUS
    <3>2. PICK r : r = [p EXCEPT !.early = p.early \cup {2}, !.limit = k]
      OBVIOUS
    <3>3. IsRecord(r) /\ Grows(p, r)
      BY <1>7, <3>1, <3>2, SecondEarly
    <3>4. PICK m : m = s.penaltyMin + 1
      OBVIOUS
    <3>5. g' = [s EXCEPT !.progress[o].early = p.early \cup {2}, !.progress[o].limit = k,
                         !.penaltyMin = m]
      BY <1>1, <1>3, <1>5, <2>3, <3>1, <3>4 DEF BeforeClue, Answer
    <3>6. Around(s, o, r, g')
      BY ONLY <1>2, <1>4, <1>5, <3>2, <3>5, EarlyAround
    <3>7. r.early = p.early \cup {2}
      BY ONLY <1>7, <3>2 DEF IsRecord, RecordFields
    <3> QED BY <2>3, <3>3, <3>6, <3>7
  <2> QED BY <2>1, <2>2, <2>3
<1>10. Good(s, notes) /\ o \in DOMAIN s.progress /\ IsRecord(r) /\ Grows(s.progress[o], r)
  BY <1>2, <1>4, <1>5, <1>8
<1>11. Good(g', notes) /\ Stays(s, g')
  BY ONLY <1>8, <1>10, TouchGood
<1>12. g'.progress[o] = r
  BY ONLY <1>2, <1>4, <1>8, TouchShape
<1> QED BY <1>1, <1>3, <1>5, <1>6, <1>8, <1>11, <1>12 DEF Told, Around

LEMMA CompleteFacts ==
  ASSUME NEW s, Shape(s), NEW o \in DOMAIN s.progress, NEW t, t = Complete(s, o)
  PROVE  t.issued = s.issued /\ DOMAIN t.progress = DOMAIN s.progress
BY DEF Complete, Shape, GameFields, Records

LEMMA NextLevelGood ==
  ASSUME Good(g, notes), NEW o, NextLevel(o)
  PROVE  /\ Good(g', notes') /\ Told(Now, g', notes)
         /\ g'.current # Now.current => o = Now.current
<1>1. PICK s : s = Now
  OBVIOUS
<1>2. Good(s, notes)
  BY <1>1, NowGood
<1>3. PICK t : t = [s EXCEPT !.progress[o].nextRequest = TRUE]
  OBVIOUS
<1>4. /\ o \in DOMAIN s.progress /\ notes' = notes
      /\ \/ g' = t
         \/ o = t.current /\ g' = Advance(Complete(t, o))
  BY <1>1, <1>3 DEF NextLevel, Answer
<1>5. Good(t, notes) /\ Stays(s, t) /\ t.current = s.current
  BY <1>2, <1>3, <1>4, NextRequestGood
<1>6. CASE g' = t
  BY <1>1, <1>4, <1>5, <1>6 DEF Told
<1>7. CASE o = t.current /\ g' = Advance(Complete(t, o))
  <2>1. t.current # 0
    BY <1>2, <1>4, <1>7 DEF Good, Shape, Records
  <2>2. Good(g', notes) /\ Told(t, g', notes)
    BY <1>5, <1>7, <2>1, LeaveGood
  <2>3. Told(s, g', notes)
    BY ONLY <1>5, <2>2, TwoSteps
  <2> QED BY <1>1, <1>4, <1>5, <1>7, <2>2, <2>3
<1> QED BY <1>4, <1>6, <1>7

LEMMA SelectLevelGood ==
  ASSUME Good(g, notes), NEW llevel, NEW o, SelectLevel(llevel, o)
  PROVE  /\ Good(g', notes') /\ Told(Now, g', notes)
         /\ llevel = Now.current
<1>1. PICK s : s = Now
  OBVIOUS
<1>2. Good(s, notes) /\ Shape(s)
  BY <1>1, NowGood
<1>3. PICK left : left = IF s.current \in DOMAIN s.progress THEN Complete(s, s.current) ELSE s
  OBVIOUS
<1>4. /\ llevel = s.current /\ o \in MainLine(s) /\ o \notin DOMAIN s.progress
      /\ g' = IssueLevel(left, o)
      /\ notes' = IF s.current = 0 THEN notes \cup {"late choice"} ELSE notes
  BY <1>1, <1>3 DEF SelectLevel
<1>5. o \in Nat \ {0}
  BY <1>2, <1>4, PlacesCount DEF MainLine, OnLine
<1>6. Ready(left, notes') /\ Stays(s, left) /\ left.issued = s.issued
        /\ DOMAIN left.progress = DOMAIN s.progress
  <2>1. CASE s.current # 0
    <3>1. left = Complete(s, s.current) /\ s.current \in DOMAIN s.progress /\ notes' = notes
      BY <1>2, <1>3, <1>4, <2>1 DEF Shape
    <3> QED BY <1>2, <2>1, <3>1, LeaveReady, CompleteFacts
  <2>2. CASE s.current = 0
    <3>1. left = s /\ notes' = notes \cup {"late choice"}
      BY <1>2, <1>3, <1>4, <2>2 DEF Shape, Records
    <3>2. /\ "late choice" \in notes'
          /\ "steered" \notin notes' => "steered" \notin notes
          /\ notes' \cap {"steered", "levels moved"} = {} => notes \cap {"steered", "levels moved"} = {}
      BY <3>1
    <3>3. /\ "steered" \notin notes' => Issuing(s)
          /\ notes' \cap {"steered", "levels moved"} = {} => Bonuses(s)
      BY <1>2, <3>2 DEF Good
    <3>4. Ready(s, notes')
      BY <1>2, <3>2, <3>3 DEF Ready
    <3> QED BY <3>1, <3>4, StaysHere
  <2> QED BY <2>1, <2>2
<1>7. "steered" \notin notes' => o \notin Range(left.issued)
  <2>1. "steered" \notin notes' => Issuing(left)
    BY <1>6 DEF Ready
  <2> QED BY <1>4, <1>6, <2>1 DEF Issuing, Range
<1>8. Good(g', notes')
  BY <1>4, <1>5, <1>6, <1>7, IssueGood
<1>9. ASSUME notes \cap {"steered", "levels moved"} = {} PROVE Stays(s, g')
  <2>1. notes' \cap {"steered", "levels moved"} = {}
    BY <1>4, <1>9
  <2>2. Shape(left) /\ Bonuses(left) /\ o \notin DOMAIN left.progress
    BY <1>4, <1>6, <2>1 DEF Ready
  <2>3. Adds(left, g')
    BY <1>4, <1>5, <2>2, IssueAdds
  <2> QED BY <1>6, <2>3, AddsStays, StaysOn
<1> QED BY <1>1, <1>4, <1>8, <1>9 DEF Told

-----------------------------------------------------------------------------
(* Time.                                                                     *)

LEMMA AgedGrows ==
  ASSUME NEW p, IsRecord(p), NEW o, NEW x, NEW r, r = Aged(p, o = x)
  PROVE  IsRecord(r) /\ Grows(p, r)
<1>1. PICK b : b = Sub1(p.blockLeft)
  OBVIOUS
<1>2. PICK q : q = [p EXCEPT !.blockLeft = b]
  OBVIOUS
<1>3. IsRecord(p)
  OBVIOUS
<1>4. q.age = p.age
  BY ONLY <1>2, <1>3 DEF IsRecord, RecordFields
<1>5. PICK k : k = IF o = x /\ p.age <= p.limit THEN p.age + 1 ELSE p.age
  OBVIOUS
<1>6. k \in Nat /\ p.age <= k
  BY <1>3, <1>5 DEF IsRecord
<1>7. r = [q EXCEPT !.age = k]
  BY <1>1, <1>2, <1>4, <1>5 DEF Aged
<1>8. /\ r = [f \in RecordFields |-> r[f]]
      /\ r.number = p.number /\ r.done = p.done /\ r.codes = p.codes
      /\ r.bonusCodes = p.bonusCodes /\ r.spoilers = p.spoilers
      /\ r.hinted = p.hinted /\ r.early = p.early
      /\ r.age = k /\ r.limit = p.limit
  BY ONLY <1>2, <1>3, <1>7 DEF IsRecord, RecordFields
<1>9. IsRecord(p) /\ r.age \in Nat /\ r.limit \in Int /\ p.hinted \subseteq r.hinted /\ p.age <= r.age
  BY <1>3, <1>6, <1>8 DEF IsRecord
<1>10. IsRecord(r) => HintsShown(p) \subseteq HintsShown(r)
  BY ONLY <1>8, <1>9, MoreHints
<1> QED BY ONLY <1>8, <1>9, <1>10, HintRecord

LEMMA PassTimeGood ==
  ASSUME Good(g, notes), PassTime PROVE Good(g', notes') /\ Stays(g, g')
<1>1. PICK b : b = Sub1(g.breakLeft)
  OBVIOUS
<1>2. PICK f : f = [o \in DOMAIN g.progress |-> Aged(g.progress[o], o = g.current)]
  OBVIOUS
<1>3. g' = [g EXCEPT !.breakLeft = b, !.progress = f] /\ notes' = notes
  BY <1>1, <1>2 DEF PassTime
<1>4. Shape(g)
  BY DEF Good
<1>5. b \in 0 .. BreakTicks
  BY <1>1, <1>4, MockAssumption, SMTT(40) DEF Sub1, Shape
<1>6. /\ g' = [x \in GameFields |-> g'[x]]
      /\ g'.line = g.line /\ g'.defs = g.defs /\ g'.issued = g.issued /\ g'.current = g.current
      /\ g'.pendingNext = g.pendingNext /\ g'.finished = g.finished
      /\ g'.engineStopped = g.engineStopped /\ g'.blocked = g.blocked /\ g'.masterUsed = g.masterUsed
      /\ g'.breakPending = g.breakPending /\ g'.breakLeft = b /\ g'.progress = f
  BY ONLY <1>3, <1>4 DEF Shape, GameFields
<1>7. ASSUME NEW o \in DOMAIN g.progress PROVE IsRecord(f[o]) /\ Grows(g.progress[o], f[o])
  <2>1. IsRecord(g.progress[o]) /\ f[o] = Aged(g.progress[o], o = g.current)
    BY <1>2, <1>4 DEF Shape, Records
  <2> QED BY <2>1, AgedGrows
<1>8. f = [o \in DOMAIN f |-> f[o]] /\ DOMAIN f = DOMAIN g.progress
  BY <1>2
<1>9. Records(f)
  BY <1>4, <1>7, <1>8 DEF Shape, Records
<1>10. Shape(g')
  BY <1>4, <1>5, <1>6, <1>8, <1>9 DEF Shape
<1>11. Keep(g, g') /\ Stays(g, g')
  BY <1>6, <1>7, <1>8 DEF Keep, Stays, Grows
<1>12. Good(g, notes) /\ notes \subseteq notes' /\ g'.line = g.line /\ g'.finished = g.finished
  BY <1>3, <1>6
<1>13. Good(g', notes')
  BY ONLY <1>10, <1>11, <1>12, KeepGood
<1> QED BY <1>11, <1>13

-----------------------------------------------------------------------------
(* The organizer.                                                            *)

LEMMA Steered ==
  ASSUME NEW s, NEW n, Shape(s), "steered" \in n PROVE Good(s, n)
BY DEF Good

LEMMA CodesShape ==
  ASSUME NEW s, Shape(s), NEW o \in DOMAIN s.progress, NEW codes,
         NEW t, t = [s EXCEPT !.progress[o].codes = codes]
  PROVE  Shape(t) /\ Keep(s, t) /\ t.line = s.line /\ t.finished = s.finished
<1>1. PICK p : p = s.progress[o]
  OBVIOUS
<1>2. IsRecord(p) /\ Shape(s)
  BY <1>1 DEF Shape, Records
<1>3. PICK r : r = [p EXCEPT !.codes = codes]
  OBVIOUS
<1>4. IsRecord(r) /\ r.number = p.number /\ r.done = p.done
  BY <1>2, <1>3 DEF IsRecord, RecordFields
<1>5. Around(s, o, r, t)
  BY <1>1, <1>2, <1>3 DEF Shape, GameFields, Around
<1>6. /\ Shape(t)
      /\ DOMAIN t.progress = DOMAIN s.progress /\ t.progress[o] = r
      /\ \A x \in DOMAIN s.progress : x # o => t.progress[x] = s.progress[x]
  <2>1. o \in DOMAIN s.progress
    OBVIOUS
  <2> QED BY ONLY <1>2, <1>4, <1>5, <2>1, TouchShape
<1>7. Keep(s, t)
  BY <1>1, <1>4, <1>5, <1>6 DEF Keep, Around
<1> QED BY <1>5, <1>6, <1>7 DEF Around

\* Codes put into a level's record, or taken out of it.
LEMMA CodesGood ==
  ASSUME NEW s, NEW n, Good(s, n), NEW o \in DOMAIN s.progress, NEW codes,
         NEW t, t = [s EXCEPT !.progress[o].codes = codes]
  PROVE  Good(t, n)
<1>1. Shape(t) /\ Keep(s, t) /\ t.line = s.line /\ t.finished = s.finished
  <2>1. Shape(s)
    BY DEF Good
  <2>2. o \in DOMAIN s.progress /\ t = [s EXCEPT !.progress[o].codes = codes]
    OBVIOUS
  <2> QED BY ONLY <2>1, <2>2, CodesShape
<1>2. Good(s, n) /\ n \subseteq n
  OBVIOUS
<1> QED BY ONLY <1>1, <1>2, KeepGood

LEMMA AcceptsGood ==
  ASSUME Good(g, notes), NEW o, NEW c, AcceptLevel(o) \/ AcceptCode(o, c) \/ DelLevel(o)
  PROVE  Good(g', notes')
<1>1. o \in DOMAIN g.progress /\ notes' = notes
  BY DEF AcceptLevel, AcceptCode, DelLevel, Intervene
<1>2. PICK codes : g' = [g EXCEPT !.progress[o].codes = codes]
  <2>1. CASE AcceptLevel(o)
    <3>1. PICK codes : codes = g.progress[o].codes \cup At(g, o).codes
      OBVIOUS
    <3>2. g' = [g EXCEPT !.progress[o].codes = codes]
      BY <2>1, <3>1 DEF AcceptLevel, AcceptAll, Intervene
    <3> QED BY <3>2
  <2>2. CASE AcceptCode(o, c)
    <3>1. PICK codes : codes = g.progress[o].codes \cup {c}
      OBVIOUS
    <3>2. g' = [g EXCEPT !.progress[o].codes = codes]
      BY <2>2, <3>1 DEF AcceptCode, Intervene
    <3> QED BY <3>2
  <2>3. CASE DelLevel(o)
    <3>1. g' = [g EXCEPT !.progress[o].codes = {}]
      BY <2>3 DEF DelLevel, Intervene
    <3> QED BY <3>1
  <2> QED BY <2>1, <2>2, <2>3
<1>3. Good(g', notes)
  BY <1>1, <1>2, CodesGood
<1> QED BY <1>1, <1>3

LEMMA GiveLevelGood ==
  ASSUME Good(g, notes), NEW o \in Nat \ {0}, GiveLevel(o) \/ GiveAndAccept(o)
  PROVE  Good(g', notes')
<1>1. PICK t : t = IssueLevel(g, o)
  OBVIOUS
<1>2. Shape(t) /\ o \in DOMAIN t.progress
  <2>1. Shape(g)
    BY DEF Good
  <2> QED BY <1>1, <2>1, IssueFacts DEF Handed
<1>3. "steered" \in notes'
  BY DEF GiveLevel, GiveAndAccept, Intervene
<1>4. Shape(g')
  <2>1. CASE GiveLevel(o)
    BY <1>1, <1>2, <2>1 DEF GiveLevel, Intervene
  <2>2. CASE GiveAndAccept(o)
    <3>1. PICK codes : codes = t.progress[o].codes \cup At(t, o).codes
      OBVIOUS
    <3>2. g' = [t EXCEPT !.progress[o].codes = codes]
      BY <1>1, <2>2, <3>1 DEF GiveAndAccept, AcceptAll, Intervene
    <3> QED BY <1>2, <3>2, CodesShape
  <2> QED BY <2>1, <2>2
<1> QED BY <1>3, <1>4, Steered

LEMMA Shorter ==
  ASSUME NEW S, NEW q \in Seq(S), NEW i \in 1 .. Len(q) PROVE RemoveAt(q, i) \in Seq(S)
<1>1. PICK l \in Nat : l = Len(q) /\ DOMAIN q = 1 .. l /\ i \in 1 .. l
  BY LenProperties
<1>2. PICK a, b : a = SubSeq(q, 1, i - 1) /\ b = SubSeq(q, i + 1, l)
  OBVIOUS
<1>3. \A x \in 1 .. l : q[x] \in S
  BY <1>1, ElementOfSeq
<1>4. a \in Seq(S) /\ b \in Seq(S)
  BY <1>1, <1>2, <1>3
<1>5. RemoveAt(q, i) = a \o b
  BY <1>1, <1>2 DEF RemoveAt
<1> QED BY ONLY <1>4, <1>5, ConcatProperties

LEMMA Dropped ==
  ASSUME NEW q \in Seq(Nat \ {0}), NEW o PROVE DropIssued(q, o) \in Seq(Nat \ {0})
<1>1. CASE o \notin Range(q)
  BY <1>1 DEF DropIssued
<1>2. CASE o \in Range(q)
  <2>1. PICK S : S = {i \in DOMAIN q : q[i] = o}
    OBVIOUS
  <2>2. DOMAIN q = 1 .. Len(q) /\ Len(q) \in Nat
    BY LenProperties
  <2>3. S # {} /\ S \subseteq Nat
    BY <1>2, <2>1, <2>2 DEF Range
  <2>4. PICK m \in S : \A i \in S : m <= i
    BY <2>3, Least
  <2>5. m \in DOMAIN q /\ q[m] = o /\ \A j \in 1 .. m - 1 : q[j] # o
    <3>1. m \in DOMAIN q /\ q[m] = o
      BY <2>1
    <3>2. ASSUME NEW j \in 1 .. m - 1, q[j] = o PROVE FALSE
      <4>1. j \in DOMAIN q /\ m \in Nat /\ ~(m <= j)
        BY <2>2, <3>1
      <4>2. j \in S
        BY <2>1, <3>2, <4>1
      <4> QED BY <2>4, <4>1, <4>2
    <3> QED BY <3>1, <3>2
  <2>6. PICK k : k = CHOOSE i \in DOMAIN q : q[i] = o /\ \A j \in 1 .. i - 1 : q[j] # o
    OBVIOUS
  <2>7. k \in DOMAIN q
    BY <2>5, <2>6
  <2>8. DropIssued(q, o) = RemoveAt(q, k)
    BY <1>2, <2>6 DEF DropIssued
  <2> QED BY <2>2, <2>7, <2>8, Shorter
<1> QED BY <1>1, <1>2

LEMMA RemoveLevelGood ==
  ASSUME Good(g, notes), NEW o, RemoveLevel(o) \/ DelStat PROVE Good(g', notes')
<1>1. Shape(g)
  BY DEF Good
<1>2. PICK f, q, k : /\ Records(f) /\ q \in Seq(Nat \ {0}) /\ k \in Nat
                     /\ k # 0 => k \in DOMAIN f
                     /\ g' = [g EXCEPT !.progress = f, !.issued = q, !.current = k]
  <2>1. CASE RemoveLevel(o)
    <3>1. PICK f : f = Without(g.progress, o)
      OBVIOUS
    <3>2. PICK q : q = DropIssued(g.issued, o)
      OBVIOUS
    <3>3. PICK k : k = IF g.current = o THEN 0 ELSE g.current
      OBVIOUS
    <3>4. /\ f = [x \in DOMAIN f |-> f[x]] /\ DOMAIN f = DOMAIN g.progress \ {o}
          /\ \A x \in DOMAIN f : f[x] = g.progress[x]
      BY <3>1 DEF Without
    <3>5. Records(f)
      BY <1>1, <3>4 DEF Shape, Records
    <3>6. q \in Seq(Nat \ {0})
      BY <1>1, <3>2, Dropped DEF Shape
    <3>7. k \in Nat /\ (k # 0 => k \in DOMAIN f)
      BY <1>1, <3>3, <3>4 DEF Shape
    <3>8. g' = [g EXCEPT !.progress = f, !.issued = q, !.current = k]
      <4>1. g' = [g EXCEPT !.progress = f, !.issued = DropIssued(@, o),
                           !.current = IF @ = o THEN 0 ELSE @]
        BY <2>1, <3>1 DEF RemoveLevel, Intervene
      <4>2. PICK v : v = [g EXCEPT !.progress = f]
        OBVIOUS
      <4>3. v.issued = g.issued /\ v.current = g.current /\ v = [x \in GameFields |-> v[x]]
        BY <1>1, <4>2 DEF Shape, GameFields
      <4>4. g' = [v EXCEPT !.issued = DropIssued(@, o), !.current = IF @ = o THEN 0 ELSE @]
        BY <4>1, <4>2
      <4>5. PICK w : w = [v EXCEPT !.issued = q]
        OBVIOUS
      <4>6. w.current = g.current
        BY <4>3, <4>5 DEF GameFields
      <4>7. g' = [w EXCEPT !.current = IF @ = o THEN 0 ELSE @]
        BY <3>2, <4>3, <4>4, <4>5
      <4>8. g' = [w EXCEPT !.current = k]
        BY <3>3, <4>6, <4>7
      <4> QED BY <4>2, <4>5, <4>8
    <3> QED BY <3>5, <3>6, <3>7, <3>8
  <2>2. CASE DelStat
    <3>1. PICK f : f = [x \in {} |-> NewProgress(0)]
      OBVIOUS
    <3>2. g' = [g EXCEPT !.progress = f, !.issued = <<>>, !.current = 0]
      BY <2>2, <3>1 DEF DelStat, Intervene
    <3>3. f = [x \in DOMAIN f |-> f[x]] /\ DOMAIN f = {}
      BY <3>1
    <3>4. Records(f)
      BY <3>3 DEF Records
    <3>5. PICK q : q = <<>>
      OBVIOUS
    <3>6. PICK k : k = 0
      OBVIOUS
    <3>7. q \in Seq(Nat \ {0}) /\ k \in Nat /\ (k # 0 => k \in DOMAIN f)
      BY <3>5, <3>6
    <3>8. g' = [g EXCEPT !.progress = f, !.issued = q, !.current = k]
      BY <3>2, <3>5, <3>6
    <3> QED BY ONLY <3>4, <3>7, <3>8
  <2> QED BY <2>1, <2>2
<1>3. /\ g' = [x \in GameFields |-> g'[x]]
      /\ g'.line = g.line /\ g'.defs = g.defs /\ g'.issued = q /\ g'.current = k
      /\ g'.pendingNext = g.pendingNext /\ g'.finished = g.finished
      /\ g'.engineStopped = g.engineStopped /\ g'.blocked = g.blocked /\ g'.masterUsed = g.masterUsed
      /\ g'.breakPending = g.breakPending /\ g'.breakLeft = g.breakLeft /\ g'.progress = f
  BY <1>1, <1>2 DEF Shape, GameFields
<1>4. Shape(g')
  BY <1>1, <1>2, <1>3 DEF Shape
<1>5. "steered" \in notes'
  BY DEF RemoveLevel, DelStat, Intervene
<1> QED BY <1>4, <1>5, Steered

LEMMA ChTimeGood ==
  ASSUME Good(g, notes), NEW o, ChTime(o) PROVE Good(g', notes')
<1>1. PICK p : p = g.progress[o]
  OBVIOUS
<1>2. o \in DOMAIN g.progress /\ Shape(g)
  BY DEF ChTime, Good
<1>3. IsRecord(p)
  BY <1>1, <1>2 DEF Shape, Records
<1>4. PICK n \in 0 .. p.limit + 1 :
        Intervene([g EXCEPT !.progress[o].age = n,
                            !.progress[o].limit = IF p.early = {} THEN @ ELSE @ + n - p.age], {})
  BY <1>1 DEF ChTime
<1>5. PICK k : k = IF p.early = {} THEN p.limit ELSE p.limit + n - p.age
  OBVIOUS
<1>6. n \in Nat /\ k \in Int
  BY <1>3, <1>4, <1>5 DEF IsRecord
<1>7. PICK q : q = [p EXCEPT !.age = n]
  OBVIOUS
<1>8. PICK r : r = [q EXCEPT !.limit = k]
  OBVIOUS
<1>9. q.limit = p.limit /\ IsRecord(r) /\ r.number = p.number /\ r.done = p.done
  BY ONLY <1>3, <1>6, <1>7, <1>8 DEF IsRecord, RecordFields
<1>10. PICK f : f = [g.progress EXCEPT ![o] = q]
  OBVIOUS
<1>11. PICK h : h = [f EXCEPT ![o] = r]
  OBVIOUS
<1>12. f[o] = q /\ h = [g.progress EXCEPT ![o] = r]
  BY ONLY <1>2, <1>10, <1>11 DEF Shape, Records
<1>13. PICK v : v = [g EXCEPT !.progress = f]
  OBVIOUS
<1>14. v.progress = f
  BY ONLY <1>2, <1>13 DEF Shape, GameFields
<1>15. v = [g EXCEPT !.progress[o].age = n]
  BY <1>1, <1>7, <1>10, <1>13
<1>16. g' = [v EXCEPT !.progress[o].limit = IF p.early = {} THEN @ ELSE @ + n - p.age] /\ notes' = notes
  BY <1>4, <1>15 DEF Intervene
<1>17. g' = [v EXCEPT !.progress[o].limit = k]
  BY <1>5, <1>9, <1>12, <1>14, <1>16
<1>18. g' = [v EXCEPT !.progress = h]
  BY <1>8, <1>11, <1>12, <1>14, <1>17
<1>19. Around(g, o, r, g')
  BY ONLY <1>2, <1>12, <1>13, <1>18 DEF Shape, GameFields, Around
<1>20. /\ Shape(g')
       /\ DOMAIN g'.progress = DOMAIN g.progress /\ g'.progress[o] = r
       /\ \A x \in DOMAIN g.progress : x # o => g'.progress[x] = g.progress[x]
  BY ONLY <1>2, <1>9, <1>19, TouchShape
<1>21. Keep(g, g')
  BY <1>1, <1>9, <1>19, <1>20 DEF Keep, Around
<1>22. Good(g, notes) /\ notes \subseteq notes' /\ g'.line = g.line /\ g'.finished = g.finished
  BY <1>16, <1>19 DEF Around
<1> QED BY ONLY <1>20, <1>21, <1>22, KeepGood

LEMMA ListsGood ==
  ASSUME Good(g, notes), Lists PROVE Good(g', notes')
<1>1. Good(g, notes) /\ Shape(g) /\ g.line \in Seq(Level)
  BY DEF Good, Shape
<1>2. DOMAIN g.line = 1 .. Len(g.line) /\ Len(g.line) \in Nat
  BY <1>1, LenProperties
<1>3. ASSUME NEW q \in Seq(Level), g' = [g EXCEPT !.line = q]
      PROVE  /\ Shape(g') /\ Keep(g, g') /\ g'.line = q /\ g'.finished = g.finished
  <2>1. /\ g' = [x \in GameFields |-> g'[x]]
        /\ g'.line = q /\ g'.defs = g.defs /\ g'.issued = g.issued /\ g'.current = g.current
        /\ g'.pendingNext = g.pendingNext /\ g'.finished = g.finished
        /\ g'.engineStopped = g.engineStopped /\ g'.blocked = g.blocked
        /\ g'.masterUsed = g.masterUsed /\ g'.breakPending = g.breakPending
        /\ g'.breakLeft = g.breakLeft /\ g'.progress = g.progress
    BY <1>1, <1>3 DEF Shape, GameFields
  <2>2. Shape(g')
    BY <1>1, <1>3, <2>1 DEF Shape
  <2> QED BY <2>1, <2>2 DEF Keep
<1>4. CASE \E l \in Level : AddZadanie(l)
  <2>1. PICK l \in Level : AddZadanie(l)
    BY <1>4
  <2>2. PICK q : q = Append(g.line, l)
    OBVIOUS
  <2>3. q \in Seq(Level) /\ g' = [g EXCEPT !.line = q] /\ notes' = notes \cup {"level added"}
    <3>1. q \in Seq(Level)
      BY ONLY <1>1, <2>1, <2>2, AppendProperties
    <3> QED BY <2>1, <2>2, <3>1 DEF AddZadanie, Intervene
  <2>4. /\ Shape(g') /\ Keep(g, g') /\ g'.finished = g.finished /\ g'.line = Append(g.line, l)
        /\ notes \subseteq notes' /\ "level added" \in notes' /\ l \in Level
    BY <1>3, <2>2, <2>3
  <2> QED BY ONLY <1>1, <2>4, KeepGood
<1>5. ASSUME NEW q \in Seq(Level), g' = [g EXCEPT !.line = q], notes' = notes \cup {"levels moved"}
      PROVE  Good(g', notes')
  <2>1. /\ Shape(g') /\ Keep(g, g') /\ g'.finished = g.finished
        /\ notes \subseteq notes' /\ "levels moved" \in notes'
    BY <1>3, <1>5
  <2> QED BY ONLY <1>1, <2>1, KeepGood
<1>6. ASSUME NEW o \in Order, DelZadanie(o) PROVE Good(g', notes')
  <2>1. RemoveAt(g.line, o) \in Seq(Level)
    BY <1>1, <1>6, Shorter DEF Order
  <2> QED BY <1>5, <1>6, <2>1 DEF DelZadanie, Intervene
<1>7. ASSUME NEW o \in Order, MoveLevel(o) PROVE Good(g', notes')
  <2>1. PICK q : q = [g.line EXCEPT ![o] = g.line[o + 1], ![o + 1] = g.line[o]]
    OBVIOUS
  <2>2. o + 1 \in Order /\ g' = [g EXCEPT !.line = q] /\ notes' = notes \cup {"levels moved"}
    BY <1>7, <2>1 DEF MoveLevel, Intervene
  <2>3. g.line[o] \in Level /\ g.line[o + 1] \in Level
    BY <1>1, <1>2, <2>2, ElementOfSeq DEF Order
  <2>4. q \in Seq(Level)
    <3>1. PICK p : p = [g.line EXCEPT ![o] = g.line[o + 1]]
      OBVIOUS
    <3>2. o \in 1 .. Len(g.line) /\ o + 1 \in 1 .. Len(g.line)
      BY <1>7, <2>2 DEF Order
    <3>3. p \in Seq(Level) /\ Len(p) = Len(g.line)
      BY ONLY <1>1, <2>3, <3>1, <3>2, ExceptSeq
    <3>4. q = [p EXCEPT ![o + 1] = g.line[o]]
      BY <2>1, <3>1
    <3> QED BY ONLY <2>3, <3>2, <3>3, <3>4, ExceptSeq
  <2> QED BY <1>5, <2>2, <2>4
<1>8. ASSUME NEW o \in Order, NEW codes, NEW count, UpdateZadanie(o, codes, count)
      PROVE  Good(g', notes')
  <2>1. PICK l : l = g.line[o]
    OBVIOUS
  <2>2. l \in Level
    BY <1>1, <1>2, <2>1, ElementOfSeq DEF Order
  <2>3. PICK d : d = [g.defs[l] EXCEPT !.codes = codes]
    OBVIOUS
  <2>4. PICK e : e = [d EXCEPT !.codeCount = count]
    OBVIOUS
  <2>5. /\ g.defs = [x \in Level |-> g.defs[x]]
        /\ \A x \in Level : /\ g.defs[x] = [f \in DOMAIN Def0[x] |-> g.defs[x][f]]
                            /\ g.defs[x].bonus = Def0[x].bonus
    BY <1>1 DEF Shape, Levels
  <2>6. DOMAIN Def0[l] = {"codes", "bonusCodes", "fakeCodes", "spoilers", "codeCount", "bonus", "noMaster"}
    BY <2>2, MockAssumption
  <2>7. e = [f \in DOMAIN Def0[l] |-> e[f]] /\ e.bonus = Def0[l].bonus
    BY ONLY <2>2, <2>3, <2>4, <2>5, <2>6
  <2>8. PICK a : a = [g.defs EXCEPT ![l] = d]
    OBVIOUS
  <2>9. PICK b : b = [a EXCEPT ![l] = e]
    OBVIOUS
  <2>10. a[l] = d /\ b = [x \in Level |-> IF x = l THEN e ELSE g.defs[x]]
    BY ONLY <2>2, <2>5, <2>8, <2>9
  <2>11. Levels(b)
    BY ONLY <2>2, <2>5, <2>7, <2>10 DEF Levels
  <2>12. PICK v : v = [g EXCEPT !.defs = a]
    OBVIOUS
  <2>13. v.defs = a
    BY ONLY <1>1, <2>12 DEF Shape, GameFields
  <2>14. v = [g EXCEPT !.defs[l].codes = codes]
    BY <2>3, <2>8, <2>12
  <2>15. g' = [v EXCEPT !.defs[l].codeCount = count] /\ notes' = notes
    BY <1>8, <2>1, <2>14 DEF UpdateZadanie, Intervene
  <2>16. g' = [v EXCEPT !.defs = b]
    BY <2>4, <2>9, <2>10, <2>13, <2>15
  <2>17. /\ g' = [x \in GameFields |-> g'[x]]
         /\ g'.line = g.line /\ g'.defs = b /\ g'.issued = g.issued /\ g'.current = g.current
         /\ g'.pendingNext = g.pendingNext /\ g'.finished = g.finished
         /\ g'.engineStopped = g.engineStopped /\ g'.blocked = g.blocked
         /\ g'.masterUsed = g.masterUsed /\ g'.breakPending = g.breakPending
         /\ g'.breakLeft = g.breakLeft /\ g'.progress = g.progress
    BY ONLY <1>1, <2>12, <2>16 DEF Shape, GameFields
  <2>18. Shape(g')
    BY <1>1, <2>11, <2>17 DEF Shape
  <2>19. Keep(g, g')
    BY <2>17 DEF Keep
  <2>20. notes \subseteq notes' /\ g'.line = g.line /\ g'.finished = g.finished
    BY <2>15, <2>17
  <2> QED BY ONLY <1>1, <2>18, <2>19, <2>20, KeepGood
<1> QED BY <1>4, <1>6, <1>7, <1>8 DEF Lists

LEMMA SwitchesGood ==
  ASSUME Good(g, notes), Switches PROVE Good(g', notes')
<1>1. Good(g, notes) /\ Shape(g)
  BY DEF Good
<1>2. ASSUME NEW over \in BOOLEAN, UpdateGame(over) PROVE Good(g', notes')
  <2>1. g' = [g EXCEPT !.finished = over] /\ notes' = notes \cup {"end forced"}
    BY <1>2 DEF UpdateGame, Intervene
  <2>2. /\ g' = [x \in GameFields |-> g'[x]]
        /\ g'.line = g.line /\ g'.defs = g.defs /\ g'.issued = g.issued /\ g'.current = g.current
        /\ g'.pendingNext = g.pendingNext /\ g'.finished = over
        /\ g'.engineStopped = g.engineStopped /\ g'.blocked = g.blocked
        /\ g'.masterUsed = g.masterUsed /\ g'.breakPending = g.breakPending
        /\ g'.breakLeft = g.breakLeft /\ g'.progress = g.progress
    BY <1>1, <2>1 DEF Shape, GameFields
  <2>3. Shape(g')
    BY <1>1, <2>2 DEF Shape
  <2>4. Keep(g, g')
    BY <2>2 DEF Keep
  <2>5. notes \subseteq notes' /\ g'.line = g.line /\ "end forced" \in notes'
    BY <2>1, <2>2
  <2> QED BY ONLY <1>1, <2>3, <2>4, <2>5, KeepGood
<1>3. ASSUME NEW b \in BOOLEAN, NEW r \in BOOLEAN, NEW m, NEW p,
             g' = [g EXCEPT !.blocked = b, !.engineStopped = r, !.bonusMin = m, !.penaltyMin = p],
             notes \subseteq notes'
      PROVE  Good(g', notes')
  <2>1. /\ g' = [x \in GameFields |-> g'[x]]
        /\ g'.line = g.line /\ g'.defs = g.defs /\ g'.issued = g.issued /\ g'.current = g.current
        /\ g'.pendingNext = g.pendingNext /\ g'.finished = g.finished
        /\ g'.engineStopped = r /\ g'.blocked = b
        /\ g'.masterUsed = g.masterUsed /\ g'.breakPending = g.breakPending
        /\ g'.breakLeft = g.breakLeft /\ g'.progress = g.progress
    BY <1>1, <1>3 DEF Shape, GameFields
  <2>2. /\ {g'.engineStopped, g'.blocked, g'.masterUsed} \subseteq BOOLEAN
        /\ g'.breakPending \in Nat /\ g'.breakLeft \in 0 .. BreakTicks
    BY <1>1, <1>3, <2>1 DEF Shape
  <2>3. notes \subseteq notes'
    BY <1>3
  <2> QED BY ONLY <1>1, <2>1, <2>2, <2>3, SideGood
<1>4. g.blocked \in BOOLEAN /\ g.engineStopped \in BOOLEAN
  BY <1>1 DEF Shape
<1>5. ASSUME NEW b \in BOOLEAN, SetBlocked(b) PROVE Good(g', notes')
  <2>1. g' = [g EXCEPT !.blocked = b] /\ notes' = notes
    BY <1>5 DEF SetBlocked, Intervene
  <2>2. PICK r, m, p : r = g.engineStopped /\ m = g.bonusMin /\ p = g.penaltyMin
    OBVIOUS
  <2>3. g' = [g EXCEPT !.blocked = b, !.engineStopped = r, !.bonusMin = m, !.penaltyMin = p]
    BY ONLY <1>1, <2>1, <2>2 DEF Shape, GameFields
  <2>4. b \in BOOLEAN /\ r \in BOOLEAN /\ notes \subseteq notes'
    BY <1>4, <1>5, <2>1, <2>2
  <2> QED BY ONLY <1>3, <2>3, <2>4
<1>6. ASSUME SwitchRobot PROVE Good(g', notes')
  <2>1. PICK r \in BOOLEAN : r = ~g.engineStopped
    OBVIOUS
  <2>2. g' = [g EXCEPT !.engineStopped = r] /\ notes' = notes
    BY <1>6, <2>1 DEF SwitchRobot, Intervene
  <2>3. PICK b, m, p : b = g.blocked /\ m = g.bonusMin /\ p = g.penaltyMin
    OBVIOUS
  <2>4. g' = [g EXCEPT !.blocked = b, !.engineStopped = r, !.bonusMin = m, !.penaltyMin = p]
    BY ONLY <1>1, <2>2, <2>3 DEF Shape, GameFields
  <2>5. b \in BOOLEAN /\ r \in BOOLEAN /\ notes \subseteq notes'
    BY <1>4, <2>1, <2>2, <2>3
  <2> QED BY ONLY <1>3, <2>4, <2>5
<1>7. ASSUME Bonus \/ DelBonus PROVE Good(g', notes')
  <2>1. notes \subseteq notes'
    BY <1>7 DEF Bonus, DelBonus, Intervene
  <2>2. PICK m : g' = [g EXCEPT !.bonusMin = m] \/ g' = [g EXCEPT !.penaltyMin = m]
    <3>1. PICK m : m = g.bonusMin + 1
      OBVIOUS
    <3>2. PICK p : p = g.penaltyMin + 1
      OBVIOUS
    <3>3. PICK z : z = 0
      OBVIOUS
    <3>4. \/ g' = [g EXCEPT !.bonusMin = m] \/ g' = [g EXCEPT !.penaltyMin = p]
          \/ g' = [g EXCEPT !.bonusMin = z] \/ g' = [g EXCEPT !.penaltyMin = z]
      BY <1>7, <3>1, <3>2, <3>3 DEF Bonus, DelBonus, Intervene
    <3> QED BY ONLY <3>4
  <2>3. CASE g' = [g EXCEPT !.bonusMin = m]
    <3>1. g' = [g EXCEPT !.blocked = g.blocked, !.engineStopped = g.engineStopped, !.bonusMin = m,
                         !.penaltyMin = g.penaltyMin]
      BY ONLY <1>1, <2>3 DEF Shape, GameFields
    <3> QED BY <1>3, <1>4, <2>1, <3>1
  <2>4. CASE g' = [g EXCEPT !.penaltyMin = m]
    <3>1. g' = [g EXCEPT !.blocked = g.blocked, !.engineStopped = g.engineStopped,
                         !.bonusMin = g.bonusMin, !.penaltyMin = m]
      BY ONLY <1>1, <2>4 DEF Shape, GameFields
    <3> QED BY <1>3, <1>4, <2>1, <3>1
  <2> QED BY <2>2, <2>3, <2>4
<1> QED BY <1>2, <1>5, <1>6, <1>7 DEF Switches

LEMMA MonitorGood ==
  ASSUME Good(g, notes), Monitor PROVE Good(g', notes')
<1>1. ASSUME NEW o \in Order PROVE o \in Nat \ {0}
  <2>1. g.line \in Seq(Level)
    BY DEF Good, Shape
  <2>2. Len(g.line) \in Nat
    BY <2>1, LenProperties
  <2> QED BY <2>2 DEF Order
<1>2. CASE DelStat
  BY <1>2, RemoveLevelGood
<1>3. ASSUME NEW o \in Order, NEW c,
             \/ GiveLevel(o) \/ AcceptLevel(o) \/ GiveAndAccept(o) \/ DelLevel(o) \/ RemoveLevel(o)
             \/ ChTime(o) \/ AcceptCode(o, c)
      PROVE  Good(g', notes')
  BY <1>1, <1>3, GiveLevelGood, AcceptsGood, RemoveLevelGood, ChTimeGood
<1> QED BY <1>2, <1>3 DEF Monitor

-----------------------------------------------------------------------------
(* A new game.                                                               *)

LEMMA FreshGood ==
  ASSUME NEW hold PROVE Good(Fresh(hold), {})
<1>1. PICK f : f = [o \in {x \in DOMAIN Line0 : Def0[Line0[x]].bonus} |-> NewProgress(0)]
  OBVIOUS
<1>2. PICK e : e = [line |-> Line0, defs |-> Def0, hold |-> hold, finished |-> FALSE,
                    engineStopped |-> FALSE, blocked |-> FALSE, issued |-> <<>>, current |-> 0,
                    progress |-> f,
                    breaks |-> 0, abandons |-> 0, breakPending |-> 0, breakLeft |-> 0,
                    pendingNext |-> FALSE, masterUsed |-> FALSE, penaltyMin |-> 0, bonusMin |-> 0]
  OBVIOUS
<1>3. Fresh(hold) = IssueLevel(e, 1)
  BY <1>1, <1>2 DEF Fresh
<1>4. /\ e = [x \in GameFields |-> e[x]]
      /\ e.line = Line0 /\ e.defs = Def0 /\ e.finished = FALSE /\ e.engineStopped = FALSE
      /\ e.blocked = FALSE /\ e.issued = <<>> /\ e.current = 0 /\ e.progress = f
      /\ e.breakPending = 0 /\ e.breakLeft = 0 /\ e.pendingNext = FALSE /\ e.masterUsed = FALSE
  BY ONLY <1>2 DEF GameFields
<1>5. Line0 \in Seq(Level)
  BY MockAssumption
<1>6. DOMAIN Line0 = 1 .. Len(Line0) /\ Len(Line0) \in Nat
  BY <1>5, LenProperties
<1>7. /\ f = [o \in DOMAIN f |-> f[o]] /\ DOMAIN f \subseteq DOMAIN Line0
      /\ \A o \in DOMAIN f : f[o] = NewProgress(0) /\ Def0[Line0[o]].bonus
  BY <1>1
<1>8. Records(f)
  BY <1>6, <1>7, RecordNew DEF Records
<1>9. Levels(Def0)
  <2>1. Def0 = [l \in Level |-> Def0[l]]
    BY MockAssumption
  <2>2. ASSUME NEW l \in Level PROVE Def0[l] = [x \in DOMAIN Def0[l] |-> Def0[l][x]]
    BY MockAssumption
  <2> QED BY <2>1, <2>2 DEF Levels
<1>10. Shape(e)
  <2>1. BreakTicks \in Nat
    BY MockAssumption
  <2>2. e.breakPending \in Nat /\ e.breakLeft \in 0 .. BreakTicks
    BY <1>4, <2>1
  <2>3. {e.finished, e.engineStopped, e.blocked, e.pendingNext, e.masterUsed} \subseteq BOOLEAN
    BY <1>4
  <2>4. e.line \in Seq(Level) /\ e.issued \in Seq(Nat \ {0}) /\ e.current \in Nat /\ e.current = 0
    <3>1. PICK q \in Seq(Nat \ {0}) : q = <<>>
      BY EmptySeq
    <3>2. e.line = Line0 /\ e.issued = q /\ e.current = 0
      BY <1>4, <3>1
    <3> QED BY ONLY <1>5, <3>2, <3>1
  <2> QED BY <1>4, <1>8, <1>9, <2>2, <2>3, <2>4 DEF Shape
<1>11. Issuing(e) /\ Numbers(e) /\ \A i \in DOMAIN e.issued : e.progress[e.issued[i]].done
  BY <1>4 DEF Issuing, Numbers
<1>12. Bonuses(e)
  BY <1>4, <1>7 DEF Bonuses, OnLine, At
<1>13. Ready(e, {})
  BY <1>4, <1>10, <1>11, <1>12 DEF Ready
<1>14. 1 \in Nat \ {0} /\ 1 \notin Range(e.issued)
  BY <1>4 DEF Range
<1> QED BY <1>3, <1>13, <1>14, IssueGood

-----------------------------------------------------------------------------
(* Every step.                                                               *)

\* A request that was answered: what Now showed is kept.
Answered ==
  /\ Good(g', notes') /\ Told(Now, g', notes)
  /\ notes' \subseteq notes \cup {"late choice"} /\ moves' = moves
  /\ session' = session

LEMMA CodesAnswered ==
  ASSUME Good(g, notes), NEW a, Codes(a) PROVE Answered
<1>1. CASE EnterMaster(a)
  <2>1. session' = session /\ moves' = moves /\ notes' = notes
    BY <1>1 DEF EnterMaster, Answer
  <2> QED BY <1>1, <2>1, EnterMasterGood DEF Answered
<1>2. ASSUME NEW o, NEW c, NEW skvoz, EnterMain(a, o, c, skvoz) PROVE Answered
  <2>1. session' = session /\ moves' = moves /\ notes' = notes
    BY <1>2 DEF EnterMain, Answer
  <2> QED BY <1>2, <2>1, EnterMainGood DEF Answered
<1> QED BY <1>1, <1>2 DEF Codes

LEMMA ExtrasAnswered ==
  ASSUME Good(g, notes), NEW a, Extras(a) PROVE Answered
<1>1. PICK o \in Order, c \in AnyCode :
        \/ SpoilerCode(a, o, c)
        \/ \E skvoz \in BOOLEAN :
             EnterSpoiler(a, o, c, skvoz) \/ EnterBonus(a, o, c, skvoz) \/ EnterFake(a, o, c, skvoz)
  BY DEF Extras
<1>2. PICK skvoz : \/ SpoilerCode(a, o, c) \/ EnterSpoiler(a, o, c, skvoz)
                   \/ EnterBonus(a, o, c, skvoz) \/ EnterFake(a, o, c, skvoz)
  BY <1>1
<1>3. session' = session /\ moves' = moves /\ notes' = notes
  BY <1>2 DEF SpoilerCode, EnterSpoiler, EnterBonus, EnterFake, Answer
<1>4. Good(g', notes') /\ Told(Now, g', notes)
  BY <1>2, SpoilersGood, ExtraCodesGood
<1> QED BY <1>3, <1>4 DEF Answered

LEMMA FailuresAnswered ==
  ASSUME Good(g, notes), NEW a, Failures(a) \/ (\E c \in AnyCode : EnterLate(a, c)) PROVE Answered
<1>1. ASSUME NEW o, NEW c, NEW skvoz, EnterWrong(a, o, c, skvoz) PROVE Answered
  <2>1. session' = session /\ moves' = moves /\ notes' = notes
    BY <1>1 DEF EnterWrong, Answer
  <2> QED BY <1>1, <2>1, EnterWrongGood DEF Answered
<1>2. ASSUME NEW c, EnterLate(a, c) PROVE Answered
  <2>1. session' = session /\ moves' = moves /\ notes' = notes
    BY <1>2 DEF EnterLate, Answer
  <2> QED BY <1>2, <2>1, EnterLateGood DEF Answered
<1> QED BY <1>1, <1>2 DEF Failures

LEMMA HintsAnswered ==
  ASSUME Good(g, notes), NEW first, BeforeClue(first) PROVE Answered
<1>1. session' = session /\ moves' = moves /\ notes' = notes
  BY DEF BeforeClue, Answer
<1>2. Good(g', notes') /\ Told(Now, g', notes)
  BY BeforeClueGood
<1> QED BY <1>1, <1>2 DEF Answered

LEMMA CluesAnswered ==
  ASSUME Good(g, notes), Clues PROVE Answered
<1>1. PICK o, h : TakeClue(o, h)
  BY DEF Clues
<1>2. session' = session /\ moves' = moves /\ notes' = notes
  BY <1>1 DEF TakeClue, Answer
<1> QED BY <1>1, <1>2, TakeClueGood DEF Answered

LEMMA NextLevelAnswered ==
  ASSUME Good(g, notes), NEW o, NextLevel(o) PROVE Answered
<1>1. session' = session /\ moves' = moves /\ notes' = notes
  BY DEF NextLevel, Answer
<1> QED BY <1>1, NextLevelGood DEF Answered

LEMMA SelectLevelAnswered ==
  ASSUME Good(g, notes), NEW llevel, NEW o, SelectLevel(llevel, o) PROVE Answered
<1>1. session' = session /\ moves' = moves /\ notes' \subseteq notes \cup {"late choice"}
  BY DEF SelectLevel
<1> QED BY <1>1, SelectLevelGood DEF Answered

LEMMA ChoicesAnswered ==
  ASSUME Good(g, notes), Picks \/ Abandon PROVE Answered
<1>1. CASE Abandon
  <2>1. session' = session /\ moves' = moves /\ notes' = notes
    BY <1>1 DEF Abandon, Answer
  <2> QED BY <1>1, <2>1, AbandonGood DEF Answered
<1> QED BY <1>1, NextLevelAnswered, SelectLevelAnswered DEF Picks

LEMMA BreaksAnswered ==
  ASSUME Good(g, notes), TakeBreak \/ StopBreak PROVE Answered
<1>1. session' = session /\ moves' = moves /\ notes' = notes
  BY DEF TakeBreak, StopBreak, Answer
<1> QED BY <1>1, TakeBreakGood, StopBreakGood DEF Answered

LEMMA TickAnswered ==
  ASSUME Good(g, notes), Answer(Now) PROVE Answered
<1>1. session' = session /\ moves' = moves /\ notes' = notes /\ g' = Now
  BY DEF Answer
<1>2. Good(Now, notes)
  BY NowGood
<1> QED BY <1>1, <1>2, StaysHere DEF Answered, Told

\* What a step leaves behind: the organizer intervened, a new game began, or no level lost
\* what was found on it.
Followed ==
  /\ Good(g', notes')
  /\ \/ moves' = moves + 1
     \/ moves' = 0 /\ g' = Fresh(g.hold)
     \/ /\ moves' = moves /\ notes' \subseteq notes \cup {"late choice"}
        /\ Told(Now, g', notes) \/ Stays(g, g')
  /\ session' \in [Account -> {"out", "in", "down"}]

LEMMA StepFollowed ==
  ASSUME Good(g, notes), session \in [Account -> {"out", "in", "down"}], Step PROVE Followed
<1>1. ASSUME Answered PROVE Followed
  BY <1>1 DEF Answered, Followed
<1>2. ASSUME NEW a \in Account, Login(a) PROVE Followed
  <2>1. g' = g /\ notes' = notes /\ moves' = moves /\ session' = [session EXCEPT ![a] = "in"]
    BY <1>2 DEF Login
  <2> QED BY <2>1, StaysHere DEF Followed
<1>3. ASSUME NEW a \in Account, NetDown(a) PROVE Followed
  <2>1. g' = Now /\ notes' = notes /\ moves' = moves /\ session' = [session EXCEPT ![a] = "down"]
    BY <1>3 DEF NetDown
  <2>2. Good(Now, notes) /\ Told(Now, Now, notes)
    BY NowGood, StaysHere DEF Told
  <2> QED BY <2>1, <2>2 DEF Followed
<1>4. ASSUME NEW a \in Account,
             \/ Codes(a) \/ Extras(a) \/ Failures(a) \/ \E c \in AnyCode : EnterLate(a, c)
      PROVE  Answered
  BY <1>4, CodesAnswered, ExtrasAnswered, FailuresAnswered
<1>5. ASSUME Hints \/ Clues \/ Picks \/ Abandon \/ TakeBreak \/ StopBreak \/ Poll PROVE Answered
  BY <1>5, HintsAnswered, CluesAnswered, ChoicesAnswered, BreaksAnswered, TickAnswered DEF Hints, Poll
<1>6. ASSUME Reset PROVE Followed
  <2>1. /\ g' = Fresh(g.hold) /\ notes' = {} /\ moves' = 0
        /\ session' = [a \in Account |-> "out"]
    BY <1>6 DEF Reset
  <2> QED BY <2>1, FreshGood DEF Followed
<1>7. ASSUME Lists \/ Switches \/ Monitor PROVE Followed
  <2>1. moves' = moves + 1 /\ session' = session
    BY <1>7 DEF Lists, AddZadanie, DelZadanie, MoveLevel, UpdateZadanie,
                Switches, UpdateGame, SetBlocked, SwitchRobot, Bonus, DelBonus,
                Monitor, DelStat, GiveLevel, AcceptLevel, GiveAndAccept, DelLevel, RemoveLevel,
                ChTime, AcceptCode, Intervene
  <2>2. Good(g', notes')
    BY <1>7, ListsGood, SwitchesGood, MonitorGood
  <2> QED BY <2>1, <2>2 DEF Followed
<1>8. ASSUME PassTime PROVE Followed
  <2>1. /\ moves' = moves /\ notes' = notes
        /\ session' = [a \in Account |-> IF session[a] = "down" THEN "in" ELSE session[a]]
    BY <1>8 DEF PassTime
  <2>2. Good(g', notes') /\ Stays(g, g')
    BY <1>8, PassTimeGood
  <2> QED BY <2>1, <2>2 DEF Followed
<1> QED BY <1>1, <1>2, <1>3, <1>4, <1>5, <1>6, <1>7, <1>8 DEF Step

LEMMA CommandsAnswered ==
  ASSUME Good(g, notes), Commands PROVE Answered \/ UNCHANGED vars
<1>1. ASSUME NEW c, ReadPage(c) PROVE Answered
  BY <1>1, TickAnswered DEF ReadPage
<1>2. ASSUME Asks PROVE Answered
  BY <1>2, NextLevelAnswered, SelectLevelAnswered, HintsAnswered DEF Asks
<1>3. CASE AskNextLevel \/ AskSelectLevel \/ AskHintEarly
  BY <1>1, <1>3 DEF AskNextLevel, AskSelectLevel, AskHintEarly
<1>4. CASE PostForm
  BY <1>2, <1>4, TickAnswered DEF PostForm
<1>5. CASE Fails
  BY <1>5 DEF Fails
<1> QED BY <1>3, <1>4, <1>5 DEF Commands

LEMMA PlayFollowed ==
  ASSUME IInv, [PlayNext]_allVars PROVE Followed \/ UNCHANGED vars
<1>1. Good(g, notes) /\ session \in [Account -> {"out", "in", "down"}]
  BY DEF IInv
<1>2. CASE Next
  BY <1>1, <1>2, StepFollowed DEF Next
<1>3. CASE Commands /\ UNCHANGED plan
  BY <1>1, <1>3, CommandsAnswered DEF Answered, Followed
<1>4. CASE UNCHANGED allVars
  BY <1>4 DEF allVars
<1> QED BY <1>2, <1>3, <1>4 DEF PlayNext

-----------------------------------------------------------------------------
(* The commands.                                                             *)

LEMMA NoneHides == None.hidden = {} /\ None.verb = "none"
BY DEF None

LEMMA CommandFields ==
  ASSUME NEW verb, NEW level, NEW next
  PROVE  Command(verb, level, next).hidden = {}
BY DEF Command, None

LEMMA TargetFields ==
  ASSUME NEW shown
  PROVE  /\ HintTarget(shown).hidden = {1, 2} \ shown
         /\ HintTarget(shown).hint = NextHint(shown)
         /\ HintTarget(shown).verb = "hint_early"
BY DEF HintTarget, Command, None

LEMMA CommandedKept ==
  ASSUME Commanded, [PlayNext]_allVars PROVE Commanded'
<1>1. CASE UNCHANGED cmd
  BY <1>1 DEF Commanded
<1>2. ASSUME cmd'.hidden = {} PROVE Commanded'
  BY <1>2 DEF Commanded
<1>3. CASE AskNextLevel
  <2>1. cmd' = Command("next_level", LevelNumber(Now), 0)
    BY <1>3 DEF AskNextLevel, ReadPage
  <2> QED BY <1>2, <2>1, CommandFields
<1>4. CASE AskSelectLevel
  <2>1. PICK next \in Order : cmd' = Command("select_level", LevelNumber(Now), next)
    BY <1>4 DEF AskSelectLevel, ReadPage
  <2> QED BY <1>2, <2>1, CommandFields
<1>5. CASE AskHintEarly
  <2>1. PICK p : p = Now.progress[Now.current]
    OBVIOUS
  <2>2. PICK shown : shown = HintsShown(p)
    OBVIOUS
  <2>3. cmd' = HintTarget(shown) /\ NextHint(shown) # 0
    BY <1>5, <2>1, <2>2 DEF AskHintEarly, ReadPage
  <2>4. shown \subseteq {1, 2} /\ (2 \in shown => 1 \in shown)
    BY <2>2, HintsAre
  <2>5. cmd'.hidden = {1, 2} \ shown /\ cmd'.hint = NextHint(shown) /\ cmd'.verb = "hint_early"
    BY <2>3, TargetFields
  <2>6. CASE 1 \notin shown
    <3>1. NextHint(shown) = 1 /\ {1, 2} \ shown = {1, 2}
      BY <2>4, <2>6 DEF NextHint
    <3> QED BY <2>5, <3>1 DEF Commanded
  <2>7. CASE 1 \in shown
    <3>1. NextHint(shown) = 2 /\ {1, 2} \ shown = {2}
      BY <2>3, <2>4, <2>7 DEF NextHint
    <3> QED BY <2>5, <3>1 DEF Commanded
  <2> QED BY <2>6, <2>7
<1>6. CASE PostForm \/ Fails
  BY <1>2, <1>6, NoneHides DEF PostForm, Fails
<1> QED BY <1>1, <1>3, <1>4, <1>5, <1>6 DEF PlayNext, Commands, allVars

\* The hint a form asks for: the first one when it is not out, and else the second.
LEMMA HintIssued ==
  ASSUME Good(g, notes), Commanded, cmd.hidden # {},
         cmd.hidden \cap HintsShown(Now.progress[Now.current]) = {},
         BeforeClue(cmd.hint = 1)
  PROVE  \A h \in Issued(Now.current) : h \in cmd.hidden /\ \A x \in cmd.hidden : h <= x
<1>1. PICK o : o = Now.current
  OBVIOUS
<1>2. PICK p : p = Now.progress[o]
  OBVIOUS
<1>3. IsRecord(p)
  <2>1. Shape(Now)
    BY NowGood
  <2>2. o \in DOMAIN Now.progress
    BY <1>1, <2>1 DEF BeforeClue, InHand, Shape
  <2> QED BY <1>2, <2>1, <2>2 DEF Shape, Records
<1>4. PICK first : first = (cmd.hint = 1)
  OBVIOUS
<1>5. g'.progress[o].early =
        p.early \cup {IF cmd.hint = 1 /\ 1 \notin p.hinted \cup p.early /\ p.age < HintTicks THEN 1 ELSE 2}
  BY <1>1, <1>2, BeforeClueGood
<1>6. CASE cmd.hidden = {1, 2} /\ cmd.hint = 1
  <2>1. 1 \notin HintsShown(p)
    BY <1>1, <1>2, <1>6
  <2>2. ~FirstOut(p)
    BY <2>1, HintsAre
  <2>3. 1 \notin p.hinted \cup p.early /\ p.age < HintTicks
    BY <1>3, <2>2, MockAssumption DEF FirstOut, IsRecord
  <2>4. g'.progress[o].early = p.early \cup {1}
    BY <1>5, <1>6, <2>3
  <2>5. Issued(o) \subseteq {1}
    BY <1>2, <2>4 DEF Issued
  <2> QED BY <1>1, <1>6, <2>5
<1>7. CASE cmd.hidden = {2} /\ cmd.hint = 2
  <2>1. g'.progress[o].early = p.early \cup {2}
    BY <1>5, <1>7
  <2>2. Issued(o) \subseteq {2}
    BY <1>2, <2>1 DEF Issued
  <2> QED BY <1>1, <1>7, <2>2
<1> QED BY <1>6, <1>7 DEF Commanded

-----------------------------------------------------------------------------
(* The points.                                                               *)

Costly == {"bonusCodes", "fakeCodes", "spoilers", "early"}

\* Each minute stands for one thing.
Balanced(s) ==
  /\ \A w \in Costly : IsFiniteSet(Taken(s, w))
  /\ s.bonusMin = Cardinality(Taken(s, "bonusCodes"))
  /\ s.penaltyMin = Cardinality(Taken(s, "fakeCodes")) + Cardinality(Taken(s, "spoilers"))
                    + Cardinality(Taken(s, "early")) + (IF s.masterUsed THEN 1 ELSE 0)

SamePoints(s, t) ==
  t.bonusMin = s.bonusMin /\ t.penaltyMin = s.penaltyMin /\ t.masterUsed = s.masterUsed
SameTaken(s, t) == \A w \in Costly : Taken(t, w) = Taken(s, w)

\* A step that costs and earns nothing.
Free(s, t) == SamePoints(s, t) /\ SameTaken(s, t)

LEMMA FreeBalanced ==
  ASSUME NEW s, NEW t, Balanced(s), Free(s, t) PROVE Balanced(t)
BY DEF Balanced, Free, SamePoints, SameTaken, Costly

LEMMA FreeOn ==
  ASSUME NEW r, NEW s, NEW t, Free(r, s), Free(s, t) PROVE Free(r, t)
BY DEF Free, SamePoints, SameTaken

LEMMA FreeHere == ASSUME NEW s PROVE Free(s, s)
BY DEF Free, SamePoints, SameTaken

LEMMA TakenIs ==
  ASSUME NEW s, NEW w, NEW x
  PROVE  x \in Taken(s, w) <=> \E o \in DOMAIN s.progress : \E c \in s.progress[o][w] : x = <<o, c>>
BY DEF Taken

LEMMA SameRecords ==
  ASSUME NEW s, NEW t, DOMAIN s.progress \subseteq DOMAIN t.progress,
         \A o \in DOMAIN s.progress : \A w \in Costly : t.progress[o][w] = s.progress[o][w],
         \A o \in DOMAIN t.progress : o \in DOMAIN s.progress \/ \A w \in Costly : t.progress[o][w] = {}
  PROVE  SameTaken(s, t)
<1> SUFFICES ASSUME NEW w \in Costly, NEW x PROVE x \in Taken(t, w) <=> x \in Taken(s, w)
  <2>1. \A w \in Costly : \A x : x \in Taken(t, w) <=> x \in Taken(s, w)
    OBVIOUS
  <2>2. ASSUME NEW w \in Costly PROVE Taken(t, w) = Taken(s, w)
    BY <2>1 DEF Taken
  <2> QED BY <2>2 DEF SameTaken
<1> QED BY TakenIs

\* Levels that get their record have nothing in it yet.
LEMMA AddsTaken ==
  ASSUME NEW s, NEW t, Adds(s, t) PROVE SameTaken(s, t)
<1>1. \A k \in Nat : \A w \in Costly : NewProgress(k)[w] = {}
  BY DEF NewProgress, Costly
<1>2. /\ DOMAIN s.progress \subseteq DOMAIN t.progress
      /\ \A o \in DOMAIN s.progress : \A w \in Costly : t.progress[o][w] = s.progress[o][w]
  BY DEF Adds
<1>3. \A o \in DOMAIN t.progress : o \in DOMAIN s.progress \/ \A w \in Costly : t.progress[o][w] = {}
  BY <1>1 DEF Adds
<1> QED BY ONLY <1>2, <1>3, SameRecords

\* One record changes, and nothing that costs or earns.
LEMMA TouchTaken ==
  ASSUME NEW s, Shape(s), NEW o \in DOMAIN s.progress, NEW r,
         \A w \in Costly : r[w] = s.progress[o][w],
         NEW t, t.progress = [s.progress EXCEPT ![o] = r]
  PROVE  SameTaken(s, t)
<1>1. /\ DOMAIN t.progress = DOMAIN s.progress /\ t.progress[o] = r
      /\ \A x \in DOMAIN s.progress : x # o => t.progress[x] = s.progress[x]
  BY DEF Shape, Records
<1>2. \A x \in DOMAIN s.progress : \A w \in Costly : t.progress[x][w] = s.progress[x][w]
  BY <1>1
<1> QED BY ONLY <1>1, <1>2, SameRecords

\* One record gets one thing more, of the kind w.
LEMMA TouchTakes ==
  ASSUME NEW s, Shape(s), NEW o \in DOMAIN s.progress, NEW w \in Costly,
         NEW c, c \notin s.progress[o][w],
         NEW r, r[w] = s.progress[o][w] \cup {c}, \A v \in Costly \ {w} : r[v] = s.progress[o][v],
         NEW t, t.progress = [s.progress EXCEPT ![o] = r],
         IsFiniteSet(Taken(s, w))
  PROVE  /\ IsFiniteSet(Taken(t, w)) /\ Cardinality(Taken(t, w)) = Cardinality(Taken(s, w)) + 1
         /\ \A v \in Costly \ {w} : Taken(t, v) = Taken(s, v)
<1>1. /\ DOMAIN t.progress = DOMAIN s.progress /\ t.progress[o] = r
      /\ \A x \in DOMAIN s.progress : x # o => t.progress[x] = s.progress[x]
  BY DEF Shape, Records
<1>2. ASSUME NEW x PROVE x \in Taken(t, w) <=> x \in Taken(s, w) \cup {<<o, c>>}
  <2>1. ASSUME x \in Taken(t, w) PROVE x \in Taken(s, w) \cup {<<o, c>>}
    <3>1. PICK u \in DOMAIN t.progress : \E d \in t.progress[u][w] : x = <<u, d>>
      BY <2>1, TakenIs
    <3> QED BY <1>1, <3>1, TakenIs
  <2>2. ASSUME x \in Taken(s, w) PROVE x \in Taken(t, w)
    <3>1. PICK u \in DOMAIN s.progress : \E d \in s.progress[u][w] : x = <<u, d>>
      BY <2>2, TakenIs
    <3> QED BY <1>1, <3>1, TakenIs
  <2>3. <<o, c>> \in Taken(t, w)
    BY <1>1, TakenIs
  <2> QED BY <2>1, <2>2, <2>3
<1>3. Taken(t, w) = Taken(s, w) \cup {<<o, c>>}
  BY <1>2 DEF Taken
<1>4. <<o, c>> \notin Taken(s, w)
  BY TakenIs
<1>5. ASSUME NEW v \in Costly \ {w} PROVE Taken(t, v) = Taken(s, v)
  <2>1. \A u \in DOMAIN s.progress : t.progress[u][v] = s.progress[u][v]
    BY <1>1, <1>5
  <2>2. \A x : x \in Taken(t, v) <=> x \in Taken(s, v)
    BY <1>1, <2>1, TakenIs
  <2> QED BY <2>2 DEF Taken
<1>6. IsFiniteSet(Taken(t, w)) /\ Cardinality(Taken(t, w)) = Cardinality(Taken(s, w)) + 1
  BY ONLY <1>3, <1>4, IsFiniteSet(Taken(s, w)), FS_AddElement
<1> QED BY <1>5, <1>6

-----------------------------------------------------------------------------
(* The points through the clock and the levels.                              *)

PointsMove(n) == n \cap {"points set", "steered", "levels moved"} # {}

LEMMA IssuePoints ==
  ASSUME NEW s, Shape(s), NEW o PROVE SamePoints(s, IssueLevel(s, o))
<1>1. PICK f, q : IssueLevel(s, o) = [s EXCEPT !.issued = q, !.current = o, !.progress = f]
  BY DEF IssueLevel
<1> QED BY <1>1 DEF Shape, GameFields, SamePoints

LEMMA AdvancePoints ==
  ASSUME NEW s, Shape(s) PROVE SamePoints(s, Advance(s))
<1>1. PICK t : t = Advance(s)
  OBVIOUS
<1>2. \/ t = [s EXCEPT !.current = 0, !.finished = TRUE]
      \/ t = [s EXCEPT !.breakPending = 0, !.breakLeft = BreakTicks, !.pendingNext = TRUE, !.current = 0]
      \/ t = [s EXCEPT !.pendingNext = TRUE, !.current = 0]
      \/ t = IssueLevel(s, NextMainOrder(s))
  BY <1>1 DEF Advance
<1>3. Shape(s)
  OBVIOUS
<1>4. CASE t = IssueLevel(s, NextMainOrder(s))
  BY <1>1, <1>4, IssuePoints
<1>5. CASE t # IssueLevel(s, NextMainOrder(s))
  BY ONLY <1>1, <1>2, <1>3, <1>5 DEF Shape, GameFields, SamePoints
<1> QED BY <1>4, <1>5

LEMMA TickPoints ==
  ASSUME NEW s, Shape(s) PROVE SamePoints(s, Tick(s))
<1>1. CASE Tick(s) = s
  BY <1>1 DEF SamePoints
<1>2. CASE Tick(s) # s
  <2>1. PICK t : t = [s EXCEPT !.pendingNext = FALSE]
    OBVIOUS
  <2>2. Tick(s) = Advance(t)
    BY <1>2, <2>1 DEF Tick
  <2>3. SamePoints(s, t)
    BY <2>1 DEF Shape, GameFields, SamePoints
  <2>4. Shape(t)
    <3>1. /\ t = [f \in GameFields |-> t[f]]
          /\ t.line = s.line /\ t.defs = s.defs /\ t.issued = s.issued /\ t.progress = s.progress
          /\ t.engineStopped = s.engineStopped /\ t.blocked = s.blocked /\ t.masterUsed = s.masterUsed
          /\ t.current = s.current /\ t.pendingNext = FALSE /\ t.finished = s.finished
          /\ t.breakPending = s.breakPending /\ t.breakLeft = s.breakLeft
      BY <2>1 DEF Shape, GameFields
    <3> QED BY <3>1 DEF Shape
  <2>5. SamePoints(t, Advance(t))
    BY <2>4, AdvancePoints
  <2> QED BY <2>2, <2>3, <2>5 DEF SamePoints
<1> QED BY <1>1, <1>2

LEMMA TickFree ==
  ASSUME NEW s, NEW n, Good(s, n), ~PointsMove(n) PROVE Free(s, Tick(s))
<1>1. n \cap {"steered", "levels moved"} = {} /\ Shape(s)
  BY DEF PointsMove, Good
<1>2. Adds(s, Tick(s))
  BY <1>1, TickGood
<1> QED BY <1>1, <1>2, AddsTaken, TickPoints DEF Free

LEMMA CompleteFree ==
  ASSUME NEW s, Shape(s), NEW o \in DOMAIN s.progress PROVE Free(s, Complete(s, o))
<1>1. PICK p : p = s.progress[o]
  OBVIOUS
<1>2. IsRecord(p) /\ Shape(s)
  BY <1>1 DEF Shape, Records
<1>3. PICK r : r = [p EXCEPT !.done = TRUE]
  OBVIOUS
<1>4. \A w \in Costly : r[w] = p[w]
  BY <1>2, <1>3 DEF IsRecord, RecordFields, Costly
<1>5. PICK f : f = [s.progress EXCEPT ![o] = r]
  OBVIOUS
<1>6. PICK t : t = Complete(s, o)
  OBVIOUS
<1>7. t = [s EXCEPT !.progress = f]
  BY <1>1, <1>3, <1>5, <1>6 DEF Complete
<1>8. t.progress = f /\ SamePoints(s, t)
  BY ONLY <1>2, <1>7 DEF Shape, GameFields, SamePoints
<1>9. SameTaken(s, t)
  BY <1>1, <1>4, <1>5, <1>8, TouchTaken
<1> QED BY <1>6, <1>8, <1>9 DEF Free

LEMMA LeaveFree ==
  ASSUME NEW s, NEW n, Good(s, n), ~PointsMove(n), s.current # 0
  PROVE  Free(s, Advance(Complete(s, s.current)))
<1>1. PICK t : t = Complete(s, s.current)
  OBVIOUS
<1>2. Ready(t, n)
  BY <1>1, LeaveReady
<1>3. Shape(s) /\ s.current \in DOMAIN s.progress
  BY DEF Good, Shape
<1>4. Free(s, t)
  BY <1>1, <1>3, CompleteFree
<1>5. Adds(t, Advance(t)) /\ Shape(t)
  BY <1>2, AdvanceGood DEF PointsMove, Ready
<1>6. Free(t, Advance(t))
  BY <1>5, AddsTaken, AdvancePoints DEF Free
<1> QED BY <1>1, <1>4, <1>6, FreeOn

LEMMA AfterMainCodeFree ==
  ASSUME NEW s, NEW n, Good(s, n), ~PointsMove(n), NEW o \in DOMAIN s.progress,
         NEW skvoz, skvoz \/ o = s.current
  PROVE  Free(s, AfterMainCode(s, o, skvoz))
<1>1. PICK t : t = AfterMainCode(s, o, skvoz)
  OBVIOUS
<1>2. \/ t = s
      \/ t = Complete(s, o)
      \/ ~skvoz /\ t = Advance(Complete(s, o))
  BY <1>1 DEF AfterMainCode
<1>3. CASE t = s
  BY <1>1, <1>3, FreeHere
<1>4. CASE t = Complete(s, o)
  BY <1>1, <1>4, CompleteFree DEF Good
<1>5. CASE ~skvoz /\ t = Advance(Complete(s, o))
  <2>1. o = s.current /\ s.current # 0
    BY <1>5 DEF Good, Shape, Records
  <2> QED BY <1>1, <1>5, <2>1, LeaveFree
<1> QED BY <1>2, <1>3, <1>4, <1>5

LEMMA CodesFree ==
  ASSUME NEW s, Shape(s), NEW o \in DOMAIN s.progress, NEW codes,
         NEW t, t = [s EXCEPT !.progress[o].codes = codes]
  PROVE  Free(s, t)
<1>1. PICK p : p = s.progress[o] /\ IsRecord(p)
  BY DEF Shape, Records
<1>2. PICK r : r = [p EXCEPT !.codes = codes]
  OBVIOUS
<1>3. \A w \in Costly : r[w] = p[w]
  BY <1>1, <1>2 DEF IsRecord, RecordFields, Costly
<1>4. t.progress = [s.progress EXCEPT ![o] = r] /\ SamePoints(s, t)
  BY <1>1, <1>2 DEF Shape, GameFields, SamePoints
<1>5. Shape(s) /\ o \in DOMAIN s.progress
  OBVIOUS
<1>6. SameTaken(s, t)
  BY ONLY <1>1, <1>3, <1>4, <1>5, TouchTaken
<1> QED BY <1>4, <1>6 DEF Free

\* Something is taken for a minute.
LEMMA Takes ==
  ASSUME NEW s, Shape(s), Balanced(s), NEW o \in DOMAIN s.progress, NEW w \in Costly,
         NEW c, c \notin s.progress[o][w],
         NEW r, r[w] = s.progress[o][w] \cup {c}, \A v \in Costly \ {w} : r[v] = s.progress[o][v],
         NEW t, t.progress = [s.progress EXCEPT ![o] = r], t.masterUsed = s.masterUsed,
         IF w = "bonusCodes" THEN t.bonusMin = s.bonusMin + 1 /\ t.penaltyMin = s.penaltyMin
                             ELSE t.bonusMin = s.bonusMin /\ t.penaltyMin = s.penaltyMin + 1
  PROVE  Balanced(t)
<1>1. \A v \in Costly : IsFiniteSet(Taken(s, v))
  BY DEF Balanced
<1>2. IsFiniteSet(Taken(s, w))
  BY <1>1
<1>3. /\ IsFiniteSet(Taken(t, w)) /\ Cardinality(Taken(t, w)) = Cardinality(Taken(s, w)) + 1
      /\ \A v \in Costly \ {w} : Taken(t, v) = Taken(s, v)
  BY <1>2, TouchTakes
<1>4. \A v \in Costly : IsFiniteSet(Taken(t, v))
  BY <1>1, <1>3
<1>5. PICK b, f, p, e : /\ b = Cardinality(Taken(s, "bonusCodes"))
                        /\ f = Cardinality(Taken(s, "fakeCodes"))
                        /\ p = Cardinality(Taken(s, "spoilers")) /\ e = Cardinality(Taken(s, "early"))
  OBVIOUS
<1>6. b \in Nat /\ f \in Nat /\ p \in Nat /\ e \in Nat
  BY <1>1, <1>5, FS_CardinalityType DEF Costly
<1>7. PICK m : m = IF s.masterUsed THEN 1 ELSE 0
  OBVIOUS
<1>8. m \in Nat
  BY <1>7
<1>9. s.bonusMin = b /\ s.penaltyMin = f + p + e + m
  BY <1>5, <1>7 DEF Balanced
<1>10. CASE w = "bonusCodes"
  <2>1. /\ Cardinality(Taken(t, "bonusCodes")) = b + 1 /\ Cardinality(Taken(t, "fakeCodes")) = f
        /\ Cardinality(Taken(t, "spoilers")) = p /\ Cardinality(Taken(t, "early")) = e
    BY <1>3, <1>5, <1>10 DEF Costly
  <2> QED BY <1>4, <1>7, <1>9, <1>10, <2>1 DEF Balanced
<1>11. CASE w = "fakeCodes"
  <2>1. /\ Cardinality(Taken(t, "bonusCodes")) = b /\ Cardinality(Taken(t, "fakeCodes")) = f + 1
        /\ Cardinality(Taken(t, "spoilers")) = p /\ Cardinality(Taken(t, "early")) = e
    BY <1>3, <1>5, <1>11 DEF Costly
  <2>2. f + 1 + p + e + m = f + p + e + m + 1
    BY ONLY <1>6, <1>8
  <2> QED BY <1>4, <1>7, <1>9, <1>11, <2>1, <2>2 DEF Balanced
<1>12. CASE w = "spoilers"
  <2>1. /\ Cardinality(Taken(t, "bonusCodes")) = b /\ Cardinality(Taken(t, "fakeCodes")) = f
        /\ Cardinality(Taken(t, "spoilers")) = p + 1 /\ Cardinality(Taken(t, "early")) = e
    BY <1>3, <1>5, <1>12 DEF Costly
  <2>2. f + (p + 1) + e + m = f + p + e + m + 1
    BY ONLY <1>6, <1>8
  <2> QED BY <1>4, <1>7, <1>9, <1>12, <2>1, <2>2 DEF Balanced
<1>13. CASE w = "early"
  <2>1. /\ Cardinality(Taken(t, "bonusCodes")) = b /\ Cardinality(Taken(t, "fakeCodes")) = f
        /\ Cardinality(Taken(t, "spoilers")) = p /\ Cardinality(Taken(t, "early")) = e + 1
    BY <1>3, <1>5, <1>13 DEF Costly
  <2>2. f + p + (e + 1) + m = f + p + e + m + 1
    BY ONLY <1>6, <1>8
  <2> QED BY <1>4, <1>7, <1>9, <1>13, <2>1, <2>2 DEF Balanced
<1> QED BY <1>10, <1>11, <1>12, <1>13 DEF Costly

-----------------------------------------------------------------------------
(* The points through the requests.                                          *)

LEMMA NowBalanced ==
  ASSUME Good(g, notes), ~PointsMove(notes), Balanced(g)
  PROVE  Good(Now, notes) /\ Shape(Now) /\ Balanced(Now)
BY NowGood, TickFree, FreeBalanced DEF Now

LEMMA EnterMasterBalanced ==
  ASSUME Good(g, notes), ~PointsMove(notes), Balanced(g), NEW a, EnterMaster(a) PROVE Balanced(g')
<1>1. PICK s : s = Now
  OBVIOUS
<1>2. Good(s, notes) /\ Shape(s) /\ Balanced(s)
  BY <1>1, NowBalanced
<1>3. PICK o : o = s.current
  OBVIOUS
<1>4. o \in DOMAIN s.progress /\ ~s.masterUsed
  BY <1>1, <1>3 DEF EnterMaster, Target
<1>5. PICK t : /\ t = [s EXCEPT !.progress[o].masterCode = TRUE, !.masterUsed = TRUE,
                                !.penaltyMin = @ + 1]
               /\ Good(t, notes) /\ Stays(s, t) /\ t.current = s.current
  BY <1>2, <1>4, MasterCodeGood
<1>6. PICK p : p = s.progress[o]
  OBVIOUS
<1>7. PICK r : r = [p EXCEPT !.masterCode = TRUE]
  OBVIOUS
<1>8. \A w \in Costly : r[w] = p[w]
  <2>1. IsRecord(p)
    BY <1>2, <1>4, <1>6 DEF Shape, Records
  <2> QED BY <1>7, <2>1 DEF IsRecord, RecordFields, Costly
<1>9. /\ t.progress = [s.progress EXCEPT ![o] = r]
      /\ t.masterUsed = TRUE /\ t.bonusMin = s.bonusMin /\ t.penaltyMin = s.penaltyMin + 1
  BY <1>2, <1>5, <1>6, <1>7 DEF Shape, GameFields
<1>10. SameTaken(s, t)
  BY <1>2, <1>4, <1>6, <1>8, <1>9, TouchTaken
<1>11. Balanced(t)
  <2>1. PICK f, h, e : /\ f = Cardinality(Taken(s, "fakeCodes"))
                       /\ h = Cardinality(Taken(s, "spoilers")) /\ e = Cardinality(Taken(s, "early"))
    OBVIOUS
  <2>2. f \in Nat /\ h \in Nat /\ e \in Nat
    BY <1>2, <2>1, FS_CardinalityType DEF Balanced, Costly
  <2>3. s.penaltyMin = f + h + e + 0
    BY <1>2, <1>4, <2>1 DEF Balanced
  <2>4. t.penaltyMin = f + h + e + 1
    BY ONLY <1>9, <2>2, <2>3
  <2>5. \A w \in Costly : IsFiniteSet(Taken(t, w)) /\ Taken(t, w) = Taken(s, w)
    BY <1>2, <1>10 DEF Balanced, SameTaken
  <2>6. s.bonusMin = Cardinality(Taken(s, "bonusCodes"))
    BY <1>2 DEF Balanced
  <2> QED BY ONLY <1>9, <2>1, <2>4, <2>5, <2>6 DEF Balanced, Costly
<1>12. g' = AfterMainCode(t, o, FALSE)
  BY <1>1, <1>3, <1>5 DEF EnterMaster, Answer
<1>13. o \in DOMAIN t.progress /\ o = t.current
  BY <1>3, <1>4, <1>5 DEF Stays
<1>14. Free(t, g')
  BY <1>5, <1>12, <1>13, AfterMainCodeFree
<1> QED BY <1>11, <1>14, FreeBalanced

LEMMA EnterMainBalanced ==
  ASSUME Good(g, notes), ~PointsMove(notes), Balanced(g),
         NEW a, NEW o, NEW c, NEW skvoz, EnterMain(a, o, c, skvoz)
  PROVE  Balanced(g')
<1>1. PICK s : s = Now
  OBVIOUS
<1>2. Good(s, notes) /\ Shape(s) /\ Balanced(s)
  BY <1>1, NowBalanced
<1>3. PICK t : t = [s EXCEPT !.progress[o].codes = @ \cup {c}]
  OBVIOUS
<1>4. o \in DOMAIN s.progress /\ (skvoz \/ o = s.current)
  BY <1>1, TargetHasRecord DEF EnterMain, Enterable
<1>5. g' = AfterMainCode(t, o, skvoz)
  BY <1>1, <1>3 DEF EnterMain, Answer
<1>6. Good(t, notes) /\ Stays(s, t) /\ t.current = s.current
  BY <1>2, <1>3, <1>4, MainCodeGood
<1>7. PICK codes : t = [s EXCEPT !.progress[o].codes = codes]
  BY <1>3
<1>8. Free(s, t)
  BY <1>2, <1>4, <1>7, CodesFree
<1>9. Free(t, g')
  BY <1>4, <1>5, <1>6, AfterMainCodeFree DEF Stays
<1> QED BY <1>2, <1>8, <1>9, FreeBalanced

LEMMA OpenSpoilerBalanced ==
  ASSUME NEW s, Shape(s), Balanced(s), NEW o \in DOMAIN s.progress, NEW c
  PROVE  Balanced(OpenSpoiler(s, o, c))
<1>1. CASE c \in s.progress[o].spoilers
  BY <1>1 DEF OpenSpoiler
<1>2. CASE c \notin s.progress[o].spoilers
  <2>1. PICK p : p = s.progress[o]
    OBVIOUS
  <2>2. PICK r : r = [p EXCEPT !.spoilers = p.spoilers \cup {c}]
    OBVIOUS
  <2>3. /\ r.spoilers = p.spoilers \cup {c}
        /\ \A v \in Costly \ {"spoilers"} : r[v] = p[v]
    <3>1. IsRecord(p)
      BY <2>1 DEF Shape, Records
    <3> QED BY <2>2, <3>1 DEF IsRecord, RecordFields, Costly
  <2>4. PICK t : t = [s EXCEPT !.progress[o].spoilers = @ \cup {c}, !.penaltyMin = @ + 1]
    OBVIOUS
  <2>5. /\ t.progress = [s.progress EXCEPT ![o] = r] /\ t.masterUsed = s.masterUsed
        /\ t.bonusMin = s.bonusMin /\ t.penaltyMin = s.penaltyMin + 1
    BY <2>1, <2>2, <2>4 DEF Shape, GameFields
  <2>6. Balanced(t)
    <3>1. "spoilers" \in Costly /\ "spoilers" # "bonusCodes"
      BY DEF Costly
    <3> QED BY <1>2, <2>1, <2>3, <2>5, <3>1, Takes
  <2> QED BY <1>2, <2>4, <2>6 DEF OpenSpoiler
<1> QED BY <1>1, <1>2

LEMMA SpoilersBalanced ==
  ASSUME Good(g, notes), ~PointsMove(notes), Balanced(g), NEW a, NEW o, NEW c, NEW skvoz,
         EnterSpoiler(a, o, c, skvoz) \/ SpoilerCode(a, o, c)
  PROVE  Balanced(g')
<1>1. PICK s : s = Now
  OBVIOUS
<1>2. o \in DOMAIN s.progress /\ g' = OpenSpoiler(s, o, c)
  BY <1>1 DEF EnterSpoiler, SpoilerCode, Target, Answer
<1> QED BY <1>1, <1>2, NowBalanced, OpenSpoilerBalanced

LEMMA ExtraCodesBalanced ==
  ASSUME Good(g, notes), ~PointsMove(notes), Balanced(g), NEW a, NEW o, NEW c, NEW skvoz,
         EnterBonus(a, o, c, skvoz) \/ EnterFake(a, o, c, skvoz)
  PROVE  Balanced(g')
<1>1. PICK s : s = Now
  OBVIOUS
<1>2. Shape(s) /\ Balanced(s)
  BY <1>1, NowBalanced
<1>3. o \in DOMAIN s.progress
  BY <1>1 DEF EnterBonus, EnterFake, Enterable, Target
<1>4. PICK p : p = s.progress[o] /\ IsRecord(p)
  BY <1>2, <1>3 DEF Shape, Records
<1>5. PICK t : t = g'
  OBVIOUS
<1>6. CASE EnterBonus(a, o, c, skvoz)
  <2>1. t = [s EXCEPT !.progress[o].bonusCodes = @ \cup {c}, !.bonusMin = @ + 1]
    BY <1>1, <1>4, <1>5, <1>6 DEF EnterBonus, Answer
  <2>2. PICK r : r = [p EXCEPT !.bonusCodes = p.bonusCodes \cup {c}]
    OBVIOUS
  <2>3. /\ r.bonusCodes = p.bonusCodes \cup {c}
        /\ \A v \in Costly \ {"bonusCodes"} : r[v] = p[v]
    BY <1>4, <2>2 DEF IsRecord, RecordFields, Costly
  <2>4. /\ t.progress = [s.progress EXCEPT ![o] = r] /\ t.masterUsed = s.masterUsed
        /\ t.bonusMin = s.bonusMin + 1 /\ t.penaltyMin = s.penaltyMin
    BY <1>2, <1>4, <2>1, <2>2 DEF Shape, GameFields
  <2>5. "bonusCodes" \in Costly
    BY DEF Costly
  <2>6. c \notin p.bonusCodes
    BY <1>1, <1>4, <1>6 DEF EnterBonus
  <2>7. Balanced(t)
    BY ONLY <1>2, <1>3, <1>4, <2>6, <2>3, <2>4, <2>5, Takes
  <2> QED BY <1>5, <2>7
<1>7. CASE EnterFake(a, o, c, skvoz)
  <2>1. t = [s EXCEPT !.progress[o].fakeCodes = @ \cup {c}, !.penaltyMin = @ + 1]
    BY <1>1, <1>4, <1>5, <1>7 DEF EnterFake, Answer
  <2>2. PICK r : r = [p EXCEPT !.fakeCodes = p.fakeCodes \cup {c}]
    OBVIOUS
  <2>3. /\ r.fakeCodes = p.fakeCodes \cup {c}
        /\ \A v \in Costly \ {"fakeCodes"} : r[v] = p[v]
    BY <1>4, <2>2 DEF IsRecord, RecordFields, Costly
  <2>4. /\ t.progress = [s.progress EXCEPT ![o] = r] /\ t.masterUsed = s.masterUsed
        /\ t.bonusMin = s.bonusMin /\ t.penaltyMin = s.penaltyMin + 1
    BY <1>2, <1>4, <2>1, <2>2 DEF Shape, GameFields
  <2>5. "fakeCodes" \in Costly /\ "fakeCodes" # "bonusCodes"
    BY DEF Costly
  <2>6. c \notin p.fakeCodes
    BY <1>1, <1>4, <1>7 DEF EnterFake
  <2>7. Balanced(t)
    BY ONLY <1>2, <1>3, <1>4, <2>6, <2>3, <2>4, <2>5, Takes
  <2> QED BY <1>5, <2>7
<1> QED BY <1>6, <1>7

LEMMA EnterLateBalanced ==
  ASSUME Good(g, notes), ~PointsMove(notes), Balanced(g), NEW a, NEW c, EnterLate(a, c)
  PROVE  Balanced(g')
<1>1. PICK s : s = Now
  OBVIOUS
<1>2. Good(s, notes) /\ Balanced(s)
  BY <1>1, NowBalanced
<1>3. PICK past : past = Complete(s, s.current)
  OBVIOUS
<1>4. s.current # 0
  <2>1. s.current \in DOMAIN s.progress
    BY <1>1 DEF EnterLate, Target
  <2> QED BY <1>2, <2>1 DEF Good, Shape, Records
<1>5. g' = Advance(past)
  <2>1. g' = IF NextMainOrder(past) = 0 THEN [past EXCEPT !.current = 0, !.finished = TRUE]
                                        ELSE Advance(past)
    BY <1>1, <1>3 DEF EnterLate, Answer
  <2> QED BY <2>1 DEF Advance
<1> QED BY <1>2, <1>3, <1>4, <1>5, LeaveFree, FreeBalanced

\* A change of a record that costs and earns nothing.
LEMMA RecordFree ==
  ASSUME NEW s, Shape(s), NEW o \in DOMAIN s.progress, NEW p, p = s.progress[o],
         NEW r, \A w \in Costly : r[w] = p[w],
         NEW t, t.progress = [s.progress EXCEPT ![o] = r], SamePoints(s, t)
  PROVE  Free(s, t)
<1>1. SameTaken(s, t)
  BY TouchTaken
<1> QED BY <1>1 DEF Free

LEMMA EnterWrongBalanced ==
  ASSUME Good(g, notes), ~PointsMove(notes), Balanced(g),
         NEW a, NEW o, NEW c, NEW skvoz, EnterWrong(a, o, c, skvoz)
  PROVE  Balanced(g')
<1>1. PICK s : s = Now
  OBVIOUS
<1>2. Shape(s) /\ Balanced(s)
  BY <1>1, NowBalanced
<1>3. o \in DOMAIN s.progress
  BY <1>1 DEF EnterWrong, Enterable, Target
<1>4. PICK p : p = s.progress[o] /\ IsRecord(p)
  BY <1>2, <1>3 DEF Shape, Records
<1>5. PICK k : k = IF p.wrong + 1 > WrongTries THEN WrongTries ELSE p.wrong + 1
  OBVIOUS
<1>6. PICK b : b = IF p.wrong + 1 >= WrongTries THEN BlockTicks ELSE p.blockLeft
  OBVIOUS
<1>7. PICK t : t = g'
  OBVIOUS
<1>8. t = [s EXCEPT !.progress[o].wrong = k, !.progress[o].blockLeft = b]
  <2>1. t = [s EXCEPT !.progress[o].wrong = k,
               !.progress[o].blockLeft = IF p.wrong + 1 >= WrongTries THEN BlockTicks ELSE @]
    BY <1>1, <1>4, <1>5, <1>7 DEF EnterWrong, Answer
  <2>2. PICK q : q = [p EXCEPT !.wrong = k]
    OBVIOUS
  <2>3. q.blockLeft = p.blockLeft
    BY <1>4, <2>2 DEF IsRecord, RecordFields
  <2> QED BY <1>4, <1>6, <2>1, <2>2, <2>3
<1>9. PICK r : r = [p EXCEPT !.wrong = k, !.blockLeft = b]
  OBVIOUS
<1>10. \A w \in Costly : r[w] = p[w]
  BY <1>4, <1>9 DEF IsRecord, RecordFields, Costly
<1>11. t.progress = [s.progress EXCEPT ![o] = r] /\ SamePoints(s, t)
  BY ONLY <1>2, <1>3, <1>4, <1>8, <1>9 DEF Shape, GameFields, SamePoints
<1>12. Free(s, t)
  BY ONLY <1>2, <1>3, <1>4, <1>10, <1>11, RecordFree
<1> QED BY <1>2, <1>7, <1>12, FreeBalanced

LEMMA TakeClueBalanced ==
  ASSUME Good(g, notes), ~PointsMove(notes), Balanced(g), NEW o, NEW h, TakeClue(o, h)
  PROVE  Balanced(g')
<1>1. PICK s : s = Now
  OBVIOUS
<1>2. Shape(s) /\ Balanced(s)
  BY <1>1, NowBalanced
<1>3. PICK t : t = g'
  OBVIOUS
<1>4. o \in DOMAIN s.progress /\ t = [s EXCEPT !.progress[o].hinted = @ \cup {h}]
  BY <1>1, <1>3 DEF TakeClue, Answer
<1>5. PICK p : p = s.progress[o] /\ IsRecord(p)
  BY <1>2, <1>4 DEF Shape, Records
<1>6. PICK r : r = [p EXCEPT !.hinted = p.hinted \cup {h}]
  OBVIOUS
<1>7. \A w \in Costly : r[w] = p[w]
  BY <1>5, <1>6 DEF IsRecord, RecordFields, Costly
<1>8. t.progress = [s.progress EXCEPT ![o] = r] /\ SamePoints(s, t)
  BY ONLY <1>2, <1>4, <1>5, <1>6 DEF Shape, GameFields, SamePoints
<1>9. o \in DOMAIN s.progress
  BY <1>4
<1>10. Free(s, t)
  BY ONLY <1>2, <1>5, <1>7, <1>8, <1>9, RecordFree
<1> QED BY <1>2, <1>3, <1>10, FreeBalanced

LEMMA BeforeClueBalanced ==
  ASSUME Good(g, notes), ~PointsMove(notes), Balanced(g), NEW first, BeforeClue(first)
  PROVE  Balanced(g')
<1>1. PICK s : s = Now
  OBVIOUS
<1>2. Shape(s) /\ Balanced(s)
  BY <1>1, NowBalanced
<1>3. PICK o : o = s.current
  OBVIOUS
<1>4. PICK p : p = s.progress[o]
  OBVIOUS
<1>5. PICK t : t = g'
  OBVIOUS
<1>6. o \in DOMAIN s.progress
  BY <1>1, <1>2, <1>3 DEF BeforeClue, InHand, Shape
<1>7. PICK h, k : /\ h \notin p.early
                  /\ t = [s EXCEPT !.progress[o].early = p.early \cup {h}, !.progress[o].limit = k,
                                   !.penaltyMin = s.penaltyMin + 1]
  <2>1. PICK m : m = s.penaltyMin + 1
    OBVIOUS
  <2>2. CASE first /\ 1 \notin p.hinted \cup p.early /\ p.age < HintTicks /\ 2 \in p.early
    <3>1. PICK k : k = s.progress[o].limit
      OBVIOUS
    <3>2. t = [s EXCEPT !.progress[o].early = p.early \cup {1}, !.progress[o].limit = @,
                         !.penaltyMin = @ + 1]
      BY <1>1, <1>3, <1>4, <1>5, <2>2 DEF BeforeClue, Answer
    <3>3. t = [s EXCEPT !.progress[o].early = p.early \cup {1}, !.progress[o].limit = k,
                         !.penaltyMin = m]
      BY ONLY <2>1, <3>1, <3>2
    <3>4. 1 \notin p.early
      BY <2>2
    <3> WITNESS 1, k
    <3> QED BY ONLY <2>1, <3>3, <3>4
  <2>3. CASE first /\ 1 \notin p.hinted \cup p.early /\ p.age < HintTicks /\ 2 \notin p.early
    <3>1. PICK k : k = p.age + 2 * HintTicks
      OBVIOUS
    <3>2. t = [s EXCEPT !.progress[o].early = p.early \cup {1}, !.progress[o].limit = k,
                         !.penaltyMin = m]
      BY <1>1, <1>3, <1>4, <1>5, <2>1, <2>3, <3>1 DEF BeforeClue, Answer
    <3>3. 1 \notin p.early
      BY <2>3
    <3> WITNESS 1, k
    <3> QED BY ONLY <2>1, <3>2, <3>3
  <2>4. CASE ~(first /\ 1 \notin p.hinted \cup p.early /\ p.age < HintTicks)
    <3>1. PICK k : k = p.age + HintTicks
      OBVIOUS
    <3>2. t = [s EXCEPT !.progress[o].early = p.early \cup {2}, !.progress[o].limit = k,
                         !.penaltyMin = m]
      BY <1>1, <1>3, <1>4, <1>5, <2>1, <2>4, <3>1 DEF BeforeClue, Answer
    <3>3. 2 \notin p.early
      BY <1>1, <1>3, <1>4, <2>4 DEF BeforeClue
    <3> WITNESS 2, k
    <3> QED BY ONLY <2>1, <3>2, <3>3
  <2> QED BY ONLY <2>2, <2>3, <2>4
<1>8. PICK e, m : e = p.early \cup {h} /\ m = s.penaltyMin + 1
  OBVIOUS
<1>9. t = [s EXCEPT !.progress[o].early = e, !.progress[o].limit = k, !.penaltyMin = m]
  BY <1>7, <1>8
<1>10. PICK r : r = [p EXCEPT !.early = e, !.limit = k]
  OBVIOUS
<1>11. IsRecord(p)
  BY <1>2, <1>4, <1>6 DEF Shape, Records
<1>12. r.early = p.early \cup {h} /\ \A v \in Costly \ {"early"} : r[v] = p[v]
  BY ONLY <1>8, <1>10, <1>11 DEF IsRecord, RecordFields, Costly
<1>13. t.progress = [s.progress EXCEPT ![o] = r]
  <2>1. Around(s, o, r, t)
    BY ONLY <1>2, <1>4, <1>6, <1>9, <1>10, EarlyAround
  <2> QED BY ONLY <2>1 DEF Around
<1>14. /\ t.masterUsed = s.masterUsed /\ t.bonusMin = s.bonusMin
       /\ t.penaltyMin = s.penaltyMin + 1
  BY ONLY <1>2, <1>8, <1>9 DEF Shape, GameFields
<1>15. "early" \in Costly /\ "early" # "bonusCodes" /\ h \notin p.early
  BY <1>7 DEF Costly
<1>16. Balanced(t)
  BY ONLY <1>2, <1>4, <1>6, <1>12, <1>13, <1>14, <1>15, Takes
<1> QED BY <1>5, <1>16

LEMMA NextLevelBalanced ==
  ASSUME Good(g, notes), ~PointsMove(notes), Balanced(g), NEW o, NextLevel(o) PROVE Balanced(g')
<1>1. PICK s : s = Now
  OBVIOUS
<1>2. Good(s, notes) /\ Shape(s) /\ Balanced(s)
  BY <1>1, NowBalanced
<1>3. PICK t : t = [s EXCEPT !.progress[o].nextRequest = TRUE]
  OBVIOUS
<1>4. /\ o \in DOMAIN s.progress
      /\ \/ g' = t
         \/ o = t.current /\ g' = Advance(Complete(t, o))
  BY <1>1, <1>3 DEF NextLevel, Answer
<1>5. Good(t, notes) /\ Stays(s, t) /\ t.current = s.current
  BY <1>2, <1>3, <1>4, NextRequestGood
<1>6. PICK p : p = s.progress[o] /\ IsRecord(p)
  BY <1>2, <1>4 DEF Shape, Records
<1>7. PICK r : r = [p EXCEPT !.nextRequest = TRUE]
  OBVIOUS
<1>8. \A w \in Costly : r[w] = p[w]
  BY <1>6, <1>7 DEF IsRecord, RecordFields, Costly
<1>9. t.progress = [s.progress EXCEPT ![o] = r] /\ SamePoints(s, t)
  BY ONLY <1>2, <1>3, <1>6, <1>7 DEF Shape, GameFields, SamePoints
<1>10. Shape(s) /\ o \in DOMAIN s.progress
  BY <1>2, <1>4
<1>11. Free(s, t)
  BY ONLY <1>6, <1>8, <1>9, <1>10, RecordFree
<1>12. Balanced(t)
  BY <1>2, <1>11, FreeBalanced
<1>13. CASE o = t.current /\ g' = Advance(Complete(t, o))
  <2>1. t.current # 0
    BY <1>2, <1>4, <1>13 DEF Good, Shape, Records
  <2>2. Free(t, g')
    BY <1>5, <1>13, <2>1, LeaveFree
  <2> QED BY <1>12, <2>2, FreeBalanced
<1> QED BY <1>4, <1>12, <1>13

LEMMA SelectLevelBalanced ==
  ASSUME Good(g, notes), ~PointsMove(notes), Balanced(g), NEW llevel, NEW o, SelectLevel(llevel, o)
  PROVE  Balanced(g')
<1>1. PICK s : s = Now
  OBVIOUS
<1>2. Good(s, notes) /\ Shape(s) /\ Balanced(s)
  BY <1>1, NowBalanced
<1>3. PICK left : left = IF s.current \in DOMAIN s.progress THEN Complete(s, s.current) ELSE s
  OBVIOUS
<1>4. o \in MainLine(s) /\ o \notin DOMAIN s.progress /\ g' = IssueLevel(left, o)
  BY <1>1, <1>3 DEF SelectLevel
<1>5. o \in Nat \ {0}
  BY <1>2, <1>4, PlacesCount DEF MainLine, OnLine
<1>6. Balanced(left) /\ Shape(left) /\ Bonuses(left) /\ DOMAIN left.progress = DOMAIN s.progress
  <2>1. ASSUME s.current \in DOMAIN s.progress
        PROVE  /\ Free(s, Complete(s, s.current)) /\ Good(Complete(s, s.current), notes)
               /\ DOMAIN Complete(s, s.current).progress = DOMAIN s.progress
    BY <1>2, <2>1, CompleteFree, CompleteGood, CompleteFacts DEF Complete
  <2>2. Balanced(left) /\ Good(left, notes) /\ DOMAIN left.progress = DOMAIN s.progress
    BY <1>2, <1>3, <2>1, FreeBalanced
  <2> QED BY <2>2 DEF Good, PointsMove
<1>7. Adds(left, g')
  BY <1>4, <1>5, <1>6, IssueAdds
<1>8. Free(left, g')
  BY <1>4, <1>6, <1>7, AddsTaken, IssuePoints DEF Free
<1> QED BY <1>6, <1>8, FreeBalanced

\* Only the counters and switches of the game change.
LEMMA SideFree ==
  ASSUME NEW s, NEW t, t.progress = s.progress, SamePoints(s, t) PROVE Free(s, t)
BY DEF Free, SameTaken, Taken

LEMMA AbandonBalanced ==
  ASSUME Good(g, notes), ~PointsMove(notes), Balanced(g), Abandon PROVE Balanced(g')
<1>1. PICK s : s = Now
  OBVIOUS
<1>2. Good(s, notes) /\ Shape(s) /\ Balanced(s)
  BY <1>1, NowBalanced
<1>3. PICK t : t = [s EXCEPT !.abandons = @ + 1]
  OBVIOUS
<1>4. /\ t = [f \in GameFields |-> t[f]]
      /\ t.line = s.line /\ t.defs = s.defs /\ t.issued = s.issued /\ t.current = s.current
      /\ t.pendingNext = s.pendingNext /\ t.finished = s.finished /\ t.progress = s.progress
      /\ t.engineStopped = s.engineStopped /\ t.blocked = s.blocked /\ t.masterUsed = s.masterUsed
      /\ t.breakPending = s.breakPending /\ t.breakLeft = s.breakLeft /\ SamePoints(s, t)
  BY <1>2, <1>3 DEF Shape, GameFields, SamePoints
<1>5. {t.engineStopped, t.blocked, t.masterUsed} \subseteq BOOLEAN
      /\ t.breakPending \in Nat /\ t.breakLeft \in 0 .. BreakTicks
  BY <1>2, <1>4 DEF Shape
<1>6. Good(t, notes)
  BY ONLY <1>2, <1>4, <1>5, SideGood
<1>7. Balanced(t)
  BY <1>2, <1>4, SideFree, FreeBalanced
<1>8. g' = Advance(Complete(t, t.current)) /\ t.current # 0
  BY <1>1, <1>3, <1>4 DEF Abandon, Answer, InHand
<1> QED BY <1>6, <1>7, <1>8, LeaveFree, FreeBalanced

LEMMA TakeBreakBalanced ==
  ASSUME Good(g, notes), ~PointsMove(notes), Balanced(g), TakeBreak PROVE Balanced(g')
<1>1. PICK s : s = Now
  OBVIOUS
<1>2. Shape(s) /\ Balanced(s)
  BY <1>1, NowBalanced
<1>3. PICK t : t = [s EXCEPT !.breaks = @ + 1, !.breakPending = s.current]
  OBVIOUS
<1>4. g' = t
  BY <1>1, <1>3 DEF TakeBreak, Answer
<1>5. t.progress = s.progress /\ SamePoints(s, t)
  BY <1>2, <1>3 DEF Shape, GameFields, SamePoints
<1> QED BY <1>2, <1>4, <1>5, SideFree, FreeBalanced

LEMMA StopBreakBalanced ==
  ASSUME Good(g, notes), ~PointsMove(notes), Balanced(g), StopBreak PROVE Balanced(g')
<1>1. PICK s : s = Now
  OBVIOUS
<1>2. Good(s, notes) /\ Shape(s) /\ Balanced(s)
  BY <1>1, NowBalanced
<1>3. PICK t : t = [s EXCEPT !.breakPending = 0, !.breakLeft = 0]
  OBVIOUS
<1>4. /\ t = [f \in GameFields |-> t[f]]
      /\ t.line = s.line /\ t.defs = s.defs /\ t.issued = s.issued /\ t.current = s.current
      /\ t.pendingNext = s.pendingNext /\ t.finished = s.finished /\ t.progress = s.progress
      /\ t.engineStopped = s.engineStopped /\ t.blocked = s.blocked /\ t.masterUsed = s.masterUsed
      /\ t.breakPending = 0 /\ t.breakLeft = 0 /\ SamePoints(s, t)
  BY <1>2, <1>3 DEF Shape, GameFields, SamePoints
<1>5. 0 \in 0 .. BreakTicks
  BY MockAssumption
<1>6. {t.engineStopped, t.blocked, t.masterUsed} \subseteq BOOLEAN
      /\ t.breakPending \in Nat /\ t.breakLeft \in 0 .. BreakTicks
  BY <1>2, <1>4, <1>5 DEF Shape
<1>7. Good(t, notes)
  BY ONLY <1>2, <1>4, <1>6, SideGood
<1>8. Balanced(t)
  BY <1>2, <1>4, SideFree, FreeBalanced
<1>9. g' = Tick(t)
  BY <1>1, <1>3 DEF StopBreak, Answer
<1> QED BY <1>7, <1>8, <1>9, TickFree, FreeBalanced

LEMMA PassTimeBalanced ==
  ASSUME Good(g, notes), Balanced(g), PassTime PROVE Balanced(g')
<1>1. PICK b : b = Sub1(g.breakLeft)
  OBVIOUS
<1>2. PICK f : f = [o \in DOMAIN g.progress |-> Aged(g.progress[o], o = g.current)]
  OBVIOUS
<1>3. g' = [g EXCEPT !.breakLeft = b, !.progress = f]
  BY <1>1, <1>2 DEF PassTime
<1>4. Shape(g)
  BY DEF Good
<1>5. g'.progress = f /\ SamePoints(g, g')
  BY ONLY <1>3, <1>4 DEF Shape, GameFields, SamePoints
<1>6. ASSUME NEW o \in DOMAIN g.progress, NEW w \in Costly PROVE f[o][w] = g.progress[o][w]
  <2>1. PICK p : p = g.progress[o] /\ IsRecord(p)
    BY <1>4 DEF Shape, Records
  <2>2. PICK l, k : f[o] = [p EXCEPT !.blockLeft = l, !.age = k]
    <3>1. PICK l, k : /\ l = Sub1(p.blockLeft)
                      /\ k = IF o = g.current /\ p.age <= p.limit THEN p.age + 1 ELSE p.age
      OBVIOUS
    <3>2. PICK q : q = [p EXCEPT !.blockLeft = l]
      OBVIOUS
    <3>3. q.age = p.age
      BY ONLY <2>1, <3>2 DEF IsRecord, RecordFields
    <3>4. f[o] = [q EXCEPT !.age = k]
      BY <1>2, <2>1, <3>1, <3>2, <3>3 DEF Aged
    <3> QED BY <3>2, <3>4
  <2> QED BY ONLY <2>1, <2>2, w \in Costly DEF IsRecord, RecordFields, Costly
<1>7. DOMAIN f = DOMAIN g.progress
  BY <1>2
<1>8. SameTaken(g, g')
  BY ONLY <1>5, <1>6, <1>7, SameRecords
<1> QED BY <1>5, <1>8, FreeBalanced DEF Free

LEMMA FreshBalanced ==
  ASSUME NEW hold PROVE Balanced(Fresh(hold))
<1>1. PICK f : f = [o \in {x \in DOMAIN Line0 : Def0[Line0[x]].bonus} |-> NewProgress(0)]
  OBVIOUS
<1>2. PICK e : e = [line |-> Line0, defs |-> Def0, hold |-> hold, finished |-> FALSE,
                    engineStopped |-> FALSE, blocked |-> FALSE, issued |-> <<>>, current |-> 0,
                    progress |-> f,
                    breaks |-> 0, abandons |-> 0, breakPending |-> 0, breakLeft |-> 0,
                    pendingNext |-> FALSE, masterUsed |-> FALSE, penaltyMin |-> 0, bonusMin |-> 0]
  OBVIOUS
<1>3. PICK t : t = Fresh(hold)
  OBVIOUS
<1>4. t = IssueLevel(e, 1)
  BY <1>1, <1>2, <1>3 DEF Fresh
<1>5. PICK k : k = NewProgress(Len(e.issued) + 1)
  OBVIOUS
<1>6. PICK h : h = With(f, 1, k)
  OBVIOUS
<1>7. t = [e EXCEPT !.issued = Append(e.issued, 1), !.current = 1, !.progress = h]
  BY <1>2, <1>4, <1>5, <1>6 DEF IssueLevel
<1>8. t.progress = h /\ t.bonusMin = 0 /\ t.penaltyMin = 0 /\ t.masterUsed = FALSE
  BY ONLY <1>2, <1>7
<1>9. ASSUME NEW o \in DOMAIN h, NEW w \in Costly PROVE h[o][w] = {}
  BY <1>1, <1>5, <1>6 DEF With, NewProgress, Costly
<1>10. ASSUME NEW w \in Costly PROVE Taken(t, w) = {}
  BY <1>8, <1>9 DEF Taken
<1>11. IsFiniteSet({}) /\ Cardinality({}) = 0
  BY FS_EmptySet
<1>12. /\ \A w \in Costly : IsFiniteSet(Taken(t, w))
       /\ \A w \in Costly : Cardinality(Taken(t, w)) = 0
  BY <1>10, <1>11
<1>13. Balanced(t)
  BY ONLY <1>8, <1>12 DEF Balanced, Costly
<1> QED BY <1>3, <1>13

\* What the organizer does without moving points costs and earns the team nothing.
LEMMA ChTimeFree ==
  ASSUME Good(g, notes), NEW o, ChTime(o) PROVE Free(g, g')
<1>1. PICK p : p = g.progress[o]
  OBVIOUS
<1>2. o \in DOMAIN g.progress /\ Shape(g)
  BY DEF ChTime, Good
<1>3. IsRecord(p)
  BY <1>1, <1>2 DEF Shape, Records
<1>4. PICK n : g' = [g EXCEPT !.progress[o].age = n,
                              !.progress[o].limit = IF p.early = {} THEN @ ELSE @ + n - p.age]
  BY <1>1 DEF ChTime, Intervene
<1>5. PICK k : k = IF p.early = {} THEN p.limit ELSE p.limit + n - p.age
  OBVIOUS
<1>6. PICK q : q = [p EXCEPT !.age = n]
  OBVIOUS
<1>7. PICK r : r = [q EXCEPT !.limit = k]
  OBVIOUS
<1>8. q.limit = p.limit /\ \A w \in Costly : r[w] = p[w]
  BY ONLY <1>3, <1>6, <1>7 DEF IsRecord, RecordFields, Costly
<1>9. PICK f : f = [g.progress EXCEPT ![o] = q]
  OBVIOUS
<1>10. PICK h : h = [f EXCEPT ![o] = r]
  OBVIOUS
<1>11. f[o] = q /\ h = [g.progress EXCEPT ![o] = r]
  BY ONLY <1>2, <1>9, <1>10 DEF Shape, Records
<1>12. PICK v : v = [g EXCEPT !.progress = f]
  OBVIOUS
<1>13. v.progress = f
  BY ONLY <1>2, <1>12 DEF Shape, GameFields
<1>14. v = [g EXCEPT !.progress[o].age = n]
  BY <1>1, <1>6, <1>9, <1>12
<1>15. g' = [v EXCEPT !.progress[o].limit = IF p.early = {} THEN @ ELSE @ + n - p.age]
  BY <1>4, <1>14
<1>16. g' = [v EXCEPT !.progress[o].limit = k]
  BY <1>5, <1>8, <1>11, <1>13, <1>15
<1>17. g' = [v EXCEPT !.progress = h]
  BY <1>7, <1>10, <1>11, <1>13, <1>16
<1>18. g'.progress = h /\ SamePoints(g, g')
  BY ONLY <1>2, <1>12, <1>17 DEF Shape, GameFields, SamePoints
<1>19. g'.progress = [g.progress EXCEPT ![o] = r]
  BY <1>11, <1>18
<1> QED BY ONLY <1>1, <1>2, <1>8, <1>18, <1>19, RecordFree

LEMMA MonitorBalanced ==
  ASSUME Good(g, notes), Balanced(g), ~PointsMove(notes'), Monitor PROVE Balanced(g')
<1>1. Shape(g)
  BY DEF Good
<1>2. PICK o, c : AcceptLevel(o) \/ DelLevel(o) \/ AcceptCode(o, c) \/ ChTime(o)
  <2>1. ASSUME "steered" \in notes' PROVE FALSE
    BY <2>1 DEF PointsMove
  <2>2. ~DelStat /\ \A o : ~GiveLevel(o) /\ ~GiveAndAccept(o) /\ ~RemoveLevel(o)
    BY <2>1 DEF DelStat, GiveLevel, GiveAndAccept, RemoveLevel, Intervene
  <2> QED BY <2>2 DEF Monitor
<1>3. ASSUME NEW codes, o \in DOMAIN g.progress, g' = [g EXCEPT !.progress[o].codes = codes]
      PROVE  Balanced(g')
  <2>1. Free(g, g')
    BY <1>1, <1>3, CodesFree
  <2> QED BY <2>1, FreeBalanced
<1>4. CASE AcceptLevel(o)
  <2>1. PICK codes : codes = g.progress[o].codes \cup At(g, o).codes
    OBVIOUS
  <2>2. o \in DOMAIN g.progress /\ g' = [g EXCEPT !.progress[o].codes = codes]
    BY <1>4, <2>1 DEF AcceptLevel, AcceptAll, Intervene
  <2> QED BY ONLY <1>3, <2>2
<1>5. CASE DelLevel(o)
  <2>1. o \in DOMAIN g.progress /\ g' = [g EXCEPT !.progress[o].codes = {}]
    BY <1>5 DEF DelLevel, Intervene
  <2> QED BY ONLY <1>3, <2>1
<1>6. CASE AcceptCode(o, c)
  <2>1. PICK codes : codes = g.progress[o].codes \cup {c}
    OBVIOUS
  <2>2. o \in DOMAIN g.progress /\ g' = [g EXCEPT !.progress[o].codes = codes]
    BY <1>6, <2>1 DEF AcceptCode, Intervene
  <2> QED BY ONLY <1>3, <2>2
<1>7. CASE ChTime(o)
  BY <1>7, ChTimeFree, FreeBalanced
<1> QED BY <1>2, <1>4, <1>5, <1>6, <1>7

LEMMA ListsBalanced ==
  ASSUME Good(g, notes), Balanced(g), ~PointsMove(notes'), Lists PROVE Balanced(g')
<1>1. Shape(g)
  BY DEF Good
<1>2. ASSUME "levels moved" \in notes' PROVE FALSE
  BY <1>2 DEF PointsMove
<1>3. ~\E o : DelZadanie(o) \/ MoveLevel(o)
  BY <1>2 DEF DelZadanie, MoveLevel, Intervene
<1>4. ASSUME NEW l, AddZadanie(l) PROVE Balanced(g')
  <2>1. g' = [g EXCEPT !.line = Append(g.line, l)]
    BY <1>4 DEF AddZadanie, Intervene
  <2>2. g'.progress = g.progress /\ SamePoints(g, g')
    BY ONLY <1>1, <2>1 DEF Shape, GameFields, SamePoints
  <2> QED BY <2>2, SideFree, FreeBalanced
<1>5. ASSUME NEW o, NEW codes, NEW count, UpdateZadanie(o, codes, count) PROVE Balanced(g')
  <2>1. PICK l : l = g.line[o]
    OBVIOUS
  <2>2. g' = [g EXCEPT !.defs[l].codes = codes, !.defs[l].codeCount = count]
    BY <1>5, <2>1 DEF UpdateZadanie, Intervene
  <2>3. g'.progress = g.progress /\ SamePoints(g, g')
    BY ONLY <1>1, <2>2 DEF Shape, GameFields, SamePoints
  <2> QED BY <2>3, SideFree, FreeBalanced
<1> QED BY <1>3, <1>4, <1>5 DEF Lists

LEMMA SwitchesBalanced ==
  ASSUME Good(g, notes), Balanced(g), ~PointsMove(notes'), Switches PROVE Balanced(g')
<1>1. Shape(g)
  BY DEF Good
<1>2. ~Bonus /\ ~DelBonus
  <2>1. ASSUME "points set" \in notes' PROVE FALSE
    BY <2>1 DEF PointsMove
  <2> QED BY <2>1 DEF Bonus, DelBonus, Intervene
<1>3. PICK b : \/ g' = [g EXCEPT !.finished = b] \/ g' = [g EXCEPT !.blocked = b]
               \/ g' = [g EXCEPT !.engineStopped = b]
  <2>1. PICK r : r = ~g.engineStopped
    OBVIOUS
  <2>2. CASE SwitchRobot
    <3>1. g' = [g EXCEPT !.engineStopped = r]
      BY <2>1, <2>2 DEF SwitchRobot, Intervene
    <3> QED BY ONLY <3>1
  <2>3. CASE \E x \in BOOLEAN : UpdateGame(x) \/ SetBlocked(x)
    <3>1. PICK x : g' = [g EXCEPT !.finished = x] \/ g' = [g EXCEPT !.blocked = x]
      BY <2>3 DEF UpdateGame, SetBlocked, Intervene
    <3> QED BY ONLY <3>1
  <2> QED BY <1>2, <2>2, <2>3 DEF Switches
<1>4. g'.progress = g.progress /\ SamePoints(g, g')
  BY ONLY <1>1, <1>3 DEF Shape, GameFields, SamePoints
<1> QED BY <1>4, SideFree, FreeBalanced

\* As long as nothing moves the points, they balance.
Ledger == ~PointsMove(notes) => Balanced(g)

LEMMA NotesStay ==
  ASSUME Step, ~Reset PROVE notes \subseteq notes'
<1>1. ASSUME Lists \/ Switches \/ Monitor PROVE notes \subseteq notes'
  BY <1>1 DEF Lists, AddZadanie, DelZadanie, MoveLevel, UpdateZadanie,
              Switches, UpdateGame, SetBlocked, SwitchRobot, Bonus, DelBonus,
              Monitor, DelStat, GiveLevel, AcceptLevel, GiveAndAccept, DelLevel, RemoveLevel,
              ChTime, AcceptCode, Intervene
<1>2. ASSUME NEW a, Login(a) \/ NetDown(a) \/ Codes(a) PROVE notes' = notes
  BY <1>2 DEF Login, NetDown, Codes, EnterMaster, EnterMain, Answer
<1>3. ASSUME NEW a, Extras(a) PROVE notes' = notes
  BY <1>3 DEF Extras, SpoilerCode, EnterSpoiler, EnterBonus, EnterFake, Answer
<1>4. ASSUME NEW a, Failures(a) \/ (\E c \in AnyCode : EnterLate(a, c)) PROVE notes' = notes
  BY <1>4 DEF Failures, EnterWrong, EnterLate, Answer
<1>5. ASSUME Hints \/ Clues \/ Poll \/ Abandon \/ TakeBreak \/ StopBreak \/ PassTime PROVE notes' = notes
  BY <1>5 DEF Hints, BeforeClue, Clues, TakeClue, Poll, Abandon, TakeBreak, StopBreak, PassTime, Answer
<1>6. ASSUME NEW o, NextLevel(o) PROVE notes' = notes
  BY <1>6 DEF NextLevel, Answer
<1>7. ASSUME NEW o, NEW llevel, SelectLevel(llevel, o) PROVE notes \subseteq notes'
  BY <1>7 DEF SelectLevel
<1> QED BY <1>1, <1>2, <1>3, <1>4, <1>5, <1>6, <1>7 DEF Step, Picks

LEMMA StepBalanced ==
  ASSUME Good(g, notes), Ledger, Step, ~PointsMove(notes') PROVE Balanced(g')
<1>1. ASSUME Lists \/ Switches \/ Monitor, ~Reset PROVE Balanced(g')
  <2>1. notes \subseteq notes'
    BY <1>1, NotesStay
  <2>2. Balanced(g)
    BY <2>1 DEF Ledger, PointsMove
  <2> QED BY <1>1, <2>2, ListsBalanced, SwitchesBalanced, MonitorBalanced
<1>2. ASSUME Reset PROVE Balanced(g')
  BY <1>2, FreshBalanced DEF Reset
<1>3. CASE ~(Lists \/ Switches \/ Monitor \/ Reset)
  <2>1. notes \subseteq notes'
    BY <1>3, NotesStay
  <2>2. ~PointsMove(notes) /\ Balanced(g)
    BY <2>1 DEF Ledger, PointsMove
  <2>3. ASSUME g' = Now PROVE Balanced(g')
    BY <2>2, <2>3, NowBalanced
  <2>4. ASSUME NEW a, Login(a) \/ NetDown(a) \/ Poll PROVE Balanced(g')
    <3>1. g' = g \/ g' = Now
      BY <2>4 DEF Login, NetDown, Poll, Answer
    <3> QED BY <2>2, <2>3, <3>1
  <2>5. ASSUME NEW a, Codes(a) PROVE Balanced(g')
    BY <2>2, <2>5, EnterMasterBalanced, EnterMainBalanced DEF Codes
  <2>6. ASSUME NEW a, Extras(a) PROVE Balanced(g')
    BY <2>2, <2>6, SpoilersBalanced, ExtraCodesBalanced DEF Extras
  <2>7. ASSUME NEW a, Failures(a) \/ (\E c \in AnyCode : EnterLate(a, c)) PROVE Balanced(g')
    BY <2>2, <2>7, EnterWrongBalanced, EnterLateBalanced DEF Failures
  <2>8. ASSUME Hints \/ Clues PROVE Balanced(g')
    BY <2>2, <2>8, BeforeClueBalanced, TakeClueBalanced DEF Hints, Clues
  <2>9. ASSUME Picks \/ Abandon PROVE Balanced(g')
    BY <2>2, <2>9, NextLevelBalanced, SelectLevelBalanced, AbandonBalanced DEF Picks
  <2>10. ASSUME TakeBreak \/ StopBreak \/ PassTime PROVE Balanced(g')
    BY <2>2, <2>10, TakeBreakBalanced, StopBreakBalanced, PassTimeBalanced
  <2> QED BY <1>3, <2>4, <2>5, <2>6, <2>7, <2>8, <2>9, <2>10 DEF Step
<1> QED BY <1>1, <1>2, <1>3

LEMMA CommandsBalanced ==
  ASSUME Good(g, notes), Ledger, Commands, ~PointsMove(notes') PROVE Balanced(g')
<1>1. notes \subseteq notes'
  BY DEF Commands, AskNextLevel, AskSelectLevel, AskHintEarly, ReadPage, PostForm, Asks, Fails,
         NextLevel, SelectLevel, BeforeClue, Answer, vars
<1>2. ~PointsMove(notes) /\ Balanced(g)
  BY <1>1 DEF Ledger, PointsMove
<1>3. ASSUME g' = Now PROVE Balanced(g')
  BY <1>2, <1>3, NowBalanced
<1>4. ASSUME Asks PROVE Balanced(g')
  BY <1>2, <1>4, NextLevelBalanced, SelectLevelBalanced, BeforeClueBalanced DEF Asks
<1>5. Asks \/ g' = Now \/ g' = g
  BY DEF Commands, AskNextLevel, AskSelectLevel, AskHintEarly, ReadPage, PostForm, Fails, Answer, vars
<1> QED BY <1>2, <1>3, <1>4, <1>5

-----------------------------------------------------------------------------
(* The theorems.                                                             *)

(* Every reachable state is good: what the players ask for, in any order and *)
(* however often, what the organizer does to the game, a reset, the clock    *)
(* and the captain's commands leave the invariant as it was.                 *)
THEOREM Invariance == PlaySpec => []IInv
<1>1. PlayInit => IInv
  <2> SUFFICES ASSUME PlayInit PROVE IInv
    OBVIOUS
  <2>1. g = Fresh("hold" \in plan) /\ notes = {} /\ moves = 0 /\ cmd = None
        /\ session = [a \in Account |-> "out"]
    BY DEF PlayInit, Init
  <2>2. Good(g, notes)
    BY <2>1, FreshGood
  <2> QED BY <2>1, <2>2, NoneHides DEF IInv, Commanded
<1>2. IInv /\ [PlayNext]_allVars => IInv'
  <2> SUFFICES ASSUME IInv, [PlayNext]_allVars PROVE IInv'
    OBVIOUS
  <2>1. Commanded'
    BY CommandedKept DEF IInv
  <2>2. CASE UNCHANGED vars
    BY <2>1, <2>2 DEF IInv, vars
  <2>3. CASE Followed
    <3>1. moves \in Nat
      BY DEF IInv
    <3>2. moves' = moves \/ moves' = moves + 1 \/ moves' = 0
      BY <2>3 DEF Followed
    <3>3. moves' \in Nat
      BY ONLY <3>1, <3>2
    <3>4. Good(g', notes') /\ session' \in [Account -> {"out", "in", "down"}]
      BY <2>3 DEF Followed
    <3> QED BY <2>1, <3>3, <3>4 DEF IInv
  <2> QED BY <2>2, <2>3, PlayFollowed
<1> QED BY <1>1, <1>2, PTL DEF PlaySpec

(* Through breaks, edits of the level list and commands posted late, the     *)
(* levels a team got are numbered 1, 2, 3, ... in the order it got them, and *)
(* all but the last are closed (NoLevelSkipped; issueLevel, advance, tick).  *)
THEOREM LevelsInOrder == PlaySpec => []NoLevelSkipped
<1>1. IInv => NoLevelSkipped
  <2> SUFFICES ASSUME IInv, notes \cap {"late choice", "steered"} = {}, NEW i \in DOMAIN g.issued
               PROVE  /\ StatTable(g)[i].number = i
                      /\ i < Len(g.issued) => StatTable(g)[i].timed
    BY DEF NoLevelSkipped, Excused, StatTable
  <2>1. Numbers(g) /\ Closed(g)
    BY DEF IInv, Good
  <2>2. StatTable(g)[i].number = g.progress[g.issued[i]].number
        /\ StatTable(g)[i].timed = g.progress[g.issued[i]].done
    BY DEF StatTable
  <2>3. g.progress[g.issued[i]].done \/ i = Len(g.issued)
    BY <2>1 DEF Closed
  <2>4. Len(g.issued) \in Nat
    <3>1. g.issued \in Seq(Nat \ {0})
      BY DEF IInv, Good, Shape
    <3> QED BY <3>1, LenProperties
  <2>5. i = Len(g.issued) => ~(i < Len(g.issued))
    BY ONLY <2>4
  <2>6. g.progress[g.issued[i]].number = i
    BY <2>1 DEF Numbers
  <2> QED BY <2>2, <2>3, <2>5, <2>6
<1> QED BY <1>1, Invariance, PTL

(* The game ends for the team only when it got and closed every main level,  *)
(* and until then it has a level or the next one is due (PlayGoesOn;         *)
(* advance, tick, abandon, the expiry branch of entcod).                     *)
THEOREM TheGameGoesOn == PlaySpec => []PlayGoesOn
<1>1. IInv => PlayGoesOn
  <2> SUFFICES ASSUME IInv, notes \cap {"late choice", "end forced", "steered", "level added", "levels moved"} = {}
               PROVE  IF g.finished
                        THEN /\ g.current = 0 /\ ~g.pendingNext
                             /\ \A o \in MainLine(g) : o \in Range(g.issued) /\ g.progress[o].done
                        ELSE g.current = 0 => g.pendingNext
    BY DEF PlayGoesOn, Excused
  <2>1. Ending(g) /\ Closed(g) /\ Shape(g)
    <3>1. notes \cap {"late choice", "steered"} = {}
      OBVIOUS
    <3> QED BY <3>1 DEF IInv, Good
  <2>2. ASSUME g.finished, NEW o \in MainLine(g) PROVE o \in Range(g.issued) /\ g.progress[o].done
    <3>1. g.current = 0 /\ o \in Range(g.issued)
      BY <2>1, <2>2 DEF Ending
    <3>2. PICK i \in DOMAIN g.issued : g.issued[i] = o
      BY <3>1 DEF Range
    <3>3. o # 0
      BY <2>1, <2>2, PlacesCount DEF MainLine, OnLine
    <3> QED BY <2>1, <3>1, <3>2, <3>3 DEF Closed
  <2> QED BY <2>1, <2>2 DEF Ending
<1> QED BY <1>1, Invariance, PTL

\* What is told of a level is told again while its record grows.
LEMMA ViewGrows ==
  ASSUME NEW s, NEW t, NEW o, t.line = s.line, t.defs = s.defs,
         Grows(s.progress[o], t.progress[o])
  PROVE  LevelView(s, o) \subseteq LevelView(t, o)
BY DEF LevelView, Grows, At

\* Of a level that was just handed out nothing is told.
LEMMA NothingTold ==
  ASSUME NEW s, NEW o, NEW k \in Nat, s.progress[o] = NewProgress(k) PROVE LevelView(s, o) = {}
<1>1. PICK p : p = s.progress[o]
  OBVIOUS
<1>2. /\ p.codes = {} /\ p.bonusCodes = {} /\ p.spoilers = {} /\ p.hinted = {} /\ p.early = {}
      /\ p.age = 0
  BY <1>1, RecordNew
<1>3. ~FirstOut(p)
  BY <1>2, MockAssumption DEF FirstOut
<1>4. HintsShown(p) = {}
  BY <1>3, HintsAre
<1> QED BY <1>1, <1>2, <1>4 DEF LevelView

LEMMA GoPageFacts ==
  ASSUME NEW s, Shape(Tick(s))
  PROVE  /\ DOMAIN GoPage(s) \subseteq DOMAIN Tick(s).progress
         /\ \A o \in DOMAIN GoPage(s) : GoPage(s)[o] = LevelView(Tick(s), o)
<1>1. PICK t : t = Tick(s)
  OBVIOUS
<1>2. PICK shown : shown = IF t.finished THEN {} ELSE {o \in {t.current} : InHand(t)} \cup BonusSlot(t)
  OBVIOUS
<1>3. GoPage(s) = [o \in shown |-> LevelView(t, o)]
  BY <1>1, <1>2 DEF GoPage
<1>4. shown \subseteq DOMAIN t.progress
  BY <1>1, <1>2 DEF InHand, BonusSlot, Shape
<1> QED BY <1>1, <1>3, <1>4

(* A found code, an opened spoiler and a hint stay on the game page as long  *)
(* as the page shows their level (WhatIsShownStays; renderGoState, hints,    *)
(* beforeClue, takeClue, entcod, advance).                                   *)
THEOREM PagesKeep == PlaySpec => WhatIsShownStays
<1>1. IInv /\ IInv' /\ [PlayNext]_allVars =>
        [moves' = moves /\ g' # Fresh(g.hold) /\ ~Excused({"levels moved", "steered"}) =>
           \A o \in DOMAIN GoPage(g) \cap DOMAIN (GoPage(g)') :
              GoPage(g)[o] \subseteq GoPage(g)'[o]]_vars
  <2> SUFFICES ASSUME IInv, IInv', [PlayNext]_allVars, ~UNCHANGED vars, moves' = moves,
                      g' # Fresh(g.hold), notes \cap {"levels moved", "steered"} = {},
                      NEW o \in DOMAIN GoPage(g) \cap DOMAIN GoPage(g')
               PROVE  GoPage(g)[o] \subseteq GoPage(g')[o]
    BY DEF Excused
  <2>1. Good(g, notes) /\ Good(g', notes') /\ moves \in Nat
    BY DEF IInv
  <2>2. /\ notes' \subseteq notes \cup {"late choice"}
        /\ Told(Now, g', notes) \/ Stays(g, g')
    <3>1. Followed
      BY PlayFollowed
    <3>2. moves' # moves + 1
      <4>1. moves' = moves /\ moves \in Nat
        BY <2>1
      <4> QED BY ONLY <4>1
    <3> QED BY <3>1, <3>2 DEF Followed
  <2>3. /\ notes \cap {"steered", "levels moved"} = {}
        /\ notes' \cap {"steered", "levels moved"} = {}
    BY <2>2
  <2>4. PICK s : s = Tick(g)
    OBVIOUS
  <2>5. PICK t : t = Tick(g')
    OBVIOUS
  <2>6. Good(s, notes) /\ Adds(g, s)
    BY <2>1, <2>3, <2>4, TickGood
  <2>7. Good(t, notes') /\ Adds(g', t) /\ Stays(g', t)
    <3>1. Good(t, notes') /\ Adds(g', t)
      BY <2>1, <2>3, <2>5, TickGood
    <3> QED BY <3>1, AddsStays
  <2>8. /\ o \in DOMAIN s.progress /\ o \in DOMAIN t.progress
        /\ GoPage(g)[o] = LevelView(s, o) /\ GoPage(g')[o] = LevelView(t, o)
    BY <2>4, <2>5, <2>6, <2>7, GoPageFacts DEF Good
  <2>9. LevelView(s, o) \subseteq LevelView(t, o)
    <3>1. CASE Stays(s, g')
      <4>1. Stays(s, t)
        BY <2>7, <3>1, StaysOn
      <4> QED BY <2>8, <4>1, ViewGrows DEF Stays
    <3>2. CASE Stays(g, g') /\ o \in DOMAIN g.progress
      <4>1. Stays(g, t)
        BY <2>7, <3>2, StaysOn
      <4>2. s.line = g.line /\ s.defs = g.defs /\ s.progress[o] = g.progress[o]
        BY <2>6, <3>2 DEF Adds
      <4>3. t.line = s.line /\ t.defs = s.defs /\ Grows(s.progress[o], t.progress[o])
        BY <3>2, <4>1, <4>2 DEF Stays
      <4> QED BY <4>3, ViewGrows
    <3>3. CASE o \notin DOMAIN g.progress
      <4>1. PICK k \in Nat : s.progress[o] = NewProgress(k)
        BY <2>6, <2>8, <3>3 DEF Adds
      <4> QED BY <4>1, NothingTold
    <3>4. Stays(s, g') \/ Stays(g, g')
      BY <2>2, <2>3, <2>4 DEF Told, Now
    <3> QED BY <3>1, <3>2, <3>3, <3>4
  <2> QED BY <2>8, <2>9
<1> QED BY <1>1, Invariance, PTL DEF PlaySpec, WhatIsShownStays

(* A command that took its level from a page makes the team leave no other   *)
(* level, and an early hint that was not named is the first one the page hid *)
(* (CommandsActOnWhatTheySaw; levelArg, hintTarget, nextHint against         *)
(* nextLevel, selectLevel, beforeClue).                                      *)
THEOREM CommandsHit == PlaySpec => CommandsActOnWhatTheySaw
<1>1. IInv /\ [PlayNext]_allVars =>
        [Posting /\ InHand(Now) =>
           /\ cmd.level = cmd.shown /\ g'.current # Now.current => Now.current = cmd.shown
           /\ cmd.hidden # {} /\ Now.current = cmd.shown
                /\ cmd.hidden \cap HintsShown(Now.progress[cmd.shown]) = {} =>
                  Issued(cmd.shown) \subseteq {h \in cmd.hidden : \A x \in cmd.hidden : h <= x}]_allVars
  <2> SUFFICES ASSUME IInv, PlayNext, Posting
               PROVE  /\ cmd.level = cmd.shown /\ g'.current # Now.current => Now.current = cmd.shown
                      /\ cmd.hidden # {} /\ Now.current = cmd.shown
                           /\ cmd.hidden \cap HintsShown(Now.progress[cmd.shown]) = {} =>
                             Issued(cmd.shown) \subseteq {h \in cmd.hidden : \A x \in cmd.hidden : h <= x}
    OBVIOUS
  <2>1. Good(g, notes) /\ Commanded
    BY DEF IInv
  <2>2. Asks \/ g' = Now
    BY DEF PlayNext, Commands, AskNextLevel, AskSelectLevel, AskHintEarly, ReadPage, PostForm, Answer,
           Fails, Posting, vars
  <2>3. g'.current # Now.current => Now.current = cmd.level
    <3>1. CASE NextLevel(cmd.level)
      BY <2>1, <3>1, NextLevelGood
    <3>2. CASE SelectLevel(cmd.level, cmd.next)
      BY <2>1, <3>2, SelectLevelGood
    <3>3. CASE BeforeClue(cmd.hint = 1)
      BY <2>1, <3>3, BeforeClueGood
    <3> QED BY <2>2, <3>1, <3>2, <3>3 DEF Asks
  <2>4. ASSUME cmd.hidden # {}, Now.current = cmd.shown,
               cmd.hidden \cap HintsShown(Now.progress[cmd.shown]) = {}
        PROVE  Issued(cmd.shown) \subseteq {h \in cmd.hidden : \A x \in cmd.hidden : h <= x}
    <3>1. CASE g' = Now
      BY <3>1 DEF Issued
    <3>2. CASE Asks
      <4>1. BeforeClue(cmd.hint = 1)
        BY <2>1, <2>4, <3>2 DEF Asks, Commanded
      <4> QED BY <2>1, <2>4, <4>1, HintIssued
    <3> QED BY <2>2, <3>1, <3>2
  <2> QED BY <2>3, <2>4
<1> QED BY <1>1, Invariance, PTL DEF PlaySpec, CommandsActOnWhatTheySaw

(* Every charge and every bonus minute of the team stands for one thing that *)
(* it did, counted once (LedgerBalances; entcod, spoilerCode, beforeClue).   *)
THEOREM PointsBalance == PlaySpec => []LedgerBalances
<1>1. PlayInit => Ledger
  BY FreshBalanced DEF PlayInit, Init, Ledger
<1>2. IInv /\ Ledger /\ [PlayNext]_allVars => Ledger'
  <2> SUFFICES ASSUME IInv, Ledger, [PlayNext]_allVars, ~PointsMove(notes') PROVE Balanced(g')
    BY DEF Ledger
  <2>1. Good(g, notes)
    BY DEF IInv
  <2>2. CASE UNCHANGED allVars
    BY <2>2 DEF allVars, vars, Ledger
  <2> QED BY <2>1, <2>2, StepBalanced, CommandsBalanced DEF PlayNext, Next
<1>3. Ledger => LedgerBalances
  BY DEF Ledger, LedgerBalances, Balanced, PointsMove, Excused
<1> QED BY <1>1, <1>2, <1>3, Invariance, PTL DEF PlaySpec

==============================================================================
