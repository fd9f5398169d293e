------------------------------ MODULE MockPages ------------------------------
(* What a player of cmd/dzzzr-mock sees of the game of MockEngine: the game  *)
(* page (go/, renderGoState) and the level view of API/game.php (levelInfo), *)
(* both made of the state a tick leaves.                                     *)
(*                                                                           *)
(* A view is the set of the things that are told; texts, times and titles    *)
(* are left out, and so are the noBreak mark of a level, which only hides    *)
(* an offer, and the quirks, which only change answers.  Every level has     *)
(* the texts of both its hints.                                              *)
EXTENDS MockEngine

CONSTANT OfferTicks   \* the age from which an early first hint is offered

ASSUME PagesAssumption == OfferTicks \in Nat /\ OfferTicks < HintTicks

(* The first hint is shown when it was asked for, taken early or is due; the *)
(* second likewise, and only beside the first.  Taken early, the first moves *)
(* the hour of the second.                                                   *)
HintsShown(p) ==
  LET secondDue == IF p.early = {1} THEN p.limit - HintTicks ELSE 2 * HintTicks
      out(h, due) == h \in p.hinted \cup p.early \/ p.age >= due
  IN IF ~out(1, HintTicks) THEN {} ELSE {1} \cup {h \in {2} : out(h, secondDue)}

(* Everything a page tells of a level: the found codes, the opened spoilers, *)
(* the hints.                                                                *)
LevelView(s, o) ==
  LET d == At(s, o)  p == s.progress[o]
  IN {<<"code", c>> : c \in p.codes \cap d.codes}
     \cup {<<"bonus code", c>> : c \in p.bonusCodes \cap d.bonusCodes}
     \cup {<<"spoiler", c>> : c \in p.spoilers}
     \cup {<<"hint", h>> : h \in HintsShown(p)}

(* The bonus level beside the main line: the first one with a record.        *)
BonusSlot(s) ==
  LET open == {o \in DOMAIN s.progress : OnLine(s, o) /\ At(s, o).bonus}
  IN {o \in open : \A x \in open : o <= x}

(* go/: the level in hand and the bonus level, none once the game is over.   *)
GoPage(s) ==
  LET t == Tick(s)
      shown == IF t.finished THEN {}
               ELSE {o \in {t.current} : InHand(t)} \cup BonusSlot(t)
  IN [o \in shown |-> LevelView(t, o)]

\* Mutant: one break more than there are is offered.
MutOffers(s) ==
  LET p == s.progress[s.current]  shown == HintsShown(p)
      may == [break |-> s.breaks <= BreaksAllowed /\ s.breakPending = 0,
              abandon |-> s.abandons < AbandonsAllowed /\ s.breakPending = 0 /\ p.age > HintTicks,
              next |-> BonusPending(s, At(s, s.current), p),
              first |-> 1 \notin shown /\ p.age > OfferTicks,
              second |-> 1 \in shown /\ 2 \notin shown,
              restart |-> OnBreak(s)]
  IN {k \in DOMAIN may : may[k]}

(* API/game.php?level=1: the buttons the view of the level in hand gives the *)
(* captain.                                                                  *)
Offers(s) ==
  LET p == s.progress[s.current]  shown == HintsShown(p)
      may == [break |-> s.breaks < BreaksAllowed /\ s.breakPending = 0,
              abandon |-> s.abandons < AbandonsAllowed /\ s.breakPending = 0 /\ p.age > HintTicks,
              next |-> BonusPending(s, At(s, s.current), p),
              first |-> 1 \notin shown /\ p.age > OfferTicks,
              second |-> 1 \in shown /\ 2 \notin shown,
              restart |-> OnBreak(s)]
  IN {k \in DOMAIN may : may[k]}

-----------------------------------------------------------------------------
(* Properties *)

(* A button the level view offers does what it says when it is pressed: the  *)
(* break is kept for the end of this level, the level is given up or closed, *)
(* the hint that is named is the one issued and not the other, and the break *)
(* ends (takeBreak, abandon, nextLevel, beforeClue, stopBreak against        *)
(* levelInfo).  Excused: a level is not given up when no main level is left, *)
(* though the view offers it.                                                *)
OffersAreHonoured ==
  LET o == Now.current
      does == [break |-> ENABLED (TakeBreak /\ (NextMainOrder(g') # 0 => OnBreak(Advance(g')))),
               abandon |-> NextMainOrder(Now) # 0 => ENABLED (Abandon /\ g'.progress[o].done),
               next |-> ENABLED (NextLevel(o) /\ g'.progress[o].done),
               first |-> ENABLED (BeforeClue(TRUE) /\ 1 \in HintsShown(g'.progress[o])),
               second |-> ENABLED (BeforeClue(FALSE) /\ 2 \in HintsShown(g'.progress[o])),
               restart |-> ENABLED (StopBreak /\ ~OnBreak(g'))]
  IN InHand(Now) /\ ByCaptain => \A k \in Offers(Now) : does[k]

(* What the game page has shown of a level - a found code, an opened         *)
(* spoiler, a hint - it shows as long as it shows the level: no request and  *)
(* no passing of time takes it back, whichever way a hint was got (hints,    *)
(* beforeClue, takeClue, entcod, advance).  Excused: the organizer's forms,  *)
(* a reset, and levels that changed places.                                  *)
WhatIsShownStays ==
  [][moves' = moves /\ g' # Fresh(g.hold) /\ ~Excused({"levels moved", "steered"}) =>
       \A o \in DOMAIN GoPage(g) \cap DOMAIN (GoPage(g)') :
          GoPage(g)[o] \subseteq GoPage(g)'[o]]_vars

=============================================================================
