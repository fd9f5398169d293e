----------------------------- MODULE ToolHistory -----------------------------
(* agentloop/context.go: what of the results of the tools the model is shown *)
(* again with every request.  Documents that were read (source results) are  *)
(* kept whole or the run stops; everything else is cut from the oldest on,   *)
(* to two budgets.  A result is [path, text, len]: path names the document,  *)
(* "" when the tool is not a source tool; text stands for the content.       *)
EXTENDS Naturals, Sequences, FiniteSets, Functions

CONSTANTS
  SourceBudget,            \* Config.SourceContextBytes
  TotalBudget, PerResult,  \* the budgets of the other results, and of one of them
  Omitted, Suffix, Same    \* lengths of the notes put in place of what is left out

ASSUME HistoryAssumption ==
  /\ {SourceBudget, TotalBudget, PerResult, Omitted, Suffix, Same} \subseteq Nat
  /\ PerResult <= TotalBudget

IsSource(m) == m.path # ""
Total(ms, some) == SumFunctionOnSet([i \in DOMAIN ms |-> ms[i].len], some)
Sources(ms) == {i \in DOMAIN ms : IsSource(ms[i])}

(* compactSourceResults: an exact repeat of an earlier result is a note.     *)
Compact(ms) ==
  [i \in DOMAIN ms |->
     IF /\ IsSource(ms[i]) /\ ms[i].len > 0
        /\ \E j \in 1 .. i - 1 : ms[j].path = ms[i].path /\ ms[j].text = ms[i].text
     THEN [ms[i] EXCEPT !.text = "same", !.len = Same] ELSE ms[i]]

TooLarge(ms) == Total(ms, Sources(ms)) > SourceBudget
Kept(ms) == IF TooLarge(ms) THEN Compact(ms) ELSE ms

(* What becomes of one result under what is left of the budget.              *)
Smaller(a, b) == IF a <= b THEN a ELSE b
Cut(m, left) ==
  LET budget == Smaller(PerResult, left)
  IN IF m.len <= budget THEN m
     ELSE IF budget <= Suffix + Omitted THEN [m EXCEPT !.text = "omitted", !.len = Omitted]
     ELSE [m EXCEPT !.text = "excerpt", !.len = budget]
Spent(m, left) == IF Cut(m, left).text = "omitted" THEN 0 ELSE Cut(m, left).len

\* Mutant: an excerpt is not counted against the budget.
MutLeft(ms) ==
  LET left[i \in 0 .. Len(ms)] ==
        IF i = Len(ms) THEN TotalBudget
        ELSE IF IsSource(ms[i + 1]) \/ Cut(ms[i + 1], left[i + 1]).text = "excerpt" THEN left[i + 1]
        ELSE left[i + 1] - Spent(ms[i + 1], left[i + 1])
  IN left

(* The budget that is left when the results after i have taken theirs.       *)
Left(ms) ==
  LET left[i \in 0 .. Len(ms)] ==
        IF i = Len(ms) THEN TotalBudget
        ELSE IF IsSource(ms[i + 1]) THEN left[i + 1]
        ELSE left[i + 1] - Spent(ms[i + 1], left[i + 1])
  IN left

(* boundToolHistory; the run stops when Refused. *)
Refused(ms) == TooLarge(Kept(ms))
Bounded(ms) ==
  LET kept == Kept(ms)
      left == Left(kept)
  IN [i \in DOMAIN kept |-> IF IsSource(kept[i]) THEN kept[i] ELSE Cut(kept[i], left[i])]

(* What a request may count on: a document is there whole, or a whole        *)
(* earlier copy is; the rest keeps to the budget, and nothing is cut while   *)
(* everything from it on fits.                                               *)
HistoryIsBounded(ms) ==
  LET b == Bounded(ms)
      rest == DOMAIN ms \ Sources(ms)
  IN /\ \A i \in Sources(ms) : \/ b[i] = ms[i]
                               \/ \E j \in 1 .. i - 1 : b[j] = ms[i] /\ b[j].path = ms[i].path
     /\ Total(b, Sources(ms)) <= SourceBudget
     /\ Total(b, {i \in rest : b[i].text # "omitted"}) <= TotalBudget
     /\ \A i \in rest : b[i].len <= PerResult \/ b[i].text = "omitted"
     /\ \A i \in rest :
          ms[i].len <= PerResult /\ Total(ms, {j \in rest : j >= i}) <= TotalBudget => b[i] = ms[i]
=============================================================================
