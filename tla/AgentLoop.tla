------------------------------ MODULE AgentLoop ------------------------------
(* agentloop: one run of the agent.  The model is asked, again when an       *)
(* answer is missing or broken and may come, and the tools it calls are      *)
(* executed one after the other; then it is asked with their results, until  *)
(* it answers without a call, the turns are used up, or the run fails.       *)
EXTENDS AgentTools, ToolHistory

CONSTANTS
  LoopSlot,     \* the one call the loop has under way
  MaxTurns,     \* Config.MaxTurns
  MaxAttempts,  \* maxAttempts, 3 in the code
  MaxCalls,     \* bound: tool calls in one answer of the model
  Outcomes      \* bound: the results a tool may have, as ToolHistory knows them

ASSUME LoopAssumption == LoopSlot \in Slot /\ MaxTurns \in Nat \ {0} /\ MaxAttempts \in Nat \ {0}

VARIABLES
  loop,      \* [at, turn, attempt, split, todo]
  results,   \* the results the conversation of this run holds
  canceled   \* the run's context

loopVars == <<loop, results, canceled>>

At(x) == loop.at = x
End == loop' = [loop EXCEPT !.at = "ended"]

(* A catalog and a conversation for the turn; tool results of earlier turns  *)
(* are not kept.                                                             *)
NewRun ==
  /\ At("ended")
  /\ policy' \in {"readonly", "approve", "full"}
  /\ cache' = <<>> /\ panicked' = FALSE
  /\ loop' = [at |-> "ask", turn |-> 0, attempt |-> 1, split |-> FALSE, todo |-> 0]
  /\ results' = <<>> /\ canceled' = FALSE
  /\ UNCHANGED <<version, calls, floor>>

(* The top of runToolLoop, and what Chat does before the first request. *)
Ask ==
  /\ At("ask")
  /\ IF loop.turn = MaxTurns \/ canceled \/ Refused(results) THEN End
     ELSE loop' = [loop EXCEPT !.at = "chat", !.turn = @ + 1, !.attempt = 1,
                               !.split = Sources(results) # {}]
  /\ UNCHANGED <<toolVars, results, canceled>>

\* Mutant: an empty answer is asked for again without being counted.
MutTryAgain == loop' = [loop EXCEPT !.at = "wait"]

TryAgain ==
  IF loop.attempt < MaxAttempts
    THEN loop' = [loop EXCEPT !.at = "wait", !.attempt = @ + 1] ELSE End

(* One request.  No call of an answer that broke off is executed.            *)
Chat ==
  /\ At("chat")
  /\ \/ ~canceled /\ \E n \in 1 .. MaxCalls : loop' = [loop EXCEPT !.at = "tools", !.todo = n]
     \/ ~canceled /\ TryAgain            \* an error that may pass, no answer, finish_reason error
     \/ /\ ~canceled /\ loop.split /\ loop.attempt < MaxAttempts    \* cut short, asked for a part
        /\ loop' = [loop EXCEPT !.at = "wait", !.attempt = @ + 1, !.split = FALSE]
     \/ End                              \* the answer; or cut short, filtered, refused, out of time
  /\ UNCHANGED <<toolVars, results, canceled>>

Wait ==
  /\ At("wait")
  /\ IF canceled THEN End ELSE loop' = [loop EXCEPT !.at = "chat"]
  /\ UNCHANGED <<toolVars, results, canceled>>

Result(m) ==
  /\ results' = Append(results, m)
  /\ loop' = [loop EXCEPT !.at = IF loop.todo = 1 THEN "ask" ELSE "tools", !.todo = @ - 1]
  /\ UNCHANGED canceled

(* The next call of the answer; an unknown tool or wrong arguments only make *)
(* an error result.                                                          *)
NextCall ==
  /\ At("tools")
  /\ \/ canceled /\ End /\ UNCHANGED <<toolVars, results, canceled>>
     \/ ~canceled /\ Result([path |-> "", text |-> "error", len |-> 0]) /\ UNCHANGED toolVars
     \/ /\ ~canceled
        /\ \/ \E t \in (Read \cup Local) \cap Visible : Begin(LoopSlot, t, NoArgs)
           \/ \E t \in Write \cap Visible, a \in Args : Begin(LoopSlot, t, a)
        /\ loop' = [loop EXCEPT !.at = "calling"]
        /\ UNCHANGED <<results, canceled>>

Execute ==
  /\ At("calling")
  /\ Proceed(LoopSlot) \/ PanicWrite(LoopSlot) \/ (policy # "approve" /\ Authorize(LoopSlot, FALSE))
  /\ UNCHANGED loopVars

(* ConfirmToolCall blocks until the user answers or the context ends. *)
Confirm ==
  /\ At("calling") /\ policy = "approve"
  /\ \E yes \in BOOLEAN : Authorize(LoopSlot, yes)
  /\ UNCHANGED loopVars

Collect ==
  /\ At("calling")
  /\ \E m \in Outcomes : (m.path # "" => calls[LoopSlot].tool \in Local) /\ Result(m)
  /\ Return(LoopSlot)

Cancel ==
  /\ ~At("ended") /\ ~canceled /\ canceled' = TRUE
  /\ UNCHANGED <<toolVars, loop, results>>

LoopInit ==
  /\ loop = [at |-> "ended", turn |-> 0, attempt |-> 1, split |-> FALSE, todo |-> 0]
  /\ results = <<>> /\ canceled = FALSE

(* What the run does by itself: the model's request has a timeout, and every *)
(* request to the engine is answered or fails.                               *)
RunSteps == Ask \/ Chat \/ Wait \/ NextCall \/ Execute \/ Collect
LoopNext == NewRun \/ RunSteps \/ Confirm \/ Cancel

-----------------------------------------------------------------------------
(* Properties *)

(* Every run ends, however the model and the tools behave: attempts, calls   *)
(* of an answer and turns all run out.  Under "approve" the run may wait for *)
(* the user for as long as it takes.                                         *)
RunEnds == (~At("ended") /\ policy # "approve") ~> At("ended")

(* Whenever the model can be asked, the results it is shown keep to the      *)
(* budgets and no document is lost.                                          *)
ContextBounded == At("chat") => HistoryIsBounded(results)
=============================================================================
