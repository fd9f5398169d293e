------------------------------ MODULE McpServer ------------------------------
(* agentmcp: the catalog behind the Model Context Protocol.  Under "approve" *)
(* a changing call is first answered with a request for a confirmation; the  *)
(* client shows it to the user and sends the call again with the answer.     *)
(* The two calls are separate requests, so the answer carries a fingerprint  *)
(* of the arguments that were shown.                                         *)
EXTENDS AgentTools

VARIABLES
  asked,     \* the arguments that were shown to the user
  answers    \* what the client can send along: [args, yes]

mcpVars == <<asked, answers>>

(* toolHandler, without an answer: a changing call only asks. *)
CallTool(s, tool, args) ==
  /\ tool \in Visible /\ calls[s].at = "free"
  /\ IF tool \in Write /\ policy = "approve"
       THEN asked' = asked \cup {args} /\ UNCHANGED toolVars
       ELSE Begin(s, tool, args) /\ UNCHANGED asked
  /\ UNCHANGED answers

\* Mutant: an accepted answer is taken for whatever arguments come with it.
MutRetryTool(s, tool, args, answer) ==
  /\ tool \in Visible \cap Write /\ policy = "approve"
  /\ answer.yes
  /\ Begin(s, tool, args)
  /\ UNCHANGED mcpVars

(* The call comes again with an answer; a declined one, or one for other     *)
(* arguments, is refused and nothing happens.                                *)
RetryTool(s, tool, args, answer) ==
  /\ tool \in Visible \cap Write /\ policy = "approve"
  /\ answer.yes /\ answer.args = args
  /\ Begin(s, tool, args)
  /\ UNCHANGED mcpVars

(* External: the user, through the client. *)
UserAnswers(args, yes) ==
  /\ args \in asked
  /\ answers' = answers \cup {[args |-> args, yes |-> yes]}
  /\ UNCHANGED <<toolVars, asked>>

(* The decision was made before the call: decidedConfirmer. *)
McpGate(s) == Authorize(s, TRUE) /\ UNCHANGED mcpVars
McpProceed(s) == (Proceed(s) \/ Return(s)) /\ UNCHANGED mcpVars

McpInit == asked = {} /\ answers = {}

McpNext ==
  \/ \E s \in Slot :
       \/ \E t \in Read \cup Local : CallTool(s, t, NoArgs)
       \/ \E t \in Write, a \in Args : CallTool(s, t, a)
       \/ \E t \in Write, a \in Args, b \in answers : RetryTool(s, t, a, b)
       \/ McpGate(s) \/ McpProceed(s)
  \/ \E a \in Args, yes \in BOOLEAN : UserAnswers(a, yes)

-----------------------------------------------------------------------------
(* The arguments of a call were shown to the user and accepted. *)
Accepted(args) == args \in asked /\ [args |-> args, yes |-> TRUE] \in answers
=============================================================================
