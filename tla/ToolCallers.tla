----------------------------- MODULE ToolCallers -----------------------------
(* The two programs that call the tools: the agent's loop, with a catalog of *)
(* its own for each turn, and the MCP server, whose client sends calls side  *)
(* by side to the one catalog of the process.                                *)
EXTENDS AgentLoop, McpServer

VARIABLE caller     \* "loop" or "mcp"

vars == <<toolVars, loopVars, mcpVars, caller>>

Init == caller \in {"loop", "mcp"} /\ ToolsInit /\ LoopInit /\ McpInit

Loop == caller = "loop" /\ LoopNext /\ UNCHANGED <<mcpVars, caller>>
Mcp == caller = "mcp" /\ McpNext /\ UNCHANGED <<loopVars, caller>>
Around ==
  /\ OthersPlay \/ \E t \in Read : Expire(t)
  /\ UNCHANGED <<loopVars, mcpVars, caller>>

Next == Loop \/ Mcp \/ Around

Spec == Init /\ [][Next]_vars /\ WF_vars(caller = "loop" /\ RunSteps /\ UNCHANGED <<mcpVars, caller>>)

-----------------------------------------------------------------------------
(* A changing call reaches the engine at most once, whatever became of its   *)
(* answer, and never under a policy that forbids it; under "approve" one of  *)
(* an MCP client only with arguments the user was shown and accepted,        *)
(* however the client combines the answers it holds with the calls it sends. *)
ChangesAreConfirmed ==
  \A s \in Slot : calls[s].tool \in Write /\ calls[s].sent > 0 =>
    /\ calls[s].sent = 1 /\ policy # "readonly"
    /\ caller = "mcp" /\ policy = "approve" => Accepted(calls[s].args)
=============================================================================
