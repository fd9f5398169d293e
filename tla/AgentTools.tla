----------------------------- MODULE AgentTools -----------------------------
(* agenttools: the tools through which an agent reads and changes the game.  *)
(* A call of a changing tool passes the policy's gate; a read is served from *)
(* a cache that every changing call clears.  The MCP server runs the calls   *)
(* of its client concurrently over one catalog, so the lookup, the request   *)
(* to the engine, the clearing and the storing are steps of their own.       *)
(*                                                                           *)
(* The game is a number that grows with every change carried out; what a     *)
(* read returns is the number at the moment the engine served it.            *)
EXTENDS Naturals, Sequences, FiniteSets

CONSTANTS
  Slot,        \* the calls that can be under way at once
  Read,        \* tools whose answers are cached
  Local,       \* tools that read or write local files: never cached, never gated
  Write,       \* tools that change the game
  Args,        \* the arguments a changing tool may be called with
  CanSignIn,   \* whether the host can renew a rejected session
  MaxVersion   \* bound: how often the game changes

ASSUME ToolsAssumption ==
  /\ Read \cap Write = {} /\ Local \cap (Read \cup Write) = {}
  /\ MaxVersion \in Nat /\ CanSignIn \in BOOLEAN

VARIABLES
  policy,     \* "readonly", "approve" or "full", fixed for the catalog
  version,    \* the state of the game
  cache,      \* tool -> what its last answer was, and whether it was stored late
  calls,      \* slot -> the call that occupies it
  floor,      \* history: the version when the last changing call was over
  panicked    \* history: a changing tool panicked, and nothing cleared the cache since

toolVars == <<policy, version, cache, calls, floor, panicked>>

NoArgs == "none"
Free == [at |-> "free", tool |-> NoArgs, args |-> NoArgs, ok |-> TRUE, value |-> 0,
         late |-> FALSE, sent |-> 0, since |-> 0]

(* Catalog.Tools: a read-only catalog does not show the changing tools.      *)
Visible == Read \cup Local \cup (IF policy = "readonly" THEN {} ELSE Write)

Goes(s, at) == calls' = [calls EXCEPT ![s].at = at]
Fails(s) == calls' = [calls EXCEPT ![s].at = "over", ![s].ok = FALSE]

(* Execute, up to the tool's own request: the gate or the cache. *)
Begin(s, tool, args) ==
  LET call == [Free EXCEPT !.tool = tool, !.args = args, !.since = floor]
  IN /\ calls[s].at = "free"
     /\ calls' = [calls EXCEPT ![s] =
          IF tool \in Write THEN [call EXCEPT !.at = "gate"]
          ELSE IF tool \in DOMAIN cache
            THEN [call EXCEPT !.at = "over", !.value = cache[tool].value, !.late = cache[tool].late]
          ELSE [call EXCEPT !.at = "run"]]
     /\ UNCHANGED <<policy, version, cache, floor, panicked>>

(* authorize: the answer of the confirmer counts under "approve" only. *)
Authorize(s, yes) ==
  /\ calls[s].at = "gate"
  /\ IF policy = "full" \/ (policy = "approve" /\ yes) THEN Goes(s, "run") ELSE Fails(s)
  /\ UNCHANGED <<policy, version, cache, floor, panicked>>

(* A tool asks for its arguments, and a changing one for the page that tells *)
(* the level it was not given, before it sends anything.                     *)
Refuses(s, at) == calls' = [calls EXCEPT ![s].at = at, ![s].ok = FALSE]
Sent(s, at, ok) == calls' = [calls EXCEPT ![s].at = at, ![s].ok = ok, ![s].sent = @ + 1]

(* What a reading tool does: one request, and its answer or its error. *)
ReadTool(s) ==
  \/ calls' = [calls EXCEPT ![s].at = "served", ![s].value = version, ![s].sent = @ + 1]
  \/ Sent(s, "over", FALSE)
  \/ calls[s].at = "run" /\ Refuses(s, "over")

(* A read may learn, the first time, that the session is gone: then the      *)
(* cache is cleared and a sign-in tried.                                     *)
RunRead(s) ==
  /\ calls[s].at \in {"run", "again"} /\ calls[s].tool \notin Write
  /\ \/ ReadTool(s) /\ UNCHANGED cache
     \/ /\ calls[s].at = "run" /\ CanSignIn
        /\ calls' = [calls EXCEPT ![s].at = "renew", ![s].sent = @ + 1]
        /\ cache' = <<>>
  /\ UNCHANGED <<policy, version, floor, panicked>>

Reauthenticate(s) ==
  /\ calls[s].at = "renew"
  /\ Goes(s, "again") \/ Fails(s)
  /\ UNCHANGED <<policy, version, cache, floor, panicked>>

(* The engine's answer is stored when it arrives, whatever happened since.   *)
Store(s) ==
  LET c == calls[s]
  IN /\ c.at = "served"
     /\ Goes(s, "over")
     /\ cache' = IF c.tool \notin Read THEN cache
                 ELSE [t \in DOMAIN cache \cup {c.tool} |->
                        IF t = c.tool THEN [value |-> c.value, late |-> c.late] ELSE cache[t]]
     /\ UNCHANGED <<policy, version, floor, panicked>>

Changing(s) == calls[s].at = "run" /\ calls[s].tool \in Write
Changed == version' = version \/ (version < MaxVersion /\ version' = version + 1)

(* What a changing tool does: one request, carried out or not whether it     *)
(* fails or not; nothing at all when it refuses the call.                    *)
WriteTool(s) ==
  \/ (Sent(s, "clear", TRUE) \/ Sent(s, "clear", FALSE)) /\ Changed
  \/ Refuses(s, "clear") /\ UNCHANGED version

RunWrite(s) ==
  /\ Changing(s)
  /\ WriteTool(s)
  /\ UNCHANGED <<policy, cache, floor, panicked>>

(* A panic of the tool passes Clear by; only the agent's loop recovers it.   *)
PanicWrite(s) ==
  /\ Changing(s)
  /\ Sent(s, "over", FALSE)
  /\ Changed /\ floor' = version' /\ panicked' = TRUE
  /\ UNCHANGED <<policy, cache>>

\* Mutant: the cache is only cleared when the changing call succeeded.
MutClear(s) ==
  /\ calls[s].at = "clear"
  /\ calls' = [x \in Slot |-> IF x = s THEN [calls[x] EXCEPT !.at = "over"]
                              ELSE [calls[x] EXCEPT !.late = @ \/ calls[x].at = "served"]]
  /\ cache' = IF calls[s].ok THEN <<>> ELSE cache
  /\ floor' = version /\ panicked' = FALSE
  /\ UNCHANGED <<policy, version>>

(* After a changing call, failed or not, nothing that is cached is trusted;  *)
(* what was served and is not stored yet will be stored late.                *)
Clear(s) ==
  /\ calls[s].at = "clear"
  /\ calls' = [x \in Slot |-> IF x = s THEN [calls[x] EXCEPT !.at = "over"]
                              ELSE [calls[x] EXCEPT !.late = @ \/ calls[x].at = "served"]]
  /\ cache' = <<>>
  /\ floor' = version /\ panicked' = FALSE
  /\ UNCHANGED <<policy, version>>

(* An entry older than the TTL is dropped by the lookup that finds it. *)
Expire(tool) ==
  /\ tool \in DOMAIN cache
  /\ cache' = [t \in DOMAIN cache \ {tool} |-> cache[t]]
  /\ UNCHANGED <<policy, version, calls, floor, panicked>>

Return(s) ==
  /\ calls[s].at = "over"
  /\ calls' = [calls EXCEPT ![s] = Free]
  /\ UNCHANGED <<policy, version, cache, floor, panicked>>

(* The steps of a call that need no decision of anybody. *)
Proceed(s) == RunRead(s) \/ Reauthenticate(s) \/ Store(s) \/ RunWrite(s) \/ Clear(s)

(* The other players change the game too. *)
OthersPlay ==
  /\ version < MaxVersion /\ version' = version + 1
  /\ UNCHANGED <<policy, cache, calls, floor, panicked>>

ToolsInit ==
  /\ policy \in {"readonly", "approve", "full"}
  /\ version = 0 /\ cache = <<>> /\ calls = [s \in Slot |-> Free]
  /\ floor = 0 /\ panicked = FALSE

-----------------------------------------------------------------------------
(* Properties *)

ToolsTypeOK ==
  /\ policy \in {"readonly", "approve", "full"} /\ version \in 0 .. MaxVersion
  /\ DOMAIN cache \subseteq Read
  /\ \A t \in DOMAIN cache : cache[t] \in [value : 0 .. MaxVersion, late : BOOLEAN]
  /\ calls \in [Slot -> [at : {"free", "gate", "run", "renew", "again", "served", "clear", "over"},
                         tool : Read \cup Local \cup Write \cup {NoArgs}, args : Args \cup {NoArgs},
                         ok : BOOLEAN, value : 0 .. MaxVersion, late : BOOLEAN, sent : 0 .. 2,
                         since : 0 .. MaxVersion]]
  /\ floor \in 0 .. MaxVersion /\ panicked \in BOOLEAN

(* A read that began after a changing call was over shows the game as that   *)
(* call left it or later, cached or not and also when the call failed.  The  *)
(* code has two exceptions: an answer that was served before the change and  *)
(* stored after the clearing, and a changing tool that panicked.             *)
AnswersAreFresh ==
  \A s \in Slot :
    calls[s].at = "over" /\ calls[s].tool \in Read /\ calls[s].ok =>
      calls[s].value >= calls[s].since \/ calls[s].late \/ panicked
=============================================================================
