----------------------------- MODULE ChatWatchers -----------------------------
(* The two ways a run of the agent reaches the one who watches it: the event *)
(* stream of "dzzzr web", where a run publishes to whoever is connected and  *)
(* never waits, and the event loop of "dzzzr chat", where a run waits until  *)
(* each message is taken.  A process is one or the other.                    *)
EXTENDS EventStream, TerminalChat

VARIABLE program     \* "web" or "chat"

watchVars == <<vars, termVars, program>>

WatchInit == program \in {"web", "chat"} /\ Init /\ TermInit

InWeb(A) == program = "web" /\ A /\ UNCHANGED <<termVars, program>>
InChat(A) == program = "chat" /\ A /\ UNCHANGED <<vars, program>>

WatchNext == InWeb(Next) \/ InChat(TermNext)

(* The fairness of EventStream. *)
WatchFairness ==
  /\ \A s \in Streams : WF_watchVars(InWeb(Serving(s)))
  /\ WF_watchVars(InWeb(Publish))
  /\ WF_watchVars(InWeb(RemoveChat))

WatchSpec == WatchInit /\ [][WatchNext]_watchVars /\ WatchFairness
=============================================================================
