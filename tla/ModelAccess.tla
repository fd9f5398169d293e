----------------------------- MODULE ModelAccess -----------------------------
(* How "dzzzr web" gets at a model: the ChatGPT subscription (CodexTokens)   *)
(* and the settings with Polza's preset (LLMSettings).  All the second knows *)
(* of the first is whether there is a credential, which it leaves open; so   *)
(* what is true of each alone is true of both, and a behaviour here is one   *)
(* of the first or one of the second.                                        *)
EXTENDS CodexTokens, LLMSettings

VARIABLE side     \* "subscription" or "settings"

accessVars == <<vars, llmVars, side>>

AccessInit ==
  /\ side \in {"subscription", "settings"}
  /\ Init /\ LLMInit
  /\ side = "subscription" => SetupAllowed /\ settings = Empty

OnSubscription(A) == side = "subscription" /\ A /\ UNCHANGED <<llmVars, side>>
OnSettings(A) == side = "settings" /\ A /\ UNCHANGED <<vars, side>>

AccessNext == OnSubscription(Next) \/ OnSettings(LLMNext)

AccessSpec == AccessInit /\ [][AccessNext]_accessVars

(* What the user was told is off is not saved afterwards, by either sign-in: *)
(* not a ChatGPT credential or a key that the issuer hands out after the     *)
(* cancel, the timeout or the refusal (codexLoginManager.complete,           *)
(* polzaManager.submit).                                                     *)
CanceledSignInsSaveNothing == CancelledIsNotSaved /\ EndedLoginsSaveNothing
=============================================================================
