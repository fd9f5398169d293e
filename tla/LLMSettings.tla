----------------------------- MODULE LLMSettings -----------------------------
(* Where the agent's model is reached and with which key: the environment,   *)
(* the settings file, the panel of "dzzzr web" that edits it and the sign-in *)
(* to Polza that writes it (cmd/dzzzr: llm_settings.go, web_llm.go,          *)
(* web_llm_polza.go, agentsetup.go, webui/llm.js).                           *)
(*                                                                           *)
(* A key is named after the provider it was entered or issued for, a         *)
(* provider after its host; "" is a field left empty.  What the form of a    *)
(* tab holds is anything the user may have typed, or an older snapshot put   *)
(* there.  Requests of one page that overlap are those of two tabs.  Left    *)
(* out: names of models, what the panel shows of fields the environment      *)
(* overrides, the limit of 32 sign-ins and their retention, the writing of   *)
(* the file (ChatFiles).                                                     *)
EXTENDS Naturals, FiniteSets

CONSTANTS
  Tabs, Logins,             \* tabs of the page; sign-ins to Polza
  Hosts, Polza, Default, Local,
  Environments,             \* what the process may have been started with
  Forms,                    \* <<method, url>> the form may be sent with
  Clicks,                   \* bound: what the users set going
  NoLogin

ASSUME HostsAssumption ==
  /\ {Polza, Default, Local} \subseteq Hosts /\ Cardinality({Polza, Default, Local}) = 3
  /\ "" \notin Hosts /\ NoLogin \notin Logins /\ Clicks \in Nat

Methods == {"", "apikey", "codex"}
Urls == Hosts \cup {""}
Host(url) == IF url = "" THEN Default ELSE url

ASSUME FormsAssumption ==
  /\ Environments \subseteq [method : Methods, url : Urls, key : Urls]
  /\ Forms \subseteq Methods \X Urls

\* Who sets both a key and an address outside the file means one provider.
ASSUME EnvironmentAssumption ==
  \A e \in Environments : e.key # "" /\ e.url # "" => e.key = Host(e.url)

VARIABLES
  settings,   \* settings.json: [readable, method, url, key, by], by: "polza" when
              \* this process saved it from Polza's preset, else "form"
  env,        \* DZZZR_LLM_PROVIDER, _BASE_URL and _API_KEY and their other names
  logins,     \* polzaFlow: login -> [status, claimed, over, opened]
  hands,      \* tab -> [op, method, url, key, clear, current, login, follow, waits]
  carried,    \* history: keys a save for the subscription kept under another address
  ended,      \* history: the sign-ins a page was told are off
  late,       \* history: those of them that saved settings afterwards
  clicks

llmVars == <<settings, env, logins, hands, carried, ended, late, clicks>>

First(outer, stored) == IF outer # "" THEN outer ELSE stored
Empty == [readable |-> TRUE, method |-> "", url |-> "", key |-> "", by |-> "form"]
Provider(file) == [url |-> file.url, key |-> file.key]
Damaged == [Empty EXCEPT !.readable = FALSE]

(* resolveLLMConfig: what a turn that begins now is given; it is a provider, *)
(* or the subscription or nothing, as CodexTokens has a credential or not.   *)
Resolved ==
  LET method == First(env.method, settings.method)
      key == First(env.key, settings.key)
      url == First(env.url, settings.url)
      provider == method # "codex" /\ (key # "" \/ Host(url) = Local)
  IN [provider |-> settings.readable /\ provider, key |-> key, host |-> Host(url)]

-----------------------------------------------------------------------------
(* The form *)

Free(t) == hands[t].op = "none" /\ clicks < Clicks
Busy(t, hand) == hands' = [hands EXCEPT ![t] = hand] /\ clicks' = clicks + 1
Rest(t) == [hands[t] EXCEPT !.op = "none", !.method = "", !.url = "", !.key = "",
                            !.clear = FALSE, !.current = Provider(Empty), !.waits = FALSE]
Done(t) == hands' = [hands EXCEPT ![t] = Rest(t)]
Told == UNCHANGED <<env, logins, carried, ended, late, clicks>>

(* llmFormBody, and httpPutLLMSettings up to loadLLMSettings; also what      *)
(* persistCodexTransport writes after a ChatGPT sign-in.                     *)
PutSettings(t, method, url, typed, clear) ==
  /\ Free(t) /\ ~(typed /\ clear)
  /\ Busy(t, [hands[t] EXCEPT !.op = "put", !.method = method, !.url = url,
                              !.key = IF typed THEN Host(url) ELSE "", !.clear = clear,
                              !.current = IF settings.readable THEN Provider(settings) ELSE Provider(Empty)])
  /\ UNCHANGED <<settings, env, logins, carried, ended, late>>

\* Mutant: the stored key is kept whatever the address.
MutMoved(h) == FALSE

(* The stored key was issued by the provider the form is moving away from.   *)
Moved(h) ==
  h.current.key # "" /\ h.method # "codex" /\ Host(h.current.url) # Host(h.url)

Kept(h) ==
  CASE h.clear -> ""
    [] ~h.clear /\ h.key # "" -> h.key
    [] ~h.clear /\ h.key = "" /\ Moved(h) -> ""
    [] OTHER -> h.current.key

(* The rest of httpPutLLMSettings; the write may fail. *)
SavePut(t) ==
  LET h == hands[t]
      refused == ~h.clear /\ h.key = "" /\ Moved(h) /\ Host(h.url) # Local
      next == [readable |-> TRUE, method |-> h.method, url |-> h.url, key |-> Kept(h), by |-> "form"]
      astray == h.key = "" /\ Kept(h) # "" /\ Host(h.current.url) # Host(h.url)
  IN /\ h.op = "put"
     /\ settings' \in IF refused THEN {settings} ELSE {settings, next}
     /\ carried' = IF h.method = "codex" /\ astray THEN carried \cup {Kept(h)} ELSE carried
     /\ Done(t)
     /\ UNCHANGED <<env, logins, ended, late, clicks>>

(* resetLLMSettings: the page's own sign-in to Polza is canceled first *)
AskReset(t) ==
  /\ Free(t)
  /\ LET follows == hands[t].follow = "following"
     IN Busy(t, [hands[t] EXCEPT !.op = "reset", !.waits = follows,
                                 !.follow = IF follows THEN "canceling"
                                            ELSE IF @ = "starting" THEN "dropped" ELSE @])
  /\ UNCHANGED <<settings, env, logins, carried, ended, late>>

(* httpDeleteLLMSettings *)
Reset(t) ==
  /\ hands[t].op = "reset" /\ (hands[t].waits => hands[t].follow = "none")
  /\ settings' \in {settings, Empty}
  /\ Done(t) /\ Told

-----------------------------------------------------------------------------
(* Polza's preset *)

(* polzaSetupAllowed *)
SetupAllowed == env = [method |-> "", url |-> "", key |-> ""]
Preset == [readable |-> TRUE, method |-> "apikey", url |-> Polza, key |-> Polza, by |-> "polza"]
PageFree(t) == hands[t].follow \in {"none", "dropped", "canceling"}

(* connectPolza and httpPolzaConnect up to the answer of the balance: with a *)
(* key from the field or the one that is stored for Polza.                   *)
Connect(t, typed) ==
  /\ Free(t) /\ PageFree(t) /\ SetupAllowed
  /\ typed \/ (settings.readable /\ settings.url = Polza /\ settings.method = "apikey" /\ settings.key # "")
  /\ Busy(t, [hands[t] EXCEPT !.op = "connect", !.key = IF typed THEN Polza ELSE settings.key])
  /\ UNCHANGED <<settings, env, logins, carried, ended, late>>

(* ... and the rest; the balance may be refused and the write may fail *)
Connected(t) ==
  /\ hands[t].op = "connect"
  /\ settings' \in {settings, [Preset EXCEPT !.key = hands[t].key]}
  /\ Done(t) /\ Told

(* finishLocked *)
Settled(l, status) ==
  IF logins[l].status = "pending" THEN [logins[l] EXCEPT !.status = status, !.over = TRUE] ELSE logins[l]
Finished(l) == Settled(l, "error")

(* polzaManager.start: every earlier sign-in is replaced *)
StartLogin(t, l) ==
  /\ Free(t) /\ hands[t].follow = "none" /\ SetupAllowed
  /\ logins[l].status = "none"
  /\ logins' = [x \in Logins |-> IF x = l THEN [logins[l] EXCEPT !.status = "pending"] ELSE Finished(x)]
  /\ Busy(t, [hands[t] EXCEPT !.login = l, !.follow = "starting"])
  /\ UNCHANGED <<settings, env, carried, ended, late>>

Follow(t, step) == hands' = [hands EXCEPT ![t].follow = step,
                                         ![t].login = IF step = "none" THEN NoLogin ELSE @]
LoginsOnly == UNCHANGED <<settings, env, hands, carried, ended, late, clicks>>
PageOnly == UNCHANGED <<settings, env, carried, late, clicks>>

(* startPolzaLogin has its answer: the page opens the provider's, or takes   *)
(* back what was canceled meanwhile.                                         *)
HearStart(t) ==
  \/ /\ hands[t].follow = "starting" /\ Follow(t, "following")
     /\ logins' = [logins EXCEPT ![hands[t].login].opened = TRUE]
     /\ UNCHANGED ended /\ PageOnly
  \/ /\ hands[t].follow = "dropped" /\ Follow(t, "canceling")
     /\ UNCHANGED <<logins, ended>> /\ PageOnly

(* cancelPolzaLogin, before the server hears of it *)
CancelLogin(t) ==
  /\ \/ hands[t].follow = "starting" /\ Follow(t, "dropped")
     \/ hands[t].follow = "following" /\ Follow(t, "canceling")
  /\ UNCHANGED <<logins, ended>> /\ PageOnly

(* httpPolzaLoginCancel, which answers the same whether the sign-in was      *)
(* still pending or not; the request may be lost.                            *)
LoginCanceled(t) ==
  LET l == hands[t].login
  IN /\ hands[t].follow = "canceling" /\ Follow(t, "none")
     /\ \/ logins' = [logins EXCEPT ![l] = Finished(l)] /\ ended' = ended \cup {l}
        \/ UNCHANGED <<logins, ended>>
     /\ PageOnly

(* pollPolzaLogin: a success ends it; a failure is told after a cancel *)
PollLogin(t) ==
  LET l == hands[t].login
  IN /\ hands[t].follow = "following"
     /\ \/ logins[l].status = "success" /\ Follow(t, "none") /\ UNCHANGED ended
        \/ logins[l].status = "error" /\ Follow(t, "canceling") /\ ended' = ended \cup {l}
     /\ UNCHANGED logins /\ PageOnly

(* submit, for the browser's redirect or a pasted address: a refusal by the  *)
(* provider, or a code, which is asked for a key once.                       *)
SubmitCode(l) ==
  /\ logins[l].opened /\ logins[l].status = "pending" /\ logins[l].claimed = "no"
  /\ \/ logins' = [logins EXCEPT ![l] = Finished(l)]
     \/ logins' = [logins EXCEPT ![l].claimed = "asking"]
  /\ LoginsOnly

\* Mutant: the sign-in is not looked at again when the key arrives.
MutStillWanted(l) == TRUE

StillWanted(l) == logins[l].status = "pending" /\ ~logins[l].over

(* submit, when the exchange is over: the check, the write and the end of    *)
(* the sign-in are one step under its lock.                                  *)
KeyArrives(l) ==
  LET answered == [logins EXCEPT ![l].claimed = "asked"]
  IN /\ logins[l].claimed = "asking"
     /\ \/ /\ ~StillWanted(l)
           /\ logins' = answered /\ UNCHANGED <<settings, late>>
        \/ /\ StillWanted(l)
           /\ logins' = [answered EXCEPT ![l] = [Settled(l, "success") EXCEPT !.claimed = "asked"]]
           /\ settings' = Preset
           /\ late' = IF l \in ended THEN late \cup {l} ELSE late
        \/ /\ StillWanted(l)
           /\ logins' = [answered EXCEPT ![l] = [Finished(l) EXCEPT !.claimed = "asked"]]
           /\ UNCHANGED <<settings, late>>
     /\ UNCHANGED <<env, hands, carried, ended, clicks>>

(* Its context runs out, and then its timer. *)
Overdue(l) ==
  /\ logins[l].status = "pending"
  /\ logins' = [logins EXCEPT ![l] = IF @.over THEN Finished(l) ELSE [@ EXCEPT !.over = TRUE]]
  /\ LoginsOnly

-----------------------------------------------------------------------------
LLMInit ==
  /\ settings \in {Empty, Damaged, [Preset EXCEPT !.by = "form"]} \cup {[Empty EXCEPT !.method = "apikey", !.url = h, !.key = h] : h \in Hosts}
  /\ env \in Environments
  /\ logins = [l \in Logins |-> [status |-> "none", claimed |-> "no", over |-> FALSE, opened |-> FALSE]]
  /\ hands = [t \in Tabs |-> [op |-> "none", method |-> "", url |-> "", key |-> "", clear |-> FALSE,
                              current |-> Provider(Empty), login |-> NoLogin, follow |-> "none", waits |-> FALSE]]
  /\ carried = {} /\ ended = {} /\ late = {} /\ clicks = 0

Panel(t) ==
  \/ \E form \in Forms, typed, clear \in BOOLEAN : PutSettings(t, form[1], form[2], typed, clear)
  \/ SavePut(t) \/ AskReset(t) \/ Reset(t)
  \/ \E typed \in BOOLEAN : Connect(t, typed)
  \/ Connected(t) \/ (\E l \in Logins : StartLogin(t, l)) \/ HearStart(t)
  \/ CancelLogin(t) \/ LoginCanceled(t) \/ PollLogin(t)

LLMNext ==
  \/ \E t \in Tabs : Panel(t)
  \/ \E l \in Logins : SubmitCode(l) \/ KeyArrives(l) \/ Overdue(l)

-----------------------------------------------------------------------------
(* A turn sends a key to nobody but the provider it was entered or issued    *)
(* for, and so does the check of Polza's balance, however saves of several   *)
(* tabs, resets and sign-ins fell together (httpPutLLMSettings,              *)
(* polzaSetupAllowed).  Excused: half of key and address is in the           *)
(* environment and the other half was not saved by Polza's preset; a key that a *)
(* save for the subscription kept under another address, which a later save  *)
(* for a provider takes for a key of that address.                           *)
KeysGoHome ==
  /\ Resolved.provider /\ Resolved.key \notin {"", Resolved.host} =>
       \/ Resolved.key \in carried
       \/ (env.key = "") # (env.url = "") /\ settings.by = "form"
  /\ \A t \in Tabs : hands[t].op = "connect" => hands[t].key \in {Polza} \cup carried

(* A sign-in to Polza the page was told is off, because the user canceled it *)
(* or reset the settings, or it failed, saves nothing afterwards: not when   *)
(* the key it had asked for arrives late (submit, finishLocked).             *)
EndedLoginsSaveNothing == late = {}
=============================================================================
