----------------------------- MODULE CodexTokens -----------------------------
(***************************************************************************)
(* The ChatGPT sign-in of "dzzzr web": the credential file, the store that  *)
(* every turn of every chat takes its access token from, the renewal of it, *)
(* sign-in flows and the sign-out (cmd/dzzzr: llm_auth_codex.go,            *)
(* web_llm_codex.go).                                                       *)
(*                                                                         *)
(* A credential is the sign-in it came from and how often it was renewed.   *)
(* The issuer rotates refresh tokens: only the latest renewal of a sign-in  *)
(* can be renewed again. A store is named after the turn that made it, and  *)
(* several may be alive: a turn keeps the one it started with. The file is  *)
(* read and replaced at once here; ChatFiles has what writeSecretFile does. *)
(***************************************************************************)
EXTENDS Naturals

CONSTANTS
    Turns,      \* turns of chats, each of which builds a provider
    Attempts,   \* bound on the renewals, each a codexRefreshAttempt
    Flows,      \* sign-ins
    Earlier,    \* the sign-in an earlier process left in the file
    NoCred, NoStore, NoAttempt

ASSUME EarlierAssumption == Earlier \notin Flows
ASSUME NullAssumption ==
    /\ NoStore \notin Turns
    /\ NoAttempt \notin Attempts
    /\ NoCred \notin (Flows \cup {Earlier}) \X Nat

SignIns == Flows \cup {Earlier}
Creds   == SignIns \X Nat

VARIABLES
    file,       \* auth.json
    shared,     \* codexStores: the store turns are given, or NoStore
    cred,       \* cliCodexTokenStore.cred
    due,        \* the stores whose token is about to expire
    inFlight,   \* cliCodexTokenStore.inFlight
    retired,    \* the stores a sign-in or sign-out retired
    at,         \* where a turn stands
    copy,       \* the credential a turn loaded
    storeOf,    \* the store it was given
    awaits,     \* the attempt it waits for
    step,       \* where a renewal stands
    ownerOf,    \* the store it renews
    sent,       \* the credential it renews
    result,     \* the renewed one, or NoCred for an error
    status,     \* codexLoginFlow.status, "none" before it starts
    exchange,   \* a flow's exchange of its code
    signOut,    \* "none", "retired" within httpCodexLogout, "done" when answered
    issuer,     \* how often the issuer renewed a sign-in
    trouble     \* history: what went wrong so far

fileVars  == <<file, signOut>>
storeVars == <<shared, cred, due, inFlight, retired>>
turnVars  == <<at, copy, storeOf, awaits>>
renewVars == <<step, ownerOf, sent, result>>
flowVars  == <<status, exchange>>
vars      == <<fileVars, storeVars, turnVars, renewVars, flowVars, issuer, trouble>>

TypeOK ==
    /\ file \in Creds \cup {NoCred}
    /\ shared \in Turns \cup {NoStore}
    /\ cred \in [Turns -> Creds \cup {NoCred}]
    /\ due \subseteq Turns
    /\ inFlight \in [Turns -> Attempts \cup {NoAttempt}]
    /\ retired \subseteq Turns
    /\ at \in [Turns -> {"idle", "loaded", "ready", "waiting", "failed"}]
    /\ copy \in [Turns -> Creds \cup {NoCred}]
    /\ storeOf \in [Turns -> Turns \cup {NoStore}]
    /\ awaits \in [Turns -> Attempts \cup {NoAttempt}]
    /\ step \in [Attempts -> {"idle", "asking", "answered", "committed", "done"}]
    /\ ownerOf \in [Attempts -> Turns \cup {NoStore}]
    /\ sent \in [Attempts -> Creds \cup {NoCred}]
    /\ result \in [Attempts -> Creds \cup {NoCred}]
    /\ status \in [Flows -> {"none", "pending", "success", "error"}]
    /\ exchange \in [Flows -> {"none", "asking", "granted", "denied", "saving", "over"}]
    /\ signOut \in {"none", "retired", "done"}
    /\ issuer \in [SignIns -> Nat]
    /\ trouble \subseteq {"crossed", "lost", "refused", "overtaken"}

Init ==
    /\ file = <<Earlier, 0>>
    /\ shared = NoStore
    /\ cred = [t \in Turns |-> NoCred]
    /\ due = {}
    /\ inFlight = [t \in Turns |-> NoAttempt]
    /\ retired = {}
    /\ at = [t \in Turns |-> "idle"]
    /\ copy = [t \in Turns |-> NoCred]
    /\ storeOf = [t \in Turns |-> NoStore]
    /\ awaits = [t \in Turns |-> NoAttempt]
    /\ step = [a \in Attempts |-> "idle"]
    /\ ownerOf = [a \in Attempts |-> NoStore]
    /\ sent = [a \in Attempts |-> NoCred]
    /\ result = [a \in Attempts |-> NoCred]
    /\ status = [f \in Flows |-> "none"]
    /\ exchange = [f \in Flows |-> "none"]
    /\ signOut = "none"
    /\ issuer = [f \in SignIns |-> 0]
    /\ trouble = {}

Stores == {s \in Turns : cred[s] # NoCred}

\* Between a retirement and the replacement or deletion of the file.
Replacing == signOut = "retired" \/ \E f \in Flows : exchange[f] = "saving"

Trouble(kind, happens) == trouble' = IF happens THEN trouble \cup {kind} ELSE trouble

-----------------------------------------------------------------------------
(* A turn gets its store.                                                   *)

\* loadCodexCredential; without a file the turn fails at once.
LoadCredential(t) ==
    /\ at[t] = "idle"
    /\ file # NoCred
    /\ copy' = [copy EXCEPT ![t] = file]
    /\ at' = [at EXCEPT ![t] = "loaded"]
    /\ UNCHANGED <<fileVars, storeVars, storeOf, awaits, renewVars, flowVars, issuer, trouble>>

\* sharedCodexTokenStore: the store there is, or a new one for the copy that was loaded.
\* A store made of a credential that is being, or has been, replaced crosses a sign-in or
\* a sign-out: it is not retired any more.
ShareStore(t) ==
    /\ at[t] = "loaded"
    /\ at' = [at EXCEPT ![t] = "ready"]
    /\ IF shared # NoStore
       THEN /\ storeOf' = [storeOf EXCEPT ![t] = shared]
            /\ UNCHANGED <<shared, cred, trouble>>
       ELSE /\ storeOf' = [storeOf EXCEPT ![t] = t]
            /\ shared' = t
            /\ cred' = [cred EXCEPT ![t] = copy[t]]
            /\ Trouble("crossed", copy[t] # file \/ Replacing)
    /\ UNCHANGED <<fileVars, due, inFlight, retired, copy, awaits, renewVars, flowVars, issuer>>

\* Time passes: needsRefreshLocked becomes true.
Age(s) ==
    /\ s \in Stores \ due
    /\ due' = due \cup {s}
    /\ UNCHANGED <<fileVars, shared, cred, inFlight, retired, turnVars, renewVars, flowVars,
                   issuer, trouble>>

-----------------------------------------------------------------------------
(* tokenSource and the renewal it starts.                                   *)

AwaitAttempt(t, a) ==
    /\ at' = [at EXCEPT ![t] = "waiting"]
    /\ awaits' = [awaits EXCEPT ![t] = a]
    /\ UNCHANGED <<copy, storeOf>>

\* Mutant: whoever needs a token starts a renewal.
MutMayRenew(s) == s \in due

\* A renewal starts only when none is in flight.
MayRenew(s) == s \in due /\ inFlight[s] = NoAttempt

\* startRefreshLocked. A token that is not due is returned, which changes nothing.
StartRefresh(t, a) ==
    LET s == storeOf[t] IN
    /\ at[t] = "ready"
    /\ MayRenew(s)
    /\ step[a] = "idle"
    /\ inFlight' = [inFlight EXCEPT ![s] = a]
    /\ step' = [step EXCEPT ![a] = "asking"]
    /\ ownerOf' = [ownerOf EXCEPT ![a] = s]
    /\ sent' = [sent EXCEPT ![a] = cred[s]]
    /\ AwaitAttempt(t, a)
    /\ UNCHANGED <<fileVars, shared, cred, due, retired, result, flowVars, issuer, trouble>>

\* Everyone else who needs a token waits for the renewal in flight.
JoinRefresh(t) ==
    LET s == storeOf[t] IN
    /\ at[t] = "ready"
    /\ s \in due /\ inFlight[s] # NoAttempt
    /\ AwaitAttempt(t, inFlight[s])
    /\ UNCHANGED <<fileVars, storeVars, renewVars, flowVars, issuer, trouble>>

\* The issuer renews what was not renewed before; the answer may get lost on the way.
IssuerRenews(a) ==
    LET f == sent[a][1]  g == sent[a][2] IN
    /\ step[a] = "asking"
    /\ issuer[f] = g
    /\ issuer' = [issuer EXCEPT ![f] = g + 1]
    /\ step' = [step EXCEPT ![a] = "answered"]
    /\ \/ result' = [result EXCEPT ![a] = <<f, g + 1>>] /\ UNCHANGED trouble
       \/ UNCHANGED result /\ Trouble("lost", TRUE)
    /\ UNCHANGED <<fileVars, storeVars, turnVars, ownerOf, sent, flowVars>>

\* The issuer refuses, or was not reached.
IssuerRefuses(a) ==
    /\ step[a] = "asking"
    /\ step' = [step EXCEPT ![a] = "answered"]
    /\ UNCHANGED <<fileVars, storeVars, turnVars, ownerOf, sent, result, flowVars, issuer, trouble>>

\* Mutant: the result counts only while somebody is still waiting for it.
MutCommit(a) ==
    LET s == ownerOf[a]  kept == result[a] # NoCred /\ \E t \in Turns : at[t] = "waiting" /\ awaits[t] = a IN
    /\ step[a] = "answered"
    /\ inFlight' = [inFlight EXCEPT ![s] = NoAttempt]
    /\ cred' = [cred EXCEPT ![s] = IF kept THEN result[a] ELSE @]
    /\ due' = IF kept THEN due \ {s} ELSE due
    /\ step' = [step EXCEPT ![a] = IF kept THEN "committed" ELSE "done"]
    /\ UNCHANGED <<fileVars, shared, retired, turnVars, ownerOf, sent, result, flowVars,
                   issuer, trouble>>

\* The attempt commits its own result, whether or not anybody still waits for it.
Commit(a) ==
    LET s == ownerOf[a]  renewed == result[a] # NoCred IN
    /\ step[a] = "answered"
    /\ inFlight' = [inFlight EXCEPT ![s] = NoAttempt]
    /\ cred' = [cred EXCEPT ![s] = IF renewed THEN result[a] ELSE @]
    /\ due' = IF renewed THEN due \ {s} ELSE due
    /\ step' = [step EXCEPT ![a] = IF renewed THEN "committed" ELSE "done"]
    /\ UNCHANGED <<fileVars, shared, retired, turnVars, ownerOf, sent, result, flowVars,
                   issuer, trouble>>

\* Mutant: a retired store writes as well.
MutMayPersist(s) == TRUE

\* persistUnlessRetired's check, made under the lock retirement takes.
MayPersist(s) == s \notin retired

\* persistUnlessRetired, after the latch was released: a later renewal may have been
\* written before. An error of the write is dropped.
Persist(a) ==
    LET s == ownerOf[a] IN
    /\ step[a] = "committed"
    /\ step' = [step EXCEPT ![a] = "done"]
    /\ IF MayPersist(s)
       THEN \/ /\ file' = result[a]
               /\ Trouble("overtaken", file # NoCred /\ file[1] = result[a][1] /\ file[2] > result[a][2])
            \/ UNCHANGED file /\ Trouble("refused", TRUE)
       ELSE UNCHANGED <<file, trouble>>
    /\ UNCHANGED <<signOut, storeVars, turnVars, ownerOf, sent, result, flowVars, issuer>>

\* The renewal is over: the turn goes on, or fails with an expired token.
Wake(t) ==
    /\ at[t] = "waiting"
    /\ step[awaits[t]] = "done"
    /\ \/ at' = [at EXCEPT ![t] = "ready"]
       \/ result[awaits[t]] = NoCred /\ at' = [at EXCEPT ![t] = "failed"]
    /\ awaits' = [awaits EXCEPT ![t] = NoAttempt]
    /\ UNCHANGED <<fileVars, storeVars, copy, storeOf, renewVars, flowVars, issuer, trouble>>

\* The turn gives up waiting after codexRefreshTimeout; the attempt keeps the latch.
GiveUp(t) ==
    /\ at[t] = "waiting"
    /\ at' = [at EXCEPT ![t] = "failed"]
    /\ awaits' = [awaits EXCEPT ![t] = NoAttempt]
    /\ UNCHANGED <<fileVars, storeVars, copy, storeOf, renewVars, flowVars, issuer, trouble>>

-----------------------------------------------------------------------------
(* Signing in and out.                                                      *)

\* resetCodexTokenStores.
Retire ==
    /\ retired' = retired \cup ({shared} \ {NoStore})
    /\ shared' = NoStore
    /\ UNCHANGED <<cred, due, inFlight>>

\* httpCodexLoginStart.
StartFlow(f) ==
    /\ status[f] = "none"
    /\ status' = [status EXCEPT ![f] = "pending"]
    /\ UNCHANGED <<fileVars, storeVars, turnVars, renewVars, exchange, issuer, trouble>>

\* codexLoginFlow.finish, of a flow that ends without a code. It takes the flow's lock,
\* which complete holds while it saves.
EndFlow(f) ==
    /\ status[f] = "pending" /\ exchange[f] # "saving"
    /\ status' = [status EXCEPT ![f] = "error"]
    /\ UNCHANGED <<fileVars, storeVars, turnVars, renewVars, exchange, issuer, trouble>>

\* complete: of a redirect and a pasted code only one exchanges the code.
Submit(f) ==
    /\ status[f] = "pending" /\ exchange[f] = "none"
    /\ exchange' = [exchange EXCEPT ![f] = "asking"]
    /\ UNCHANGED <<fileVars, storeVars, turnVars, renewVars, status, issuer, trouble>>

\* The issuer answers the exchange.
IssuerAnswers(f) ==
    /\ exchange[f] = "asking"
    /\ \E answer \in {"granted", "denied"} : exchange' = [exchange EXCEPT ![f] = answer]
    /\ UNCHANGED <<fileVars, storeVars, turnVars, renewVars, status, issuer, trouble>>

\* complete looks at the status again before it saves.
MaySave(f) == exchange[f] = "granted" /\ status[f] = "pending"

\* The second half of complete: with a credential that is still wanted the stores are
\* retired first; anything else is recorded if nothing was before.
FinishExchange(f) ==
    /\ exchange[f] \in {"granted", "denied"}
    /\ IF MaySave(f)
       THEN /\ Retire
            /\ exchange' = [exchange EXCEPT ![f] = "saving"]
            /\ UNCHANGED status
       ELSE /\ exchange' = [exchange EXCEPT ![f] = "over"]
            /\ status' = [status EXCEPT ![f] = IF @ = "pending" THEN "error" ELSE @]
            /\ UNCHANGED storeVars
    /\ UNCHANGED <<fileVars, turnVars, renewVars, issuer, trouble>>

\* complete saves the credential. A failed write leaves the old one behind, to be shared
\* by a second store while the retired one may be renewing it.
SaveSignIn(f) ==
    /\ exchange[f] = "saving"
    /\ exchange' = [exchange EXCEPT ![f] = "over"]
    /\ \/ /\ file' = <<f, 0>>
          /\ signOut' = IF signOut = "done" THEN "none" ELSE signOut
          /\ status' = [status EXCEPT ![f] = IF @ = "pending" THEN "success" ELSE @]
          /\ UNCHANGED trouble
       \/ /\ status' = [status EXCEPT ![f] = IF @ = "pending" THEN "error" ELSE @]
          /\ Trouble("crossed", TRUE)
          /\ UNCHANGED fileVars
    /\ UNCHANGED <<storeVars, turnVars, renewVars, issuer>>

\* httpCodexLogout retires the stores ...
BeginSignOut ==
    /\ signOut # "retired"
    /\ signOut' = "retired"
    /\ Retire
    /\ UNCHANGED <<file, turnVars, renewVars, flowVars, issuer, trouble>>

\* ... and deletes the file, which the file system may refuse.
FinishSignOut ==
    /\ signOut = "retired"
    /\ \/ file' = NoCred /\ signOut' = "done" /\ UNCHANGED trouble
       \/ UNCHANGED file /\ signOut' = "none" /\ Trouble("crossed", TRUE)
    /\ UNCHANGED <<storeVars, turnVars, renewVars, flowVars, issuer>>

-----------------------------------------------------------------------------
Turn(t) ==
    \/ LoadCredential(t) \/ ShareStore(t) \/ JoinRefresh(t) \/ Wake(t) \/ GiveUp(t)
    \/ \E a \in Attempts : StartRefresh(t, a)

Renewal(a) == IssuerRenews(a) \/ IssuerRefuses(a) \/ Commit(a) \/ Persist(a)

\* The browser comes back to the listener: with a code, or with another flow's state or
\* no code at all, which ends the flow.
Redirect(f) == Submit(f) \/ EndFlow(f)

\* An address or a code is pasted; one that is not of this flow changes nothing.
Paste(f) == Submit(f)

\* The user cancels, or nobody comes back in time.
Cancel(f) == EndFlow(f)
TimeOut(f) == EndFlow(f)

SignIn(f) ==
    \/ StartFlow(f) \/ Redirect(f) \/ Paste(f) \/ Cancel(f) \/ TimeOut(f)
    \/ IssuerAnswers(f) \/ FinishExchange(f) \/ SaveSignIn(f)

Next ==
    \/ \E t \in Turns : Turn(t) \/ Age(t)
    \/ \E a \in Attempts : Renewal(a)
    \/ \E f \in Flows : SignIn(f)
    \/ BeginSignOut \/ FinishSignOut

Spec == Init /\ [][Next]_vars

-----------------------------------------------------------------------------
(* Properties.                                                              *)

\* Unless a turn and a retirement crossed, no refresh token is ever presented by two
\* renewals at a time, whoever gave up waiting and whatever stores are still in use: the
\* issuer would rotate it out from under one of them.
RenewalsAreExclusive ==
    "crossed" \notin trouble =>
        \A a, b \in Attempts :
            step[a] = "asking" /\ step[b] = "asking" /\ sent[a] = sent[b] => a = b

\* Unless an answer of the issuer got lost, the store turns are given holds a credential
\* that can be renewed, or the renewal that will replace it is in flight: a renewal
\* nobody waits for any more is not thrown away.
StoreIsNotStranded ==
    trouble \cap {"crossed", "lost"} = {} /\ shared # NoStore =>
        \/ cred[shared][2] = issuer[cred[shared][1]]
        \/ inFlight[shared] # NoAttempt /\ step[inFlight[shared]] = "answered"

\* The file, from which the next process starts, is as good as that, at the latest when
\* the renewals under way are written: unless one was refused by the file system or
\* written after a later one.
FileIsNotStranded ==
    trouble = {} /\ ~Replacing /\ file # NoCred =>
        \/ file[2] = issuer[file[1]]
        \/ \E a \in Attempts :
              /\ step[a] \in {"answered", "committed"}
              /\ ownerOf[a] \notin retired
              /\ result[a] = <<file[1], issuer[file[1]]>>

\* Once a sign-out was answered, no renewal that was in flight, and no store, brings the
\* credential back, unless a turn was between loading it and sharing it.
SignedOutStaysOut ==
    signOut = "done" /\ "crossed" \notin trouble => file = NoCred /\ shared = NoStore

\* A sign-in the user was told had failed (cancelled, timed out, while the issuer was
\* answering) is never saved or used after all.
CancelledIsNotSaved ==
    \A f \in Flows : status[f] = "error" =>
        /\ file # NoCred => file[1] # f
        /\ \A s \in Stores : cred[s][1] # f

=============================================================================
