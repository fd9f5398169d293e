------------------------------- MODULE Drafts -------------------------------
(***************************************************************************)
(* One document of an editor draft of "dzzzr web": the file on the server   *)
(* with its revision, the author's tab that keeps its form in step with it, *)
(* the agent that edits it through tools, and the engine it is published to *)
(* (cmd/dzzzr: web_drafts.go, web_draft_tools.go, webui/drafts.js,          *)
(* webui/editor.js).                                                        *)
(*                                                                         *)
(* Every handler works under draftMu and is one action. The tab runs one    *)
(* sync at a time ("pending" of drafts.js chains them); between two of its  *)
(* awaits it is one action, between them the author types, the agent        *)
(* writes, and requests and answers are lost.                               *)
(*                                                                         *)
(* A field holds a text; Empty is the empty one, which the engine has to be *)
(* told about in a way of its own (engineDraftParams).                      *)
(***************************************************************************)
EXTENDS Naturals, Functions

CONSTANTS
    Fields,     \* the fields of the form
    Values,     \* what a field can hold
    Empty,      \* the empty text
    Attempts,   \* how often one sync tries (8 in drafts.js)
    Nothing,    \* no copy, no edit
    MaxTyped, MaxAgent, MaxSaves, MaxLost, MaxReloads   \* bounds of the model

ASSUME EmptyAssumption == Empty \in Values
ASSUME NothingAssumption == Nothing \notin Values
ASSUME AttemptsAssumption == Attempts \in Nat \ {0}
ASSUME BoundsAssumption == {MaxTyped, MaxAgent, MaxSaves, MaxLost, MaxReloads} \subseteq Nat

Params == [Fields -> Values]
Edits  == UNION {[S -> Values] : S \in SUBSET Fields}
Nowhere == [f \in Fields |-> Nothing]
Blank == [f \in Fields |-> Empty]
NoRequest == [rev |-> 0, edit |-> <<>>]
NoAnswer == [rev |-> 0, params |-> Blank]

VARIABLES
    rev, params, saved,     \* draftDocument: Revision, Params, Base
    known,                  \* the document has an identifier on the engine
    engine,                 \* what the engine holds for it
    created, forgotten,     \* history: objects the engine created; publications it took
                            \* and the draft does not know of
    seen,                   \* the revision the agent read last; 0 before it read any
    late,                   \* requests whose page no longer waits for the answer
    phase, saving,          \* the tab: where it stands, whether "save" was pressed
    form, base, docRev,     \* the form, "base" and doc.revision of drafts.js
    copy,                   \* the recovery copy in sessionStorage
    sent, answer, tries,    \* the request, its answer, the attempt of this sync
    typed,                  \* history: what the author typed and has neither seen saved
                            \* nor given up
    shown,                  \* history: values on the screen when the author chose another
    bounds                  \* how much of each bound is used up

docVars   == <<rev, params, saved, known, engine, created, forgotten>>
tabVars   == <<phase, saving, form, base, docRev, copy, sent, answer, tries, typed, shown>>
draftVars == <<docVars, seen, late, tabVars, bounds>>

Copies    == [base : Params, params : Params]
ASSUME NoCopyAssumption == Nothing \notin Copies
Phases    == {"opening", "opened", "idle", "getting", "got", "patching", "patched", "refused",
              "publishing", "published"}

\* The types of the document, the tab and the requests; a sync makes Attempts attempts at most.
DraftTypeOK ==
    /\ rev \in Nat /\ params \in Params /\ saved \in Params
    /\ known \in BOOLEAN /\ engine \in Params
    /\ created \in Nat /\ forgotten \in Nat
    /\ seen \in Nat
    /\ \A m \in late : m.kind \in {"patch", "publish"} /\ m.rev \in Nat
    /\ phase \in Phases /\ saving \in BOOLEAN
    /\ form \in Params /\ base \in Params /\ docRev \in Nat
    /\ copy \in Copies \cup {Nothing}
    /\ sent.rev \in Nat
    /\ answer.rev \in Nat /\ answer.params \in Params
    /\ tries \in 0..Attempts
    /\ typed \in [Fields -> Values \cup {Nothing}]
    /\ shown \in [Fields -> SUBSET Values]
    /\ bounds \in [{"typed", "agent", "saves", "lost", "reloads"} -> Nat]


\* The document was opened from an engine object or for a new one; the page loads.
DraftInit ==
    /\ rev = 1 /\ params = Blank /\ saved = Blank
    /\ known \in BOOLEAN /\ engine = Blank
    /\ created = 0 /\ forgotten = 0
    /\ seen = 0 /\ late = {}
    /\ phase = "opening" /\ saving = FALSE
    /\ form = Blank /\ base = Blank /\ docRev = 0
    /\ copy = Nothing
    /\ sent = NoRequest /\ answer = NoAnswer /\ tries = 0
    /\ typed = Nowhere
    /\ shown = [f \in Fields |-> {}]
    /\ bounds = [b \in {"typed", "agent", "saves", "lost", "reloads"} |-> 0]

Use(bound, max) == bounds[bound] < max /\ bounds' = [bounds EXCEPT ![bound] = @ + 1]

-----------------------------------------------------------------------------
(* The handlers of web_drafts.go.                                           *)

Applied(edit) == [f \in Fields |-> IF f \in DOMAIN edit THEN edit[f] ELSE params[f]]

\* patchDraft: refused with 409 unless the revision is the current one.
PatchDraft(r, edit) ==
    IF r = rev
    THEN params' = Applied(edit) /\ rev' = rev + 1
    ELSE UNCHANGED <<params, rev>>

\* engineDraftParams and the update it is for: an empty field is left out of the request,
\* and cleared by name only if the engine is known to hold a text there.
Updated == [f \in Fields |-> IF params[f] = Empty /\ saved[f] = Empty THEN engine[f] ELSE params[f]]

\* The engine carries the request out: an object is created while the document has none.
EngineTakes ==
    /\ engine' = IF known THEN Updated ELSE params
    /\ created' = IF known THEN created ELSE created + 1

\* Mutant: the identifier the engine gave is not kept.
MutForgetfulRecorded == UNCHANGED known /\ saved' = params /\ rev' = rev + 1

\* What the draft keeps of a publication.
Recorded == known' = TRUE /\ saved' = params /\ rev' = rev + 1

\* httpPublishDraft after its checks. The engine's answer, or the write of the draft after
\* it, may fail, and then the file stays as it was.
PublishDraft(outcome) ==
    CASE outcome = "saved" ->
            /\ EngineTakes
            /\ Recorded
            /\ UNCHANGED <<params, forgotten>>
      [] outcome = "forgotten" ->
            /\ EngineTakes
            /\ forgotten' = forgotten + 1
            /\ UNCHANGED <<known, saved, rev, params>>
      [] outcome = "refused" -> UNCHANGED docVars

\* A stale revision is refused before the engine is asked.
Publications(r) ==
    IF r # rev THEN {"refused"}
    ELSE {"saved", "refused"} \cup (IF bounds["lost"] < MaxLost THEN {"forgotten"} ELSE {})

Counted(outcome) ==
    IF outcome = "forgotten" THEN Use("lost", MaxLost) ELSE UNCHANGED bounds

-----------------------------------------------------------------------------
(* The tab, drafts.js.                                                      *)

OnScreen == phase \notin {"opening", "opened"}

\* diff.
Diff(before, after) == Restrict(after, {f \in Fields : before[f] # after[f]})

\* Mutant: nobody is asked, the author's value stands.
MutAsked(before, local, remote) == {}

\* merge asks about a field both sides changed, and not to the same value.
Asked(before, local, remote) ==
    {f \in Fields : before[f] # local[f] /\ before[f] # remote[f] /\ local[f] # remote[f]}

\* Mutant: a newer document replaces the form.
MutMerge(before, local, remote, givenUp) == IF remote = before THEN local ELSE remote

\* merge: the author's changes over the shared document, except those given up when asked.
Merge(before, local, remote, givenUp) ==
    [f \in Fields |-> IF before[f] # local[f] /\ f \notin givenUp THEN local[f] ELSE remote[f]]

\* What a merge means for the author: an edit that is seen in the document is saved, and of a
\* field asked about one of the two values on the screen was chosen.
TypedAfter(asked, givenUp, screen, local, remote) ==
    [f \in Fields |->
        CASE f \in givenUp -> Nothing
          [] f \in asked \ givenUp -> screen[f]
          [] f \notin asked /\ typed[f] = remote[f] /\ local[f] = remote[f] -> Nothing
          [] OTHER -> typed[f]]

ShownAfter(asked, remote) ==
    [f \in Fields |-> IF f \in asked THEN shown[f] \cup {remote[f]} ELSE shown[f]]

\* An edit: schedule keeps the recovery copy. The form is inert while saving.
Type(f, v) ==
    /\ OnScreen /\ ~saving
    /\ v # form[f]
    /\ Use("typed", MaxTyped)
    /\ form' = [form EXCEPT ![f] = v]
    /\ copy' = [base |-> base, params |-> form']
    /\ typed' = [typed EXCEPT ![f] = v]
    /\ shown' = [shown EXCEPT ![f] = @ \cup {form[f]}]
    /\ UNCHANGED <<docVars, seen, late, phase, saving, base, docRev, sent, answer, tries>>

\* sync begins, after a pause in the typing, every two seconds, or to save.
Sync ==
    /\ phase = "idle"
    /\ phase' = "getting"
    /\ copy' = [base |-> base, params |-> form]
    /\ tries' = 1
    /\ UNCHANGED <<docVars, seen, late, form, base, docRev, sent, answer, typed, shown>>

StartSync == Sync /\ UNCHANGED <<saving, bounds>>

\* publish, which flushes first.
Save ==
    /\ ~saving
    /\ Use("saves", MaxSaves)
    /\ saving' = TRUE
    /\ Sync

\* httpOpenDraft finds the document of the page; httpGetDraft.
Look ==
    /\ phase \in {"opening", "getting"}
    /\ phase' = IF phase = "opening" THEN "opened" ELSE "got"
    /\ answer' = [rev |-> rev, params |-> params]
    /\ UNCHANGED <<docVars, seen, late, saving, form, base, docRev, copy, sent, tries, typed,
                   shown, bounds>>

\* attach: the recovery copy of an earlier page is merged in.
Attach ==
    LET remote == answer.params
        mine   == IF copy = Nothing THEN [base |-> remote, params |-> remote] ELSE copy
        asked  == Asked(mine.base, mine.params, remote)
    IN
    /\ phase \in {"opened", "published"}
    /\ \E givenUp \in SUBSET asked :
          /\ form' = Merge(mine.base, mine.params, remote, givenUp)
          /\ typed' = TypedAfter(asked, givenUp, mine.params, form', remote)
    /\ shown' = ShownAfter(asked, remote)
    /\ base' = remote
    /\ docRev' = answer.rev
    /\ copy' = IF form' = remote THEN copy ELSE [base |-> remote, params |-> form']
    /\ phase' = "idle"
    /\ saving' = FALSE
    /\ answer' = NoAnswer
    /\ UNCHANGED <<docVars, seen, late, sent, tries, bounds>>

\* A sync ends: the copy is dropped; publish goes on to publish.
Settle ==
    /\ copy' = Nothing
    /\ shown' = [f \in Fields |-> {}]
    /\ phase' = IF saving THEN "publishing" ELSE "idle"
    /\ sent' = NoRequest
    /\ tries' = 0
    /\ UNCHANGED saving

\* The latest document arrived. A newer one is merged and rendered; what the document does
\* not have yet is sent.
Got ==
    LET remote == answer.params
        before == IF answer.rev # docRev THEN base ELSE remote
        asked  == Asked(before, form, remote)
    IN
    /\ phase = "got"
    /\ \E givenUp \in SUBSET asked :
          /\ form' = Merge(before, form, remote, givenUp)
          /\ typed' = TypedAfter(asked, givenUp, form, form', remote)
    /\ base' = IF answer.rev # docRev THEN remote ELSE base
    /\ docRev' = answer.rev
    /\ IF form' = base'
       THEN Settle
       ELSE /\ phase' = "patching"
            /\ sent' = [rev |-> answer.rev, edit |-> Diff(base', form')]
            /\ shown' = ShownAfter(asked, remote)
            /\ UNCHANGED <<saving, copy, tries>>
    /\ answer' = NoAnswer
    /\ UNCHANGED <<docVars, seen, late, bounds>>

TriesLeft == tries < Attempts

\* The next attempt of a sync; after the last one the sync fails, and publish with it.
Retry ==
    /\ IF TriesLeft
       THEN /\ phase' = "getting"
            /\ tries' = tries + 1
            /\ copy' = [base |-> base', params |-> form]
            /\ UNCHANGED saving
       ELSE /\ phase' = "idle"
            /\ tries' = 0
            /\ saving' = FALSE
            /\ UNCHANGED copy
    /\ sent' = NoRequest
    /\ UNCHANGED shown

\* The answer to the PATCH. Fields typed meanwhile are sent by the next attempt.
Patched ==
    /\ phase = "patched"
    /\ base' = answer.params
    /\ docRev' = answer.rev
    /\ typed' = TypedAfter({}, {}, form, form, answer.params)
    /\ IF form = answer.params THEN Settle ELSE Retry
    /\ answer' = NoAnswer
    /\ UNCHANGED <<docVars, seen, late, form, bounds>>

\* The PATCH was refused with 409.
Refused ==
    /\ phase = "refused"
    /\ UNCHANGED <<base, docRev>>
    /\ Retry
    /\ answer' = NoAnswer
    /\ UNCHANGED <<docVars, seen, late, form, typed, bounds>>

-----------------------------------------------------------------------------
(* The requests of the tab reach the server, or nothing does.               *)

\* httpPatchDraft.
ServePatch ==
    /\ phase = "patching"
    /\ PatchDraft(sent.rev, sent.edit)
    /\ phase' = IF sent.rev = rev THEN "patched" ELSE "refused"
    /\ answer' = IF sent.rev = rev THEN [rev |-> rev', params |-> params'] ELSE NoAnswer
    /\ UNCHANGED <<saved, known, engine, created, forgotten, seen, late, saving, form, base,
                   docRev, copy, sent, tries, typed, shown, bounds>>

\* httpPublishDraft, with the error answers, on which publish gives up.
ServePublish ==
    /\ phase = "publishing"
    /\ \E outcome \in Publications(docRev) :
          /\ PublishDraft(outcome)
          /\ Counted(outcome)
          /\ phase' = IF outcome = "saved" THEN "published" ELSE "idle"
          /\ saving' = (outcome = "saved")
          /\ answer' = IF outcome = "saved" THEN [rev |-> rev', params |-> params'] ELSE NoAnswer
    /\ UNCHANGED <<seen, late, form, base, docRev, copy, sent, tries, typed, shown>>

\* The request the page waits for and the server has not handled.
Unserved ==
    CASE phase = "patching" -> {[kind |-> "patch", rev |-> sent.rev, edit |-> sent.edit]}
      [] phase = "publishing" -> {[kind |-> "publish", rev |-> docRev, edit |-> <<>>]}
      [] OTHER -> {}

Forget ==
    /\ sent' = NoRequest /\ answer' = NoAnswer /\ tries' = 0
    /\ saving' = FALSE
    /\ late' = late \cup Unserved

\* The request fails for the page, whether the server gets it or not.
Lose ==
    /\ OnScreen /\ phase # "idle"
    /\ Use("lost", MaxLost)
    /\ phase' = "idle"
    /\ Forget
    /\ UNCHANGED <<docVars, seen, form, base, docRev, copy, typed, shown>>

\* The page is loaded anew: sessionStorage is all that stays.
Reload ==
    /\ OnScreen
    /\ Use("reloads", MaxReloads)
    /\ phase' = "opening"
    /\ Forget
    /\ form' = Blank /\ base' = Blank /\ docRev' = 0
    /\ UNCHANGED <<docVars, seen, copy, typed, shown>>

\* A request nobody waits for is handled after all.
ServeLate(m) ==
    /\ m \in late
    /\ late' = late \ {m}
    /\ \/ /\ m.kind = "patch"
          /\ PatchDraft(m.rev, m.edit)
          /\ UNCHANGED <<saved, known, engine, created, forgotten, bounds>>
       \/ /\ m.kind = "publish"
          /\ \E outcome \in Publications(m.rev) : PublishDraft(outcome) /\ Counted(outcome)
    /\ UNCHANGED <<seen, tabVars>>

-----------------------------------------------------------------------------
(* The agent, draftTool.Execute.                                            *)

\* draft_read.
AgentRead ==
    /\ seen # rev
    /\ seen' = rev
    /\ UNCHANGED <<docVars, late, tabVars, bounds>>

\* draft_update of one field, with the revision the agent read. It answers with the draft.
AgentUpdate(f, v) ==
    /\ seen # 0
    /\ Use("agent", MaxAgent)
    /\ PatchDraft(seen, [g \in {f} |-> v])
    /\ seen' = IF seen = rev THEN rev' ELSE seen
    /\ UNCHANGED <<saved, known, engine, created, forgotten, late, tabVars>>

-----------------------------------------------------------------------------
DraftNext ==
    \/ \E f \in Fields, v \in Values : Type(f, v) \/ AgentUpdate(f, v)
    \/ StartSync \/ Save \/ Look \/ Attach \/ Got \/ Patched \/ Refused
    \/ ServePatch \/ ServePublish \/ Lose \/ Reload
    \/ \E m \in late : ServeLate(m)
    \/ AgentRead

DraftSpec == DraftInit /\ [][DraftNext]_draftVars

-----------------------------------------------------------------------------
(* Properties.                                                              *)

\* What the browser has of the author's work: the form, or the copy while the page loads.
Held ==
    CASE OnScreen -> [base |-> base, params |-> form]
      [] ~OnScreen /\ copy # Nothing -> copy
      [] OTHER -> [base |-> Nowhere, params |-> Nowhere]

\* An edit that differs from the document it was made in stays in the browser until it is
\* seen saved or the author gives it up: merging, conflicts, lost answers, late requests,
\* failed syncs and reloads drop none (drafts.js:31-44, 50-86, 102-116).
EditsAreKept ==
    [][\A f \in Fields :
          typed[f] # Nothing /\ typed[f] = Held.params[f] /\ typed[f] # Held.base[f] =>
              typed'[f] = Nothing \/ typed'[f] = Held'.params[f]]_draftVars

\* Nothing is written unseen.  No value of another author is overwritten by a form that did
\* not show it: each field a PATCH changes held a value the author typed over or preferred
\* the own one to.  And the engine is given what the form shows, merges and a racing agent
\* notwithstanding.
OverwritesKnowingly ==
    [][/\ ServePatch => \A f \in Fields : params'[f] # params[f] => params[f] \in shown[f]
       /\ phase = "publishing" /\ <<engine, created>>' # <<engine, created>> => params = form]_draftVars

\* A retried save creates a second object only after a publication the draft does not know of:
\* a lost answer to the page is not one.
CreatesOnce == created <= 1 + forgotten

=============================================================================
