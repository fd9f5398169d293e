---------------------------- MODULE Calculations ----------------------------
(***************************************************************************)
(* Saved calculations of a game's statistics and those who change their     *)
(* parameters: the statistics page in several tabs (cmd/dzzzr/webui:        *)
(* stats.js), the handlers of "dzzzr web" (web_statistics.go), the agent's  *)
(* tools stats_report and stats_configure (agenttools/statistics.go), and   *)
(* the store with its revisions (statstore/store.go). What the parameters   *)
(* do to the results is the subject of Statistics.                          *)
(*                                                                         *)
(* The parameters are the set of edits made to the defaults. A page has one *)
(* request at a time it still listens to; a request it aborted may reach    *)
(* the server all the same.                                                 *)
(***************************************************************************)
EXTENDS Naturals, Sequences, FiniteSetsExt

CONSTANTS
    Pages,          \* browser tabs
    Files,          \* exported logs the user may upload
    BadFiles,       \* those that cannot be read as a log
    Edits,          \* changes of one parameter
    NoFile,
    MaxRequests,    \* bound: requests of all pages
    MaxLogs,        \* bound: calculations that are made
    MaxAgent        \* bound: changes the agent makes

ASSUME BadFilesAssumption == BadFiles \subseteq Files
ASSUME NoFileAssumption == NoFile \notin Files

VARIABLES
    logs,       \* the store: the file of each calculation, and the parameters of each revision
    shared,     \* stats.js: the calculation the page works on, [id, revision, file]; id 0 before it is known
    attached,   \* is shared.file the very file that is shown?
    file,       \* state.file, whose results are shown
    cfg,        \* state.cfg, what the fields say
    shown,      \* the parameters the shown results were computed with
    url,        \* the calculation in the page's address, or 0
    opening,    \* calculations that openShared is reading
    op,         \* the request the page listens to: [no, kind, file, answer]
    alarm,      \* an error is shown
    wire,       \* requests on their way to the server
    seen,       \* the agent's last stats_report, [id, revision, cfg]
    changes,    \* how many changes the agent tried
    known,      \* history: the edits a page has shown
    lost,       \* history: accepted edits that were undone by one who did not know them
    strayed     \* history: pages whose edit met a load, or followed one that failed

pageVars == <<shared, attached, file, cfg, shown, url, opening, op, alarm, known, strayed>>
vars == <<logs, pageVars, wire, seen, changes, lost>>

Ids == 1..MaxLogs
NoAnswer == [is |-> "none"]
Failed == [is |-> "failed"]
Idle == [no |-> 0, kind |-> "none", file |-> NoFile, answer |-> NoAnswer]
Unknown(f) == [id |-> 0, revision |-> 0, file |-> f]

Init ==
    /\ logs = <<>>
    /\ shared = [p \in Pages |-> Unknown(NoFile)]
    /\ attached = [p \in Pages |-> FALSE]
    /\ file = [p \in Pages |-> NoFile]
    /\ cfg = [p \in Pages |-> {}]
    /\ shown = [p \in Pages |-> {}]
    /\ url = [p \in Pages |-> 0]
    /\ opening = [p \in Pages |-> {}]
    /\ op = [p \in Pages |-> Idle]
    /\ alarm = [p \in Pages |-> FALSE]
    /\ wire = {}
    /\ seen = [id |-> 0, revision |-> 0, cfg |-> {}]
    /\ changes = 0
    /\ known = [p \in Pages |-> {}]
    /\ lost = {}
    /\ strayed = {}

-----------------------------------------------------------------------------
(* The store: every operation under its mutex.                              *)

Has(id) == id \in 1..Len(logs)
Revision(id) == Len(logs[id].versions)
Now(id) == logs[id].versions[Revision(id)]
Answer(id, revision, parameters) ==
    [is |-> "ok", id |-> id, revision |-> revision, cfg |-> parameters]

Create(f) == logs' = Append(logs, [file |-> f, versions |-> <<{}>>])

\* Mutant: whoever writes last wins.
MutAccepts(id, revision) == Has(id)

\* Store.Update takes a change of the revision it was made from only.
Accepts(id, revision) == Has(id) /\ revision = Revision(id)

\* Update by one who knows of the edits in "aware".
Update(id, parameters, aware) ==
    /\ logs' = [logs EXCEPT ![id].versions = Append(@, parameters)]
    /\ lost' = lost \cup (Now(id) \ (parameters \cup aware))

-----------------------------------------------------------------------------
(* The page: stats.js.                                                      *)

Requests == MapThenSumSet(LAMBDA p : op[p].no, Pages)

\* requestReport under a new version: what was under way is aborted.
Request(p, kind, method, f, id, revision, parameters) ==
    LET no == op[p].no + 1 IN
    /\ Requests < MaxRequests
    /\ op' = [op EXCEPT ![p] = [no |-> no, kind |-> kind, file |-> f, answer |-> NoAnswer]]
    /\ wire' = wire \cup {[page |-> p, no |-> no, method |-> method, file |-> f,
                           id |-> id, revision |-> revision, cfg |-> parameters,
                           aware |-> known[p]]}

\* readFile of a file the user chose, the one that is shown already included.
Upload(p, f) ==
    /\ Request(p, "load", "POST", f, 0, 0, {})
    /\ shared' = [shared EXCEPT ![p] = Unknown(f)]
    /\ attached' = [attached EXCEPT ![p] = FALSE]
    /\ UNCHANGED <<logs, file, cfg, shown, url, opening, alarm, seen, changes, known, lost, strayed>>

\* refreshShared, when the tab is entered or by the button: the calculation of the
\* address is read, by readFile at once if it is the one at hand.
Refresh(p) ==
    /\ url[p] # 0
    /\ IF shared[p].id = url[p]
       THEN /\ Request(p, "load", "GET", shared[p].file, url[p], 0, {})
            /\ UNCHANGED opening
       ELSE /\ opening' = [opening EXCEPT ![p] = @ \cup {url[p]}]
            /\ UNCHANGED <<op, wire>>
    /\ UNCHANGED <<logs, shared, attached, file, cfg, shown, url, alarm, seen, changes, known, lost, strayed>>

\* openShared has the calculation and its source, and goes on to readFile whatever else
\* the page has begun in the meantime.
Opened(p, id) ==
    /\ id \in opening[p]
    /\ opening' = [opening EXCEPT ![p] = @ \ {id}]
    /\ shared' = [shared EXCEPT ![p] =
                     [id |-> id, revision |-> Revision(id), file |-> logs[id].file]]
    /\ attached' = [attached EXCEPT ![p] = FALSE]
    /\ Request(p, "load", "GET", logs[id].file, id, 0, {})
    /\ UNCHANGED <<logs, file, cfg, shown, url, alarm, seen, changes, known, lost, strayed>>

\* recompute: the shown file is uploaded again, without the parameters, when the page
\* has turned to another file in the meantime.
Recompute(p, parameters) ==
    IF attached[p]
    THEN /\ Request(p, "calc", "PUT", file[p], shared[p].id, shared[p].revision, parameters)
         /\ UNCHANGED <<shared, attached, strayed>>
    ELSE /\ Request(p, "calc", "POST", file[p], 0, 0, {})
         /\ shared' = [shared EXCEPT ![p] = Unknown(file[p])]
         /\ attached' = [attached EXCEPT ![p] = TRUE]
         /\ strayed' = strayed \cup {p}

\* onCfgChange.
Edit(p, e) ==
    /\ file[p] # NoFile
    /\ e \notin cfg[p]
    /\ cfg' = [cfg EXCEPT ![p] = @ \cup {e}]
    /\ known' = [known EXCEPT ![p] = @ \cup {e}]
    /\ Recompute(p, cfg[p] \cup {e})
    /\ UNCHANGED <<logs, file, shown, url, opening, alarm, seen, changes, lost>>

\* The button that resets the parameters; it is disabled while a file is loaded.
Reset(p) ==
    /\ file[p] # NoFile /\ op[p].kind # "load"
    /\ cfg' = [cfg EXCEPT ![p] = {}]
    /\ Recompute(p, {})
    /\ UNCHANGED <<logs, file, shown, url, opening, alarm, seen, changes, known, lost>>

\* The page is opened by a link to a calculation, or reloaded.
Visit(p, id) ==
    /\ Has(id)
    /\ file[p] = NoFile \/ id = url[p]
    /\ Requests < MaxRequests
    /\ url' = [url EXCEPT ![p] = id]
    /\ shared' = [shared EXCEPT ![p] = Unknown(NoFile)]
    /\ attached' = [attached EXCEPT ![p] = FALSE]
    /\ file' = [file EXCEPT ![p] = NoFile]
    /\ cfg' = [cfg EXCEPT ![p] = {}]
    /\ shown' = [shown EXCEPT ![p] = {}]
    /\ opening' = [opening EXCEPT ![p] = {id}]
    /\ op' = [op EXCEPT ![p] = [Idle EXCEPT !.no = op[p].no]]
    /\ alarm' = [alarm EXCEPT ![p] = FALSE]
    /\ known' = [known EXCEPT ![p] = {}]
    /\ strayed' = strayed \ {p}
    /\ UNCHANGED <<logs, wire, seen, changes, lost>>

Finished(p) == op' = [op EXCEPT ![p] = [Idle EXCEPT !.no = op[p].no]]

\* sharedResponse and the rest of readFile or recompute.
Reply(p) ==
    LET answer == op[p].answer IN
    /\ answer.is = "ok"
    /\ Finished(p)
    /\ shared' = [shared EXCEPT ![p] =
                     [id |-> answer.id, revision |-> answer.revision, file |-> op[p].file]]
    /\ url' = [url EXCEPT ![p] = answer.id]
    /\ alarm' = [alarm EXCEPT ![p] = FALSE]
    /\ shown' = [shown EXCEPT ![p] = answer.cfg]
    /\ IF op[p].kind = "load"
       THEN /\ file' = [file EXCEPT ![p] = op[p].file]
            /\ attached' = [attached EXCEPT ![p] = TRUE]
            /\ cfg' = [cfg EXCEPT ![p] = answer.cfg]
            /\ known' = [known EXCEPT ![p] = @ \cup answer.cfg]
            /\ strayed' = strayed \ {p}
       ELSE UNCHANGED <<file, attached, cfg, known, strayed>>
    /\ UNCHANGED <<logs, opening, wire, seen, changes, lost>>

\* The error is shown; the file that could not be loaded stays in shared.
Refused(p) ==
    /\ op[p].answer.is = "failed"
    /\ Finished(p)
    /\ alarm' = [alarm EXCEPT ![p] = TRUE]
    /\ UNCHANGED <<logs, shared, attached, file, cfg, shown, url, opening, wire, seen, changes,
                   known, lost, strayed>>

-----------------------------------------------------------------------------
(* The server.                                                              *)

\* Mutant: an answer is taken for the one the page waits for.
MutHeard(r) == op[r.page].kind # "none"

\* Does the page still listen for the answer?
Heard(r) == op[r.page].kind # "none" /\ op[r.page].no = r.no

Tell(r, answer) ==
    op' = IF Heard(r) THEN [op EXCEPT ![r.page].answer = answer] ELSE op

\* httpImportStatistics, httpStatistics, httpUpdateStatistics.
Handle(r) ==
    /\ r \in wire
    /\ wire' = wire \ {r}
    /\ \/ /\ r.method = "POST" /\ r.file \notin BadFiles
          /\ Len(logs) < MaxLogs
          /\ Create(r.file)
          /\ Tell(r, Answer(Len(logs) + 1, 1, {}))
          /\ UNCHANGED lost
       \/ /\ r.method = "POST" /\ r.file \in BadFiles
          /\ Tell(r, Failed)
          /\ UNCHANGED <<logs, lost>>
       \/ /\ r.method = "GET" /\ Has(r.id)
          /\ Tell(r, Answer(r.id, Revision(r.id), Now(r.id)))
          /\ UNCHANGED <<logs, lost>>
       \/ /\ r.method = "PUT" /\ Accepts(r.id, r.revision)
          /\ Update(r.id, r.cfg, r.aware)
          /\ Tell(r, Answer(r.id, Revision(r.id) + 1, r.cfg))
       \/ /\ r.method = "PUT" /\ ~Accepts(r.id, r.revision)
          /\ Tell(r, Failed)
          /\ UNCHANGED <<logs, lost>>
    /\ UNCHANGED <<shared, attached, file, cfg, shown, url, opening, alarm, seen, changes, known, strayed>>

\* A request or its answer is lost, or the store cannot write.
Fail(r) ==
    /\ r \in wire
    /\ wire' = wire \ {r}
    /\ Tell(r, Failed)
    /\ UNCHANGED <<logs, shared, attached, file, cfg, shown, url, opening, alarm, seen, changes,
                   known, lost, strayed>>
AnswerLost(p) ==
    /\ op[p].answer.is = "ok"
    /\ op' = [op EXCEPT ![p].answer = Failed]
    /\ UNCHANGED <<logs, shared, attached, file, cfg, shown, url, opening, alarm, wire, seen, changes,
                   known, lost, strayed>>

-----------------------------------------------------------------------------
(* The agent.                                                               *)

StatsLoad(f) ==
    /\ f \notin BadFiles
    /\ Len(logs) < MaxLogs /\ changes < MaxAgent
    /\ changes' = changes + 1
    /\ Create(f)
    /\ UNCHANGED <<pageVars, wire, seen, lost>>

StatsReport(id) ==
    /\ Has(id)
    /\ seen' = [id |-> id, revision |-> Revision(id), cfg |-> Now(id)]
    /\ UNCHANGED <<logs, pageVars, wire, changes, lost>>

StatsConfigure(e) ==
    /\ seen.id # 0 /\ changes < MaxAgent
    /\ changes' = changes + 1
    /\ IF Accepts(seen.id, seen.revision)
       THEN Update(seen.id, seen.cfg \cup {e}, seen.cfg)
       ELSE UNCHANGED <<logs, lost>>
    /\ UNCHANGED <<pageVars, wire, seen>>

Next ==
    \/ \E p \in Pages :
          \/ \E f \in Files : Upload(p, f)
          \/ Refresh(p)
          \/ \E id \in Ids : Opened(p, id) \/ Visit(p, id)
          \/ \E e \in Edits : Edit(p, e)
          \/ Reset(p) \/ Reply(p) \/ Refused(p) \/ AnswerLost(p)
    \/ \E r \in wire : Handle(r) \/ Fail(r)
    \/ \E f \in Files : StatsLoad(f)
    \/ \E id \in Ids : StatsReport(id)
    \/ \E e \in Edits : StatsConfigure(e)

Spec == Init /\ [][Next]_vars

-----------------------------------------------------------------------------
(* Properties.                                                              *)

TypeOK ==
    /\ Len(logs) <= MaxLogs
    /\ \A i \in 1..Len(logs) : logs[i].file \in Files /\ Len(logs[i].versions) > 0
    /\ shared \in [Pages -> [id : 0..MaxLogs, revision : Nat, file : Files \cup {NoFile}]]
    /\ attached \in [Pages -> BOOLEAN]
    /\ file \in [Pages -> Files \cup {NoFile}]
    /\ cfg \in [Pages -> SUBSET Edits]
    /\ shown \in [Pages -> SUBSET Edits]
    /\ url \in [Pages -> 0..MaxLogs]
    /\ opening \in [Pages -> SUBSET Ids]
    /\ alarm \in [Pages -> BOOLEAN]
    /\ known \in [Pages -> SUBSET Edits]
    /\ lost \subseteq Edits
    /\ strayed \subseteq Pages

\* An edit that was accepted is undone by nobody who had not been shown it, whatever the
\* tabs and the agent send at once and whatever is answered too late or not at all.
NoEditLost == lost = {}

Resting(p) == op[p].kind = "none" /\ opening[p] = {} /\ ~alarm[p] /\ file[p] # NoFile

\* What a page shows at rest is one revision of the calculation in its address: the
\* fields, the results and the file agree, unless an edit was made while a file was
\* being loaded or after one that could not be.
ShownAsSaved ==
    \A p \in Pages :
        Resting(p) /\ p \notin strayed =>
            LET s == shared[p] IN
            /\ s.id = url[p] /\ s.file = file[p] /\ logs[s.id].file = file[p]
            /\ logs[s.id].versions[s.revision] = cfg[p]
            /\ shown[p] = cfg[p]

=============================================================================
