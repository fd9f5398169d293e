# TLA+ models of dzzzr

`dzzzr` is a client for the DozoR game engine: a command-line and terminal program, a local
web interface (`dzzzr web`) in which a language-model agent plays and edits games for the
user, an MCP server, a browser build, mobile bindings and a mock of the engine. Its state and
its concurrency are in the web interface (HTTP handlers, one goroutine per turn of a chat,
browser tabs, the files behind them, sign-ins that outlive requests), in the terminal's runs,
and in what several people and programs do to one game of the engine. Those are the parts the
modules are about.

TLC model-checks each module on a small instance; TLAPS proves what matters most for every
value of the constants. `PROJECT.json` lists runs, mutants, findings, hazards and theorems,
and maps every definition to the lines it models.

    tlc -workers 2 -config ChatRuns.cfg MCChatRuns     # one run
    tlapm Web_proofs.tla                               # one module's proofs

## 1. Inventory

| Part | State it keeps | Operations | What is hard |
|---|---|---|---|
| Chats of `dzzzr web` (`cmd/dzzzr/chatstore.go`, `web_agent.go`, `web.go`) | a map of threads under one mutex: history, transcript, policy, busy mark, cancel function | create, patch, delete, post a message, cancel, one turn per goroutine | the POST is answered before the turn begins; the turn works on a copy; functions are read under the lock and called outside it |
| Approval gates (`web_approval.go`, `agenttools/policy.go`) | one gate per chat: a one-slot channel, a closed flag | ask, answer, cancel, clear | answer, second answer, cancel, delete and end of turn race; three layers pass a decision on as an error or a text |
| Chat files (`chatpersist.go`, `session.go`) | `<id>.json` and `<id>.json.tmp` | save, delete, load at start | saves of one chat run at the same time and share the temporary name; a kill at any point; errors are dropped |
| Event stream (`web_sse.go`) | a room per chat, a 32-frame channel per listener | subscribe, publish, unsubscribe, delete | two parties close a channel; a room is used after it was looked up; full channels drop |
| Terminal interface (`chat.go`, `chatmodel.go`) | the chats, the screen, a queue of questions; one goroutine per run | type, switch, answer, cancel, delete, quit | the runs of several chats report into one event loop; their ends and questions cross the user's keys |
| Codex sign-in (`llm_auth_codex.go`, `web_llm_codex.go`) | a shared token store per file, one renewal in flight, sign-in flows with a timer and a listener | renew, sign in, paste, cancel, sign out | renewal outlives its caller; sign-out during renewal; two completions of one flow |
| Model settings and Polza sign-in (`llm_settings.go`, `web_llm.go`, `web_llm_polza.go`, `webui/llm.js`) | address, method and key in a file; sign-in flows; the panel of each tab | save, clear, reset, connect, sign in, cancel | a stored key must not follow a change of address; a key arrives after the cancel |
| Organizer accounts (`web_admin.go`, `web_auth.go`, `session.go`) | credentials in the server's config, its client and a file shared by processes | sign in, out, save | a login is tried outside the lock; every process writes the whole file from what it once loaded |
| Editor drafts (`web_drafts.go`, `web_draft_tools.go`, `webui/drafts.js`) | a file per draft, documents with revisions | open, patch, publish to the engine, chat of the draft | stale revisions; the engine accepts and the draft is not saved |
| Saved calculations (`statstore`, `web_statistics.go`, `webui/stats.js`) | a file per log with a revision; a page per tab | load, edit, report, configure | stale revisions; requests the page has aborted |
| Game sources (`gamesource`) | none between calls; writes to the engine | apply a plan, import a scenario | ordered writes without rollback, lost answers |
| Agent loop (`agentloop`) | the messages of one run | model call, retries, tool calls | nested retries; truncated answers; what the model is shown again |
| Agent tools, MCP (`agenttools`, `agentmcp`) | a read cache; nothing in MCP | execute, authorise, confirm and retry | a read that finishes after the cache was cleared; a confirmation bound to arguments |
| Engine client, organizer's half (`dzzzr/admin*.go`) and its callers (`cmd/dzzzr/admin*.go`) | none | read a page, lay a change over it, post, find out what became of it | silent refusals; a form that clears what it does not carry |
| Engine client, player's half (`dzzzr/game.go`, `cmd/dzzzr/player.go`, `cmd/dzzzr/session.go`) | cookies | codes, hints, breaks, choice of a level | a page is read first and the form posted later; a refused session runs the command again |
| Mock engine (`cmd/dzzzr-mock`) | one team's game: issued levels, progress, break | codes, hints, breaks, choices, the organizer's forms; pages | time and requests reach the same transitions in any order; handlers and pages decide the same things separately |
| Statistics (`gamestats`) | none | parse a log, infer limits, compute places | the order of simultaneous events, limits guessed from gaps |
| Browser pages but for those above, WebAssembly, mobile, PDF sources, `agentfiles`, `editorform`, `agentprotocol` | views | - | little: presentation and conversion |

How they interact. `POST /chats/{id}/messages` appends to the store, saves, and starts a
goroutine (`runWebChatTurn`). The goroutine takes the chat over with `beginRun`, runs
`agentloop.Run`, which calls tools; a mutating tool asks `gate.authorize`, which under the
policy "approve" calls `ConfirmToolCall`: it installs a gate, publishes `approval_prompt` and
blocks. `POST .../approval` puts the answer into the gate. Every event of the run is
recorded in the chat, saved and published to the chat's room. `finishRun` stores the history,
the gate is cleared, the chat saved, `done` published. DELETE takes the chat out of the
map, cancels its run, removes the file, clears the gate and empties the room, in this order,
while all of the above goes on. The terminal uses the same store, with reports handed to its
event loop in place of rooms and gates. The tools call the engine client with the server's one
organizer, whom the accounts' handlers change meanwhile; the command line is a process per
command with credentials from the session file. The mutexes are the store's, the hub's
(approvals), the gate's, the SSE hub's and the room's; no handler holds one while it calls into
another part, except `removeChat`, `setApprovalGate` and `clearApprovalGate`, which take an
inner one.

What makes each part correct:

* chats: one turn at a time, nothing said is lost, a stopped turn ends, an unapproved call
  never runs;
* files: what was saved is there after any kill, a deleted chat stays deleted, no torn file;
* stream and terminal: in order, without gaps unless a frame was dropped, nobody waits for a
  question nobody sees, the screen shows the chat it names;
* sign-ins: one renewal at a time, a signed-out credential never comes back, what was refused
  or canceled is kept nowhere, a key goes only to its provider;
* drafts and calculations: an edit based on an old revision changes nothing; what the engine
  accepted is known to the draft; a page shows what is saved;
* imports and organizers: the report is true, nothing is published before it was read back, what
  was not named stays;
* tools: a read never serves what a later write changed; a change is sent once, and only if it
  was agreed to; a run ends;
* mock engine: a level is issued once, points are given once, the game goes on, pages and
  handlers agree, a command acts on what it saw;
* statistics: the same game read to the same result, the limit the game had.

## 2. Plan

| # | Module | Models | State |
|---|---|---|---|
| 1 | `ChatRuns`, abstract `Conversation`; `Web_proofs` | chats, turns, approval gates | checked and proved |
| 2 | `ChatFiles`; `Web_proofs` | the file of a chat | checked and proved |
| 3 | `EventStream` | rooms and listeners | checked in `ChatWatchers`, safety proved |
| 4 | `CodexTokens` | renewal, retirement, sign-out, sign-in flow | checked in `ModelAccess`, proved |
| 5 | `Drafts`; `Web_proofs` | a draft document, its tab, the agent, publication | checked and proved |
| 6 | `ScenarioImport`; `ScenarioImport_proofs` | `Plan.Apply`, `ImportScenario` against an engine that fails or loses answers | checked and proved |
| 7 | `MockEngine`, `MockPages` on it, `PlayerCommands` on both; `Mock_proofs` | one team's game, its pages, commands that read a page first | checked; proved but for the offers |
| 8 | `AgentTools`, `McpServer`, `ToolHistory`, `AgentLoop`, composed in `ToolCallers`; `ToolCallers_proofs` | tools, cache, confirmation, what the model is shown, the run | checked; tools and confirmation proved |
| 9 | `Statistics`, `GameLog` on it | results of a game from its log | checked |
| 10 | `Calculations`; `Calculations_proofs` | saved calculations, their pages and the agent | checked and proved |
| 11 | `Accounts`, `EngineForms`, `OrganizerClient`, composed in `Organizers`; `Organizers_proofs` | sign-ins and the organizer's calls on one game | checked and proved |
| 12 | `TerminalChat`, beside `EventStream` in `ChatWatchers`; `ChatWatchers_proofs` | the terminal, and those who watch a chat | checked, safety proved |
| 13 | `LLMSettings`, beside `CodexTokens` in `ModelAccess`; `ModelAccess_proofs` | settings and Polza's sign-in | checked and proved |

What would come next: an abstract versioned register which drafts and calculations both
implement; several documents of one draft; `ChatRuns` with `ChatFiles`, that is, what a restart
in the middle of a turn leaves.

An `MC` module holds the values a `.cfg` cannot write and, where a behaviour may do many kinds of
things, the "plans": sets of kinds of steps, of which each behaviour has one. Operators named
`MutX` are plausible mistakes in `X`; no specification uses them, and each property is known to
fail when the `X` it is about is replaced by its `MutX`.

## 3. What is modelled

### ChatRuns

One action is what a handler or goroutine does under one lock, or between two points where
another could see or change shared state. A run `r` is one accepted message with the goroutine
started for it.

| Variable | Code |
|---|---|
| `status` | the chat is in `chatStore.chats`; "removed" between `remove` and `clearApprovalGate` of DELETE |
| `policy`, `messages`, `running`, `cancel` | the fields of `chatThread` |
| `pc`, `chatOf`, `runPolicy`, `history`, `cancelled` | a turn: where it stands, `snap.Policy`, the copy `beginRun` returned, `ctx.Done()` |
| `toCancel` | functions `cancelRun`, `cancelAll`, `remove` have read and not called yet |
| `approvals`, `reply`, `closed` | `webHub.approvals`, the slot of a gate's channel, `approvalGate.closed` |
| `calls`, `verdict`, `executed`, `answered` | the mutating calls a turn tried, what `wait` returned, the calls that went to the engine, the first answer a gate took |

A message is its run and its role. Reading calls of the model, transcript lines and events
leave none of this state changed and are left out. `Fail` covers every way `turn` ends with an error,
a panic included: all of them call `finishRun(nil)`.

`Conversation` is what the store promises: the user and the model take turns, and the answer
is appended to exactly what was said. `ChatRuns` implements it with `messages` for the log and
`cancel` for whose turn it is.

### ChatFiles

One chat and its two file names. A save is one change of the chat and the `persist` that
follows it: copy under the lock, then each system call of `writeSecretFile` as an action. Inodes
are named after the save that created them, because a rename or removal moves a name and not
the file a descriptor writes to. `Kill` stops everything in memory between any two steps;
`Restart` is `loadFromDisk`. `DiskRefuses` is any error of the file system in a save, the removal of
a temporary file included, and `RemovePersisted` may be refused as well; callers drop both as the
code does, so DELETE is answered in either case (`kept` remembers that the file stayed). Not modelled: a power failure (the code calls no `fsync`); a partial write is a
write that has not been completed.

### EventStream

One chat's rooms (`sseHub.room` makes a second one when somebody asks after the DELETE), the
requests for its stream and the goroutine that publishes. Look-up and use of a room are two
actions, as they take two locks. A write to the nil map of an emptied room panics with the
room's mutex held; `stuck` is that mutex. A request that passed the check of the chat
before the DELETE and looks its room up after `removeChat` is given the second room
(`InNewRoom`), which nobody closes. The publisher is one goroutine, the turn's; frames of
refused turns are left out.

### CodexTokens

The credential of the ChatGPT sign-in, in the file, in the stores, and on its way through
renewals and sign-ins. A credential is the sign-in it came from and the number of its renewals;
the issuer accepts only the latest of a sign-in, because refresh tokens rotate. A store is
named after the turn that made it: turns keep the store they started with, so several are
alive after a sign-out. A turn takes two steps to its store (load the file, look the store
up), a renewal four (ask, answer, commit, write), a sign-in five (start, submit, answer, decide
and retire, save), a sign-out two: a step ends where the code releases a lock or waits. A flow is
ended by the browser's redirect, a pasted code, a cancel or the timeout, in any order.

| Variable | Code |
|---|---|
| `file`, `shared` | `auth.json`, `codexStores[path]` |
| `cred`, `due`, `inFlight`, `retired` | the fields of `cliCodexTokenStore`; `due` is `needsRefreshLocked` |
| `at`, `copy`, `storeOf`, `awaits` | a turn between `loadCodexCredential`, `sharedCodexTokenStore` and `tokenSource` |
| `step`, `ownerOf`, `sent`, `result` | a `codexRefreshAttempt` and its goroutine |
| `status`, `exchange` | `codexLoginFlow.status`, and where `complete` stands |
| `signOut` | `httpCodexLogout` between its two calls |
| `issuer` | how often the issuer renewed each sign-in |
| `trouble` | history only: "crossed" (a store was made from a credential that was being replaced, or a replacement failed after the retirement), "lost" (an answer of the issuer), "refused" (a write), "overtaken" (an older renewal was written after a newer one) |

Each property says which of these it survives and which it does not: the races the code leaves
open, and the failures of its environment. Left out: a credential without expiry and its
cooldown (here time makes any token due again), a credential without refresh token (it is only
ever returned or refused), the retention of finished flows.

### Drafts

One document of the editor. The server's handlers hold `draftMu` from reading the file to
writing it, so each is one action; `sync`, `attach` and `publish` of `drafts.js` are cut where they
await an answer. `sync` runs one at a time, which the chain of promises in `pending` guarantees.

| Variable | Code |
|---|---|
| `rev`, `params`, `saved` | `Revision`, `Params`, `Base` of the document in the draft's file |
| `known`, `engine`, `created` | the document has a level or game number; what the engine holds; how many objects it made |
| `phase`, `saving` | where `sync` or `publish` stands; the page is inert because "save" was pressed |
| `form`, `base`, `docRev`, `copy` | `read()`, `base`, `doc.revision`, the recovery copy in `sessionStorage` |
| `sent`, `answer`, `tries` | the request, its answer, the attempt of the loop |
| `seen` | the revision the agent passes to `draft_update` |
| `late` | requests whose page gave up or was reloaded and which the server still handles |
| `forgotten`, `typed`, `shown` | history: publications the draft does not know of; what the author typed and has not seen saved; the values of other authors the screen showed while one of the author's own was pending |

A second tab is to the first what the agent is: a writer who passes the revision it read. The
author's choice in the `confirm` of a conflict is free. Publication has three outcomes: the
engine took it and the draft was written, it was refused, or the engine took it and the draft
does not know (its answer was lost or the write failed). Fields are text fields, which are the ones
`engineDraftParams` can clear. Left out: typing into a form whose document was just detached
(`selectGame`, `clearGame`: a hazard for the extension to several documents), a full
`sessionStorage`.

### ScenarioImport

`ImportScenario` and `Plan.Apply` as the sequence of requests they make, one action per request
and one for each decision between two of them; `job.at` is the stage. A request may fail, be
carried out and lose its answer, or store something else than it was given; another organizer
adds, deletes, moves and edits levels in between. `r` is the report, `touched` remembers what
the other organizer changed since it was last read back, which the properties except, and
`raced` that the list of levels changed while `AdminCreateLevel` took its last entry for the new
level (`dzzzr/admin_levels.go:610`). A level's content is the key of the scenario level it equals.
Left out: export, decoding, the rewriting of asset references in the texts; the scenario has one
asset.

### MockEngine, MockPages, PlayerCommands

The mock's handlers run under one mutex, so a request is one step: `Now` is the tick it begins
with, and the action works on what the tick leaves. The game is one record `g`, as `gameState`
is one struct, and a method is an operator that returns the struct it leaves.

| Variable | Code |
|---|---|
| `g` | `gameState`: the line of levels and their definitions, issued levels, the level in hand, progress by order, break, points |
| `session` | the accounts' sessions, and the simulated outage |
| `moves`, `notes` | how often an organizer intervened; what happened that a property excepts |
| `plan` | the kinds of request of this behaviour |
| `cmd` | (`PlayerCommands`) a command between its page and its form |

Time is counted in ticks: the age of a level, the rest of a break or of a block. `MockPages` has
what go/ and API/game.php tell of a state; `PlayerCommands` the commands that take a level or a
hint from a page and post the form a while later (`levelArg`, `nextHint`, the tools'
`currentLevel`), over the same engine. A command that names everything is the request itself. A
form that never arrived (the simulated outage) is no posting: `CommandsActOnWhatTheySaw` does not
speak of what a tick does at that moment.

Facts the models are built on, some of them surprising: a level chosen while no level is in hand is
dropped when the break ends, or the game is over; a level issued twice and taken away once stays
in the list without a record (the statistics page would dereference nil); a break asked for with no
level in hand is used up; abandon is offered on the last level and refused there; `takeBreak`
does not look at `noBreak`, which only hides the offer; go/ hides the level once the game is over while
the API still shows it; an early hint is issued for the level in hand whatever level the form
names, and a form that names hint 1 when it is out issues and charges hint 2, although the
comment of `beforeClue` speaks of the hint the form names; the client sends the number of a
level and the mock compares its place, which differ once levels were chosen out of order.

### AgentTools, McpServer, ToolHistory, AgentLoop, ToolCallers

`AgentTools` has one call per slot, cut where the catalog takes its cache's lock or asks the
engine; the game is a number that grows. `McpServer` runs calls side by side in all slots and
sends a confirmation as a second request with the answer. `AgentLoop` runs them one after the
other in one slot: `loop` is where the run stands (turn, attempt, the calls still to do),
`results` what the conversation holds. `ToolHistory` is `agentloop/context.go` as pure
operators: what is compacted, cut and kept to two budgets. A tool looks at its arguments before it
asks the engine (`Refuses`): what it refuses is not sent, and the catalog clears its cache after
a refused change as after any other. `ToolCallers` composes them: a process
has one caller or the other.

Facts: `InvalidateCache` is called by tests only, though its comment asks callers for it; an
answer served before a change and stored after the clearing, and a changing tool that panicked, are
the two ways a stale answer may be served. The fingerprint of a confirmation covers the arguments
and not the tool's name, and an answer may be used again for the same arguments.

### Statistics, GameLog

`Statistics` are operators on a log: parsing, inferred limits, results and places. `GameLog`
writes the log: teams pass levels, time out, are moved on; the organizers have limits `Limit`; the
statistics of what was written so far are computed in every state. Left out: attempts at
spoilers and the correction they lead to, hint times set by hand, prices of single codes,
averages, reading files and exports.

### Calculations

The store, its handlers, the agent's two tools and `stats.js` in several tabs. A page listens to one
request; one it aborted is still on the wire and may be carried out. `strayed` marks the pages of
which the code gives no promise: an edit made while a file loads, or after a load failed,
uploads the shown file again without the parameters (`stats.js:437`, `:459`; `README.md:196`
promises that they are kept). Two more facts: a second quick edit aborts the first PUT though
the server may accept it, and the page's own edit is then refused with 409; an edit during a
load leaves the buttons that need a log disabled.

### Accounts, EngineForms, OrganizerClient, Organizers

`Accounts` is who is signed in where.

| Variable | Code |
|---|---|
| `hub` | `webHub.cfg` and the client's organizer and player, under their locks |
| `file` | `session.json` of the city |
| `tries` | the trial of a login of each tab: what it puts in place, what was there before, how the engine answered |
| `copy` | what another process loaded when it started and will write back |

`EngineForms` is what each page shows and what each form does, as `cmd/dzzzr-mock` serves them;
`OrganizerClient` which page a call reads first and which form it lays over it; `Organizers` who
calls: command line, editor, tools, and a player whose command runs again after its session was
refused. A call is cut at each request; `stray` is a form that was given up on and may
still be served. `AtEdge` and the like are the client's guesses at why nothing changed.

A form has `code[0]` only when the list of codes is not empty, and without it the mock leaves the
codes alone (`Filled`, `cmd/dzzzr-mock/admin.go:254`): an emptied list is modelled, and changes
nothing. One thing is the site's and not the mock's: in a game without a date it neither moves nor
deletes a level and answers as if it had (`KeepsLevels`, external; `silentRefusal`,
`cmd/dzzzr/admin.go:530`). A game with a date behaves as in the mock. The client's callers at the
command line look afterwards; the editor and the tool do not look after a deletion (`Unlooked`).

Left out: clearing a text field (an empty title is one not given); polling of the organizers' log;
refusals once a game has started or by levels that hang on one another
(`dzzzr/admin_levels.go:637`), of which nothing but that comment is known. Deleting a message by its second removes the first of two of one
second, and an intervention the mock ignores is reported done; both are in the model.

### TerminalChat, ChatWatchers

| Variable | Code |
|---|---|
| `talks` | `chatStore`: a chat is there, its policy, its cancel function, its lines |
| `runs` | a goroutine of `chatBridge.run`: where it stands, what it asks and waits for |
| `ui` | `chatModel`: the chat on screen, its lines as shown, the questions, numbered in the order they came |
| `ceiling` | `-security` |
| `done`, `agreed`, `displaced` | history: calls carried out, calls the user said yes to, questions another run's end took off the queue |

One step is what the event loop does with one message or key. `Panic` is a panic that
`chatBridge.run` recovers: it reports the end, but without `finishRun`, and the chat stays marked
as running (`panicked`). A goroutine that reports is
blocked until its message is taken. `displaced` is an exception the code makes necessary:
`dropApprovals` goes by the chat, and the end of a canceled run, reported late, drops the question
of the chat's next run (`chatmodel.go:317`; its comment says the waiters are gone). A key pressed
for one question that answers the next, because the first was dropped a moment before, is not told
apart from a key meant for it. After "quit" nothing is waited for.

`ChatWatchers` puts `EventStream` beside it: a process is "web" or "chat".

### LLMSettings, ModelAccess

`LLMSettings` names a key after the provider it belongs to, and asks where keys go. `settings` is the
file, `env` the environment, `logins` Polza's sign-in flows, `hands` what each tab has under
way. Environment and file are paired field by field by design. `carried` marks the one case the
code gets wrong by its own comment (`web_llm.go:195`): a key kept by a save for the
subscription under another address is later taken for that address's. A cancel answers
"cancelled" even when the sign-in had succeeded. PUTs that overlap are those of two tabs;
the last one wins.

`ModelAccess` puts `CodexTokens` beside it. All that either knows of the other is whether there is
a credential, so a behaviour is one of the first or one of the second.

## 4. What is checked

| Run | Instance | Distinct states | Shows |
|---|---|---|---|
| `chat_runs` | 1 chat, 2 messages, 1 mutating call each, policies "approve" and "full", yes/no | 774 961 | `NoMessageUnheard`, `OnlyApprovedCallsRun`, `ImplementsConversation`, `StoppedRunsEnd` |
| `chat_files` | 3 saves, a DELETE, kills, restarts, errors of the file system | 396 349 | `NothingSavedIsLost`, `DeletedStaysDeleted` |
| `chat_watchers` | 2 streams, 3 frames, channels of 2, a DELETE; or 2 chats and 2 runs in the terminal with a question each, one with an event | 2 082 822 | `NothingMissed`, `DeletedStreamsEnd`; `QuestionsReachTheUser`, `RightsWithinCeiling`, `ScreenTellsTheChat` |
| `model_access` | 2 turns, 2 renewals, a sign-in, sign-outs, from a signed-in start; or 2 tabs, 3 clicks, 2 sign-ins to Polza, 3 hosts | 895 824 | `RenewalsAreExclusive`, `FileIsNotStranded`, `SignedOutStaysOut`, `CanceledSignInsSaveNothing`; `KeysGoHome` |
| `drafts` | 2 fields with 3 values, 2 edits, 1 edit of the agent, 2 saves, 1 lost answer, 1 reload, 2 attempts | 2 675 705 | `CreatesOnce`, `EditsAreKept`, `OverwritesKnowingly` |
| `mock_game` | 2 main levels, a skvoz level, one to be added; 2 accounts; 2 interventions; 12 plans | 564 657 | `LedgerBalances`, `NoLevelSkipped`, `PlayGoesOn`, `OffersAreHonoured`, `WhatIsShownStays`, `CommandsActOnWhatTheySaw` |
| `scenario_import` | a scenario of 2 levels, 2 games and 3 levels to be made, 2 moves of the other organizer, 2 calls | 1 929 234 | `ReportTellsTruth`, `CompleteMeansEqual`, `PublishedOnlyWhole` |
| `agent_tools` | 2 slots, 1 tool of each kind, 2 arguments, 1 change; 2 turns, 2 attempts, 2 calls, budgets 5, 6 and 5 | 1 302 534 | `AnswersAreFresh`, `ChangesAreConfirmed`, `ContextBounded`, `RunEnds` |
| `statistics` | 2 teams, 3 levels, logs of 5 events | 450 739 | `ExportOrderIsForgotten`, `LimitsAreRight` |
| `calculations` | 2 tabs, 2 files, one unreadable, 2 edits, 4 requests, 2 calculations, 1 change of the agent | 2 069 053 | `NoEditLost`, `ShownAsSaved` |
| `organizers` | by plan: 2 hands, 2 or 3 calls, 2 tabs, 3 credentials of which 2 are accepted and 2 share a login | 1 876 154 | `ReportsAreTrue`, `OnlyNamedChange`, `SignedOutIsForgotten`, `RefusedIsNotKept` |
| `chat_quit` | 1 chat, 1 message, 2 calls | stops at the violation | `QuitEndsRun` is violated |

Every module has one type invariant, `TypeOK` or `<Module>TypeOK`, and no run spends a property on
it: those of the modules with proofs are part of the inductive invariants of section 5. Every
inductive invariant was model-checked on its run's instance before it was proved.

Bounds. Chats share nothing but mutexes, so one is enough in `dzzzr web`; two messages make two
goroutines of one chat overlap at every point, a third only repeats one of them (and the safety
properties of this module are proved without bounds). One mutating call per turn suffices for
the races of one gate and two turns for those between gates; `QuitEndsRun` needs a second call and
has it. Three saves are the smallest number for which a save that replaced another's temporary
file is replaced in turn. A channel of two holds, overflows and drains within three frames just as
one of 32 does within 33. In the terminal two runs are a run and the next one of its chat, or
the runs of two chats. Two turns and two renewals make two stores with a renewal in
flight each, or one store whose two renewals are written in either order; with a second sign-in
the run passes as well (5.8 million states). Three clicks are a save, a sign-in and what crosses
them. In `drafts` three values are the fewest for which two authors disagree about a third one,
two edits change a field twice or two fields once, and two saves are a save and its retry; two
attempts stand for eight because nothing depends on their number. With one field, three edits,
two of the agent and two reloads it passes as well, and with two fields and two lost answers. In
`mock_game` a hint interval of two ticks lets every deadline be early, reached and passed, and two
interventions undo one another; the plans keep kinds of requests apart that share no state but the
progress of a level ("late" are players who enter a level after its time is over, "time" the
clock), and "hold" is the quirk that keeps a level open for its bonus codes. In
`scenario_import` two levels have an order that can be wrong, a third id is a level of the other
organizer, the second call finds what the first left. In `agent_tools` two slots are a change and
a read that crosses it; other results than documents are 2 or 9 units long, and with a budget of
5 for one and 6 for all, two of them reach every branch of `boundToolHistory`: kept whole, cut to
the limit of one, cut to what is left, omitted. In `statistics` five
events are enough for two teams to take a level's limit and one of them to break it; `Limit` is
the default for two levels and above it for one. In `organizers` two credentials with one login are a new
password; a third call acts on what a lost second one left. Symmetry is used where no
property is temporal, and in `chat_watchers` over the terminal's chats and runs, of which its
temporal property does not speak.

Deadlock is checked where the system always has something to do: `drafts` (the tab's timer never
stops), `mock_game` (a request is always possible), `agent_tools` (others play on). Elsewhere it may
come to rest, with every message posted and answered, every stream gone, every call, click or
request of the instance made, and the check is off.

Fairness. `StoppedRunsEnd`: a goroutine that can take a step eventually does (the Go scheduler),
and a handler that has read a cancel function or removed a chat carries on. Nothing makes the
user post, answer, cancel or delete. `DeletedStreamsEnd`: a started request, the publisher and a
started DELETE carry on, a connected browser reads its frames or disconnects; nothing makes it
connect. It is about every stream open once the chat is gone, but for those in a room that
broke or that was made after the DELETE. `RunEnds`: the loop's own steps are taken, requests to
the provider end because the client has a timeout; under "approve" a run may wait for the user
for ever, and the property leaves that out. All of it is weak fairness, the mutexes being held for moments only. `drafts`
has no temporal property: the tab tries again every two seconds, but the eight attempts of a
sync are no promise while others keep writing.

Disagreements between the code and what the repository says of it. One is a run: `chat_quit`
("quit" is documented to end the run; the error becomes a tool result and the model's next
mutating call is asked for as usual). The others were met while modelling; the properties
of the passing runs are stated with an exception for each, so that they hold of the rest:

* `removeChat` "closes every stream of a deleted chat" (`web_sse.go:85`), but a request that looks
  its room up a moment later is given a new one, and waits for ever (`InNewRoom` in
  `DeletedStreamsEnd`);
* a run of the terminal "always reports its end, so the UI never stays stuck" (`chat.go:158`);
  after a panic it reports the end, but `finishRun` is not called, and the screen goes on
  showing the busy mark ("panicked" in `ScreenTellsTheChat`);
* the editor and the agent's tool report a level deleted (`web_admin_levels.go:156`,
  `agenttools/admin_extended.go:278`) without looking, which `cmd/dzzzr/admin.go:469` says is the only
  way to tell; in a game without a date it is still there (`Unlooked` in `ReportsAreTrue`);
* the error of removing a deleted chat's file is dropped (`chatpersist.go:140`), DELETE is answered,
  and the next process loads the chat again ("kept" in `DeletedStaysDeleted`);
* a list of codes that is to be emptied is reported saved, and the form has nothing that would
  empty it (`Emptied` in `ReportsAreTrue`);
* a POST to `/approval` names the chat and not the question: a stale tab answers the next one
  (`web.go:607`);
* concurrent saves share `<id>.json.tmp`, and one may rename the other's unwritten file into place
  (`NothingSavedIsLost` says for how long);
* a subscription to a room DELETE has just emptied panics with the room locked (`web_sse.go:31`);
* a turn that loaded the ChatGPT credential before a sign-out makes an unretired store of it
  after and writes it back ("crossed" in `SignedOutStaysOut`);
* a field typed back to the old value while the other value is being sent is lost by a reload
  (`EditsAreKept` is about edits that differ from their base);
* an edit made while a file loads uploads the calculation without its parameters ("strayed" in
  `ShownAsSaved`);
* the organizer's login: `prev` is read from the server's config and not from its client, so on a
  server that was started with a stored organizer one refused login loses the stored one, which the
  comments at `web_admin.go:119` and `:127` promise to put back; trials are compared by login only,
  and a success or save during another's trial stores what was not proved ("tangled" in
  `RefusedIsNotKept`);
* the terminal's `dropApprovals` may take the next run's question ("displaced" in
  `QuestionsReachTheUser`);
* a key kept by a save for the subscription is taken for another address's ("carried" in
  `KeysGoHome`);
* the mock's `beforeClue` does not issue the hint its comment says (an exception of
  `CommandsActOnWhatTheySaw`).

## 5. What is proved

`Web_proofs`, first third: `ChatRuns`, for any finite or infinite sets of chats and messages and
any number of calls per turn, under its named assumptions (there is at least one call, policies
and answers are among those the code knows, null values are no members).

* `TypeCorrect`, `TurnsAreExclusive` (`OneTurnPerChat`), `CopyIsCurrent` (`HistoryIsCurrent`),
  `MessagesAreHeard` (`NoMessageUnheard`), `GatesHaveWaiters` (`GateBelongsToWaiter`),
  `ApprovalIsRespected` (`OnlyApprovedCallsRun`);
* `StoreImplementsConversation`: `Spec => Promise!Spec`.

The argument. The properties are not inductive by themselves. `TalkInv` joins those of the
store: a goroutine past the POST has a chat, and `OneTurnPerChat`, `HistoryIsCurrent` and
`NoMessageUnheard` need one another: a copy stays current because `Accepts` refuses while the chat
is busy, which is right only because the busy mark is exactly "a turn is in flight". `GateInv`
joins those of the gates: a turn that waits has tried a call (`CallsInTurn`), a gate that was
not opened yet is untouched (`FreshGates`), what sits in the slot of a waiting turn, or was taken
out of it, is the first answer (`FirstAnswerCounts`), and then `GateBelongsToWaiter` and
`OnlyApprovedCallsRun` follow. Both are preserved action by action; the refinement
follows from the invariant, since `BeginRun` takes the turn for a message that was said and `Reply` writes
back the copy plus the answer, which is the log plus the answer only because the copy is current.

Second third: `ChatFiles`, for any number of saves. `SavesAreDurable` (`NothingSavedIsLost`) and
`DeletionIsFinal` (`DeletedStaysDeleted`). `InodeInv` knows which inodes are whole; `OneByOne`,
while no saves have overlapped, that the one under way owns the temporary name and that its
copy, the file and the chat in memory have every change saved before; `DeleteInv` that after a
removal only a save that held a copy by then ("overdue") or a refused removal ("kept") leaves or
brings back a file. A
property about the file alone says nothing of the save that is about to replace it.

Last third: `Drafts`, for any fields, texts, edits, losses, reloads and attempts. `DraftTypes`,
`PublishedOnce` (`CreatesOnce`), `NothingTypedIsLost` (`EditsAreKept`, an action property) and
`NothingUnseenIsOverwritten` (`OverwritesKnowingly`, an action property). `RevInv` is that a
revision stands for one content, in the tab, in an answer and in requests that were given
up on; `ShownInv` that the form differs from the document only where its value was on the
screen, and the same of the recovery copy, the PATCH under way and its answer; `KeptInv` that
the recovery copy has every edit on the screen that is not saved. The merge of `sync` is covered
by lemmas about `Merge` that need all three. `NoCopyAssumption` separates "no recovery copy"
from the copies there may be.

`ModelAccess_proofs`, first half: `CodexTokens`, for any sets of turns, renewals and sign-ins, under
its assumptions (the null values and the earlier sign-in are no members). `TypeCorrect`,
`OneRenewalPerToken` (`RenewalsAreExclusive`), `StoreStaysUsable`, `FileStaysUsable`
(`FileIsNotStranded`), `SignOutHolds` (`SignedOutStaysOut`) and `FailedSignInIsDropped`, the half
of `CanceledSignInsSaveNothing` that is about ChatGPT. `IInv` has six parts beside the types.

* `SourceInv`: every credential anywhere is of the first sign-in or of one that succeeded; this
  gives `CancelledIsNotSaved`.
* `StoreInv`: all stores but the shared one are retired.
* `LatchInv`: until it commits, a renewal is the one in flight of its store and of the
  credential that store holds.
* `CrossInv`: unless a turn crossed a retirement, no two stores are of one sign-in and nothing
  is shared while the file is being replaced. With `LatchInv` this gives
  `RenewalsAreExclusive`, by itself `SignedOutStaysOut`.
* `TokenInv`: each store has the issuer's latest renewal or is about to get it, for which it must
  be the only store of its sign-in; and a sign-in without a store was never renewed, which is
  what a new store starts from. It contains `StoreIsNotStranded`.
* `FileInv`: the shared store is of the sign-in in the file and no renewal is newer than the
  issuer's latest; so when an older renewal is written, the newer one is still to come, or was
  overtaken. It contains `FileIsNotStranded`.

Second half: `LLMSettings` for any tabs, sign-ins and clicks, and any environment of the kinds the
program can start in (`EnvironmentAssumption`: a key in the environment is its address's).
`KeysStayHome` (`KeysGoHome`) and `CanceledStaysCanceled` (`CanceledSignInsSaveNothing`).
`KeysGoHome` speaks of the requests that are sent; what has to be carried along is `KeyInv`: the
stored key fits the stored address, and so does every key a tab has read and not yet sent or
written, however the file changed in between. `LoginInv` is about the order of a sign-in to
Polza: its answer is used by the one who claimed it, and a sign-in that ended stays ended, so
nothing is saved for it. `ModelAccess` runs one process or the other; the theorems are of its
specification.

`ChatWatchers_proofs`, first half: `EventStream`, for any streams, number of frames and channel size.
`TypeCorrect`, `ChannelsAreSafe` (no channel is closed twice or written to after it was closed),
`RoomsAreUsable` (a room the hub hands out is not an emptied one), `FramesArriveInOrder`
(`NothingMissed`). The inductive invariant: `MembersInv` (whose channel is in which room),
`RoomInv` (which rooms are emptied), `LiveInv` (a channel that is open is a member or about to
be), `QueueInv` (what is in a channel and what was read), `InOrder`. The order of the frames
depends on the publisher being one and on a listener joining a room once, hence on the
other three. `BrowsersMissNothing` carries them to the composition.

Second half: the terminal, for any chats and runs. `EveryQuestionIsAsked`
(`QuestionsReachTheUser`), `NobodyExceedsTheCeiling` (`RightsWithinCeiling`), `ScreenIsTrue`
(`ScreenTellsTheChat`). `RightsInv` bounds the policy on screen, which a new run copies, and ties a
"yes" that was not heard yet to the call it was asked for. `FlightInv` says that a run in
flight is the one its chat would cancel, and was canceled if the chat is gone: without it a
deletion could leave a run whose question nobody asks; and that a chat marked as running has a
run in flight, or one that panicked. `ScreenInv` needs the chat on screen to be there.

`ToolCallers_proofs`, for any tools, arguments, calls side by side and number of changes:
`ReadsAreFresh` (`AnswersAreFresh`) and `NothingChangesUnconfirmed` (`ChangesAreConfirmed`).
`CacheInv` is the heart of the first: whatever is cached was read after the last change that
is over, except for the two cases the code leaves open; `FreshCall` says the same of answers on their
way, for which a reader has to know the floor it started from. `WriteCall` follows a changing
call from its gate: what has passed was allowed, and what was sent was sent once. `AloneInv` (one
call at a time in the loop, no surviving panic in MCP) is what the exceptions need.

`Calculations_proofs`, for any tabs, files, edits, requests and changes of the agent:
`NoEditIsLost` (`NoEditLost`) and `PagesShowWhatIsSaved` (`ShownAsSaved`). The store only grows
(`Grows`: what it `Holds` it holds for ever), so facts about revisions survive every step. A
page knows the edits of the revision it would send its own with (`Attached`); an answer on its
way is a revision of the file that was asked for, and that of an edit has the fields as they
are (`Answered`); a change on the wire is of a revision whose edits its sender knew (`Sound`).
Requests a page aborted remain on the wire, and `Sound` holds of them too: that is why the
store may still accept one without an edit being lost. At rest these give `Settled`, which is
`ShownAsSaved`.

`Organizers_proofs`, for any tabs, credentials, hands and plans: `AccountsTypeCorrect`,
`SignOutHolds` (`SignedOutIsForgotten`), `RefusalsAreUndone` (`RefusedIsNotKept`),
`CodesCountOnce` (`CodeCountedOnce`), `ReportsTrue` (`ReportsAreTrue`) and `OthersStay`
(`OnlyNamedChange`, an action property). `ForgottenInv` says where a credential somebody signed out
may still be (a trial, another process's copy), `ProvedInv` that whatever is kept outside a trial
was accepted, unless trials were tangled; `CallInv` that a player's command runs again only when
its first run delivered nothing.

The two theorems about the game need `WorkInv`: the game is one line of levels with ids of their
own, and every call nobody crossed `Fits` it. Until its form is served that means `Fresh` (the
page it holds is the engine's, so the form it lays over it carries everything else along),
afterwards `Did` (the form did what it was for, or the engine refuses it for a reason a second
look finds), at the end `Shows`, in which `Unlooked` and `Emptied` are the two reports that need
not be true. A call whose answer was lost fits like one that was answered;
a form that was given up on, or anyone else's change, marks the calls it crosses. The lemmas are
about lines of levels: adding, removing and swapping keep ids distinct and move every other level
by what `OrderOf` says (`Rearranged`, `RemovedFromLine`, `MovedLevel`), only four forms touch the
line at all, and a move that changed nothing was at the edge (`EdgeIsEnd`). `Least`, the
well-ordering of the naturals, gives a new level its fresh id. `PlansAssumption` says what may
be begun with: such a game, and changes that name fields of their form.

`ScenarioImport_proofs`, for any scenario whose levels have distinct keys, one without levels included
(`ScenarioAssumption`; `DecodeScenario` refuses others), and any number of games, levels, calls and
changes of another organizer: `ReportIsTrue` (`ReportTellsTruth`), `CompleteIsEqual` (`CompleteMeansEqual`) and
`WholeBeforePublished` (`PublishedOnlyWhole`, an action property). The invariant follows a call from
request to request.

* `EngineInv`: every game lists exactly its levels, each once.
* `JobInv`, `ReportInv`: at each place of the call, which ids and keys it has by then, and that a call
  which deals with a level deals with one of the scenario's.
* `MadeInv`: the levels the call made are in its report, each for one key, but for one whose id is
  still looked for; unless the list changed while an id was read from its end (`raced`).
* `ContentInv`, `OrderInv`, `GameInv`: a level, the order and the game are as they were last read
  back, except for what another organizer touched since. These answers are old by the time
  the report is complete; that they still hold is what the three carry.
* `TruthInv`: the two halves of `ReportTellsTruth`, for a request that was carried out and whose
  answer was lost too.

The subtle case is a level that was recorded for two keys, which a race can make: what was read
back for the first was overwritten for the second, and `ContentInv` says so (`Again`) until the order
read back, a list without repetitions, shows that there is no such level. The lemmas are about the
lists of levels: adding, removing and swapping keep every game's list without repetitions and equal
to the set of its levels.

`Mock_proofs`, for any levels, codes, accounts, plans and lengths of time, under `MockAssumption`
(which says of what kind a level's definition is): `LevelsInOrder` (`NoLevelSkipped`),
`TheGameGoesOn` (`PlayGoesOn`), `PointsBalance` (`LedgerBalances`), `PagesKeep` (`WhatIsShownStays`, an
action property) and `CommandsHit` (`CommandsActOnWhatTheySaw`, an action property). The invariant is
`Good`, of which each part has in `notes` what may excuse it, as the properties have.

* `Shape`: the fields of `gameState`; the level in hand has a record.
* `Issuing`, `Bonuses`: the levels handed out have records, and the only others with a record are
  bonus levels. Hence the next level of the main line has none, and `issueLevel` overwrites nobody's
  progress.
* `Numbers`, `Closed`: levels are numbered 1, 2, 3, ... as they were handed out, all but the one in
  hand are closed, and while a hand-over is due none is in hand: a tick would hand out the next
  one over it.
* `Ending`: a finished game has no level in hand, nothing due and every main level handed out; a
  game that goes on and has no level in hand has a hand-over due.
* `Commanded`: which hints the page hid goes with the hint the command will name.

Every request is made of a change to one level's record (`TouchGood`), of leaving the level in hand
(`LeaveGood`), of handing out the next (`IssueGood`), and of the tick before it (`TickGood`); there
is one lemma for each and one for each request. `WhatIsShownStays` follows from `Stays`: no request
takes a code, a spoiler or a hint out of a record, and who changes the level in hand leaves
the page of the old one.

The points have an invariant of their own, `Ledger`: what the records hold of codes that give
minutes and of things that cost some is finite, and the minutes are their number. A step is either
`Free` (neither the minutes nor what the records hold of these change) or a `Takes` (one record gets
one thing it did not have, and one minute is counted); a new level handed out is `Free` only because
of `Bonuses`, without which it could put an empty record over a full one.

`Performable`, an ENABLED, is never expanded. The attempts to prove these found two faults of the
model: moved levels excuse no number of `NoLevelSkipped`, which now holds with fewer excuses, and a
form that was lost had been counted as served.

The type invariants, `OneTurnPerChat`, `HistoryIsCurrent`, `GateBelongsToWaiter`,
`StoreIsNotStranded`, `CancelledIsNotSaved`, `ChannelsCloseOnce`, `HubRoomIsUsable` and
`CodeCountedOnce` are proved and are no run's property by themselves.

Only model-checked:

* all liveness (`StoppedRunsEnd`, `DeletedStreamsEnd`, `RunEnds`), which is beyond the prover;
* `ContextBounded`, `ExportOrderIsForgotten` and `LimitsAreRight`: sums,
  sorts and folds over sequences and sets, for which one would need induction over data;
* `OffersAreHonoured`: what a page offers can be asked for, which is an ENABLED;
* what `QuitEndsRun` says, which the code does not do.

## 6. What is not modelled

* Of the parts modelled: the wording of messages, titles, time stamps, prices in reports;
  uploaded and generated files of a chat; two `dzzzr web` on one directory (but for the session
  file); the order in which a DELETE and a save write two different files.
* Drafts: several documents of one draft, switching between them, which document `httpOpenDraft`
  takes, a draft's chat.
* Engine: archive, messages before the game, applications of new teams, the quirks that only
  change answers, the organizer's log and its polling, media. The real engine is not in the
  repository; the models have the mock and what the client knows of it.
* Statistics: attempts at spoilers and the correction they lead to, hint times set by hand, prices
  of single codes, the reading of spreadsheets and the exports. Single-threaded functions.
* Commands and tools that read and print, the catalogue, onboarding, the reading halves of web
  handlers: they keep no state.
* WebAssembly build: one page, one agent, one chat; its run is `AgentLoop`'s. Mobile library: one
  call of the client per binding; whether a code was sent is handed to the app, which decides.
* PDF sources, `agentfiles`, `editorform`, `agentprotocol`, the offline statistics page:
  conversions of text and embedded assets, whose errors are not about states or orders.
* Hazards known and left without a property: the policy read before a run began
  (`web_agent.go:22`), the frames of a refused run in the stream of the one in flight
  (`web_agent.go:34`), a gate left behind by a run that ended (`web_agent.go:46`, proved as
  `GateBelongsToWaiter`), a chat created and saved before the draft that names it
  (`web_draft_tools.go:52`).
