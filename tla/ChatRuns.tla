------------------------------- MODULE ChatRuns -------------------------------
(***************************************************************************)
(* The chats of "dzzzr web": the store of conversations, the goroutine that *)
(* carries out one turn of one chat, and the approval gate a mutating tool  *)
(* call is blocked on (cmd/dzzzr: web.go, web_agent.go, chatstore.go,       *)
(* web_approval.go, with agenttools/policy.go and agentloop/tools.go).      *)
(*                                                                         *)
(* HTTP handlers, turn goroutines and browser tabs interleave freely; every *)
(* action is what one of them does under one lock, or between two points    *)
(* where another could see or change the shared state.                      *)
(*                                                                         *)
(* A run r stands for one accepted POST .../messages: the user's message,   *)
(* the goroutine started for it and the model's answer to it. The k-th      *)
(* mutating call of r is <<r, k>>, and so is the gate that call opens.      *)
(* What the transcript shows and what reaches the disk is in ChatFiles; the *)
(* event stream is in EventStream.                                          *)
(***************************************************************************)
EXTENDS Naturals, FiniteSets

CONSTANTS
    Chats,      \* identifiers of conversations, never reused (newChatID)
    Runs,       \* accepted messages, each with the turn it starts
    Rights,     \* the policies chats are given
    Answers,    \* the answers the user gives to an approval prompt
    MaxCalls,   \* bound on the mutating calls the model tries in one turn
    NoRun, NoGate, NoChat

ASSUME MaxCallsAssumption == MaxCalls \in Nat \ {0}
ASSUME RightsAssumption == Rights \subseteq {"readonly", "approve", "full"}
ASSUME AnswersAssumption == Answers \subseteq {"yes", "no", "quit"}
ASSUME NullAssumption ==
    /\ NoRun \notin Runs
    /\ NoChat \notin Chats
    /\ NoGate \notin Runs \X (1..MaxCalls)

VARIABLES
    status,     \* chatStore.chats: is the chat in the map, and how far a DELETE got
    policy,     \* chatThread.Policy
    messages,   \* chatThread.messages, the model's history
    running,    \* chatThread.running
    cancel,     \* chatThread.cancel: the run it stops, or NoRun for nil
    pc,         \* where the goroutine of a run stands
    chatOf,     \* the chat a run belongs to
    runPolicy,  \* snap.Policy, as the goroutine read it before beginRun
    history,    \* the copy of messages beginRun handed to the run
    cancelled,  \* ctx.Done() of the run is closed
    toCancel,   \* cancel functions fetched from the store and not called yet
    calls,      \* how many mutating calls the run has tried
    approvals,  \* webHub.approvals
    reply,      \* the buffered slot of a gate's replyCh
    closed,     \* approvalGate.closed
    answered,   \* the first answer a gate accepted; its prompt is nil from then on
    verdict,    \* what wait returned to the run's last ConfirmToolCall
    executed    \* the mutating calls that were let through to the engine

storeVars == <<status, policy, messages, running, cancel>>
runVars   == <<pc, chatOf, runPolicy, history, cancelled, toCancel, calls, verdict, executed>>
gateVars  == <<approvals, reply, closed, answered>>
vars      == <<storeVars, runVars, gateVars>>

Gates    == Runs \X (1..MaxCalls)
Messages == Runs \X {"user", "assistant"}

\* A turn is in flight from beginRun until finishRun.
InTurn  == {"think", "wait", "decided"}
\* beginRun has not been tried yet.
Ahead   == {"spawned", "fetched"}
Places  == {"idle"} \cup Ahead \cup InTurn \cup {"clear", "done"}

TypeOK ==
    /\ status \in [Chats -> {"absent", "live", "removed", "gone"}]
    /\ policy \in [Chats -> Rights \cup {"none"}]
    /\ messages \in [Chats -> SUBSET Messages]
    /\ running \in [Chats -> BOOLEAN]
    /\ cancel \in [Chats -> Runs \cup {NoRun}]
    /\ pc \in [Runs -> Places]
    /\ chatOf \in [Runs -> Chats \cup {NoChat}]
    /\ runPolicy \in [Runs -> Rights \cup {"none"}]
    /\ history \in [Runs -> SUBSET Messages]
    /\ cancelled \in [Runs -> BOOLEAN]
    /\ toCancel \in SUBSET Runs
    /\ calls \in [Runs -> 0..MaxCalls]
    /\ approvals \in [Chats -> Gates \cup {NoGate}]
    /\ reply \in [Gates -> Answers \cup {"none"}]
    /\ closed \in [Gates -> BOOLEAN]
    /\ answered \in [Gates -> Answers \cup {"none"}]
    /\ verdict \in [Runs -> Answers \cup {"none", "error"}]
    /\ executed \in SUBSET Gates

Init ==
    /\ status = [c \in Chats |-> "absent"]
    /\ policy = [c \in Chats |-> "none"]
    /\ messages = [c \in Chats |-> {}]
    /\ running = [c \in Chats |-> FALSE]
    /\ cancel = [c \in Chats |-> NoRun]
    /\ pc = [r \in Runs |-> "idle"]
    /\ chatOf = [r \in Runs |-> NoChat]
    /\ runPolicy = [r \in Runs |-> "none"]
    /\ history = [r \in Runs |-> {}]
    /\ cancelled = [r \in Runs |-> FALSE]
    /\ toCancel = {}
    /\ calls = [r \in Runs |-> 0]
    /\ approvals = [c \in Chats |-> NoGate]
    /\ reply = [g \in Gates |-> "none"]
    /\ closed = [g \in Gates |-> FALSE]
    /\ answered = [g \in Gates |-> "none"]
    /\ verdict = [r \in Runs |-> "none"]
    /\ executed = {}

-----------------------------------------------------------------------------
(* The store, as the HTTP handlers use it.                                  *)

\* httpCreateChat: chatStore.create under the policy the request asks for.
CreateChat(c, p) ==
    /\ status[c] = "absent"
    /\ status' = [status EXCEPT ![c] = "live"]
    /\ policy' = [policy EXCEPT ![c] = p]
    /\ UNCHANGED <<messages, running, cancel, runVars, gateVars>>

\* httpPatchChat: chatStore.update does not look at running.
PatchPolicy(c, p) ==
    /\ status[c] = "live"
    /\ policy[c] # p
    /\ policy' = [policy EXCEPT ![c] = p]
    /\ UNCHANGED <<status, messages, running, cancel, runVars, gateVars>>

\* Mutant: appendUser does not look at running.
MutAccepts(c) == status[c] = "live"

\* chatStore.appendUser accepts a message: the chat exists and is not busy.
Accepts(c) == status[c] = "live" /\ ~running[c]

\* httpPostMessage: an accepted appendUser, then the goroutine is started. A refused
\* appendUser changes nothing. The chat is saved in between (see ChatFiles).
PostMessage(r, c) ==
    /\ pc[r] = "idle"
    /\ Accepts(c)
    /\ messages' = [messages EXCEPT ![c] = @ \cup {<<r, "user">>}]
    /\ pc' = [pc EXCEPT ![r] = "spawned"]
    /\ chatOf' = [chatOf EXCEPT ![r] = c]
    /\ UNCHANGED <<status, policy, running, cancel, runPolicy, history, cancelled,
                   toCancel, calls, verdict, executed, gateVars>>

\* chatStore.cancelRun (and cancelAll): the function is read under the lock ...
FetchCancel(c) ==
    /\ status[c] = "live"
    /\ cancel[c] # NoRun
    /\ toCancel' = toCancel \cup {cancel[c]}
    /\ UNCHANGED <<storeVars, pc, chatOf, runPolicy, history, cancelled, calls,
                   verdict, executed, gateVars>>

\* ... and called outside it, when the run may be over and another one started.
CallCancel(r) ==
    /\ r \in toCancel
    /\ toCancel' = toCancel \ {r}
    /\ cancelled' = [cancelled EXCEPT ![r] = TRUE]
    /\ UNCHANGED <<storeVars, pc, chatOf, runPolicy, history, calls, verdict,
                   executed, gateVars>>

\* chatStore.remove: the thread leaves the map, its run is cancelled afterwards.
RemoveChat(c) ==
    /\ status[c] = "live"
    /\ status' = [status EXCEPT ![c] = "removed"]
    /\ toCancel' = IF cancel[c] = NoRun THEN toCancel ELSE toCancel \cup {cancel[c]}
    /\ UNCHANGED <<policy, messages, running, cancel, pc, chatOf, runPolicy, history,
                   cancelled, calls, verdict,
                   executed, gateVars>>

-----------------------------------------------------------------------------
(* Approval gates.                                                          *)

\* approvalGate.close on the gate installed for c, if there is one.
CloseInstalled(c) ==
    closed' = [g \in Gates |-> closed[g] \/ g = approvals[c]]

\* clearApprovalGate closes and drops whatever gate the chat has.
ClearApprovalGate(c) ==
    /\ CloseInstalled(c)
    /\ approvals' = [approvals EXCEPT ![c] = NoGate]

\* setApprovalGate closes the earlier gate of the chat and installs this one.
SetApprovalGate(c, g) ==
    /\ CloseInstalled(c)
    /\ approvals' = [approvals EXCEPT ![c] = g]

\* httpDeleteChat after remove returned: the gate of the chat is dropped.
FinishDelete(c) ==
    /\ status[c] = "removed"
    /\ cancel[c] # NoRun => cancelled[cancel[c]]
    /\ status' = [status EXCEPT ![c] = "gone"]
    /\ ClearApprovalGate(c)
    /\ UNCHANGED <<policy, messages, running, cancel, runVars, reply, answered>>

\* httpPostApproval looks up the chat's gate and calls respond on it: refused by a
\* closed gate and by a full slot. The request names only the chat, so the gate is the
\* one installed, whatever question the sender has on screen. Lookup and respond take
\* different locks, but a gate dropped between them is closed by the drop, so respond
\* can only refuse and one action loses nothing.
PostApproval(c, a) ==
    LET g == approvals[c] IN
    /\ g # NoGate
    /\ ~closed[g]
    /\ reply[g] = "none"
    /\ reply' = [reply EXCEPT ![g] = a]
    /\ answered' = [answered EXCEPT ![g] = IF @ = "none" THEN a ELSE @]
    /\ UNCHANGED <<storeVars, runVars, approvals, closed>>

-----------------------------------------------------------------------------
(* The goroutine of a run: runWebChatTurn, turn, ConfirmToolCall.           *)

Move(r, place) == pc' = [pc EXCEPT ![r] = place]

\* The chat is read for its policy; a chat deleted meanwhile ends the run at once.
FetchChat(r) ==
    /\ pc[r] = "spawned"
    /\ IF status[chatOf[r]] = "live"
       THEN /\ Move(r, "fetched")
            /\ runPolicy' = [runPolicy EXCEPT ![r] = policy[chatOf[r]]]
       ELSE /\ Move(r, "done")
            /\ UNCHANGED runPolicy
    /\ UNCHANGED <<storeVars, chatOf, history, cancelled, toCancel, calls, verdict,
                   executed, gateVars>>

\* chatStore.beginRun succeeds: busy mark, cancel function, copy of the history.
MayBegin(c) == status[c] = "live" /\ ~running[c]

BeginRun(r) ==
    LET c == chatOf[r] IN
    /\ pc[r] = "fetched"
    /\ MayBegin(c)
    /\ running' = [running EXCEPT ![c] = TRUE]
    /\ cancel' = [cancel EXCEPT ![c] = r]
    /\ history' = [history EXCEPT ![r] = messages[c]]
    /\ Move(r, "think")
    /\ UNCHANGED <<status, policy, messages, chatOf, runPolicy, cancelled, toCancel,
                   calls, verdict,
                   executed, gateVars>>

\* beginRun failed: "the agent is already answering" (or the chat is gone), done.
RefuseRun(r) ==
    /\ pc[r] = "fetched"
    /\ ~MayBegin(chatOf[r])
    /\ Move(r, "done")
    /\ UNCHANGED <<storeVars, chatOf, runPolicy, history, cancelled, toCancel, calls,
                   verdict, executed, gateVars>>

\* chatStore.finishRun with the messages the run produced; a removed chat is left alone.
FinishRun(c, produced) ==
    IF status[c] = "live"
    THEN /\ messages' = [messages EXCEPT ![c] = produced]
         /\ running' = [running EXCEPT ![c] = FALSE]
         /\ cancel' = [cancel EXCEPT ![c] = NoRun]
    ELSE UNCHANGED <<messages, running, cancel>>

\* The model answered: agentloop.Run returns the history with the answer appended,
\* or the history alone when the answer was empty or the turn limit was reached.
Reply(r) ==
    /\ pc[r] = "think"
    /\ \E produced \in {history[r], history[r] \cup {<<r, "assistant">>}} :
           FinishRun(chatOf[r], produced)
    /\ Move(r, "clear")
    /\ UNCHANGED <<status, policy, chatOf, runPolicy, history, cancelled, toCancel,
                   calls, verdict,
                   executed, gateVars>>

\* Mutant: a failed run stores the empty history agentloop.Run returned with its error.
MutFail(r) ==
    /\ pc[r] = "think"
    /\ FinishRun(chatOf[r], {})
    /\ Move(r, "clear")
    /\ UNCHANGED <<status, policy, chatOf, runPolicy, history, cancelled, toCancel,
                   calls, verdict, executed, gateVars>>

\* The turn failed: no model configured, no catalog, an unreadable draft, a failed
\* model call, a cancelled context, a panic. finishRun(nil) keeps the history.
Fail(r) ==
    /\ pc[r] = "think"
    /\ FinishRun(chatOf[r], messages[chatOf[r]])
    /\ Move(r, "clear")
    /\ UNCHANGED <<status, policy, chatOf, runPolicy, history, cancelled, toCancel,
                   calls, verdict,
                   executed, gateVars>>

\* The loop checks the context before each call. A mutating tool is in the catalog
\* of a run that is not read-only.
Calls(r) ==
    /\ pc[r] = "think"
    /\ ~cancelled[r]
    /\ calls[r] < MaxCalls
    /\ calls' = [calls EXCEPT ![r] = @ + 1]

\* gate.authorize under PolicyFull: the call goes to the engine.
CallFreely(r) ==
    /\ runPolicy[r] = "full"
    /\ Calls(r)
    /\ executed' = executed \cup {<<r, calls[r] + 1>>}
    /\ UNCHANGED <<storeVars, pc, chatOf, runPolicy, history, cancelled, toCancel,
                   verdict, gateVars>>

\* gate.authorize under PolicyApprove: ConfirmToolCall opens a gate and waits.
AskApproval(r) ==
    /\ runPolicy[r] = "approve"
    /\ Calls(r)
    /\ SetApprovalGate(chatOf[r], <<r, calls[r] + 1>>)
    /\ Move(r, "wait")
    /\ UNCHANGED <<storeVars, chatOf, runPolicy, history, cancelled, toCancel,
                   verdict, executed, reply, answered>>

Gate(r) == <<r, calls[r]>>

\* approvalGate.wait takes the answer out of the slot, even one of a closed gate.
TakeAnswer(r) ==
    /\ reply[Gate(r)] # "none"
    /\ verdict' = [verdict EXCEPT ![r] = reply[Gate(r)]]
    /\ reply' = [reply EXCEPT ![Gate(r)] = "none"]

\* Mutant: wait does not select on ctx.Done().
MutGiveUpWaiting(r) ==
    /\ closed[Gate(r)] /\ reply[Gate(r)] = "none"
    /\ verdict' = [verdict EXCEPT ![r] = "error"]
    /\ UNCHANGED reply

\* approvalGate.wait returns an error: cancelled, or closed with nothing in the slot.
GiveUpWaiting(r) ==
    /\ \/ cancelled[r]
       \/ closed[Gate(r)] /\ reply[Gate(r)] = "none"
    /\ verdict' = [verdict EXCEPT ![r] = "error"]
    /\ UNCHANGED reply

\* When both an answer and the cancellation are there, select picks either.
Wait(r) ==
    /\ pc[r] = "wait"
    /\ TakeAnswer(r) \/ GiveUpWaiting(r)
    /\ Move(r, "decided")
    /\ UNCHANGED <<storeVars, chatOf, runPolicy, history, cancelled, toCancel, calls,
                   executed, approvals, closed, answered>>

\* Mutant: an error of the confirmer is not a refusal.
MutLetsThrough(v) == v # "no"

\* ConfirmToolCall and authorize: only "yes" lets the call through; a refusal, "quit"
\* and an error all become a tool result the model reads.
LetsThrough(v) == v = "yes"

\* ConfirmToolCall returns: its deferred clearApprovalGate, then authorize's
\* decision. Whatever it was, the loop goes on.
LeaveConfirm(r) ==
    /\ pc[r] = "decided"
    /\ ClearApprovalGate(chatOf[r])
    /\ executed' = IF LetsThrough(verdict[r]) THEN executed \cup {Gate(r)} ELSE executed
    /\ Move(r, "think")
    /\ UNCHANGED <<storeVars, chatOf, runPolicy, history, cancelled, toCancel, calls,
                   verdict, reply, answered>>

\* runWebChatTurn after turn returned: the chat's gate is cleared once more, the done
\* event goes out, and the deferred cancel closes the run's own context.
ClearGate(r) ==
    /\ pc[r] = "clear"
    /\ ClearApprovalGate(chatOf[r])
    /\ Move(r, "done")
    /\ cancelled' = [cancelled EXCEPT ![r] = TRUE]
    /\ UNCHANGED <<storeVars, chatOf, runPolicy, history, toCancel, calls,
                   verdict, executed, reply, answered>>

-----------------------------------------------------------------------------
Turn(r) ==
    \/ FetchChat(r)
    \/ BeginRun(r)
    \/ RefuseRun(r)
    \/ Reply(r)
    \/ Fail(r)
    \/ CallFreely(r)
    \/ AskApproval(r)
    \/ Wait(r)
    \/ LeaveConfirm(r)
    \/ ClearGate(r)

Handlers ==
    \/ \E c \in Chats, p \in Rights : CreateChat(c, p) \/ PatchPolicy(c, p)
    \/ \E c \in Chats, r \in Runs : PostMessage(r, c)
    \/ \E c \in Chats : FetchCancel(c) \/ RemoveChat(c) \/ FinishDelete(c)
    \/ \E r \in Runs : CallCancel(r)

\* Everything but the user answering an approval prompt.
Server == Handlers \/ \E r \in Runs : Turn(r)

Next == Server \/ \E c \in Chats, a \in Answers : PostApproval(c, a)

Spec == Init /\ [][Next]_vars

(* The Go scheduler runs every goroutine that can take a step, and a handler that *)
(* has taken a cancel function or removed a chat carries on. Nothing makes the    *)
(* user post, answer, cancel or delete.                                           *)
Fairness ==
    /\ \A r \in Runs : WF_vars(Turn(r)) /\ WF_vars(CallCancel(r))
    /\ \A c \in Chats : WF_vars(FinishDelete(c))

FairSpec == Spec /\ Fairness

-----------------------------------------------------------------------------
(* Properties.                                                              *)

TurnsOf(c) == {r \in Runs : chatOf[r] = c /\ pc[r] \in InTurn}

\* However posts, refusals, failures and deletions interleave, a chat never has two
\* turns in flight (beginRun is tried in the goroutine, after the POST was accepted),
\* and the busy mark and the cancel function of a live chat are those of its turn.
OneTurnPerChat ==
    \A c \in Chats :
        /\ \A r, q \in TurnsOf(c) : r = q
        /\ status[c] = "live" =>
              /\ running[c] <=> TurnsOf(c) # {}
              /\ cancel[c] # NoRun <=> running[c]
              /\ cancel[c] # NoRun => cancel[c] \in TurnsOf(c)

\* finishRun overwrites the chat's messages with a copy taken at beginRun: while a
\* turn is in flight that copy is still everything the chat holds.
HistoryIsCurrent ==
    \A r \in Runs :
        pc[r] \in InTurn /\ status[chatOf[r]] = "live" => history[r] = messages[chatOf[r]]

\* httpPostMessage answers 202: unless the chat is deleted, a message it accepted has
\* been in the history of some turn, or a goroutine that may still begin one is there
\* to carry it. A refused beginRun never strands a message.
NoMessageUnheard ==
    \A c \in Chats, r \in Runs :
        status[c] = "live" /\ <<r, "user">> \in messages[c] =>
            \E q \in Runs :
                /\ chatOf[q] = c
                /\ pc[q] \in Ahead \/ <<r, "user">> \in history[q]

\* The gate installed for a chat is the one its own turn is blocked on, so
\* setApprovalGate never replaces a question, and no run that ended or was deleted
\* leaves one behind to look like a pending approval.
GateBelongsToWaiter ==
    \A c \in Chats : approvals[c] # NoGate =>
        \E r \in Runs :
            chatOf[r] = c /\ pc[r] \in {"wait", "decided"} /\ approvals[c] = Gate(r)

\* A mutating call reaches the engine only under a policy that lets it: freely in a
\* "full" run, and in an "approve" run only if the first answer its own gate accepted
\* was "yes", whatever was answered late, twice, or to a gate that was closing.
OnlyApprovedCallsRun ==
    \A g \in executed :
        \/ runPolicy[g[1]] = "full"
        \/ runPolicy[g[1]] = "approve" /\ answered[g] = "yes"

\* Cancelling a run, or deleting its chat, ends its goroutine, even one that is
\* blocked on a question nobody will answer: no goroutine is left behind.
StoppedRunsEnd ==
    \A r \in Runs :
        (cancelled[r] \/ \E c \in Chats : chatOf[r] = c /\ status[c] \in {"removed", "gone"})
            ~> pc[r] = "done"

\* The store keeps the promise of Conversation.
Promise == INSTANCE Conversation WITH log <- messages, turn <- cancel
ImplementsConversation == Promise!Spec

\* web_approval.go:161 says of "quit": "the error ends the run instead of letting the
\* model try the next mutating step". After it the run makes no further mutating call.
QuitEndsRun ==
    [][\A r \in Runs : verdict[r] = "quit" => calls'[r] = calls[r]]_vars

=============================================================================
