----------------------------- MODULE TerminalChat -----------------------------
(* "dzzzr chat" (cmd/dzzzr: chat.go, chatmodel.go over chatstore.go): one    *)
(* event loop owns the screen, and every run of the agent is a goroutine     *)
(* that reports to it.  A report is a message the goroutine hands over: it   *)
(* is blocked until the loop takes it, and the loop handles one message or   *)
(* key to the end before the next.  The user moves between chats while runs  *)
(* go on in them.                                                            *)
(*                                                                           *)
(* A line of a chat is <<run, what>>; a question in the queue is             *)
(* <<number, run>>, numbered as they come.  Left out: the order of the lines, *)
(* titles, the list's cursor, the input field, export, what is shown once    *)
(* and not kept; which chat was touched last is any of them.  The files are  *)
(* in ChatFiles.                                                             *)
EXTENDS Naturals, FiniteSets

CONSTANTS
  Talks,       \* chat identifiers, never reused
  Turns,       \* the runs, each with the message that starts it
  Policies,    \* the policies a stored chat, a command line and /mode may name
  Questions,   \* bound: mutating calls a run tries
  Events,      \* bound: the runs that report a milestone, one each
  NoTurn, NoTalk

ASSUME TerminalAssumption ==
  /\ Policies \subseteq {"readonly", "approve", "full"} /\ Policies # {}
  /\ NoTurn \notin Turns /\ NoTalk \notin Talks
  /\ {Questions, Events} \subseteq Nat

VARIABLES
  talks,     \* chatStore: talk -> [here, policy, cancel, lines]; running is cancel # NoTurn
  runs,      \* chatBridge: turn -> [at, talk, policy, stop, reply, asked, told, failed, panicked]
  ui,        \* chatModel: [shown, running, policy, screen, approvals, asked, stopping, left]
  ceiling,   \* chatModel.ceiling, what -security allowed
  done,      \* history: the mutating calls carried out, <<turn, k>>
  agreed,    \* history: the calls the user said yes to
  displaced  \* history: the turns whose question another turn's end took off the queue

termVars == <<talks, runs, ui, ceiling, done, agreed, displaced>>

(* policyRank and clampPolicy *)
Rank(p) == CASE p = "readonly" -> 0 [] p = "approve" -> 1 [] OTHER -> 2
Clamp(stored) == IF Rank(stored) > Rank(ceiling) THEN ceiling ELSE stored

Running(c) == talks[c].cancel # NoTurn
Here == {c \in Talks : talks[c].here}
Fresh == {c \in Talks : talks[c] = [here |-> FALSE, policy |-> "none", cancel |-> NoTurn, lines |-> {}]}
Created(c, p) == [talks EXCEPT ![c] = [@ EXCEPT !.here = TRUE, !.policy = p]]

\* Mutant: the policy a chat was saved with is taken as it is.
MutRefresh(view, c, store) ==
  [view EXCEPT !.shown = c, !.running = store[c].cancel # NoTurn, !.policy = store[c].policy]

(* refreshChats: the header of chat c as the store has it, within the ceiling *)
Refresh(view, c, store) ==
  [view EXCEPT !.shown = c, !.running = store[c].cancel # NoTurn, !.policy = Clamp(store[c].policy)]

(* refreshChats and loadTranscript, for a chat that comes on screen *)
Show(view, c, store) == [Refresh(view, c, store) EXCEPT !.screen = store[c].lines]

(* appendLine: a chat that is gone takes no line *)
Filed(store, c, line) == IF store[c].here THEN [store EXCEPT ![c].lines = @ \cup {line}] ELSE store

\* Mutant: a line goes on screen whatever chat it belongs to.
MutSeen(view, c, line) == [view EXCEPT !.screen = @ \cup {line}]

(* record puts a line on screen only when its chat is the one looked at *)
Seen(view, c, line) == IF c = view.shown THEN [view EXCEPT !.screen = @ \cup {line}] ELSE view

-----------------------------------------------------------------------------
(* The event loop *)

(* The loop is at work: no /quit, and no Update it is in the middle of.      *)
Looping == ~ui.left /\ ui.stopping = NoTalk
(* With a question pending every key is an answer to it.                     *)
Typing == Looping /\ ui.approvals = {}
RunsStay == UNCHANGED <<runs, done, agreed, displaced>>

(* startTurn.  appendUser and beginRun refuse a chat that is busy; nothing   *)
(* but the loop makes one busy, so between them nothing changes.             *)
StartTurn(r) ==
  LET c == ui.shown
      store == [talks EXCEPT ![c].lines = @ \cup {<<r, "user">>}, ![c].cancel = r]
  IN /\ Typing /\ runs[r].at = "idle"
     /\ ~Running(c)
     /\ talks' = store
     /\ runs' = [runs EXCEPT ![r].at = "think", ![r].talk = c, ![r].policy = ui.policy]
     /\ ui' = Refresh(Seen(ui, c, <<r, "user">>), c, store)
     /\ UNCHANGED <<done, agreed, displaced>>

(* /new *)
NewChat(c) ==
  /\ Typing /\ c \in Fresh
  /\ talks' = Created(c, ui.policy)
  /\ ui' = Show(ui, c, talks')
  /\ RunsStay

(* switchChat *)
SwitchChat(c) ==
  /\ Typing /\ c \in Here /\ c # ui.shown
  /\ ui' = Show(ui, c, talks)
  /\ UNCHANGED talks /\ RunsStay

(* /mode; the turn in flight keeps the policy it began with *)
SetPolicy(p) ==
  /\ Typing /\ Rank(p) <= Rank(ceiling) /\ p # talks[ui.shown].policy
  /\ talks' = [talks EXCEPT ![ui.shown].policy = p]
  /\ ui' = Refresh(ui, ui.shown, talks')
  /\ RunsStay

Stopped(c) == [r \in Turns |-> [runs[r] EXCEPT !.stop = @ \/ r = talks[c].cancel]]

(* deleteActive: the run is canceled, and the newest other chat opened, or a *)
(* new one under the policy on screen.                                       *)
DeleteActive(next) ==
  LET left == [talks EXCEPT ![ui.shown].here = FALSE]
  IN /\ Typing
     /\ \/ next \in Here \ {ui.shown} /\ talks' = left
        \/ /\ Here = {ui.shown} /\ next \in Fresh
           /\ talks' = [left EXCEPT ![next] = [@ EXCEPT !.here = TRUE, !.policy = ui.policy]]
     /\ runs' = Stopped(ui.shown)
     /\ ui' = Show(ui, next, talks')
     /\ UNCHANGED <<done, agreed, displaced>>

(* esc, and ctrl+c while a run is shown *)
CancelTurn ==
  /\ Typing /\ ui.running /\ Running(ui.shown)
  /\ runs' = Stopped(ui.shown)
  /\ UNCHANGED <<talks, ui, done, agreed, displaced>>

(* answerApproval: the decision goes to the run whose question is first, and *)
(* is filed in the chat of that run.                                         *)
Reply(q, a) ==
  LET r == q[2]
      c == runs[r].talk
      line == <<r, a>>
  IN /\ runs' = [runs EXCEPT ![r].reply = a]
     /\ talks' = Filed(talks, c, line)
     /\ ui' = [Seen(ui, c, line) EXCEPT !.approvals = @ \ {q},
                                        !.stopping = IF a = "quit" THEN c ELSE NoTalk]
     /\ agreed' = IF a = "yes" THEN agreed \cup {<<r, runs[r].asked>>} ELSE agreed
     /\ UNCHANGED <<done, displaced>>

AnswerApproval(a) ==
  /\ Looping
  /\ \E q \in ui.approvals : (\A x \in ui.approvals : q[1] <= x[1]) /\ Reply(q, a)

(* ... and after a "q" the run of that chat is canceled, when it may have    *)
(* taken the answer and gone on, or ended.                                   *)
CancelChatRun ==
  /\ ~ui.left /\ ui.stopping # NoTalk
  /\ runs' = IF talks[ui.stopping].here THEN Stopped(ui.stopping) ELSE runs
  /\ ui' = [ui EXCEPT !.stopping = NoTalk]
  /\ UNCHANGED <<talks, done, agreed, displaced>>

(* cancelAll *)
CancelAll == [r \in Turns |-> [runs[r] EXCEPT !.stop = @ \/ \E c \in Here : r = talks[c].cancel]]

(* /quit, or ctrl+c with no run on screen: program.Run returns, cancelAll    *)
Quit ==
  /\ Typing
  /\ ui' = [ui EXCEPT !.left = TRUE]
  /\ runs' = CancelAll
  /\ UNCHANGED <<talks, done, agreed, displaced>>

-----------------------------------------------------------------------------
(* The messages of the runs, as Update handles them *)

\* Mutant: the question replaces the one that was pending.
MutTakeQuestion(r) ==
  /\ Looping /\ runs[r].at = "ask"
  /\ runs' = [runs EXCEPT ![r].at = "wait"]
  /\ ui' = [ui EXCEPT !.approvals = {<<ui.asked, r>>}, !.asked = @ + 1]
  /\ UNCHANGED <<talks, done, agreed, displaced>>

(* approvalMsg *)
TakeQuestion(r) ==
  /\ Looping /\ runs[r].at = "ask"
  /\ runs' = [runs EXCEPT ![r].at = "wait"]
  /\ ui' = [ui EXCEPT !.approvals = @ \cup {<<ui.asked, r>>}, !.asked = @ + 1]
  /\ UNCHANGED <<talks, done, agreed, displaced>>

(* agentEventMsg *)
TakeEvent(r) ==
  LET c == runs[r].talk
      line == <<r, "event">>
  IN /\ Looping /\ runs[r].at = "tell"
     /\ runs' = [runs EXCEPT ![r].at = "think"]
     /\ talks' = Filed(talks, c, line)
     /\ ui' = Seen(ui, c, line)
     /\ UNCHANGED <<done, agreed, displaced>>

(* turnDoneMsg.  dropApprovals goes by the chat: the question of the chat's  *)
(* next run goes with those of the one that ended.                           *)
TakeDone(r) ==
  LET c == runs[r].talk
      line == <<r, "error">>
      dropped == {q \in ui.approvals : runs[q[2]].talk = c}
      view == IF runs[r].failed THEN Seen(ui, c, line) ELSE ui
      store == IF runs[r].failed THEN Filed(talks, c, line) ELSE talks
  IN /\ Looping /\ runs[r].at = "finished"
     /\ runs' = [runs EXCEPT ![r].at = "done"]
     /\ talks' = store
     /\ ui' = Refresh([view EXCEPT !.approvals = @ \ dropped], view.shown, store)
     /\ displaced' = displaced \cup ({q[2] : q \in dropped} \ {r})
     /\ UNCHANGED <<done, agreed>>

(* Once the program has ended a message is taken by nobody and holds nobody. *)
Unheard(r) ==
  /\ ui.left /\ runs[r].at \in {"ask", "tell", "finished"}
  /\ runs' = [runs EXCEPT ![r].at = CASE @ = "ask" -> "wait" [] @ = "tell" -> "think" [] OTHER -> "done"]
  /\ UNCHANGED <<talks, ui, done, agreed, displaced>>

-----------------------------------------------------------------------------
(* chatBridge.run and tuiConfirmer *)

Carried(r) == done \cup {<<r, runs[r].asked + 1>>}
OnlyRun(run) == runs' = run /\ UNCHANGED <<talks, ui, agreed, displaced>>

Tell(r) ==
  /\ runs[r].at = "think" /\ ~runs[r].told
  /\ Cardinality({q \in Turns : runs[q].told}) < Events
  /\ OnlyRun([runs EXCEPT ![r].at = "tell", ![r].told = TRUE])
  /\ UNCHANGED done

(* A mutating call under "full" *)
CallFreely(r) ==
  /\ runs[r].at = "think" /\ ~runs[r].stop /\ runs[r].asked < Questions
  /\ runs[r].policy = "full"
  /\ done' = Carried(r)
  /\ OnlyRun([runs EXCEPT ![r].asked = @ + 1])

(* ... and under "approve": ConfirmToolCall makes a channel and sends.       *)
Ask(r) ==
  /\ runs[r].at = "think" /\ ~runs[r].stop /\ runs[r].asked < Questions
  /\ runs[r].policy = "approve"
  /\ OnlyRun([runs EXCEPT ![r].at = "ask", ![r].asked = @ + 1, ![r].reply = "none"])
  /\ UNCHANGED done

(* The select between the answer and the end of the context; authorize lets  *)
(* only a yes through.                                                       *)
HearAnswer(r) ==
  /\ runs[r].at = "wait" /\ runs[r].reply # "none"
  /\ done' = IF runs[r].reply = "yes" THEN done \cup {<<r, runs[r].asked>>} ELSE done
  /\ OnlyRun([runs EXCEPT ![r].at = "think"])

GiveUp(r) ==
  /\ runs[r].at = "wait" /\ runs[r].stop
  /\ OnlyRun([runs EXCEPT ![r].at = "think"])
  /\ UNCHANGED done

(* finishRun, when agentloop.Run has returned; the deferred turnDoneMsg is   *)
(* sent only after the chat was saved.                                       *)
Finish(r, failed) ==
  LET c == runs[r].talk
  IN /\ runs[r].at = "think" /\ (runs[r].stop => failed)
     /\ runs' = [runs EXCEPT ![r].at = "finished", ![r].failed = failed]
     /\ talks' = IF talks[c].here THEN [talks EXCEPT ![c].cancel = NoTurn] ELSE talks
     /\ UNCHANGED <<ui, done, agreed, displaced>>

(* A panic is recovered by the deferred function, which sends the            *)
(* turnDoneMsg with the error; nobody calls finishRun, and the store keeps   *)
(* the chat as running.  (Panics of tools do not come this far.)             *)
Panic(r) ==
  /\ runs[r].at = "think"
  /\ OnlyRun([runs EXCEPT ![r].at = "finished", ![r].failed = TRUE, ![r].panicked = TRUE])
  /\ UNCHANGED done

-----------------------------------------------------------------------------
(* cmdChat: the chats on disk, one at most here, and the newest one opened,  *)
(* or one created under the policy of this run.                              *)
TermInit ==
  /\ ceiling \in Policies
  /\ \E c \in Talks, stored \in Policies \cup {ceiling} :
       /\ talks = [x \in Talks |-> [here |-> x = c, policy |-> IF x = c THEN stored ELSE "none",
                                    cancel |-> NoTurn, lines |-> {}]]
       /\ ui = [shown |-> c, running |-> FALSE, policy |-> Clamp(stored), screen |-> {},
                approvals |-> {}, asked |-> 0, stopping |-> NoTalk, left |-> FALSE]
  /\ runs = [r \in Turns |-> [at |-> "idle", talk |-> NoTalk, policy |-> "none", stop |-> FALSE,
                              reply |-> "none", asked |-> 0, told |-> FALSE, failed |-> FALSE,
                              panicked |-> FALSE]]
  /\ done = {} /\ agreed = {} /\ displaced = {}

Keys ==
  \/ \E r \in Turns : StartTurn(r)
  \/ \E c \in Talks : NewChat(c) \/ SwitchChat(c) \/ DeleteActive(c)
  \/ \E p \in Policies : SetPolicy(p)
  \/ \E a \in {"yes", "no", "quit"} : AnswerApproval(a)
  \/ CancelTurn \/ Quit

(* What goes on without the user: the run, and the loop taking its messages. *)
TurnStep(r) ==
  \/ Tell(r) \/ CallFreely(r) \/ Ask(r) \/ HearAnswer(r) \/ GiveUp(r)
  \/ Panic(r) \/ \E failed \in BOOLEAN : Finish(r, failed)
  \/ TakeQuestion(r) \/ TakeEvent(r) \/ TakeDone(r) \/ Unheard(r)

TermNext ==
  /\ Keys \/ CancelChatRun \/ \E r \in Turns : TurnStep(r)
  /\ UNCHANGED ceiling

-----------------------------------------------------------------------------
(* Properties *)

TermTypeOK ==
  /\ ceiling \in Policies /\ ui.shown \in Here
  /\ \A r \in Turns : runs[r].at \in {"idle", "think", "tell", "ask", "wait", "finished", "done"}
  /\ \A q \in ui.approvals : q[1] < ui.asked /\ q[2] \in Turns

(* A run that is blocked on a question has it in the queue the user answers  *)
(* from, whatever other runs ask, end or are canceled meanwhile (Update,     *)
(* answerApproval); or it was canceled, as every run is when the user leaves *)
(* (cancelAll), and the wait is over.  Excused: a question that came while   *)
(* the end of the chat's previous run was still to be reported;              *)
(* dropApprovals takes it too.                                               *)
QuestionsReachTheUser ==
  \A r \in Turns :
    runs[r].at = "wait" /\ runs[r].reply = "none" /\ ~runs[r].stop =>
      r \in displaced \/ \E q \in ui.approvals : q[2] = r

(* No turn has more rights than -security gave this run, whatever policy its *)
(* chat was saved with and however it came on screen (clampPolicy); and      *)
(* under "approve" a call is carried out only if the user said yes to that   *)
(* very call.                                                                *)
RightsWithinCeiling ==
  \A x \in done :
    LET r == runs[x[1]]
    IN Rank(r.policy) <= Rank(ceiling) /\ (r.policy = "full" \/ x \in agreed)

(* A run that is at work for the chat, or whose end is still to be reported. *)
Unreported(r) == runs[r].talk = ui.shown /\ runs[r].at \notin {"idle", "done"}

(* What is on screen is the chat that is named above it: its lines as they   *)
(* are stored, with none of the chats whose runs go on behind it, and the    *)
(* busy mark while one of its runs is at work.  The mark goes when the end   *)
(* of the run is reported (turnDoneMsg), but for a run that panicked: the    *)
(* store goes on saying that the chat is running, and the screen stays busy, *)
(* which the comment of chatBridge.run says it never does.                   *)
ScreenTellsTheChat ==
  /\ ui.screen = talks[ui.shown].lines
  /\ \A r \in Turns : Unreported(r) /\ runs[r].at # "finished" => ui.running
  /\ ui.running /\ ~ui.left =>
       \E r \in Turns : Unreported(r) \/ (runs[r].talk = ui.shown /\ runs[r].panicked)
=============================================================================
