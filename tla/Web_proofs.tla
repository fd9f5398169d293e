------------------------------ MODULE Web_proofs ------------------------------
(***************************************************************************)
(* Proofs about three components of "dzzzr web", one after the other: the   *)
(* chats (ChatRuns), the files they are saved in (ChatFiles) and the drafts *)
(* of the editor (Drafts). They share no state and no definition.           *)
(***************************************************************************)
EXTENDS ChatRuns, ChatFiles, Drafts, TLAPS

-----------------------------------------------------------------------------
(***************************************************************************)
(* ChatRuns, for every set of chats and runs and every bound on the calls   *)
(* of a turn.                                                               *)
(***************************************************************************)
(* Type correctness.                                                        *)

LEMMA GateType ==
    ASSUME TypeOK, NEW r \in Runs, calls[r] # 0
    PROVE  Gate(r) \in Gates
BY MaxCallsAssumption DEF TypeOK, Gate, Gates

LEMMA InitType == Init => TypeOK
BY MaxCallsAssumption DEF Init, TypeOK, Messages, Gates, Places, InTurn, Ahead

LEMMA HandlersType == TypeOK /\ Handlers => TypeOK'
<1> SUFFICES ASSUME TypeOK, Handlers PROVE TypeOK'
    OBVIOUS
<1> USE DEF storeVars, runVars, gateVars
<1>1. ASSUME NEW c \in Chats, NEW p \in Rights, CreateChat(c, p) PROVE TypeOK'
    BY <1>1 DEF CreateChat, TypeOK
<1>2. ASSUME NEW c \in Chats, NEW p \in Rights, PatchPolicy(c, p) PROVE TypeOK'
    BY <1>2 DEF PatchPolicy, TypeOK
<1>3. ASSUME NEW c \in Chats, NEW r \in Runs, PostMessage(r, c) PROVE TypeOK'
    BY <1>3 DEF PostMessage, TypeOK, Messages, Places, Ahead, InTurn
<1>4. ASSUME NEW c \in Chats, FetchCancel(c) PROVE TypeOK'
    BY <1>4 DEF FetchCancel, TypeOK
<1>5. ASSUME NEW c \in Chats, RemoveChat(c) PROVE TypeOK'
    BY <1>5 DEF RemoveChat, TypeOK
<1>6. ASSUME NEW c \in Chats, FinishDelete(c) PROVE TypeOK'
    BY <1>6 DEF FinishDelete, TypeOK, ClearApprovalGate, CloseInstalled
<1>7. ASSUME NEW r \in Runs, CallCancel(r) PROVE TypeOK'
    BY <1>7 DEF CallCancel, TypeOK
<1>8. QED
    BY <1>1, <1>2, <1>3, <1>4, <1>5, <1>6, <1>7 DEF Handlers

LEMMA PostApprovalType ==
    ASSUME TypeOK, NEW c \in Chats, NEW a \in Answers, PostApproval(c, a)
    PROVE  TypeOK'
BY DEF PostApproval, TypeOK, storeVars, runVars

LEMMA FinishRunType ==
    ASSUME TypeOK, NEW c \in Chats, NEW produced \in SUBSET Messages, FinishRun(c, produced)
    PROVE  /\ messages' \in [Chats -> SUBSET Messages]
           /\ running' \in [Chats -> BOOLEAN]
           /\ cancel' \in [Chats -> Runs \cup {NoRun}]
BY DEF FinishRun, TypeOK

LEMMA TurnType ==
    ASSUME TypeOK, NEW r \in Runs, Turn(r), pc[r] # "idle" => chatOf[r] \in Chats,
           pc[r] \in {"wait", "decided"} => calls[r] # 0
    PROVE  TypeOK'
<1> USE DEF storeVars, runVars, gateVars
<1>1. CASE FetchChat(r)
    BY <1>1 DEF FetchChat, TypeOK, Move, Places, Ahead, InTurn
<1>2. CASE BeginRun(r)
    BY <1>2 DEF BeginRun, TypeOK, Move, Places, InTurn
<1>3. CASE RefuseRun(r)
    BY <1>3 DEF RefuseRun, TypeOK, Move, Places
<1>4. CASE Reply(r)
  <2>1. PICK produced \in {history[r], history[r] \cup {<<r, "assistant">>}} :
            FinishRun(chatOf[r], produced)
        BY <1>4 DEF Reply
  <2>2. produced \in SUBSET Messages
        BY DEF TypeOK, Messages
  <2>3. chatOf[r] \in Chats
        BY <1>4 DEF Reply
  <2>4. QED
        BY <1>4, <2>1, <2>2, <2>3, FinishRunType DEF Reply, TypeOK, Move, Places
<1>5. CASE Fail(r)
  <2>1. chatOf[r] \in Chats /\ messages[chatOf[r]] \in SUBSET Messages
        BY <1>5 DEF Fail, TypeOK
  <2>2. QED
        BY <1>5, <2>1, FinishRunType DEF Fail, TypeOK, Move, Places
<1>6. CASE CallFreely(r)
    BY <1>6, MaxCallsAssumption DEF CallFreely, Calls, TypeOK, Gates
<1>7. CASE AskApproval(r)
    BY <1>7, MaxCallsAssumption
    DEF AskApproval, Calls, SetApprovalGate, CloseInstalled, TypeOK, Gates, Move, Places, InTurn
<1>8. CASE Wait(r)
    BY <1>8, GateType DEF Wait, TakeAnswer, GiveUpWaiting, TypeOK, Move, Places, InTurn
<1>9. CASE LeaveConfirm(r)
    BY <1>9, GateType DEF LeaveConfirm, ClearApprovalGate, CloseInstalled, TypeOK, Move, Places, InTurn
<1>10. CASE ClearGate(r)
    BY <1>10 DEF ClearGate, ClearApprovalGate, CloseInstalled, TypeOK, Move, Places
<1>11. QED
    BY <1>1, <1>2, <1>3, <1>4, <1>5, <1>6, <1>7, <1>8, <1>9, <1>10 DEF Turn

-----------------------------------------------------------------------------
(* The inductive invariant. Its first half, TalkInv, is about the store and the    *)
(* goroutines; the second, GateInv, about the approval gates of a turn in flight.  *)

\* A run has a chat from the moment its message is accepted, and its message is in
\* that chat's history while beginRun is still ahead of it. A chat that was not
\* created yet is empty.
RunsHaveChats ==
    /\ \A r \in Runs :
          /\ pc[r] = "idle" => chatOf[r] = NoChat
          /\ pc[r] # "idle" => chatOf[r] \in Chats /\ status[chatOf[r]] # "absent"
          /\ pc[r] \in Ahead /\ status[chatOf[r]] = "live" => <<r, "user">> \in messages[chatOf[r]]
    /\ \A c \in Chats : status[c] = "absent" =>
          ~running[c] /\ cancel[c] = NoRun /\ messages[c] = {}

TalkInv == RunsHaveChats /\ OneTurnPerChat /\ HistoryIsCurrent /\ NoMessageUnheard

talkVars == <<status, messages, running, cancel, pc, chatOf, history>>

\* A step of a turn in flight that leaves it in flight.
StaysInTurn(r) ==
    /\ pc[r] \in InTurn
    /\ \E place \in InTurn : pc' = [pc EXCEPT ![r] = place]
    /\ UNCHANGED <<status, messages, running, cancel, chatOf, history>>

LEMMA TalkFrame ==
    ASSUME Next
    PROVE  \/ UNCHANGED talkVars
           \/ \E c \in Chats, p \in Rights : CreateChat(c, p)
           \/ \E c \in Chats, r \in Runs : PostMessage(r, c)
           \/ \E c \in Chats : RemoveChat(c) \/ FinishDelete(c)
           \/ \E r \in Runs : \/ FetchChat(r) \/ BeginRun(r) \/ RefuseRun(r) \/ Reply(r)
                              \/ Fail(r) \/ ClearGate(r) \/ StaysInTurn(r)
<1> USE DEF talkVars, storeVars, runVars, gateVars
<1>1. ASSUME NEW c \in Chats, NEW p \in Rights, PatchPolicy(c, p) PROVE UNCHANGED talkVars
    BY <1>1 DEF PatchPolicy
<1>2. ASSUME NEW c \in Chats, FetchCancel(c) PROVE UNCHANGED talkVars
    BY <1>2 DEF FetchCancel
<1>3. ASSUME NEW r \in Runs, CallCancel(r) PROVE UNCHANGED talkVars
    BY <1>3 DEF CallCancel
<1>4. ASSUME NEW c \in Chats, NEW a \in Answers, PostApproval(c, a) PROVE UNCHANGED talkVars
    BY <1>4 DEF PostApproval
<1>5. ASSUME NEW r \in Runs, CallFreely(r) PROVE UNCHANGED talkVars
    BY <1>5 DEF CallFreely
<1>6. ASSUME NEW r \in Runs, AskApproval(r) PROVE StaysInTurn(r)
    BY <1>6 DEF AskApproval, Calls, Move, StaysInTurn, InTurn
<1>7. ASSUME NEW r \in Runs, Wait(r) PROVE StaysInTurn(r)
    BY <1>7 DEF Wait, Move, StaysInTurn, InTurn
<1>8. ASSUME NEW r \in Runs, LeaveConfirm(r) PROVE StaysInTurn(r)
    BY <1>8 DEF LeaveConfirm, Move, StaysInTurn, InTurn
<1>9. ASSUME Handlers
      PROVE  \/ UNCHANGED talkVars
             \/ \E c \in Chats, p \in Rights : CreateChat(c, p)
             \/ \E c \in Chats, r \in Runs : PostMessage(r, c)
             \/ \E c \in Chats : RemoveChat(c) \/ FinishDelete(c)
  <2>1. CASE \E c \in Chats, p \in Rights : CreateChat(c, p) \/ PatchPolicy(c, p)
      BY <2>1, <1>1
  <2>2. CASE \E c \in Chats, r \in Runs : PostMessage(r, c)
      BY <2>2
  <2>3. CASE \E c \in Chats : FetchCancel(c) \/ RemoveChat(c) \/ FinishDelete(c)
      BY <2>3, <1>2
  <2>4. CASE \E r \in Runs : CallCancel(r)
      BY <2>4, <1>3
  <2>5. QED
      BY <1>9, <2>1, <2>2, <2>3, <2>4 DEF Handlers
<1>10. ASSUME NEW r \in Runs, Turn(r)
       PROVE  \/ UNCHANGED talkVars
              \/ FetchChat(r) \/ BeginRun(r) \/ RefuseRun(r) \/ Reply(r)
              \/ Fail(r) \/ ClearGate(r) \/ StaysInTurn(r)
    BY <1>5, <1>6, <1>7, <1>8, <1>10 DEF Turn
<1>11. QED
    BY <1>4, <1>9, <1>10 DEF Next, Server

LEMMA TalkInit == Init => TalkInv
BY NullAssumption
DEF Init, TalkInv, RunsHaveChats, OneTurnPerChat, HistoryIsCurrent, NoMessageUnheard,
    TurnsOf, InTurn, Ahead

LEMMA TalkStep ==
    ASSUME TypeOK, TalkInv, Next, TypeOK'
    PROVE  TalkInv'
<1> USE NullAssumption DEF TypeOK, InTurn, Ahead, Places, storeVars, runVars, gateVars, Move
<1>1. CASE UNCHANGED talkVars
    BY <1>1 DEF talkVars, TalkInv, RunsHaveChats, OneTurnPerChat, HistoryIsCurrent,
                NoMessageUnheard, TurnsOf
<1>2. ASSUME NEW c \in Chats, NEW p \in Rights, CreateChat(c, p) PROVE TalkInv'
  <2>1. RunsHaveChats'
        BY <1>2 DEF TalkInv, RunsHaveChats, CreateChat
  <2>a. \A r \in Runs : pc[r] # "idle" => chatOf[r] # c
        BY <1>2 DEF TalkInv, RunsHaveChats, CreateChat
  <2>b. \A d \in Chats : TurnsOf(d)' = TurnsOf(d)
        BY <1>2 DEF TurnsOf, CreateChat
  <2>c. TurnsOf(c) = {}
        BY <2>a DEF TurnsOf
  <2>2. OneTurnPerChat'
        BY <1>2, <2>b, <2>c DEF TalkInv, RunsHaveChats, OneTurnPerChat, CreateChat
  <2>3. HistoryIsCurrent'
        BY <1>2, <2>a DEF TalkInv, RunsHaveChats, HistoryIsCurrent, CreateChat
  <2>4. NoMessageUnheard'
        BY <1>2 DEF TalkInv, RunsHaveChats, OneTurnPerChat, HistoryIsCurrent, TurnsOf, NoMessageUnheard, CreateChat
  <2>5. QED
        BY <2>1, <2>2, <2>3, <2>4 DEF TalkInv
<1>3. ASSUME NEW c \in Chats, NEW r \in Runs, PostMessage(r, c) PROVE TalkInv'
  <2>1. RunsHaveChats'
        BY <1>3 DEF TalkInv, RunsHaveChats, PostMessage, Accepts
  <2>2. OneTurnPerChat'
        BY <1>3 DEF TalkInv, RunsHaveChats, TurnsOf, OneTurnPerChat, PostMessage, Accepts
  <2>3. HistoryIsCurrent'
        BY <1>3 DEF TalkInv, RunsHaveChats, OneTurnPerChat, TurnsOf, HistoryIsCurrent, PostMessage, Accepts
  <2>4. NoMessageUnheard'
    <3> SUFFICES ASSUME NEW d \in Chats, NEW m \in Runs,
                        status'[d] = "live", <<m, "user">> \in messages'[d]
                 PROVE  \E q \in Runs : /\ chatOf'[q] = d
                                        /\ pc'[q] \in Ahead \/ <<m, "user">> \in history'[q]
        BY DEF NoMessageUnheard
    <3>1. CASE d = c
        BY <1>3, <3>1 DEF PostMessage
    <3>2. CASE d # c
      <4>1. PICK q \in Runs : chatOf[q] = d /\ (pc[q] \in Ahead \/ <<m, "user">> \in history[q])
          BY <1>3, <3>2 DEF PostMessage, TalkInv, NoMessageUnheard
      <4>a. chatOf[r] = NoChat
          BY <1>3 DEF PostMessage, TalkInv, RunsHaveChats
      <4>2. q # r
          BY <4>a, <4>1
      <4>3. QED
          BY <1>3, <4>1, <4>2 DEF PostMessage
    <3>3. QED
        BY <3>1, <3>2
  <2>5. QED
        BY <2>1, <2>2, <2>3, <2>4 DEF TalkInv
<1>4. ASSUME NEW c \in Chats, RemoveChat(c) PROVE TalkInv'
  <2>1. RunsHaveChats'
        BY <1>4 DEF TalkInv, RunsHaveChats, RemoveChat
  <2>2. OneTurnPerChat'
        BY <1>4 DEF TalkInv, RunsHaveChats, TurnsOf, OneTurnPerChat, RemoveChat
  <2>3. HistoryIsCurrent'
        BY <1>4 DEF TalkInv, RunsHaveChats, OneTurnPerChat, TurnsOf, HistoryIsCurrent, RemoveChat
  <2>4. NoMessageUnheard'
        BY <1>4 DEF TalkInv, RunsHaveChats, OneTurnPerChat, HistoryIsCurrent, TurnsOf, NoMessageUnheard, RemoveChat
  <2>5. QED
        BY <2>1, <2>2, <2>3, <2>4 DEF TalkInv
<1>5. ASSUME NEW c \in Chats, FinishDelete(c) PROVE TalkInv'
  <2>1. RunsHaveChats'
        BY <1>5 DEF TalkInv, RunsHaveChats, FinishDelete
  <2>2. OneTurnPerChat'
        BY <1>5 DEF TalkInv, RunsHaveChats, TurnsOf, OneTurnPerChat, FinishDelete
  <2>3. HistoryIsCurrent'
        BY <1>5 DEF TalkInv, RunsHaveChats, OneTurnPerChat, TurnsOf, HistoryIsCurrent, FinishDelete
  <2>4. NoMessageUnheard'
        BY <1>5 DEF TalkInv, RunsHaveChats, OneTurnPerChat, HistoryIsCurrent, TurnsOf, NoMessageUnheard, FinishDelete
  <2>5. QED
        BY <2>1, <2>2, <2>3, <2>4 DEF TalkInv
<1>6. ASSUME NEW r \in Runs, FetchChat(r) PROVE TalkInv'
  <2>1. RunsHaveChats'
        BY <1>6 DEF TalkInv, RunsHaveChats, FetchChat
  <2>2. OneTurnPerChat'
        BY <1>6, SMTT(40) DEF TalkInv, RunsHaveChats, TurnsOf, OneTurnPerChat, FetchChat
  <2>3. HistoryIsCurrent'
        BY <1>6 DEF TalkInv, RunsHaveChats, OneTurnPerChat, TurnsOf, HistoryIsCurrent, FetchChat
  <2>4. NoMessageUnheard'
        BY <1>6 DEF TalkInv, RunsHaveChats, OneTurnPerChat, HistoryIsCurrent, TurnsOf, NoMessageUnheard, FetchChat
  <2>5. QED
        BY <2>1, <2>2, <2>3, <2>4 DEF TalkInv
<1>7. ASSUME NEW r \in Runs, BeginRun(r) PROVE TalkInv'
  <2>1. RunsHaveChats'
        BY <1>7 DEF TalkInv, RunsHaveChats, BeginRun, MayBegin
  <2>2. OneTurnPerChat'
        BY <1>7 DEF TalkInv, RunsHaveChats, TurnsOf, OneTurnPerChat, BeginRun, MayBegin
  <2>3. HistoryIsCurrent'
        BY <1>7 DEF TalkInv, RunsHaveChats, OneTurnPerChat, TurnsOf, HistoryIsCurrent, BeginRun, MayBegin
  <2>4. NoMessageUnheard'
        BY <1>7 DEF TalkInv, RunsHaveChats, OneTurnPerChat, HistoryIsCurrent, TurnsOf, NoMessageUnheard, BeginRun, MayBegin
  <2>5. QED
        BY <2>1, <2>2, <2>3, <2>4 DEF TalkInv
<1>8. ASSUME NEW r \in Runs, RefuseRun(r) PROVE TalkInv'
  <2>1. RunsHaveChats'
        BY <1>8 DEF TalkInv, RunsHaveChats, RefuseRun, MayBegin
  <2>2. OneTurnPerChat'
        BY <1>8 DEF TalkInv, RunsHaveChats, TurnsOf, OneTurnPerChat, RefuseRun, MayBegin
  <2>3. HistoryIsCurrent'
        BY <1>8 DEF TalkInv, RunsHaveChats, OneTurnPerChat, TurnsOf, HistoryIsCurrent, RefuseRun, MayBegin
  <2>4. NoMessageUnheard'
        BY <1>8 DEF TalkInv, RunsHaveChats, OneTurnPerChat, HistoryIsCurrent, TurnsOf, NoMessageUnheard, RefuseRun, MayBegin
  <2>5. QED
        BY <2>1, <2>2, <2>3, <2>4 DEF TalkInv
<1>9. ASSUME NEW r \in Runs, Reply(r) PROVE TalkInv'
  <2>a. PICK produced \in {history[r], history[r] \cup {<<r, "assistant">>}} :
            FinishRun(chatOf[r], produced)
        BY <1>9 DEF Reply
  <2>b. chatOf[r] \in Chats
        BY <1>9 DEF Reply, TalkInv, RunsHaveChats
  <2>c. \A d \in Chats, m \in Runs :
            /\ messages[d] \subseteq messages'[d]
            /\ <<m, "user">> \in messages'[d] => <<m, "user">> \in messages[d]
        BY <1>9, <2>a, <2>b DEF Reply, FinishRun, TalkInv, HistoryIsCurrent
  <2>1. RunsHaveChats'
        BY <1>9, <2>b, <2>c DEF TalkInv, RunsHaveChats, Reply, FinishRun
  <2>2. OneTurnPerChat'
        BY <1>9 DEF TalkInv, RunsHaveChats, TurnsOf, OneTurnPerChat, Reply, FinishRun
  <2>3. HistoryIsCurrent'
    <3> SUFFICES ASSUME NEW q \in Runs, pc'[q] \in InTurn, status'[chatOf'[q]] = "live"
                 PROVE  history'[q] = messages'[chatOf'[q]]
        BY DEF HistoryIsCurrent
    <3>a. pc'[r] = "clear" /\ \A x \in Runs : x # r => pc'[x] = pc[x]
        BY <1>9 DEF Reply
    <3>b. q # r /\ pc[q] \in InTurn
        BY <3>a
    <3>c. chatOf[q] \in Chats
        BY <3>b DEF TalkInv, RunsHaveChats
    <3>1. q # r /\ pc[q] \in InTurn /\ chatOf[q] \in Chats
        BY <3>b, <3>c
    <3>2. chatOf[q] # chatOf[r]
        BY <1>9, <2>b, <3>1 DEF Reply, TalkInv, OneTurnPerChat, TurnsOf
    <3>3. QED
        BY <1>9, <2>a, <2>b, <3>1, <3>2 DEF Reply, FinishRun, TalkInv, HistoryIsCurrent
  <2>4. NoMessageUnheard'
    <3> SUFFICES ASSUME NEW d \in Chats, NEW m \in Runs,
                        status'[d] = "live", <<m, "user">> \in messages'[d]
                 PROVE  \E q \in Runs : /\ chatOf'[q] = d
                                        /\ pc'[q] \in Ahead \/ <<m, "user">> \in history'[q]
        BY DEF NoMessageUnheard
    <3>1. PICK q \in Runs : chatOf[q] = d /\ (pc[q] \in Ahead \/ <<m, "user">> \in history[q])
        BY <1>9, <2>c DEF Reply, TalkInv, NoMessageUnheard
    <3>2. QED
        BY <1>9, <3>1 DEF Reply
  <2>5. QED
        BY <2>1, <2>2, <2>3, <2>4 DEF TalkInv
<1>10. ASSUME NEW r \in Runs, Fail(r) PROVE TalkInv'
  <2>1. RunsHaveChats'
        BY <1>10 DEF TalkInv, RunsHaveChats, Fail, FinishRun
  <2>2. OneTurnPerChat'
        BY <1>10 DEF TalkInv, RunsHaveChats, TurnsOf, OneTurnPerChat, Fail, FinishRun
  <2>3. HistoryIsCurrent'
        BY <1>10 DEF TalkInv, RunsHaveChats, OneTurnPerChat, TurnsOf, HistoryIsCurrent, Fail, FinishRun
  <2>4. NoMessageUnheard'
        BY <1>10, SMTT(40) DEF TalkInv, RunsHaveChats, OneTurnPerChat, HistoryIsCurrent, TurnsOf, NoMessageUnheard, Fail, FinishRun
  <2>5. QED
        BY <2>1, <2>2, <2>3, <2>4 DEF TalkInv
<1>11. ASSUME NEW r \in Runs, ClearGate(r) PROVE TalkInv'
  <2>1. RunsHaveChats'
        BY <1>11 DEF TalkInv, RunsHaveChats, ClearGate
  <2>2. OneTurnPerChat'
        BY <1>11 DEF TalkInv, RunsHaveChats, TurnsOf, OneTurnPerChat, ClearGate
  <2>3. HistoryIsCurrent'
        BY <1>11 DEF TalkInv, RunsHaveChats, OneTurnPerChat, TurnsOf, HistoryIsCurrent, ClearGate
  <2>4. NoMessageUnheard'
        BY <1>11 DEF TalkInv, RunsHaveChats, OneTurnPerChat, HistoryIsCurrent, TurnsOf, NoMessageUnheard, ClearGate
  <2>5. QED
        BY <2>1, <2>2, <2>3, <2>4 DEF TalkInv
<1>12. ASSUME NEW r \in Runs, StaysInTurn(r) PROVE TalkInv'
  <2>1. RunsHaveChats'
        BY <1>12 DEF TalkInv, RunsHaveChats, StaysInTurn
  <2>2. OneTurnPerChat'
        BY <1>12 DEF TalkInv, RunsHaveChats, TurnsOf, OneTurnPerChat, StaysInTurn
  <2>3. HistoryIsCurrent'
        BY <1>12 DEF TalkInv, RunsHaveChats, OneTurnPerChat, TurnsOf, HistoryIsCurrent, StaysInTurn
  <2>4. NoMessageUnheard'
    <3>1. \A q \in Runs : pc[q] \in Ahead => pc'[q] \in Ahead
        BY <1>12 DEF StaysInTurn
    <3>2. QED
        BY <1>12, <3>1 DEF TalkInv, NoMessageUnheard, StaysInTurn
  <2>5. QED
        BY <2>1, <2>2, <2>3, <2>4 DEF TalkInv
<1>13. QED
    BY <1>1, <1>2, <1>3, <1>4, <1>5, <1>6, <1>7, <1>8, <1>9, <1>10, <1>11, <1>12, TalkFrame

-----------------------------------------------------------------------------
(* The approval gates.                                                      *)

\* A run calls nothing before its turn begins, and it is a run under "approve" that
\* waits for an answer, at the gate of a call it has tried.
CallsInTurn ==
    \A r \in Runs :
        /\ pc[r] \in {"idle"} \cup Ahead => calls[r] = 0
        /\ pc[r] \in {"wait", "decided"} => calls[r] # 0 /\ runPolicy[r] = "approve"

\* A gate is untouched until the call it belongs to is tried.
FreshGates ==
    \A r \in Runs, k \in 1..MaxCalls :
        k > calls[r] => /\ reply[<<r, k>>] = "none"
                        /\ answered[<<r, k>>] = "none"
                        /\ <<r, k>> \notin executed

\* Until the waiting run takes it, the slot holds the first answer; what the run took
\* is that answer too.
FirstAnswerCounts ==
    \A r \in Runs :
        /\ pc[r] = "wait" => reply[Gate(r)] = answered[Gate(r)]
        /\ pc[r] = "decided" => verdict[r] \in {"error", answered[Gate(r)]} \ {"none"}

GateInv ==
    /\ CallsInTurn
    /\ FreshGates
    /\ FirstAnswerCounts
    /\ GateBelongsToWaiter
    /\ OnlyApprovedCallsRun

gateInvVars ==
    <<pc, chatOf, runPolicy, calls, approvals, reply, answered, verdict, executed>>

\* A step of a run from one place where it is not at a gate to another.
AwayFromGates(r) ==
    /\ pc[r] \notin {"wait", "decided"}
    /\ \E place \in Places \ {"idle", "wait", "decided"} :
          /\ pc' = [pc EXCEPT ![r] = place]
          /\ place \in Ahead => pc[r] \in {"idle"} \cup Ahead
    /\ \A q \in Runs \ {r} : chatOf'[q] = chatOf[q] /\ runPolicy'[q] = runPolicy[q]
    /\ calls[r] # 0 => runPolicy'[r] = runPolicy[r]
    /\ UNCHANGED <<calls, approvals, reply, answered, verdict, executed>>

LEMMA GateInit == Init => GateInv
BY MaxCallsAssumption
DEF Init, GateInv, CallsInTurn, FreshGates, FirstAnswerCounts, GateBelongsToWaiter,
    OnlyApprovedCallsRun, Gates, Ahead

LEMMA GateFrame ==
    ASSUME TypeOK, CallsInTurn, Next
    PROVE  \/ UNCHANGED gateInvVars
           \/ \E c \in Chats : FinishDelete(c)
           \/ \E c \in Chats, a \in Answers : PostApproval(c, a)
           \/ \E r \in Runs : \/ AwayFromGates(r) \/ CallFreely(r) \/ AskApproval(r)
                              \/ Wait(r) \/ LeaveConfirm(r) \/ ClearGate(r)
<1> USE DEF gateInvVars, storeVars, runVars, gateVars
<1>1. ASSUME NEW c \in Chats, NEW p \in Rights, CreateChat(c, p) \/ PatchPolicy(c, p)
      PROVE  UNCHANGED gateInvVars
    BY <1>1 DEF CreateChat, PatchPolicy
<1>2. ASSUME NEW c \in Chats, FetchCancel(c) \/ RemoveChat(c) PROVE UNCHANGED gateInvVars
    BY <1>2 DEF FetchCancel, RemoveChat
<1>3. ASSUME NEW r \in Runs, CallCancel(r) PROVE UNCHANGED gateInvVars
    BY <1>3 DEF CallCancel
<1>4. ASSUME NEW c \in Chats, NEW r \in Runs, PostMessage(r, c) PROVE AwayFromGates(r)
    BY <1>4 DEF PostMessage, AwayFromGates, TypeOK, Places, Ahead
<1>5. ASSUME NEW r \in Runs, FetchChat(r) PROVE AwayFromGates(r)
    BY <1>5 DEF FetchChat, Move, AwayFromGates, TypeOK, CallsInTurn, Places, Ahead
<1>6. ASSUME NEW r \in Runs, BeginRun(r) \/ RefuseRun(r) PROVE AwayFromGates(r)
    BY <1>6 DEF BeginRun, RefuseRun, Move, AwayFromGates, TypeOK, Places, Ahead, InTurn
<1>7. ASSUME NEW r \in Runs, Reply(r) \/ Fail(r) PROVE AwayFromGates(r)
    BY <1>7 DEF Reply, Fail, Move, AwayFromGates, TypeOK, Places, Ahead
<1>8. ASSUME Handlers
      PROVE  \/ UNCHANGED gateInvVars
             \/ \E c \in Chats : FinishDelete(c)
             \/ \E r \in Runs : AwayFromGates(r)
  <2>1. CASE \E c \in Chats, p \in Rights : CreateChat(c, p) \/ PatchPolicy(c, p)
      BY <2>1, <1>1
  <2>2. CASE \E c \in Chats, r \in Runs : PostMessage(r, c)
      BY <2>2, <1>4
  <2>3. CASE \E c \in Chats : FetchCancel(c) \/ RemoveChat(c) \/ FinishDelete(c)
      BY <2>3, <1>2
  <2>4. CASE \E r \in Runs : CallCancel(r)
      BY <2>4, <1>3
  <2>5. QED
      BY <1>8, <2>1, <2>2, <2>3, <2>4 DEF Handlers
<1>9. ASSUME NEW r \in Runs, Turn(r)
      PROVE  \/ AwayFromGates(r) \/ CallFreely(r) \/ AskApproval(r)
             \/ Wait(r) \/ LeaveConfirm(r) \/ ClearGate(r)
    BY <1>5, <1>6, <1>7, <1>9 DEF Turn
<1>10. QED
    BY <1>8, <1>9 DEF Next, Server

LEMMA GateStep ==
    ASSUME TypeOK, GateInv, Next, TypeOK', RunsHaveChats
    PROVE  GateInv'
<1> USE DEF TypeOK, Gates, Gate, Move, Ahead, storeVars, runVars, gateVars
<1>1. CASE UNCHANGED gateInvVars
    BY <1>1 DEF gateInvVars, GateInv, CallsInTurn, FreshGates, FirstAnswerCounts,
                GateBelongsToWaiter, OnlyApprovedCallsRun
<1>2. ASSUME NEW c \in Chats, FinishDelete(c) PROVE GateInv'
  <2> USE <1>2 DEF FinishDelete, ClearApprovalGate
  <2>1. CallsInTurn'
        BY DEF GateInv, CallsInTurn
  <2>2. FreshGates'
        BY DEF GateInv, FreshGates
  <2>3. FirstAnswerCounts'
        BY DEF GateInv, FirstAnswerCounts
  <2>4. GateBelongsToWaiter'
        BY DEF GateInv, GateBelongsToWaiter
  <2>5. OnlyApprovedCallsRun'
        BY DEF GateInv, OnlyApprovedCallsRun
  <2>6. QED
        BY <2>1, <2>2, <2>3, <2>4, <2>5 DEF GateInv
<1>3. ASSUME NEW c \in Chats, NEW a \in Answers, PostApproval(c, a) PROVE GateInv'
  <2> USE <1>3
  <2>1. PICK w \in Runs : /\ chatOf[w] = c
                         /\ pc[w] \in {"wait", "decided"}
                         /\ approvals[c] = Gate(w)
        BY DEF PostApproval, GateInv, GateBelongsToWaiter
  <2>2. /\ reply[Gate(w)] = "none"
        /\ reply' = [reply EXCEPT ![Gate(w)] = a]
        /\ answered' = [answered EXCEPT ![Gate(w)] = IF @ = "none" THEN a ELSE @]
        /\ UNCHANGED <<pc, chatOf, runPolicy, calls, approvals, verdict, executed>>
        BY <2>1 DEF PostApproval
  <2>3. Gate(w) \in Gates /\ calls[w] # 0
        BY <2>1, GateType DEF GateInv, CallsInTurn
  <2>4. CallsInTurn'
        BY <2>2 DEF GateInv, CallsInTurn
  <2>5. FreshGates'
        BY <2>2, <2>3 DEF GateInv, FreshGates
  <2>6. FirstAnswerCounts'
        BY <2>1, <2>2, <2>3 DEF GateInv, FirstAnswerCounts
  <2>7. GateBelongsToWaiter'
        BY <2>2 DEF GateInv, GateBelongsToWaiter
  <2>8. OnlyApprovedCallsRun'
        BY <2>2, <2>3 DEF GateInv, OnlyApprovedCallsRun
  <2>9. QED
        BY <2>4, <2>5, <2>6, <2>7, <2>8 DEF GateInv
<1>4. ASSUME NEW r \in Runs, AwayFromGates(r) PROVE GateInv'
  <2> USE <1>4 DEF AwayFromGates, Places, InTurn
  <2>1. CallsInTurn'
        BY DEF GateInv, CallsInTurn
  <2>2. FreshGates'
        BY DEF GateInv, FreshGates
  <2>3. FirstAnswerCounts'
        BY DEF GateInv, FirstAnswerCounts
  <2>4. GateBelongsToWaiter'
        BY DEF GateInv, GateBelongsToWaiter
  <2>5. \A g \in executed : g[1] \in Runs /\ calls[g[1]] # 0
        BY MaxCallsAssumption DEF GateInv, FreshGates
  <2>6. OnlyApprovedCallsRun'
        BY <2>5 DEF GateInv, OnlyApprovedCallsRun
  <2>7. QED
        BY <2>1, <2>2, <2>3, <2>4, <2>6 DEF GateInv
<1>5. ASSUME NEW r \in Runs, CallFreely(r) PROVE GateInv'
  <2> USE <1>5 DEF CallFreely, Calls
  <2>1. CallsInTurn'
        BY DEF GateInv, CallsInTurn
  <2>2. FreshGates'
        BY DEF GateInv, FreshGates
  <2>3. FirstAnswerCounts'
        BY DEF GateInv, FirstAnswerCounts
  <2>4. GateBelongsToWaiter'
        BY DEF GateInv, GateBelongsToWaiter
  <2>5. OnlyApprovedCallsRun'
        BY DEF GateInv, OnlyApprovedCallsRun
  <2>6. QED
        BY <2>1, <2>2, <2>3, <2>4, <2>5 DEF GateInv
<1>6. ASSUME NEW r \in Runs, AskApproval(r) PROVE GateInv'
  <2> USE <1>6 DEF AskApproval, SetApprovalGate, Calls
  <2>1. CallsInTurn'
        BY DEF GateInv, CallsInTurn
  <2>2. FreshGates'
        BY DEF GateInv, FreshGates
  <2>3. FirstAnswerCounts'
        BY MaxCallsAssumption DEF GateInv, FirstAnswerCounts, FreshGates
  <2>4. chatOf[r] \in Chats
        BY DEF RunsHaveChats
  <2>5. GateBelongsToWaiter'
        BY <2>4 DEF GateInv, GateBelongsToWaiter
  <2>6. OnlyApprovedCallsRun'
        BY DEF GateInv, OnlyApprovedCallsRun
  <2>7. QED
        BY <2>1, <2>2, <2>3, <2>5, <2>6 DEF GateInv
<1>7. ASSUME NEW r \in Runs, Wait(r) PROVE GateInv'
  <2> USE <1>7 DEF Wait, TakeAnswer, GiveUpWaiting
  <2>0. Gate(r) \in Gates
        BY GateType DEF GateInv, CallsInTurn
  <2>1. CallsInTurn'
        BY DEF GateInv, CallsInTurn
  <2>2. FreshGates'
        BY <2>0 DEF GateInv, FreshGates
  <2>a. verdict'[r] \in {"error", answered[Gate(r)]} \ {"none"}
    <3>1. reply[Gate(r)] = answered[Gate(r)]
        BY DEF GateInv, FirstAnswerCounts
    <3>2. CASE TakeAnswer(r)
        BY <3>1, <3>2, <2>0
    <3>3. CASE GiveUpWaiting(r)
        BY <3>3
    <3>4. QED
        BY <3>2, <3>3
  <2>b. ASSUME NEW q \in Runs, q # r
        PROVE  verdict'[q] = verdict[q] /\ pc'[q] = pc[q]
        BY <2>b
  <2>c. ASSUME NEW q \in Runs, q # r
        PROVE  reply'[Gate(q)] = reply[Gate(q)]
    <3>1. Gate(q) # Gate(r)
        BY <2>c
    <3>2. CASE TakeAnswer(r)
        BY <3>1, <3>2, <2>0
    <3>3. CASE GiveUpWaiting(r)
        BY <3>3
    <3>4. QED
        BY <3>2, <3>3
  <2>d. pc'[r] = "decided" /\ UNCHANGED <<calls, answered>>
        OBVIOUS
  <2>3. FirstAnswerCounts'
    <3> SUFFICES ASSUME NEW q \in Runs
                 PROVE  /\ pc'[q] = "wait" => reply'[Gate(q)'] = answered'[Gate(q)']
                        /\ pc'[q] = "decided" =>
                              verdict'[q] \in {"error", answered'[Gate(q)']} \ {"none"}
        BY DEF FirstAnswerCounts
    <3>1. CASE q = r
        BY <3>1, <2>a, <2>d
    <3>2. CASE q # r
        BY <3>2, <2>b, <2>c, <2>d DEF GateInv, FirstAnswerCounts
    <3>3. QED
        BY <3>1, <3>2
  <2>4. GateBelongsToWaiter'
        BY DEF GateInv, GateBelongsToWaiter
  <2>5. OnlyApprovedCallsRun'
        BY DEF GateInv, OnlyApprovedCallsRun
  <2>6. QED
        BY <2>1, <2>2, <2>3, <2>4, <2>5 DEF GateInv
<1>8. ASSUME NEW r \in Runs, LeaveConfirm(r) PROVE GateInv'
  <2> USE <1>8 DEF LeaveConfirm, ClearApprovalGate, LetsThrough
  <2>0. Gate(r) \in Gates /\ chatOf[r] \in Chats
        BY GateType DEF GateInv, CallsInTurn, RunsHaveChats
  <2>1. CallsInTurn'
        BY DEF GateInv, CallsInTurn
  <2>2. FreshGates'
        BY DEF GateInv, FreshGates, CallsInTurn
  <2>3. FirstAnswerCounts'
        BY DEF GateInv, FirstAnswerCounts
  <2>4. GateBelongsToWaiter'
        BY <2>0 DEF GateInv, GateBelongsToWaiter
  <2>5. verdict[r] = "yes" => answered[Gate(r)] = "yes" /\ runPolicy[r] = "approve"
        BY DEF GateInv, FirstAnswerCounts, CallsInTurn
  <2>6. OnlyApprovedCallsRun'
    <3> SUFFICES ASSUME NEW g \in executed'
                 PROVE  \/ runPolicy[g[1]] = "full"
                        \/ runPolicy[g[1]] = "approve" /\ answered[g] = "yes"
        BY DEF OnlyApprovedCallsRun
    <3>1. CASE g \in executed
        BY <3>1 DEF GateInv, OnlyApprovedCallsRun
    <3>2. CASE g \notin executed
      <4>1. g = Gate(r) /\ verdict[r] = "yes"
          BY <3>2
      <4>2. g[1] = r
          BY <4>1
      <4>3. QED
          BY <4>1, <4>2, <2>5
    <3>3. QED
        BY <3>1, <3>2
  <2>7. QED
        BY <2>1, <2>2, <2>3, <2>4, <2>6 DEF GateInv
<1>9. ASSUME NEW r \in Runs, ClearGate(r) PROVE GateInv'
  <2> USE <1>9 DEF ClearGate, ClearApprovalGate
  <2>0. chatOf[r] \in Chats
        BY DEF RunsHaveChats
  <2>1. CallsInTurn'
        BY DEF GateInv, CallsInTurn
  <2>2. FreshGates'
        BY DEF GateInv, FreshGates
  <2>3. FirstAnswerCounts'
        BY DEF GateInv, FirstAnswerCounts
  <2>4. GateBelongsToWaiter'
        BY <2>0 DEF GateInv, GateBelongsToWaiter
  <2>5. OnlyApprovedCallsRun'
        BY DEF GateInv, OnlyApprovedCallsRun
  <2>6. QED
        BY <2>1, <2>2, <2>3, <2>4, <2>5 DEF GateInv
<1>10. QED
    BY <1>1, <1>2, <1>3, <1>4, <1>5, <1>6, <1>7, <1>8, <1>9, GateFrame DEF GateInv

-----------------------------------------------------------------------------
(* The theorems.                                                            *)

IInv == TypeOK /\ TalkInv /\ GateInv

LEMMA InvariantInit == Init => IInv
BY InitType, TalkInit, GateInit DEF IInv

LEMMA InvariantStep == IInv /\ [Next]_vars => IInv'
<1> SUFFICES ASSUME IInv, [Next]_vars PROVE IInv'
    OBVIOUS
<1>1. CASE UNCHANGED vars
  <2>1. UNCHANGED talkVars /\ UNCHANGED gateInvVars
        BY <1>1 DEF vars, storeVars, runVars, gateVars, talkVars, gateInvVars
  <2>2. TypeOK'
        BY <1>1 DEF IInv, TypeOK, vars, storeVars, runVars, gateVars
  <2>3. TalkInv'
        BY <2>1 DEF IInv, TalkInv, RunsHaveChats, OneTurnPerChat, HistoryIsCurrent,
                    NoMessageUnheard, TurnsOf, talkVars
  <2>4. GateInv'
        BY <2>1 DEF IInv, GateInv, CallsInTurn, FreshGates, FirstAnswerCounts,
                    GateBelongsToWaiter, OnlyApprovedCallsRun, Gate, gateInvVars
  <2>5. QED
        BY <2>2, <2>3, <2>4 DEF IInv
<1>2. CASE Next
  <2>1. TypeOK'
    <3>1. CASE Handlers
        BY <3>1, HandlersType DEF IInv
    <3>2. ASSUME NEW r \in Runs, Turn(r) PROVE TypeOK'
      <4>1. pc[r] # "idle" => chatOf[r] \in Chats
            BY DEF IInv, TalkInv, RunsHaveChats
      <4>2. pc[r] \in {"wait", "decided"} => calls[r] # 0
            BY DEF IInv, GateInv, CallsInTurn
      <4>3. QED
            BY <3>2, <4>1, <4>2, TurnType DEF IInv
    <3>3. ASSUME NEW c \in Chats, NEW a \in Answers, PostApproval(c, a) PROVE TypeOK'
        BY <3>3, PostApprovalType DEF IInv
    <3>4. QED
        BY <1>2, <3>1, <3>2, <3>3 DEF Next, Server
  <2>2. TalkInv'
        BY <1>2, <2>1, TalkStep DEF IInv
  <2>3. GateInv'
        BY <1>2, <2>1, GateStep DEF IInv, TalkInv
  <2>4. QED
        BY <2>1, <2>2, <2>3 DEF IInv
<1>3. QED
    BY <1>1, <1>2

\* The inductive invariant holds in every reachable state.
THEOREM Invariance == Spec => []IInv
BY InvariantInit, InvariantStep, PTL DEF Spec

\* Every variable keeps its type; what is written to messages, cancel and reply through
\* a chat or a gate only lands where there is one.
THEOREM TypeCorrect == Spec => []TypeOK
<1>1. IInv => TypeOK
    BY DEF IInv
<1>2. QED
    BY <1>1, Invariance, PTL

\* beginRun and finishRun keep the turns of a chat apart.
THEOREM TurnsAreExclusive == Spec => []OneTurnPerChat
<1>1. IInv => OneTurnPerChat
    BY DEF IInv, TalkInv
<1>2. QED
    BY <1>1, Invariance, PTL

\* finishRun never overwrites a message the run's copy of the history does not have.
THEOREM CopyIsCurrent == Spec => []HistoryIsCurrent
<1>1. IInv => HistoryIsCurrent
    BY DEF IInv, TalkInv
<1>2. QED
    BY <1>1, Invariance, PTL

\* A message httpPostMessage accepted is heard, or a goroutine may still begin its turn.
THEOREM MessagesAreHeard == Spec => []NoMessageUnheard
<1>1. IInv => NoMessageUnheard
    BY DEF IInv, TalkInv
<1>2. QED
    BY <1>1, Invariance, PTL

\* webHub.approvals holds only gates a turn of that chat is blocked on.
THEOREM GatesHaveWaiters == Spec => []GateBelongsToWaiter
<1>1. IInv => GateBelongsToWaiter
    BY DEF IInv, GateInv
<1>2. QED
    BY <1>1, Invariance, PTL

\* A mutating call runs only under "full" or after its own gate accepted "yes" first.
THEOREM ApprovalIsRespected == Spec => []OnlyApprovedCallsRun
<1>1. IInv => OnlyApprovedCallsRun
    BY DEF IInv, GateInv
<1>2. QED
    BY <1>1, Invariance, PTL

-----------------------------------------------------------------------------
(* The refinement: messages is the log of Conversation, cancel is its turn. *)

LEMMA SaysWhenQuiet ==
    ASSUME IInv, NEW c \in Chats, NEW r \in Runs, PostMessage(r, c)
    PROVE  Promise!Say(c, r)
BY DEF PostMessage, Accepts, Promise!Say, IInv, TalkInv, OneTurnPerChat, TypeOK

LEMMA BeginTakesTurn ==
    ASSUME IInv, NEW r \in Runs, BeginRun(r)
    PROVE  chatOf[r] \in Chats /\ Promise!TakeTurn(chatOf[r], r)
<1>1. /\ chatOf[r] \in Chats
      /\ <<r, "user">> \in messages[chatOf[r]]
    BY DEF BeginRun, MayBegin, IInv, TalkInv, RunsHaveChats, Ahead
<1>2. cancel[chatOf[r]] = NoRun
    BY <1>1 DEF BeginRun, MayBegin, IInv, TalkInv, OneTurnPerChat, TypeOK
<1>3. QED
    BY <1>1, <1>2 DEF BeginRun, Promise!TakeTurn

\* A turn that ends in a live chat is the one its cancel function stops.
LEMMA EndsOwnTurn ==
    ASSUME IInv, NEW r \in Runs, pc[r] = "think"
    PROVE  /\ chatOf[r] \in Chats
           /\ status[chatOf[r]] = "live" => /\ cancel[chatOf[r]] = r
                                            /\ history[r] = messages[chatOf[r]]
<1>1. chatOf[r] \in Chats
    BY DEF IInv, TalkInv, RunsHaveChats
<1>2. r \in TurnsOf(chatOf[r])
    BY DEF TurnsOf, InTurn
<1>3. status[chatOf[r]] = "live" => cancel[chatOf[r]] = r
    BY <1>1, <1>2 DEF IInv, TalkInv, OneTurnPerChat
<1>4. status[chatOf[r]] = "live" => history[r] = messages[chatOf[r]]
    BY DEF IInv, TalkInv, HistoryIsCurrent, InTurn
<1>5. QED
    BY <1>1, <1>3, <1>4

LEMMA ReplyAnswers ==
    ASSUME IInv, NEW r \in Runs, Reply(r)
    PROVE  \/ Promise!Answer(chatOf[r]) \/ Promise!GiveUp(chatOf[r])
           \/ UNCHANGED <<messages, cancel>>
<1>1. pc[r] = "think"
    BY DEF Reply
<1>2. PICK produced \in {history[r], history[r] \cup {<<r, "assistant">>}} :
          FinishRun(chatOf[r], produced)
    BY DEF Reply
<1>3. CASE status[chatOf[r]] # "live"
    BY <1>2, <1>3 DEF FinishRun
<1>4. CASE status[chatOf[r]] = "live"
  <2>1. /\ cancel[chatOf[r]] = r /\ r # NoRun
        /\ history[r] = messages[chatOf[r]]
        /\ cancel' = [cancel EXCEPT ![chatOf[r]] = NoRun]
        /\ messages' = [messages EXCEPT ![chatOf[r]] = produced]
        BY <1>1, <1>2, <1>4, EndsOwnTurn, NullAssumption DEF FinishRun
  <2>2. CASE produced = history[r]
    <3>1. messages' = messages
          BY <2>1, <2>2 DEF IInv, TypeOK
    <3>2. QED
          BY <2>1, <3>1 DEF Promise!GiveUp
  <2>3. CASE produced = history[r] \cup {<<r, "assistant">>}
        BY <2>1, <2>3 DEF Promise!Answer
  <2>4. QED
        BY <1>2, <2>2, <2>3
<1>5. QED
    BY <1>3, <1>4

LEMMA FailGivesUp ==
    ASSUME IInv, NEW r \in Runs, Fail(r)
    PROVE  Promise!GiveUp(chatOf[r]) \/ UNCHANGED <<messages, cancel>>
<1>1. pc[r] = "think" /\ FinishRun(chatOf[r], messages[chatOf[r]])
    BY DEF Fail
<1>2. CASE status[chatOf[r]] # "live"
    BY <1>1, <1>2 DEF FinishRun
<1>3. CASE status[chatOf[r]] = "live"
  <2>1. cancel[chatOf[r]] # NoRun
        BY <1>1, <1>3, EndsOwnTurn, NullAssumption
  <2>2. messages' = messages /\ cancel' = [cancel EXCEPT ![chatOf[r]] = NoRun]
        BY <1>1, <1>3 DEF FinishRun, IInv, TypeOK
  <2>3. QED
        BY <2>1, <2>2 DEF Promise!GiveUp
<1>4. QED
    BY <1>2, <1>3

LEMMA QuietInConversation ==
    ASSUME Next
    PROVE  \/ UNCHANGED <<messages, cancel>>
           \/ \E c \in Chats, r \in Runs : PostMessage(r, c)
           \/ \E r \in Runs : BeginRun(r) \/ Reply(r) \/ Fail(r)
<1>1. ASSUME NEW c \in Chats, NEW p \in Rights, CreateChat(c, p)
      PROVE  UNCHANGED <<messages, cancel>>
    BY <1>1 DEF CreateChat
<1>2. ASSUME NEW c \in Chats, RemoveChat(c) \/ FinishDelete(c)
      PROVE  UNCHANGED <<messages, cancel>>
    BY <1>2 DEF RemoveChat, FinishDelete
<1>3. ASSUME NEW r \in Runs, FetchChat(r) \/ RefuseRun(r) \/ ClearGate(r) \/ StaysInTurn(r)
      PROVE  UNCHANGED <<messages, cancel>>
    BY <1>3 DEF FetchChat, RefuseRun, ClearGate, StaysInTurn, storeVars
<1>4. QED
    BY <1>1, <1>2, <1>3, TalkFrame DEF talkVars

LEMMA ConversationStep == IInv /\ [Next]_vars => [Promise!Next]_(Promise!vars)
<1> SUFFICES ASSUME IInv, [Next]_vars
             PROVE  Promise!Next \/ UNCHANGED <<messages, cancel>>
    BY DEF Promise!vars
<1>1. CASE UNCHANGED vars
    BY <1>1 DEF vars, storeVars
<1>2. ASSUME NEW c \in Chats, NEW r \in Runs, PostMessage(r, c) PROVE Promise!Next
    BY <1>2, SaysWhenQuiet DEF Promise!Next
<1>3. ASSUME NEW r \in Runs, BeginRun(r) PROVE Promise!Next
    BY <1>3, BeginTakesTurn DEF Promise!Next
<1>4. ASSUME NEW r \in Runs, Reply(r) \/ Fail(r)
      PROVE  Promise!Next \/ UNCHANGED <<messages, cancel>>
  <2>1. chatOf[r] \in Chats
        BY <1>4, EndsOwnTurn DEF Reply, Fail
  <2>2. QED
        BY <1>4, <2>1, ReplyAnswers, FailGivesUp DEF Promise!Next
<1>5. QED
    BY <1>1, <1>2, <1>3, <1>4, QuietInConversation

\* The store keeps the promise of Conversation: every step of the handlers and the
\* goroutines is a step of the user and the model taking turns, or invisible to them.
THEOREM StoreImplementsConversation == Spec => ImplementsConversation
<1>1. Init => Promise!Init
    BY DEF Init, Promise!Init
<1>2. QED
    BY <1>1, Invariance, ConversationStep, PTL DEF Spec, ImplementsConversation, Promise!Spec

-----------------------------------------------------------------------------
(***************************************************************************)
(* ChatFiles, for any number of saves: what was saved stays, a deleted chat *)
(* stays deleted.                                                           *)
(***************************************************************************)

Saved == {v \in Saves : stage[v] = "saved"}

(* An inode is created once, by a save that has made its copy, and its data  *)
(* are whole when the save went past its write.                              *)
InodeInv ==
  /\ \A v \in {name, tmp} \ {NoFile} :
       /\ stage[v] \notin {"idle", "changed", "copied", "clash", "retry", "skipped"}
       /\ v \in whole \/ stage[v] \in {"open", "killed"} \/ v \in hurt
  /\ \A w \in Saves : stage[w] \in {"written", "saved"} => w \in whole
  /\ entry \in {"down", "absent"} => \A w \in Saves : stage[w] \notin Active
  /\ kept => deleted /\ name # NoFile

(* After the removal, if it was one, only a save that held a copy by then    *)
(* can bring the file back.                                                  *)
DeleteInv ==
  overdue = {} /\ ~kept =>
    /\ entry = "removed" \/ deleted => \A w \in Saves : stage[w] \notin Holding
    /\ deleted => name = NoFile /\ entry # "live"

(* While saves follow each other the one that is under way has the temporary *)
(* name for itself, and its copy has every change saved before it; the file  *)
(* and the chat in memory have them too.                                     *)
OneByOne ==
  /\ \A v, w \in Saves : stage[v] \in Active /\ stage[w] \in Active => v = w
  /\ \A w \in Saves : stage[w] \in {"open", "written"} => tmp = w
  /\ \A w \in Saves : stage[w] \in Holding => w \in copied[w] /\ Saved \subseteq copied[w]
  /\ name # NoFile => name \in whole /\ Saved \subseteq copied[name]
  /\ Saved # {} /\ (~deleted \/ entry = "live") => name # NoFile
  /\ entry = "live" => Saved \subseteq chat /\ \A w \in Saves : stage[w] \in Active => w \in chat
  /\ entry = "live" /\ deleted => name # NoFile

FileInv == FileTypeOK /\ InodeInv /\ DeleteInv /\ (overlapped = {} => OneByOne)

-----------------------------------------------------------------------------

LEMMA NewChatKeeps ==
  ASSUME FileInv, NEW w \in Saves, NewChat(w) PROVE FileInv'
<1> USE NoFileAssumption DEF FileInv, NewChat, Start, MoveTo, memVars, diskVars, histVars, Holding, Active
<1>1. FileTypeOK'
  BY DEF FileTypeOK, Ended
<1>2. InodeInv'
  BY DEF FileTypeOK, InodeInv
<1>3. DeleteInv'
  BY DEF FileTypeOK, InodeInv, DeleteInv
<1>4. overlapped' = {} => OneByOne'
  BY DEF FileTypeOK, InodeInv, OneByOne, Saved
<1> QED BY <1>1, <1>2, <1>3, <1>4

LEMMA ChangeKeeps ==
  ASSUME FileInv, NEW w \in Saves, Change(w) PROVE FileInv'
<1> USE NoFileAssumption DEF FileInv, Change, Start, MoveTo, memVars, diskVars, histVars, Holding, Active
<1>1. FileTypeOK'
  BY DEF FileTypeOK, Ended
<1>2. InodeInv'
  BY DEF FileTypeOK, InodeInv
<1>3. DeleteInv'
  BY DEF FileTypeOK, InodeInv, DeleteInv
<1>4. overlapped' = {} => OneByOne'
  BY DEF FileTypeOK, InodeInv, OneByOne, Saved
<1> QED BY <1>1, <1>2, <1>3, <1>4

LEMMA TakeOutKeeps ==
  ASSUME FileInv, TakeOut PROVE FileInv'
<1> USE NoFileAssumption DEF FileInv, TakeOut, memVars, diskVars, histVars, Holding, Active
<1>1. FileTypeOK'
  BY DEF FileTypeOK, Ended
<1>2. InodeInv'
  BY DEF FileTypeOK, InodeInv
<1>3. DeleteInv'
  BY DEF FileTypeOK, InodeInv, DeleteInv
<1>4. overlapped' = {} => OneByOne'
  BY DEF FileTypeOK, InodeInv, OneByOne, Saved
<1> QED BY <1>1, <1>2, <1>3, <1>4

LEMMA RemovePersistedKeeps ==
  ASSUME FileInv, RemovePersisted PROVE FileInv'
<1> USE NoFileAssumption DEF FileInv, RemovePersisted, memVars, diskVars, histVars, Holding, Active
<1>1. FileTypeOK'
  BY DEF FileTypeOK, Ended
<1>2. InodeInv'
  BY DEF FileTypeOK, InodeInv
<1>3. DeleteInv'
  BY DEF FileTypeOK, InodeInv, DeleteInv
<1>4. overlapped' = {} => OneByOne'
  BY DEF FileTypeOK, InodeInv, OneByOne, Saved
<1> QED BY <1>1, <1>2, <1>3, <1>4

LEMMA CopyChatKeeps ==
  ASSUME FileInv, NEW w \in Saves, CopyChat(w) PROVE FileInv'
<1> USE NoFileAssumption DEF FileInv, CopyChat, MoveTo, memVars, diskVars, histVars, Holding, Active
<1>1. FileTypeOK'
  BY DEF FileTypeOK, Ended
<1>2. InodeInv'
  BY DEF FileTypeOK, InodeInv
<1>3. DeleteInv'
  BY DEF FileTypeOK, InodeInv, DeleteInv
<1>4. overlapped' = {} => OneByOne'
  BY DEF FileTypeOK, InodeInv, OneByOne, Saved
<1> QED BY <1>1, <1>2, <1>3, <1>4

LEMMA OpenTmpKeeps ==
  ASSUME FileInv, NEW w \in Saves, OpenTmp(w) PROVE FileInv'
<1> USE NoFileAssumption DEF FileInv, OpenTmp, Create, MoveTo, memVars, diskVars, histVars, Holding, Active
<1>1. FileTypeOK'
  BY DEF FileTypeOK, Ended
<1>2. InodeInv'
  BY DEF FileTypeOK, InodeInv
<1>3. DeleteInv'
  BY DEF FileTypeOK, InodeInv, DeleteInv
<1>4. overlapped' = {} => OneByOne'
  BY DEF FileTypeOK, InodeInv, OneByOne, Saved
<1> QED BY <1>1, <1>2, <1>3, <1>4

LEMMA RemoveLeftoverKeeps ==
  ASSUME FileInv, NEW w \in Saves, RemoveLeftover(w) PROVE FileInv'
<1> USE NoFileAssumption DEF FileInv, RemoveLeftover, MoveTo, memVars, diskVars, histVars, Holding, Active
<1>1. FileTypeOK'
  BY DEF FileTypeOK, Ended
<1>2. InodeInv'
  BY DEF FileTypeOK, InodeInv
<1>3. DeleteInv'
  BY DEF FileTypeOK, InodeInv, DeleteInv
<1>4. overlapped' = {} => OneByOne'
  BY DEF FileTypeOK, InodeInv, OneByOne, Saved
<1> QED BY <1>1, <1>2, <1>3, <1>4

LEMMA ReopenTmpKeeps ==
  ASSUME FileInv, NEW w \in Saves, ReopenTmp(w) PROVE FileInv'
<1> USE NoFileAssumption DEF FileInv, ReopenTmp, Create, MoveTo, memVars, diskVars, histVars, Holding, Active
<1>1. FileTypeOK'
  BY DEF FileTypeOK, Ended
<1>2. InodeInv'
  BY DEF FileTypeOK, InodeInv
<1>3. DeleteInv'
  BY DEF FileTypeOK, InodeInv, DeleteInv
<1>4. overlapped' = {} => OneByOne'
  BY DEF FileTypeOK, InodeInv, OneByOne, Saved
<1> QED BY <1>1, <1>2, <1>3, <1>4

LEMMA WriteKeeps ==
  ASSUME FileInv, NEW w \in Saves, Write(w) PROVE FileInv'
<1> USE NoFileAssumption DEF FileInv, Write, MoveTo, memVars, diskVars, histVars, Holding, Active
<1>1. FileTypeOK'
  BY DEF FileTypeOK, Ended
<1>2. InodeInv'
  BY DEF FileTypeOK, InodeInv
<1>3. DeleteInv'
  BY DEF FileTypeOK, InodeInv, DeleteInv
<1>4. overlapped' = {} => OneByOne'
  BY DEF FileTypeOK, InodeInv, OneByOne, Saved
<1> QED BY <1>1, <1>2, <1>3, <1>4

LEMMA RenameKeeps ==
  ASSUME FileInv, NEW w \in Saves, Rename(w) PROVE FileInv'
<1> USE NoFileAssumption DEF FileInv, Rename, MoveTo, memVars, diskVars, histVars, Holding, Active
<1>1. FileTypeOK'
  BY DEF FileTypeOK, Ended
<1>2. InodeInv'
  BY DEF FileTypeOK, InodeInv
<1>3. DeleteInv'
  BY DEF FileTypeOK, InodeInv, DeleteInv
<1>4. overlapped' = {} => OneByOne'
  BY DEF FileTypeOK, InodeInv, OneByOne, Saved
<1> QED BY <1>1, <1>2, <1>3, <1>4

LEMMA DiskRefusesKeeps ==
  ASSUME FileInv, NEW w \in Saves, DiskRefuses(w) PROVE FileInv'
<1> USE NoFileAssumption DEF FileInv, DiskRefuses, MoveTo, memVars, diskVars, histVars, Holding, Active
<1>1. FileTypeOK'
  BY DEF FileTypeOK, Ended
<1>2. InodeInv'
  BY DEF FileTypeOK, InodeInv
<1>3. DeleteInv'
  BY DEF FileTypeOK, InodeInv, DeleteInv
<1>4. overlapped' = {} => OneByOne'
  BY DEF FileTypeOK, InodeInv, OneByOne, Saved
<1> QED BY <1>1, <1>2, <1>3, <1>4

LEMMA CleanUpKeeps ==
  ASSUME FileInv, NEW w \in Saves, CleanUp(w) PROVE FileInv'
<1> USE NoFileAssumption DEF FileInv, CleanUp, MoveTo, memVars, diskVars, histVars, Holding, Active
<1>1. FileTypeOK'
  BY DEF FileTypeOK, Ended
<1>2. InodeInv'
  BY DEF FileTypeOK, InodeInv
<1>3. DeleteInv'
  BY DEF FileTypeOK, InodeInv, DeleteInv
<1>4. overlapped' = {} => OneByOne'
  BY DEF FileTypeOK, InodeInv, OneByOne, Saved
<1> QED BY <1>1, <1>2, <1>3, <1>4

LEMMA KillKeeps ==
  ASSUME FileInv, Kill PROVE FileInv'
<1> USE NoFileAssumption DEF FileInv, Kill, memVars, diskVars, histVars, Holding, Active
<1>1. FileTypeOK'
  BY DEF FileTypeOK, Ended
<1>2. InodeInv'
  BY DEF FileTypeOK, InodeInv
<1>3. DeleteInv'
  BY DEF FileTypeOK, InodeInv, DeleteInv
<1>4. overlapped' = {} => OneByOne'
  BY DEF FileTypeOK, InodeInv, OneByOne, Saved
<1> QED BY <1>1, <1>2, <1>3, <1>4

LEMMA RestartKeeps ==
  ASSUME FileInv, Restart PROVE FileInv'
<1> USE NoFileAssumption DEF FileInv, Restart, memVars, diskVars, histVars, Holding, Active
<1>1. FileTypeOK'
  BY DEF FileTypeOK, Ended
<1>2. InodeInv'
  BY DEF FileTypeOK, InodeInv
<1>3. DeleteInv'
  BY DEF FileTypeOK, InodeInv, DeleteInv
<1>4. overlapped' = {} => OneByOne'
  BY DEF FileTypeOK, InodeInv, OneByOne, Saved
<1> QED BY <1>1, <1>2, <1>3, <1>4

LEMMA FileInitHolds == FileInit => FileInv
BY NoFileAssumption DEF FileInit, FileInv, FileTypeOK, InodeInv, DeleteInv, OneByOne, Saved, Active, Holding

LEMMA FileInvariance == FileSpec => []FileInv
<1>1. FileInv /\ [FileNext]_fileVars => FileInv'
  <2> SUFFICES ASSUME FileInv, [FileNext]_fileVars PROVE FileInv'
    OBVIOUS
  <2>1. ASSUME NEW w \in Saves, SaveStep(w) PROVE FileInv'
    BY <2>1, CopyChatKeeps, OpenTmpKeeps, RemoveLeftoverKeeps, ReopenTmpKeeps, WriteKeeps,
       RenameKeeps, DiskRefusesKeeps, CleanUpKeeps DEF SaveStep
  <2>2. CASE FileNext
    BY <2>1, <2>2, NewChatKeeps, ChangeKeeps, TakeOutKeeps, RemovePersistedKeeps,
       KillKeeps, RestartKeeps DEF FileNext
  <2>3. CASE UNCHANGED fileVars
    BY <2>3 DEF FileInv, FileTypeOK, InodeInv, DeleteInv, OneByOne, Saved, fileVars, memVars, diskVars, histVars
  <2> QED BY <2>2, <2>3
<1> QED BY FileInitHolds, <1>1, PTL DEF FileSpec

(* Whatever the process is killed between and whatever the file system       *)
(* refuses, the file holds every change that was saved, as long as saves     *)
(* follow each other; and a damaged file is one whose save was stopped       *)
(* (persist, writeSecretFile, loadFromDisk).                                 *)
THEOREM SavesAreDurable == FileSpec => []NothingSavedIsLost
<1>1. FileInv => NothingSavedIsLost
  <2> SUFFICES ASSUME FileInv PROVE NothingSavedIsLost
    OBVIOUS
  <2>1. ASSUME overlapped = {}, entry # "removed", deleted => kept, NEW w \in Saves, stage[w] = "saved"
        PROVE  name \in whole /\ w \in copied[name] /\ (entry = "live" => w \in chat)
    BY <2>1 DEF FileInv, InodeInv, OneByOne, Saved
  <2>2. name # NoFile /\ name \notin whole => stage[name] \in {"open", "killed"} \/ name \in hurt
    BY DEF FileInv, InodeInv
  <2> QED BY <2>1, <2>2 DEF NothingSavedIsLost
<1> QED BY FileInvariance, <1>1, PTL

(* A chat that was deleted is not there again after any number of restarts,  *)
(* unless a save held a copy of it when it was removed (httpDeleteChat), or  *)
(* the file system refused the removal of its file (removePersisted).        *)
THEOREM DeletionIsFinal == FileSpec => []DeletedStaysDeleted
<1>1. FileInv => DeletedStaysDeleted
  BY DEF FileInv, DeleteInv, DeletedStaysDeleted
<1> QED BY FileInvariance, <1>1, PTL

-----------------------------------------------------------------------------
(***************************************************************************)
(* Drafts, for any fields and texts and any number of edits, losses,        *)
(* reloads and retries: a retried save creates no second object, what the   *)
(* author typed is kept, and nothing is overwritten unseen.                 *)
(***************************************************************************)

IsEdit(e) == DOMAIN e \subseteq Fields /\ \A f \in DOMAIN e : e[f] \in Values

EditInv == IsEdit(sent.edit) /\ \A m \in late : IsEdit(m.edit)

(* An object the draft does not know of was created by a publication it does *)
(* not know of either.                                                       *)
KnownInv == created <= forgotten + (IF known THEN 1 ELSE 0)

(* A revision stands for one content: what the tab and an answer hold of the *)
(* current one is the document, and a request given up on is not ahead of    *)
(* what the tab has seen.                                                    *)
RevInv ==
    /\ 0 < rev /\ docRev <= rev /\ answer.rev <= rev
    /\ docRev = rev => base = params
    /\ answer.rev = rev => answer.params = params
    /\ phase \in {"got", "published"} => docRev <= answer.rev
    /\ phase = "patched" => docRev < answer.rev
    /\ phase = "got" /\ answer.rev = docRev => answer.params = base
    /\ phase = "patching" => sent.rev = docRev
    /\ \A m \in late :
          /\ m.rev <= rev
          /\ phase = "opened" => m.rev <= answer.rev
          /\ OnScreen => m.rev <= docRev

(* What differs from the document was typed or chosen over its value, in the *)
(* form, in the recovery copy, in a PATCH under way and in its answer.       *)
Over(mine, theirs) == \A f \in Fields : mine[f] # theirs[f] => theirs[f] \in shown[f]
ShownInv ==
    /\ OnScreen => Over(form, base)
    /\ copy # Nothing => Over(copy.params, copy.base)
    /\ phase = "patching" =>
          \A f \in DOMAIN sent.edit :
             base[f] \in shown[f] /\ (form[f] # sent.edit[f] => sent.edit[f] \in shown[f])
    /\ phase = "patched" => Over(form, answer.params)

(* The recovery copy has every edit that is on the screen and not saved, all *)
(* of the form while a sync reads, and there is none while a save is         *)
(* published.                                                                *)
KeptInv ==
    /\ OnScreen => \A f \in Fields : typed[f] # Nothing /\ typed[f] = form[f] =>
                      copy # Nothing /\ copy.params[f] = form[f]
    /\ phase \in {"getting", "got"} => copy # Nothing /\ copy.params = form
    /\ phase \in {"publishing", "published"} => saving /\ form = base /\ copy = Nothing

DraftInv == DraftTypeOK /\ EditInv /\ KnownInv /\ RevInv /\ ShownInv /\ KeptInv

-----------------------------------------------------------------------------
(* Types *)

LEMMA NothingInside == IsEdit(<<>>)
BY DEF IsEdit

LEMMA MergeTyped ==
    ASSUME NEW before \in Params, NEW local \in Params, NEW remote \in Params, NEW givenUp
    PROVE  Merge(before, local, remote, givenUp) \in Params
BY DEF Merge, Params

LEMMA TypedTyped ==
    ASSUME DraftTypeOK, NEW asked, NEW givenUp, NEW screen \in Params, NEW local, NEW remote
    PROVE  TypedAfter(asked, givenUp, screen, local, remote) \in [Fields -> Values \cup {Nothing}]
BY DEF TypedAfter, DraftTypeOK, Params

LEMMA ShownTyped ==
    ASSUME DraftTypeOK, NEW asked, NEW remote \in Params
    PROVE  ShownAfter(asked, remote) \in [Fields -> SUBSET Values]
BY DEF ShownAfter, DraftTypeOK, Params

LEMMA CopyTyped ==
    ASSUME NEW b \in Params, NEW p \in Params
    PROVE  /\ [base |-> b, params |-> p] \in Copies
           /\ [base |-> b, params |-> p].base = b /\ [base |-> b, params |-> p].params = p
BY DEF Copies

LEMMA DiffIsEdit ==
    ASSUME NEW before, NEW after \in Params
    PROVE  /\ IsEdit(Diff(before, after))
           /\ DOMAIN Diff(before, after) = {f \in Fields : before[f] # after[f]}
           /\ \A f \in DOMAIN Diff(before, after) : Diff(before, after)[f] = after[f]
BY DEF Diff, Restrict, IsEdit, Params

LEMMA AppliedTyped ==
    ASSUME DraftTypeOK, NEW e, IsEdit(e)
    PROVE  Applied(e) \in Params
BY DEF Applied, IsEdit, DraftTypeOK, Params

LEMMA BoundsTyped ==
    ASSUME DraftTypeOK, NEW bound \in {"typed", "agent", "saves", "lost", "reloads"}, NEW max, Use(bound, max)
    PROVE  bounds' \in [{"typed", "agent", "saves", "lost", "reloads"} -> Nat]
<1>1. PICK n \in Nat : n = bounds[bound] + 1
  BY DEF DraftTypeOK
<1>2. bounds' = [bounds EXCEPT ![bound] = n]
  BY <1>1 DEF Use
<1> QED BY <1>2 DEF DraftTypeOK

LEMMA NoneTyped ==
    /\ Blank \in Params /\ NoRequest.rev = 0 /\ IsEdit(NoRequest.edit)
    /\ NoAnswer.rev = 0 /\ NoAnswer.params = Blank
BY EmptyAssumption, NothingInside DEF Blank, Params, NoRequest, NoAnswer

(* What every action keeps of the types. *)
DocTyped ==
    /\ rev \in Nat /\ params \in Params /\ saved \in Params /\ known \in BOOLEAN /\ engine \in Params
    /\ created \in Nat /\ forgotten \in Nat
SentTyped ==
    /\ sent.rev \in Nat /\ IsEdit(sent.edit) /\ answer.rev \in Nat /\ answer.params \in Params
    /\ \A m \in late : m.kind \in {"patch", "publish"} /\ m.rev \in Nat /\ IsEdit(m.edit)
TabTyped ==
    /\ phase \in Phases /\ saving \in BOOLEAN /\ form \in Params /\ base \in Params /\ docRev \in Nat
    /\ copy \in Copies \cup {Nothing} /\ tries \in 0..Attempts
    /\ typed \in [Fields -> Values \cup {Nothing}] /\ shown \in [Fields -> SUBSET Values]
RestTyped ==
    seen \in Nat /\ bounds \in [{"typed", "agent", "saves", "lost", "reloads"} -> Nat]

LEMMA TypeParts ==
    /\ DraftTypeOK /\ EditInv <=> DocTyped /\ SentTyped /\ TabTyped /\ RestTyped
    /\ (DraftTypeOK /\ EditInv)' <=> DocTyped' /\ SentTyped' /\ TabTyped' /\ RestTyped'
BY DEF DraftTypeOK, EditInv, DocTyped, SentTyped, TabTyped, RestTyped

(* Publishing and patching leave a document. *)
LEMMA PatchTyped ==
    ASSUME DocTyped, DraftTypeOK, NEW r, NEW e, IsEdit(e), PatchDraft(r, e),
           UNCHANGED <<saved, known, engine, created, forgotten>>
    PROVE  DocTyped' /\ rev <= rev' /\ (r = rev => rev' = rev + 1 /\ params' = Applied(e))
BY AppliedTyped DEF DocTyped, PatchDraft

LEMMA PublishTyped ==
    ASSUME DocTyped, NEW outcome \in {"saved", "forgotten", "refused"}, PublishDraft(outcome)
    PROVE  /\ DocTyped' /\ params' = params
           /\ outcome = "saved" => rev' = rev + 1
           /\ outcome # "saved" => rev' = rev
<1>1. Updated \in Params
  BY DEF DocTyped, Updated, Params
<1>2. CASE outcome = "saved"
  BY <1>1, <1>2 DEF DocTyped, PublishDraft, EngineTakes, Recorded
<1>3. CASE outcome = "forgotten"
  BY <1>1, <1>3 DEF DocTyped, PublishDraft, EngineTakes
<1>4. CASE outcome = "refused"
  BY <1>4 DEF DocTyped, PublishDraft, docVars
<1> QED BY <1>2, <1>3, <1>4

LEMMA PublicationsAre ==
    ASSUME NEW r, NEW outcome \in Publications(r)
    PROVE  outcome \in {"saved", "forgotten", "refused"} /\ (outcome # "refused" => r = rev)
BY DEF Publications

LEMMA CountedTyped ==
    ASSUME RestTyped, DraftTypeOK, NEW outcome, Counted(outcome), UNCHANGED seen
    PROVE  RestTyped'
BY BoundsTyped DEF RestTyped, Counted

LEMMA SettleTyped ==
    ASSUME TabTyped, Settle, form' \in Params, base' \in Params, docRev' \in Nat,
           typed' \in [Fields -> Values \cup {Nothing}]
    PROVE  TabTyped'
BY AttemptsAssumption DEF Settle, TabTyped, Phases

LEMMA RetryTyped ==
    ASSUME TabTyped, Retry, base' \in Params, docRev' \in Nat, form' = form,
           typed' \in [Fields -> Values \cup {Nothing}]
    PROVE  TabTyped'
<1>1. CASE TriesLeft
  <2>1. tries' \in 0..Attempts
    BY <1>1, AttemptsAssumption DEF Retry, TriesLeft, TabTyped
  <2> QED BY <1>1, <2>1, CopyTyped DEF Retry, TabTyped, Phases
<1>2. CASE ~TriesLeft
  <2>1. phase' = "idle" /\ tries' = 0 /\ saving' = FALSE /\ UNCHANGED <<copy, shown>>
    BY <1>2 DEF Retry
  <2>2. tries' \in 0..Attempts
    BY <2>1, AttemptsAssumption
  <2>3. saving' \in BOOLEAN
    BY ONLY <2>1
  <2> QED BY <2>1, <2>2, <2>3 DEF TabTyped, Phases
<1> QED BY <1>1, <1>2

LEMMA ForgetTyped ==
    ASSUME SentTyped, Forget, TabTyped
    PROVE  SentTyped' /\ tries' \in 0..Attempts /\ saving' \in BOOLEAN
<1>1. \A m \in Unserved : m.kind \in {"patch", "publish"} /\ m.rev \in Nat /\ IsEdit(m.edit)
  BY NothingInside DEF Unserved, SentTyped, TabTyped
<1>2. saving' = FALSE /\ tries' = 0
  BY DEF Forget
<1>3. saving' \in BOOLEAN
  BY ONLY <1>2
<1>4. tries' \in 0..Attempts
  BY <1>2, AttemptsAssumption
<1>5. SentTyped'
  BY <1>1, NoneTyped DEF Forget, SentTyped
<1> QED BY <1>3, <1>4, <1>5

LEMMA TypesKeep ==
    ASSUME DraftTypeOK, EditInv, DraftNext
    PROVE  (DraftTypeOK /\ EditInv)'
<1> USE TypeParts
<1>0. DocTyped /\ SentTyped /\ TabTyped /\ RestTyped
  OBVIOUS
<1>1. ASSUME NEW f \in Fields, NEW v \in Values, Type(f, v) PROVE (DraftTypeOK /\ EditInv)'
  <2>1. form' \in Params /\ typed' \in [Fields -> Values \cup {Nothing}]
        /\ shown' \in [Fields -> SUBSET Values]
    BY <1>0, <1>1 DEF Type, TabTyped, Params
  <2>2. TabTyped'
    BY <1>0, <1>1, <2>1, CopyTyped DEF Type, TabTyped
  <2>3. RestTyped'
    BY <1>0, <1>1, BoundsTyped DEF Type, RestTyped
  <2> QED BY <1>0, <1>1, <2>2, <2>3 DEF Type, docVars, DocTyped, SentTyped
<1>2. ASSUME NEW f \in Fields, NEW v \in Values, AgentUpdate(f, v) PROVE (DraftTypeOK /\ EditInv)'
  <2>1. IsEdit([g \in {f} |-> v])
    BY DEF IsEdit
  <2>2. DocTyped'
    BY <1>0, <1>2, <2>1, PatchTyped DEF AgentUpdate
  <2>3. RestTyped'
    BY <1>0, <1>2, <2>2, BoundsTyped DEF AgentUpdate, RestTyped, DocTyped
  <2> QED BY <1>0, <1>2, <2>2, <2>3 DEF AgentUpdate, tabVars, SentTyped, TabTyped
<1>3. ASSUME StartSync \/ Save PROVE (DraftTypeOK /\ EditInv)'
  <2>1. Sync /\ saving' \in BOOLEAN /\ RestTyped'
    BY <1>0, <1>3, BoundsTyped DEF StartSync, Save, Sync, TabTyped, RestTyped
  <2>2. TabTyped'
    BY <1>0, <2>1, CopyTyped, AttemptsAssumption DEF Sync, TabTyped, Phases
  <2> QED BY <1>0, <2>1, <2>2 DEF Sync, docVars, DocTyped, SentTyped
<1>4. ASSUME Look PROVE (DraftTypeOK /\ EditInv)'
  BY <1>0, <1>4 DEF Look, docVars, DocTyped, SentTyped, TabTyped, RestTyped, Phases
<1>5. ASSUME Attach PROVE (DraftTypeOK /\ EditInv)'
  <2>1. PICK mine : mine = IF copy = Nothing THEN [base |-> answer.params, params |-> answer.params] ELSE copy
    OBVIOUS
  <2>2. answer.params \in Params /\ mine.base \in Params /\ mine.params \in Params
    BY <1>0, <2>1 DEF SentTyped, TabTyped, Copies
  <2>3. PICK asked : asked = Asked(mine.base, mine.params, answer.params)
    OBVIOUS
  <2>4. PICK givenUp :
          /\ form' = Merge(mine.base, mine.params, answer.params, givenUp)
          /\ typed' = TypedAfter(asked, givenUp, mine.params, form', answer.params)
    BY <1>5, <2>1, <2>3 DEF Attach
  <2>5. form' \in Params /\ typed' \in [Fields -> Values \cup {Nothing}]
    BY <2>2, <2>4, MergeTyped, TypedTyped
  <2>6. shown' \in [Fields -> SUBSET Values]
    BY <1>5, <2>1, <2>2, <2>3, ShownTyped DEF Attach
  <2>7. copy' \in Copies \cup {Nothing}
    BY <1>0, <1>5, <2>2, <2>5, CopyTyped DEF Attach, TabTyped
  <2>8. TabTyped'
    BY <1>0, <1>5, <2>2, <2>5, <2>6, <2>7 DEF Attach, TabTyped, Phases, SentTyped
  <2> QED BY <1>0, <1>5, <2>8, NoneTyped DEF Attach, docVars, DocTyped, SentTyped, RestTyped
<1>6. ASSUME Got PROVE (DraftTypeOK /\ EditInv)'
  <2>1. PICK before : before = IF answer.rev # docRev THEN base ELSE answer.params
    OBVIOUS
  <2>2. answer.params \in Params /\ before \in Params /\ form \in Params
    BY <1>0, <2>1 DEF SentTyped, TabTyped
  <2>3. PICK asked : asked = Asked(before, form, answer.params)
    OBVIOUS
  <2>4. PICK givenUp :
          /\ form' = Merge(before, form, answer.params, givenUp)
          /\ typed' = TypedAfter(asked, givenUp, form, form', answer.params)
    BY <1>6, <2>1, <2>3 DEF Got
  <2>5. form' \in Params /\ typed' \in [Fields -> Values \cup {Nothing}]
    BY <2>2, <2>4, MergeTyped, TypedTyped
  <2>6. base' \in Params /\ docRev' \in Nat
    BY <1>0, <1>6, <2>2 DEF Got, TabTyped, SentTyped
  <2>7. CASE form' = base'
    <3>1. Settle
      BY <1>6, <2>7 DEF Got
    <3>2. TabTyped'
      BY <1>0, <2>5, <2>6, <3>1, SettleTyped
    <3> QED BY <1>0, <1>6, <3>1, <3>2, NoneTyped DEF Got, Settle, docVars, DocTyped, SentTyped, RestTyped
  <2>8. CASE form' # base'
    <3>1. /\ phase' = "patching" /\ sent' = [rev |-> answer.rev, edit |-> Diff(base', form')]
          /\ shown' = ShownAfter(asked, answer.params) /\ UNCHANGED <<saving, copy, tries>>
      BY <1>6, <2>1, <2>3, <2>8 DEF Got
    <3>2. TabTyped'
      BY <1>0, <2>2, <2>5, <2>6, <3>1, ShownTyped DEF TabTyped, Phases
    <3>3. IsEdit(sent'.edit) /\ sent'.rev = answer.rev
      BY <2>5, <3>1, DiffIsEdit
    <3> QED BY <1>0, <1>6, <3>2, <3>3, NoneTyped DEF Got, docVars, DocTyped, SentTyped, RestTyped
  <2> QED BY <2>7, <2>8
<1>7. ASSUME Patched PROVE (DraftTypeOK /\ EditInv)'
  <2>1. answer.params \in Params /\ form \in Params
    BY <1>0 DEF SentTyped, TabTyped
  <2>2. typed' \in [Fields -> Values \cup {Nothing}]
    BY <1>7, <2>1, TypedTyped DEF Patched
  <2>3. TabTyped'
    BY <1>0, <1>7, <2>1, <2>2, SettleTyped, RetryTyped DEF Patched, SentTyped
  <2>4. sent' = NoRequest
    BY <1>7 DEF Patched, Settle, Retry
  <2> QED BY <1>0, <1>7, <2>3, <2>4, NoneTyped DEF Patched, docVars, DocTyped, SentTyped, RestTyped
<1>8. ASSUME Refused PROVE (DraftTypeOK /\ EditInv)'
  <2>1. TabTyped'
    BY <1>0, <1>8, RetryTyped DEF Refused, TabTyped
  <2>2. sent' = NoRequest
    BY <1>8 DEF Refused, Retry
  <2> QED BY <1>0, <1>8, <2>1, <2>2, NoneTyped DEF Refused, docVars, DocTyped, SentTyped, RestTyped
<1>9. ASSUME ServePatch PROVE (DraftTypeOK /\ EditInv)'
  <2>1. DocTyped'
    BY <1>0, <1>9, PatchTyped DEF ServePatch, SentTyped
  <2>2. answer'.rev \in Nat /\ answer'.params \in Params
    BY <1>9, <2>1, NoneTyped DEF ServePatch, DocTyped
  <2> QED BY <1>0, <1>9, <2>1, <2>2 DEF ServePatch, SentTyped, TabTyped, RestTyped, Phases
<1>10. ASSUME ServePublish PROVE (DraftTypeOK /\ EditInv)'
  <2>1. PICK outcome \in Publications(docRev) :
          /\ PublishDraft(outcome) /\ Counted(outcome)
          /\ phase' = IF outcome = "saved" THEN "published" ELSE "idle"
          /\ saving' = (outcome = "saved")
          /\ answer' = IF outcome = "saved" THEN [rev |-> rev', params |-> params'] ELSE NoAnswer
    BY <1>10 DEF ServePublish
  <2>2. DocTyped'
    BY <1>0, <2>1, PublicationsAre, PublishTyped
  <2>3. answer'.rev \in Nat /\ answer'.params \in Params
    BY <2>1, <2>2, NoneTyped DEF DocTyped
  <2>4. phase' \in Phases /\ saving' \in BOOLEAN
    BY <2>1 DEF Phases
  <2>5. RestTyped'
    BY <1>0, <1>10, <2>1, CountedTyped DEF ServePublish
  <2> QED BY <1>0, <1>10, <2>2, <2>3, <2>4, <2>5 DEF ServePublish, SentTyped, TabTyped
<1>11. ASSUME Lose PROVE (DraftTypeOK /\ EditInv)'
  <2>1. SentTyped' /\ tries' \in 0..Attempts /\ saving' \in BOOLEAN
    BY <1>0, <1>11, ForgetTyped DEF Lose
  <2>2. RestTyped'
    BY <1>0, <1>11, BoundsTyped DEF Lose, RestTyped
  <2> QED BY <1>0, <1>11, <2>1, <2>2 DEF Lose, docVars, DocTyped, TabTyped, Phases
<1>12. ASSUME Reload PROVE (DraftTypeOK /\ EditInv)'
  <2>1. SentTyped' /\ tries' \in 0..Attempts /\ saving' \in BOOLEAN
    BY <1>0, <1>12, ForgetTyped DEF Reload
  <2>2. RestTyped'
    BY <1>0, <1>12, BoundsTyped DEF Reload, RestTyped
  <2> QED BY <1>0, <1>12, <2>1, <2>2, NoneTyped DEF Reload, docVars, DocTyped, TabTyped, Phases
<1>13. ASSUME NEW m \in late, ServeLate(m) PROVE (DraftTypeOK /\ EditInv)'
  <2>1. DocTyped' /\ RestTyped'
    <3>1. CASE PatchDraft(m.rev, m.edit) /\ UNCHANGED <<saved, known, engine, created, forgotten, bounds>>
      BY <1>0, <1>13, <3>1, PatchTyped DEF ServeLate, SentTyped, RestTyped
    <3>2. ASSUME NEW outcome \in Publications(m.rev), PublishDraft(outcome), Counted(outcome)
          PROVE  DocTyped' /\ RestTyped'
      BY <1>0, <1>13, <3>2, PublicationsAre, PublishTyped, CountedTyped DEF ServeLate
    <3> QED BY <1>13, <3>1, <3>2 DEF ServeLate
  <2> QED BY <1>0, <1>13, <2>1 DEF ServeLate, tabVars, SentTyped, TabTyped
<1>14. ASSUME AgentRead PROVE (DraftTypeOK /\ EditInv)'
  BY <1>0, <1>14 DEF AgentRead, docVars, tabVars, DocTyped, SentTyped, TabTyped, RestTyped
<1> QED BY <1>1, <1>2, <1>3, <1>4, <1>5, <1>6, <1>7, <1>8, <1>9, <1>10, <1>11, <1>12, <1>13, <1>14 DEF DraftNext

-----------------------------------------------------------------------------
(* Publications *)

LEMMA PublishKnown ==
    ASSUME DraftTypeOK, KnownInv, NEW outcome \in {"saved", "forgotten", "refused"}, PublishDraft(outcome)
    PROVE  KnownInv'
<1>1. created \in Nat /\ forgotten \in Nat /\ known \in BOOLEAN
  BY DEF DraftTypeOK
<1>2. CASE outcome = "saved"
  BY <1>1, <1>2 DEF PublishDraft, EngineTakes, Recorded, KnownInv
<1>3. CASE outcome = "forgotten"
  BY <1>1, <1>3 DEF PublishDraft, EngineTakes, KnownInv
<1>4. CASE outcome = "refused"
  BY <1>4 DEF PublishDraft, docVars, KnownInv
<1> QED BY <1>2, <1>3, <1>4

LEMMA KnownKeeps ==
    ASSUME DraftTypeOK, KnownInv, DraftNext
    PROVE  KnownInv'
<1>1. UNCHANGED <<created, forgotten, known>> => KnownInv'
  BY DEF KnownInv
<1>2. CASE \E f \in Fields, v \in Values : Type(f, v) \/ AgentUpdate(f, v)
  BY <1>1, <1>2 DEF Type, AgentUpdate, docVars
<1>3. CASE StartSync \/ Save \/ Look \/ Attach \/ Got \/ Patched \/ Refused
  BY <1>1, <1>3 DEF StartSync, Save, Sync, Look, Attach, Got, Patched, Refused, docVars
<1>4. CASE ServePatch \/ Lose \/ Reload \/ AgentRead
  BY <1>1, <1>4 DEF ServePatch, Lose, Reload, AgentRead, docVars
<1>5. CASE ServePublish
  BY <1>5, PublicationsAre, PublishKnown DEF ServePublish
<1>6. ASSUME NEW m \in late, ServeLate(m) PROVE KnownInv'
  BY <1>1, <1>6, PublicationsAre, PublishKnown DEF ServeLate
<1> QED BY <1>2, <1>3, <1>4, <1>5, <1>6 DEF DraftNext

-----------------------------------------------------------------------------
(* Revisions *)

(* The document moves on, or is what it was. *)
Moves(r, p) == r = rev + 1 \/ (r = rev /\ p = params)

LEMMA DocMoves ==
    ASSUME DraftTypeOK, EditInv, Moves(rev', params'), UNCHANGED <<docRev, base, phase, sent, answer>>,
           late' \subseteq late, RevInv
    PROVE  RevInv'
BY DEF Moves, RevInv, DraftTypeOK, OnScreen

LEMMA PatchMoves ==
    ASSUME NEW r, NEW e, PatchDraft(r, e)
    PROVE  Moves(rev', params') /\ (r = rev => rev' = rev + 1)
BY DEF PatchDraft, Moves

LEMMA PublishMoves ==
    ASSUME NEW r, NEW outcome \in Publications(r), PublishDraft(outcome)
    PROVE  /\ Moves(rev', params') /\ params' = params
           /\ outcome = "saved" => rev' = rev + 1
           /\ outcome # "refused" => r = rev
<1>1. outcome \in {"saved", "forgotten", "refused"} /\ (outcome # "refused" => r = rev)
  BY PublicationsAre
<1>2. CASE outcome = "saved"
  BY <1>1, <1>2 DEF PublishDraft, Recorded, Moves
<1>3. CASE outcome = "forgotten"
  BY <1>1, <1>3 DEF PublishDraft, Moves
<1>4. CASE outcome = "refused"
  BY <1>4 DEF PublishDraft, docVars, Moves
<1> QED BY <1>1, <1>2, <1>3, <1>4

LEMMA RevKeeps ==
    ASSUME DraftTypeOK, EditInv, RevInv, DraftNext
    PROVE  RevInv'
<1>0. /\ rev \in Nat /\ docRev \in Nat /\ answer.rev \in Nat /\ sent.rev \in Nat
      /\ \A m \in late : m.rev \in Nat
  BY DEF DraftTypeOK
<1>n. NoRequest.rev = 0 /\ NoAnswer.rev = 0
  BY NoneTyped
<1>1. ASSUME NEW f \in Fields, NEW v \in Values, Type(f, v) PROVE RevInv'
  BY <1>0, <1>1 DEF Type, docVars, RevInv, OnScreen
<1>2. ASSUME NEW f \in Fields, NEW v \in Values, AgentUpdate(f, v) PROVE RevInv'
  BY <1>2, PatchMoves, DocMoves DEF AgentUpdate, tabVars
<1>3. ASSUME StartSync \/ Save PROVE RevInv'
  BY <1>0, <1>3 DEF StartSync, Save, Sync, docVars, RevInv, OnScreen
<1>4. ASSUME Look PROVE RevInv'
  <2>1. answer'.rev = rev /\ answer'.params = params
    BY <1>4 DEF Look
  <2>2. UNCHANGED <<rev, params, docRev, base, late>> /\ phase \in {"opening", "getting"}
        /\ phase' = IF phase = "opening" THEN "opened" ELSE "got"
    BY <1>4 DEF Look, docVars
  <2> QED BY <1>0, <2>1, <2>2 DEF RevInv, OnScreen
<1>5. ASSUME Attach PROVE RevInv'
  <2>1. /\ base' = answer.params /\ docRev' = answer.rev /\ phase' = "idle" /\ answer'.rev = 0
        /\ UNCHANGED <<rev, params, late>> /\ phase \in {"opened", "published"}
    BY <1>5, <1>n DEF Attach, docVars
  <2>2. \A m \in late : m.rev <= answer.rev
    BY <1>0, <2>1 DEF RevInv, OnScreen
  <2> QED BY <1>0, <2>1, <2>2 DEF RevInv, OnScreen
<1>6. ASSUME Got PROVE RevInv'
  <2>1. /\ base' = IF answer.rev # docRev THEN answer.params ELSE base
        /\ docRev' = answer.rev /\ answer'.rev = 0 /\ phase = "got"
        /\ UNCHANGED <<rev, params, late>>
    BY <1>6, <1>n DEF Got, docVars
  <2>2. /\ phase' \in {"patching", "publishing", "idle"}
        /\ phase' = "patching" => sent'.rev = answer.rev
    BY <1>6 DEF Got, Settle
  <2>3. base' = answer.params
    BY <2>1 DEF RevInv
  <2> QED BY <1>0, <2>1, <2>2, <2>3 DEF RevInv, OnScreen
<1>7. ASSUME Patched PROVE RevInv'
  <2>1. /\ base' = answer.params /\ docRev' = answer.rev /\ answer'.rev = 0 /\ phase = "patched"
        /\ UNCHANGED <<rev, params, late>> /\ phase' \in {"publishing", "idle", "getting"}
    BY <1>7, <1>n DEF Patched, docVars, Settle, Retry
  <2> QED BY <1>0, <2>1 DEF RevInv, OnScreen
<1>8. ASSUME Refused PROVE RevInv'
  <2>1. /\ answer'.rev = 0 /\ phase = "refused" /\ phase' \in {"idle", "getting"}
        /\ UNCHANGED <<rev, params, late, base, docRev>>
    BY <1>8, <1>n DEF Refused, docVars, Retry
  <2> QED BY <1>0, <2>1 DEF RevInv, OnScreen
<1>9. ASSUME ServePatch PROVE RevInv'
  <2>1. /\ Moves(rev', params')
        /\ sent.rev = rev => rev' = rev + 1
        /\ UNCHANGED <<docRev, base, late, sent>> /\ phase = "patching"
    BY <1>9, PatchMoves DEF ServePatch
  <2>a. /\ 0 < rev /\ docRev <= rev /\ (docRev = rev => base = params)
        /\ \A m \in late : m.rev <= docRev /\ m.rev <= rev
    BY <2>1 DEF RevInv, OnScreen
  <2>2. CASE sent.rev = rev
    <3>1. phase' = "patched" /\ answer'.rev = rev' /\ answer'.params = params'
      BY <1>9, <2>2 DEF ServePatch
    <3>2. rev' \in Nat /\ rev' = rev + 1
      BY <1>0, <2>1, <2>2
    <3> QED BY <1>0, <2>1, <2>a, <3>1, <3>2 DEF RevInv, OnScreen
  <2>3. CASE sent.rev # rev
    <3>1. phase' = "refused" /\ answer'.rev = 0
      BY <1>9, <1>n, <2>3 DEF ServePatch
    <3> QED BY <1>0, <2>1, <2>a, <3>1 DEF RevInv, OnScreen, Moves
  <2> QED BY <2>2, <2>3
<1>10. ASSUME ServePublish PROVE RevInv'
  <2>1. PICK outcome \in Publications(docRev) :
          /\ PublishDraft(outcome)
          /\ phase' = IF outcome = "saved" THEN "published" ELSE "idle"
          /\ answer' = IF outcome = "saved" THEN [rev |-> rev', params |-> params'] ELSE NoAnswer
    BY <1>10 DEF ServePublish
  <2>2. /\ Moves(rev', params')
        /\ outcome = "saved" => rev' = rev + 1
        /\ UNCHANGED <<docRev, base, late, sent>> /\ phase = "publishing"
    BY <1>10, <2>1, PublishMoves DEF ServePublish
  <2>a. /\ 0 < rev /\ docRev <= rev /\ (docRev = rev => base = params)
        /\ \A m \in late : m.rev <= docRev /\ m.rev <= rev
    BY <2>2 DEF RevInv, OnScreen
  <2>3. CASE outcome = "saved"
    <3>1. phase' = "published" /\ answer'.rev = rev' /\ answer'.params = params'
      BY <2>1, <2>3
    <3>2. rev' \in Nat /\ rev' = rev + 1
      BY <1>0, <2>2, <2>3
    <3> QED BY <1>0, <2>2, <2>a, <3>1, <3>2 DEF RevInv, OnScreen
  <2>4. CASE outcome # "saved"
    <3>1. phase' = "idle" /\ answer'.rev = 0
      BY <1>n, <2>1, <2>4
    <3> QED BY <1>0, <2>2, <2>a, <3>1 DEF RevInv, OnScreen, Moves
  <2> QED BY <2>3, <2>4
<1>11. ASSUME Lose \/ Reload PROVE RevInv'
  <2>1. /\ OnScreen /\ UNCHANGED <<rev, params>> /\ answer'.rev = 0 /\ late' = late \cup Unserved
        /\ \/ phase' = "idle" /\ UNCHANGED <<base, docRev>>
           \/ phase' = "opening" /\ docRev' = 0
    BY <1>11, <1>n DEF Lose, Reload, Forget, docVars
  <2>2. \A m \in Unserved : m.rev = docRev
    BY DEF RevInv, Unserved
  <2>3. \A m \in late' : m.rev \in Nat /\ m.rev <= docRev
    BY <1>0, <2>1, <2>2 DEF RevInv
  <2> QED BY <1>0, <2>1, <2>3 DEF RevInv, OnScreen
<1>13. ASSUME NEW m \in late, ServeLate(m) PROVE RevInv'
  <2>1. Moves(rev', params')
    BY <1>13, PatchMoves, PublishMoves DEF ServeLate
  <2> QED BY <1>13, <2>1, DocMoves DEF ServeLate, tabVars
<1>14. ASSUME AgentRead PROVE RevInv'
  BY <1>14 DEF AgentRead, docVars, tabVars, RevInv, OnScreen
<1> QED BY <1>1, <1>2, <1>3, <1>4, <1>5, <1>6, <1>7, <1>8, <1>9, <1>10, <1>11, <1>13, <1>14 DEF DraftNext

-----------------------------------------------------------------------------
(* What was shown *)

(* A merge of what was shown shows what it puts aside. *)
LEMMA MergeShown ==
    ASSUME NEW before, NEW local, NEW remote, NEW asked, NEW givenUp, NEW s, NEW t, NEW m,
           s \in [Fields -> SUBSET Values], asked = Asked(before, local, remote),
           \A f \in Fields : local[f] # before[f] => before[f] \in s[f],
           t = [f \in Fields |-> IF f \in asked THEN s[f] \cup {remote[f]} ELSE s[f]],
           m = Merge(before, local, remote, givenUp)
    PROVE  /\ \A f \in Fields : m[f] # remote[f] => remote[f] \in t[f]
           /\ \A f \in Fields : s[f] \subseteq t[f]
<1>1. \A f \in Fields : s[f] \subseteq t[f] /\ (f \in asked => remote[f] \in t[f])
  OBVIOUS
<1>2. ASSUME NEW f \in Fields, m[f] # remote[f] PROVE remote[f] \in t[f]
  <2>1. before[f] # local[f] /\ m[f] = local[f]
    BY <1>2 DEF Merge
  <2>2. CASE f \in asked
    BY <1>1, <2>2
  <2>3. CASE f \notin asked
    <3>1. before[f] = remote[f]
      BY <1>2, <2>1, <2>3 DEF Asked
    <3> QED BY <1>1, <2>1, <3>1
  <2> QED BY <2>2, <2>3
<1> QED BY <1>1, <1>2

LEMMA ShownKeeps ==
    ASSUME DraftTypeOK, EditInv, RevInv, ShownInv, KeptInv, DraftNext
    PROVE  ShownInv'
<1>0. shown \in [Fields -> SUBSET Values] /\ form \in Params /\ base \in Params
  BY DEF DraftTypeOK
<1>f. ~(phase' \in {"patching", "patched"}) /\ (copy' # Nothing => Over(copy.params, copy.base)')
        /\ (OnScreen' => Over(form, base)') => ShownInv'
  BY DEF ShownInv
<1>1. ASSUME NEW f \in Fields, NEW v \in Values, Type(f, v) PROVE ShownInv'
  <2>1. /\ form' = [form EXCEPT ![f] = v] /\ copy' = [base |-> base, params |-> form']
        /\ shown' = [shown EXCEPT ![f] = @ \cup {form[f]}] /\ OnScreen
        /\ UNCHANGED <<phase, base, sent, answer>>
    BY <1>1 DEF Type
  <2>2. /\ \A g \in Fields : shown[g] \subseteq shown'[g]
        /\ form[f] \in shown'[f] /\ \A g \in Fields : g # f => form'[g] = form[g]
    BY <1>0, <2>1 DEF Params
  <2>3. \A t : Over(form, t) => \A g \in Fields : form'[g] # t[g] => t[g] \in shown'[g]
    BY <2>2 DEF Over
  <2>4. Over(form, base)'
    BY <2>1, <2>3 DEF ShownInv, Over
  <2>5. Over(copy.params, copy.base)'
    BY <2>1, <2>4 DEF Over
  <2>6. phase' = "patched" => Over(form, answer.params)'
    BY <2>1, <2>3 DEF ShownInv, Over
  <2>7. ASSUME phase' = "patching", NEW g \in DOMAIN sent'.edit
        PROVE  base'[g] \in shown'[g] /\ (form'[g] # sent'.edit[g] => sent'.edit[g] \in shown'[g])
    <3>1. g \in Fields /\ g \in DOMAIN sent.edit
      BY <2>1, <2>7 DEF EditInv, IsEdit
    <3> QED BY <2>1, <2>2, <2>7, <3>1 DEF ShownInv
  <2> QED BY <2>4, <2>5, <2>6, <2>7 DEF ShownInv
<1>2. ASSUME UNCHANGED tabVars PROVE ShownInv'
  BY <1>2 DEF tabVars, ShownInv, OnScreen, Over
<1>3. ASSUME StartSync \/ Save PROVE ShownInv'
  <2>1. /\ phase = "idle" /\ phase' = "getting" /\ copy' = [base |-> base, params |-> form]
        /\ UNCHANGED <<form, base, shown>>
    BY <1>3 DEF StartSync, Save, Sync
  <2> QED BY <2>1 DEF ShownInv, OnScreen, Over
<1>4. ASSUME Look PROVE ShownInv'
  BY <1>4 DEF Look, ShownInv, OnScreen, Over
<1>5. ASSUME Attach PROVE ShownInv'
  <2>1. PICK mine : mine = IF copy = Nothing THEN [base |-> answer.params, params |-> answer.params] ELSE copy
    OBVIOUS
  <2>2. PICK asked : asked = Asked(mine.base, mine.params, answer.params)
    OBVIOUS
  <2>3. PICK givenUp : form' = Merge(mine.base, mine.params, answer.params, givenUp)
    BY <1>5, <2>1 DEF Attach
  <2>4. shown' = ShownAfter(asked, answer.params)
    BY <1>5, <2>1, <2>2 DEF Attach
  <2>5. /\ base' = answer.params /\ phase' = "idle"
        /\ copy' = IF form' = answer.params THEN copy ELSE [base |-> answer.params, params |-> form']
    BY <1>5 DEF Attach
  <2>6. \A f \in Fields : mine.params[f] # mine.base[f] => mine.base[f] \in shown[f]
    BY <2>1 DEF ShownInv, Over
  <2>7. PICK remote : remote = answer.params
    OBVIOUS
  <2>8. /\ \A f \in Fields : form'[f] # remote[f] => remote[f] \in shown'[f]
        /\ \A f \in Fields : shown[f] \subseteq shown'[f]
    BY <1>0, <2>2, <2>3, <2>4, <2>6, <2>7, MergeShown DEF ShownAfter
  <2>9. Over(form, base)'
    BY <2>5, <2>7, <2>8 DEF Over
  <2>10. copy' # Nothing => Over(copy.params, copy.base)'
    <3>1. CASE form' = answer.params
      BY <2>5, <2>8, <3>1 DEF ShownInv, Over
    <3>2. CASE form' # answer.params
      BY <2>5, <2>7, <2>8, <3>2 DEF Over
    <3> QED BY <3>1, <3>2
  <2> QED BY <1>f, <2>5, <2>9, <2>10
<1>6. ASSUME Got PROVE ShownInv'
  <2>1. PICK before : before = IF answer.rev # docRev THEN base ELSE answer.params
    OBVIOUS
  <2>2. PICK asked : asked = Asked(before, form, answer.params)
    OBVIOUS
  <2>3. PICK givenUp : form' = Merge(before, form, answer.params, givenUp)
    BY <1>6, <2>1 DEF Got
  <2>4. phase = "got" /\ before = base /\ base' = answer.params
    BY <1>6, <2>1 DEF Got, RevInv
  <2>5. CASE form' = base'
    <3>1. copy' = Nothing /\ phase' \in {"publishing", "idle"}
      BY <1>6, <2>5 DEF Got, Settle
    <3> QED BY <1>f, <2>5, <3>1 DEF Over
  <2>6. CASE form' # base'
    <3>1. /\ phase' = "patching" /\ sent' = [rev |-> answer.rev, edit |-> Diff(base', form')]
          /\ shown' = ShownAfter(asked, answer.params) /\ copy' = copy
      BY <1>6, <2>1, <2>2, <2>6 DEF Got
    <3>2. \A f \in Fields : form[f] # before[f] => before[f] \in shown[f]
      BY <2>4 DEF ShownInv, OnScreen, Over
    <3>3. PICK remote : remote = answer.params
      OBVIOUS
    <3>4. /\ \A f \in Fields : form'[f] # remote[f] => remote[f] \in shown'[f]
          /\ \A f \in Fields : shown[f] \subseteq shown'[f]
      BY <1>0, <2>2, <2>3, <3>1, <3>2, <3>3, MergeShown DEF ShownAfter
    <3>5. Over(form, base)' /\ (copy' # Nothing => Over(copy.params, copy.base)')
      BY <2>4, <3>1, <3>3, <3>4 DEF Over, ShownInv
    <3>6. base' \in Params /\ form' \in Params
      BY <2>3, <2>4, <1>0, MergeTyped DEF DraftTypeOK
    <3>7. ASSUME NEW f \in DOMAIN sent'.edit
          PROVE  base'[f] \in shown'[f] /\ form'[f] = sent'.edit[f]
      <4>1. PICK d : d = Diff(base', form') /\ sent' = [rev |-> answer.rev, edit |-> d]
        BY <3>1
      <4>2. /\ DOMAIN d = {g \in Fields : base'[g] # form'[g]}
            /\ \A g \in DOMAIN d : d[g] = form'[g]
        BY <3>6, <4>1, DiffIsEdit
      <4>3. f \in Fields /\ base'[f] # form'[f] /\ sent'.edit[f] = form'[f]
        BY <3>7, <4>1, <4>2
      <4> QED BY <3>5, <4>3 DEF Over
    <3> QED BY <3>1, <3>5, <3>7 DEF ShownInv
  <2> QED BY <2>5, <2>6
<1>7. ASSUME Patched PROVE ShownInv'
  <2>1. phase = "patched" /\ form' = form /\ base' = answer.params
    BY <1>7 DEF Patched
  <2>2. CASE Settle /\ form = answer.params
    <3>1. copy' = Nothing /\ phase' \in {"publishing", "idle"}
      BY <2>2 DEF Settle
    <3> QED BY <1>f, <2>1, <2>2, <3>1 DEF Over
  <2>3. CASE Retry
    <3>1. Over(form, base)' /\ shown' = shown
      BY <2>1, <2>3 DEF ShownInv, Over, Retry
    <3>2. /\ phase' \in {"getting", "idle"}
          /\ copy' = [base |-> base', params |-> form] \/ copy' = copy
      BY <2>3 DEF Retry
    <3>3. copy' # Nothing => Over(copy.params, copy.base)'
      BY <2>1, <3>1, <3>2 DEF Over, ShownInv
    <3> QED BY <1>f, <3>1, <3>2, <3>3
  <2> QED BY <1>7, <2>2, <2>3 DEF Patched
<1>8. ASSUME Refused PROVE ShownInv'
  <2>1. /\ phase = "refused" /\ UNCHANGED <<form, base, shown>> /\ phase' \in {"getting", "idle"}
        /\ copy' = [base |-> base', params |-> form] \/ copy' = copy
    BY <1>8 DEF Refused, Retry
  <2> QED BY <2>1 DEF ShownInv, Over, OnScreen
<1>9. ASSUME ServePatch PROVE ShownInv'
  <2>1. UNCHANGED <<form, base, shown, copy>> /\ phase = "patching"
    BY <1>9 DEF ServePatch
  <2>2. Over(form, base)' /\ (copy' # Nothing => Over(copy.params, copy.base)')
    BY <2>1 DEF ShownInv, OnScreen, Over
  <2>3. CASE sent.rev = rev
    <3>1. phase' = "patched" /\ answer'.params = Applied(sent.edit) /\ params = base
      BY <1>9, <2>1, <2>3 DEF ServePatch, PatchDraft, RevInv
    <3>2. \A f \in Fields : answer'.params[f] = IF f \in DOMAIN sent.edit THEN sent.edit[f] ELSE base[f]
      BY <3>1 DEF Applied
    <3>3. Over(form, answer.params)'
      BY <2>1, <2>2, <3>2 DEF ShownInv, Over
    <3> QED BY <2>2, <3>1, <3>3 DEF ShownInv
  <2>4. CASE sent.rev # rev
    <3>1. phase' = "refused"
      BY <1>9, <2>4 DEF ServePatch
    <3> QED BY <1>f, <2>2, <3>1
  <2> QED BY <2>3, <2>4
<1>10. ASSUME ServePublish PROVE ShownInv'
  <2>1. /\ phase = "publishing" /\ phase' \in {"published", "idle"} /\ UNCHANGED <<form, base, copy, shown>>
    BY <1>10 DEF ServePublish
  <2> QED BY <2>1 DEF ShownInv, Over, OnScreen
<1>11. ASSUME Lose PROVE ShownInv'
  BY <1>11 DEF Lose, ShownInv, Over, OnScreen
<1>12. ASSUME Reload PROVE ShownInv'
  BY <1>12 DEF Reload, ShownInv, Over, OnScreen
<1> QED BY <1>1, <1>2, <1>3, <1>4, <1>5, <1>6, <1>7, <1>8, <1>9, <1>10, <1>11, <1>12
        DEF DraftNext, AgentUpdate, AgentRead, ServeLate

-----------------------------------------------------------------------------
(* What is kept *)

(* After a merge, what the author typed is on the screen, or it is saved or  *)
(* given up.                                                                 *)
LEMMA MergeKeeps ==
    ASSUME NEW before, NEW local, NEW remote, NEW asked, NEW givenUp, NEW m, NEW t,
           asked = Asked(before, local, remote), m = Merge(before, local, remote, givenUp),
           t = TypedAfter(asked, givenUp, local, m, remote), NEW f \in Fields
    PROVE  /\ t[f] # Nothing /\ t[f] = m[f] => m[f] # remote[f] /\ m[f] = local[f]
           /\ typed[f] = local[f] /\ local[f] # before[f] => t[f] = Nothing \/ t[f] = m[f]
<1>1. t[f] = CASE f \in givenUp -> Nothing
               [] f \in asked \ givenUp -> local[f]
               [] f \notin asked /\ typed[f] = remote[f] /\ m[f] = remote[f] -> Nothing
               [] OTHER -> typed[f]
  BY DEF TypedAfter
<1>2. m[f] = IF before[f] # local[f] /\ f \notin givenUp THEN local[f] ELSE remote[f]
  BY DEF Merge
<1>3. f \in asked <=> before[f] # local[f] /\ before[f] # remote[f] /\ local[f] # remote[f]
  BY DEF Asked
<1>4. CASE f \in givenUp
  BY <1>1, <1>4
<1>5. CASE f \in asked \ givenUp
  BY <1>1, <1>2, <1>3, <1>5
<1>6. CASE f \notin asked /\ f \notin givenUp
  <2>1. t[f] = IF typed[f] = remote[f] /\ m[f] = remote[f] THEN Nothing ELSE typed[f]
    BY <1>1, <1>6
  <2> QED BY <1>2, <1>6, <2>1
<1> QED BY <1>4, <1>5, <1>6

LEMMA KeptKeeps ==
    ASSUME DraftTypeOK, RevInv, KeptInv, DraftNext
    PROVE  KeptInv'
<1>0. form \in Params /\ typed \in [Fields -> Values \cup {Nothing}] /\ base \in Params
  BY DEF DraftTypeOK
<1>a. ASSUME NEW b \in Params, NEW p \in Params
      PROVE  /\ [base |-> b, params |-> p] # Nothing /\ [base |-> b, params |-> p].params = p
  BY CopyTyped, NoCopyAssumption
<1>1. ASSUME NEW f \in Fields, NEW v \in Values, Type(f, v) PROVE KeptInv'
  <2>1. /\ copy' = [base |-> base, params |-> form'] /\ form' = [form EXCEPT ![f] = v]
        /\ OnScreen /\ ~saving /\ phase' = phase
    BY <1>1 DEF Type
  <2>2. form' \in Params
    BY <1>0, <2>1 DEF Params
  <2>3. copy' # Nothing /\ copy'.params = form'
    BY <1>0, <1>a, <2>1, <2>2
  <2> QED BY <2>1, <2>3 DEF KeptInv
<1>2. ASSUME UNCHANGED <<form, typed, base, copy, saving>>,
             phase' = phase \/ (phase' \notin {"getting", "got", "publishing", "published"} /\ OnScreen)
                \/ (phase' = "got" /\ phase = "getting") \/ ~OnScreen'
      PROVE KeptInv'
  BY <1>2 DEF KeptInv, OnScreen
<1>3. ASSUME StartSync \/ Save PROVE KeptInv'
  <2>1. /\ phase' = "getting" /\ copy' = [base |-> base, params |-> form] /\ form' = form
    BY <1>3 DEF StartSync, Save, Sync
  <2> QED BY <1>0, <1>a, <2>1 DEF KeptInv
<1>5. ASSUME Attach PROVE KeptInv'
  <2>1. PICK mine : mine = IF copy = Nothing THEN [base |-> answer.params, params |-> answer.params] ELSE copy
    OBVIOUS
  <2>2. PICK asked : asked = Asked(mine.base, mine.params, answer.params)
    OBVIOUS
  <2>3. PICK givenUp :
          /\ form' = Merge(mine.base, mine.params, answer.params, givenUp)
          /\ typed' = TypedAfter(asked, givenUp, mine.params, form', answer.params)
    BY <1>5, <2>1, <2>2 DEF Attach
  <2>4. /\ phase' = "idle"
        /\ copy' = IF form' = answer.params THEN copy ELSE [base |-> answer.params, params |-> form']
    BY <1>5 DEF Attach
  <2>5. answer.params \in Params /\ mine.base \in Params /\ mine.params \in Params
    BY <2>1 DEF DraftTypeOK, Copies
  <2>6. form' \in Params
    BY <2>3, <2>5, MergeTyped
  <2>7. ASSUME NEW f \in Fields, typed'[f] # Nothing, typed'[f] = form'[f]
        PROVE  copy' # Nothing /\ copy'.params[f] = form'[f]
    <3>1. form'[f] # answer.params[f]
      BY <2>2, <2>3, <2>7, MergeKeeps
    <3>2. copy' = [base |-> answer.params, params |-> form']
      BY <2>4, <3>1
    <3> QED BY <1>a, <2>5, <2>6, <3>2
  <2> QED BY <2>4, <2>7 DEF KeptInv
<1>6. ASSUME Got PROVE KeptInv'
  <2>1. PICK before : before = IF answer.rev # docRev THEN base ELSE answer.params
    OBVIOUS
  <2>2. PICK asked : asked = Asked(before, form, answer.params)
    OBVIOUS
  <2>3. PICK givenUp :
          /\ form' = Merge(before, form, answer.params, givenUp)
          /\ typed' = TypedAfter(asked, givenUp, form, form', answer.params)
    BY <1>6, <2>1, <2>2 DEF Got
  <2>4. base' = answer.params /\ copy # Nothing /\ copy.params = form
    BY <1>6 DEF Got, RevInv, KeptInv
  <2>5. \A f \in Fields : typed'[f] # Nothing /\ typed'[f] = form'[f] => form'[f] # base'[f] /\ form'[f] = form[f]
    BY <2>2, <2>3, <2>4, MergeKeeps
  <2>6. CASE form' = base'
    <3>1. copy' = Nothing /\ phase' = (IF saving THEN "publishing" ELSE "idle") /\ saving' = saving
      BY <1>6, <2>6 DEF Got, Settle
    <3> QED BY <2>5, <2>6, <3>1 DEF KeptInv
  <2>7. CASE form' # base'
    <3>1. copy' = copy /\ phase' = "patching"
      BY <1>6, <2>7 DEF Got
    <3> QED BY <2>4, <2>5, <3>1 DEF KeptInv
  <2> QED BY <2>6, <2>7
<1>7. ASSUME Retry, form' = form, base' \in Params, OnScreen,
             \A f \in Fields : typed'[f] # Nothing => typed'[f] = typed[f]
      PROVE  KeptInv'
  <2>1. CASE phase' = "getting" /\ copy' = [base |-> base', params |-> form]
    BY <1>0, <1>a, <1>7, <2>1 DEF KeptInv
  <2>2. CASE phase' = "idle" /\ copy' = copy
    BY <1>7, <2>2 DEF KeptInv
  <2> QED BY <1>7, <2>1, <2>2 DEF Retry
<1>8. ASSUME Patched PROVE KeptInv'
  <2>1. /\ phase = "patched" /\ form' = form /\ base' = answer.params
        /\ typed' = TypedAfter({}, {}, form, form, answer.params)
    BY <1>8 DEF Patched
  <2>2. \A f \in Fields : typed'[f] = IF typed[f] = answer.params[f] /\ form[f] = answer.params[f]
                                       THEN Nothing ELSE typed[f]
    BY <2>1 DEF TypedAfter
  <2>3. CASE form = answer.params /\ Settle
    <3>1. copy' = Nothing /\ phase' = (IF saving THEN "publishing" ELSE "idle") /\ saving' = saving
      BY <2>3 DEF Settle
    <3>2. ASSUME NEW f \in Fields, typed'[f] # Nothing PROVE typed'[f] # form'[f]
      BY <2>1, <2>2, <2>3, <3>2
    <3> QED BY <2>1, <2>3, <3>1, <3>2 DEF KeptInv
  <2>4. CASE Retry
    <3>1. base' \in Params /\ OnScreen
      BY <2>1 DEF DraftTypeOK, OnScreen
    <3> QED BY <1>7, <2>1, <2>2, <2>4, <3>1
  <2> QED BY <1>8, <2>3, <2>4 DEF Patched
<1>9. ASSUME Refused PROVE KeptInv'
  BY <1>0, <1>7, <1>9 DEF Refused, OnScreen
<1>10. ASSUME ServePublish PROVE KeptInv'
  <2>1. /\ phase = "publishing" /\ UNCHANGED <<form, base, copy, typed>>
        /\ (phase' = "published" /\ saving') \/ phase' = "idle"
    BY <1>10 DEF ServePublish
  <2> QED BY <2>1 DEF KeptInv, OnScreen
<1>11. ASSUME Lose PROVE KeptInv'
  BY <1>11 DEF Lose, KeptInv, OnScreen
<1>12. ASSUME Reload PROVE KeptInv'
  BY <1>12 DEF Reload, KeptInv, OnScreen
<1>13. ASSUME Look PROVE KeptInv'
  BY <1>2, <1>13 DEF Look, OnScreen
<1>14. ASSUME ServePatch PROVE KeptInv'
  BY <1>2, <1>14 DEF ServePatch, OnScreen
<1>15. ASSUME UNCHANGED tabVars PROVE KeptInv'
  BY <1>2, <1>15 DEF tabVars
<1> QED BY <1>1, <1>3, <1>5, <1>6, <1>8, <1>9, <1>10, <1>11, <1>12, <1>13, <1>14, <1>15
        DEF DraftNext, AgentUpdate, AgentRead, ServeLate

-----------------------------------------------------------------------------

LEMMA DraftInvariance == DraftSpec => []DraftInv
<1>1. DraftInit => DraftInv
  <2> SUFFICES ASSUME DraftInit PROVE DraftInv
    OBVIOUS
  <2>1. DraftTypeOK /\ EditInv
    <3>1. saving = FALSE /\ tries = 0 /\ known \in BOOLEAN /\ typed = Nowhere /\ created = 0 /\ forgotten = 0
      BY DEF DraftInit
    <3>2. saving \in BOOLEAN
      BY ONLY <3>1
    <3>3. tries \in 0..Attempts
      BY <3>1, AttemptsAssumption
    <3>4. bounds \in [{"typed", "agent", "saves", "lost", "reloads"} -> Nat]
      BY DEF DraftInit
    <3>5. DocTyped
      BY <3>1, NoneTyped DEF DraftInit, DocTyped
    <3>6. SentTyped
      BY NoneTyped DEF DraftInit, SentTyped
    <3>7. TabTyped
      BY <3>1, <3>2, <3>3, NoneTyped DEF DraftInit, TabTyped, Nowhere, Phases
    <3>8. RestTyped
      BY <3>4 DEF DraftInit, RestTyped
    <3> QED BY <3>5, <3>6, <3>7, <3>8, TypeParts
  <2>2. KnownInv
    BY DEF DraftInit, KnownInv
  <2>3. RevInv
    BY NoneTyped DEF DraftInit, RevInv, OnScreen
  <2>4. ShownInv /\ KeptInv
    BY DEF DraftInit, ShownInv, KeptInv, OnScreen
  <2> QED BY <2>1, <2>2, <2>3, <2>4 DEF DraftInv
<1>2. DraftInv /\ [DraftNext]_draftVars => DraftInv'
  <2>1. DraftInv /\ DraftNext => DraftInv'
    BY TypesKeep, KnownKeeps, RevKeeps, ShownKeeps, KeptKeeps DEF DraftInv
  <2>2. ASSUME DraftInv, UNCHANGED draftVars PROVE DraftInv'
    <3>1. UNCHANGED <<docVars, seen, late, tabVars, bounds>>
      BY <2>2 DEF draftVars
    <3>2. (DraftTypeOK /\ EditInv)'
      BY <2>2, <3>1, TypeParts
         DEF DraftInv, docVars, tabVars, DocTyped, SentTyped, TabTyped, RestTyped
    <3>3. KnownInv' /\ RevInv'
      BY <2>2, <3>1 DEF DraftInv, docVars, tabVars, KnownInv, RevInv, OnScreen
    <3>4. ShownInv' /\ KeptInv'
      BY <2>2, <3>1 DEF DraftInv, docVars, tabVars, ShownInv, KeptInv, OnScreen, Over
    <3> QED BY <3>2, <3>3, <3>4 DEF DraftInv
  <2> QED BY <2>1, <2>2
<1> QED BY <1>1, <1>2, PTL DEF DraftSpec

(* The document, the tab, and every request under way or given up on have    *)
(* the shapes drafts.js and web_drafts.go give them.                         *)
THEOREM DraftTypes == DraftSpec => []DraftTypeOK
<1>1. DraftInv => DraftTypeOK
  BY DEF DraftInv
<1> QED BY DraftInvariance, <1>1, PTL

(* However often saving is tried again, the engine has one object more than  *)
(* the publications whose outcome the server did not record explain          *)
(* (httpPublishDraft).                                                       *)
THEOREM PublishedOnce == DraftSpec => []CreatesOnce
<1>1. DraftInv => CreatesOnce
  BY DEF DraftInv, DraftTypeOK, KnownInv, CreatesOnce
<1> QED BY DraftInvariance, <1>1, PTL

(* What the author typed and the document does not have stays in the form or *)
(* in the recovery copy until it is seen saved or given up (sync, attach and *)
(* merge of drafts.js), for any number of losses, reloads and retries.       *)
THEOREM NothingTypedIsLost == DraftSpec => EditsAreKept
<1> DEFINE Pending(f) == typed[f] # Nothing /\ typed[f] = Held.params[f] /\ typed[f] # Held.base[f]
<1>1. ASSUME DraftInv, [DraftNext]_draftVars, NEW f \in Fields, Pending(f)
      PROVE  typed'[f] = Nothing \/ typed'[f] = Held'.params[f]
  <2>0. /\ OnScreen => typed[f] = form[f] /\ form[f] # base[f]
        /\ ~OnScreen => copy # Nothing /\ typed[f] = copy.params[f] /\ copy.params[f] # copy.base[f]
        /\ OnScreen' => Held'.params = form'
        /\ ~OnScreen' /\ copy' # Nothing => Held'.params = copy'.params
    BY <1>1 DEF Held, Nowhere
  <2>t. form \in Params /\ typed \in [Fields -> Values \cup {Nothing}]
    BY <1>1 DEF DraftInv, DraftTypeOK
  <2>1. ASSUME UNCHANGED <<typed, form, copy>>, OnScreen' <=> OnScreen
        PROVE  typed'[f] = Held'.params[f]
    BY <2>0, <2>1
  <2>2. ASSUME NEW g \in Fields, NEW v \in Values, Type(g, v) PROVE typed'[f] = Held'.params[f]
    <3>1. /\ form' = [form EXCEPT ![g] = v] /\ typed' = [typed EXCEPT ![g] = v] /\ OnScreen /\ OnScreen'
      BY <2>2 DEF Type, OnScreen
    <3>2. typed'[f] = form'[f]
      BY <2>0, <2>t, <3>1 DEF Params
    <3> QED BY <2>0, <3>1, <3>2
  <2>3. ASSUME StartSync \/ Save PROVE typed'[f] = Held'.params[f]
    <3>1. OnScreen /\ OnScreen' /\ UNCHANGED <<typed, form>>
      BY <2>3 DEF StartSync, Save, Sync, OnScreen
    <3> QED BY <2>0, <3>1
  <2>4. ASSUME Attach PROVE typed'[f] = Nothing \/ typed'[f] = Held'.params[f]
    <3>1. copy # Nothing /\ typed[f] = copy.params[f] /\ copy.params[f] # copy.base[f]
      BY <1>1, <2>0, <2>4 DEF Attach, OnScreen, DraftInv, KeptInv
    <3>2. PICK asked : asked = Asked(copy.base, copy.params, answer.params)
      OBVIOUS
    <3>3. PICK givenUp :
            /\ form' = Merge(copy.base, copy.params, answer.params, givenUp)
            /\ typed' = TypedAfter(asked, givenUp, copy.params, form', answer.params)
      BY <2>4, <3>1, <3>2 DEF Attach
    <3>4. typed'[f] = Nothing \/ typed'[f] = form'[f]
      BY <3>1, <3>2, <3>3, MergeKeeps
    <3>5. OnScreen'
      BY <2>4 DEF Attach, OnScreen
    <3> QED BY <2>0, <3>4, <3>5
  <2>5. ASSUME Got PROVE typed'[f] = Nothing \/ typed'[f] = Held'.params[f]
    <3>1. OnScreen /\ OnScreen'
      BY <2>5 DEF Got, OnScreen, Settle
    <3>2. PICK before : before = IF answer.rev # docRev THEN base ELSE answer.params
      OBVIOUS
    <3>3. before = base
      BY <1>1, <2>5, <3>2 DEF Got, DraftInv, RevInv
    <3>4. PICK asked : asked = Asked(before, form, answer.params)
      OBVIOUS
    <3>5. PICK givenUp :
            /\ form' = Merge(before, form, answer.params, givenUp)
            /\ typed' = TypedAfter(asked, givenUp, form, form', answer.params)
      BY <2>5, <3>2, <3>4 DEF Got
    <3>6. typed'[f] = Nothing \/ typed'[f] = form'[f]
      BY <2>0, <3>1, <3>3, <3>4, <3>5, MergeKeeps
    <3> QED BY <2>0, <3>1, <3>6
  <2>6. ASSUME Patched PROVE typed'[f] = Nothing \/ typed'[f] = Held'.params[f]
    <3>1. /\ typed' = TypedAfter({}, {}, form, form, answer.params) /\ form' = form
          /\ OnScreen /\ OnScreen'
      BY <2>6 DEF Patched, OnScreen, Settle, Retry
    <3>2. typed'[f] = Nothing \/ typed'[f] = typed[f]
      BY <3>1 DEF TypedAfter
    <3> QED BY <2>0, <3>1, <3>2
  <2>7. ASSUME Refused \/ ServePatch \/ ServePublish \/ Lose PROVE typed'[f] = Held'.params[f]
    <3>1. OnScreen /\ OnScreen' /\ UNCHANGED <<typed, form>>
      BY <2>7 DEF Refused, ServePatch, ServePublish, Lose, Retry, OnScreen
    <3> QED BY <2>0, <3>1
  <2>8. ASSUME Reload PROVE typed'[f] = Held'.params[f]
    <3>1. OnScreen /\ ~OnScreen' /\ UNCHANGED <<typed, copy>>
      BY <2>8 DEF Reload, OnScreen
    <3>2. copy # Nothing /\ copy.params[f] = form[f]
      BY <1>1, <2>0, <3>1 DEF DraftInv, KeptInv
    <3> QED BY <2>0, <3>1, <3>2
  <2>9. ASSUME Look PROVE typed'[f] = Held'.params[f]
    BY <2>1, <2>9 DEF Look, OnScreen
  <2>10. ASSUME UNCHANGED tabVars PROVE typed'[f] = Held'.params[f]
    BY <2>1, <2>10 DEF tabVars, OnScreen
  <2> QED BY <1>1, <2>2, <2>3, <2>4, <2>5, <2>6, <2>7, <2>8, <2>9, <2>10
          DEF DraftNext, AgentUpdate, AgentRead, ServeLate, draftVars
<1>2. DraftInv /\ [DraftNext]_draftVars =>
        [\A f \in Fields :
           typed[f] # Nothing /\ typed[f] = Held.params[f] /\ typed[f] # Held.base[f] =>
             typed'[f] = Nothing \/ typed'[f] = Held'.params[f]]_draftVars
  BY <1>1
<1> QED BY DraftInvariance, <1>2, PTL DEF DraftSpec, EditsAreKept

(* A PATCH changes only fields whose value the author saw and typed over or  *)
(* put aside, and what a save publishes is what the form shows, whatever the *)
(* agent, lost answers and late requests do meanwhile (merge of drafts.js,   *)
(* httpPublishDraft, the revision check of patchDraft).                      *)
THEOREM NothingUnseenIsOverwritten == DraftSpec => OverwritesKnowingly
<1>1. ASSUME DraftInv, ServePatch, NEW f \in Fields, params'[f] # params[f]
      PROVE  params[f] \in shown[f]
  <2>1. phase = "patching" /\ sent.rev = rev /\ params' = Applied(sent.edit)
    BY <1>1 DEF ServePatch, PatchDraft
  <2>2. f \in DOMAIN sent.edit
    BY <1>1, <2>1 DEF Applied, DraftInv, DraftTypeOK, Params
  <2>3. base = params
    BY <1>1, <2>1 DEF DraftInv, RevInv
  <2> QED BY <1>1, <2>1, <2>2, <2>3 DEF DraftInv, ShownInv
<1>2. ASSUME DraftInv, [DraftNext]_draftVars, phase = "publishing", <<engine, created>>' # <<engine, created>>
      PROVE  params = form
  <2>1. (\E m \in late : ServeLate(m)) \/ ServePublish
    BY <1>2 DEF DraftNext, draftVars, docVars, Type, AgentUpdate, StartSync, Save, Sync, Look, Attach, Got,
                Patched, Refused, ServePatch, Lose, Reload, AgentRead
  <2>2. docRev = rev
    <3>1. ASSUME NEW r, NEW outcome \in Publications(r), PublishDraft(outcome) PROVE r = rev
      <4>1. outcome # "refused"
        BY <1>2, <3>1 DEF PublishDraft, docVars
      <4> QED BY <3>1, <4>1, PublicationsAre
    <3>2. CASE ServePublish
      BY <3>1, <3>2 DEF ServePublish
    <3>3. ASSUME NEW m \in late, ServeLate(m) PROVE docRev = rev
      <4>1. m.rev = rev
        BY <1>2, <3>1, <3>3 DEF ServeLate
      <4>2. m.rev <= docRev /\ docRev <= rev /\ docRev \in Nat /\ rev \in Nat
        BY <1>2, <3>3 DEF DraftInv, RevInv, OnScreen, DraftTypeOK
      <4> QED BY <4>1, <4>2
    <3> QED BY <2>1, <3>2, <3>3
  <2> QED BY <1>2, <2>2 DEF DraftInv, RevInv, KeptInv
<1>3. DraftInv /\ [DraftNext]_draftVars =>
        [/\ ServePatch => \A f \in Fields : params'[f] # params[f] => params[f] \in shown[f]
         /\ phase = "publishing" /\ <<engine, created>>' # <<engine, created>> => params = form]_draftVars
  BY <1>1, <1>2
<1> QED BY DraftInvariance, <1>3, PTL DEF DraftSpec, OverwritesKnowingly

===============================================================================
