----------------------------- MODULE Conversation -----------------------------
(***************************************************************************)
(* What the chat store promises of every chat, whatever the goroutines and  *)
(* handlers around it do: the user and the model take turns. While the      *)
(* model is answering nobody adds to the log, so the answer is appended to  *)
(* exactly what the model was told, and nothing said is ever lost.          *)
(* ChatRuns implements this specification.                                  *)
(***************************************************************************)
CONSTANTS Chats, Runs, NoRun

VARIABLES
    log,    \* what was said in a chat: <<r, "user">> and <<r, "assistant">>
    turn    \* the run that is answering in a chat, or NoRun

vars == <<log, turn>>

Init ==
    /\ log = [c \in Chats |-> {}]
    /\ turn = [c \in Chats |-> NoRun]

\* The user speaks, between the model's turns only.
Say(c, r) ==
    /\ turn[c] = NoRun
    /\ log' = [log EXCEPT ![c] = @ \cup {<<r, "user">>}]
    /\ UNCHANGED turn

\* The model takes the turn to answer a message that was said in this chat.
TakeTurn(c, r) ==
    /\ turn[c] = NoRun
    /\ <<r, "user">> \in log[c]
    /\ turn' = [turn EXCEPT ![c] = r]
    /\ UNCHANGED log

\* The answer joins the log the model was answering.
Answer(c) ==
    /\ turn[c] # NoRun
    /\ log' = [log EXCEPT ![c] = @ \cup {<<turn[c], "assistant">>}]
    /\ turn' = [turn EXCEPT ![c] = NoRun]

\* The turn ends without an answer.
GiveUp(c) ==
    /\ turn[c] # NoRun
    /\ turn' = [turn EXCEPT ![c] = NoRun]
    /\ UNCHANGED log

Next == \E c \in Chats : Answer(c) \/ GiveUp(c) \/ \E r \in Runs : Say(c, r) \/ TakeTurn(c, r)

Spec == Init /\ [][Next]_vars

=============================================================================
