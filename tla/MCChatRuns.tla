------------------------------ MODULE MCChatRuns ------------------------------
(* Instances of ChatRuns for TLC. *)
EXTENDS ChatRuns

\* The policies under which a tool that changes the game may run.
Letting == {"approve", "full"}

=============================================================================
