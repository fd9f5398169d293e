----------------------------- MODULE MCChatFiles -----------------------------
(* Instances of ChatFiles for TLC. *)
EXTENDS ChatFiles, TLC

SaveSymmetry == Permutations(Saves)

=============================================================================
