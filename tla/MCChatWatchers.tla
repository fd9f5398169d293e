---------------------------- MODULE MCChatWatchers ----------------------------
(* Instances of ChatWatchers for TLC.  The liveness property is about the    *)
(* web program alone, in which the chats and runs of the terminal stand      *)
(* still, so it may be checked under their symmetry.                         *)
EXTENDS ChatWatchers, TLC
TerminalSymmetry == Permutations(Talks) \cup Permutations(Turns)
=============================================================================
