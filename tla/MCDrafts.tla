------------------------------ MODULE MCDrafts ------------------------------
(* Instances of Drafts for TLC. *)
EXTENDS Drafts, TLC

\* Empty is the initial value; the fields, and the texts typed into them, are alike.
DraftSymmetry == Permutations(Fields) \cup Permutations(Values \ {Empty})

=============================================================================
