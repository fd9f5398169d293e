--------------------------- MODULE MCCalculations ---------------------------
EXTENDS Calculations, TLC

CONSTANTS p1, p2, e1, e2

\* The tabs are alike, and so are the edits.
Symmetry == Permutations(Pages) \cup Permutations(Edits)
=============================================================================
