------------------------------- MODULE MCGameLog -------------------------------
EXTENDS GameLog

CONSTANTS a, b

FamilyDef == [l \in Levels |-> "x.0"]
LimitDef == [l \in Levels |-> IF l = "2.0" THEN 2 ELSE 1]

\* The teams are alike.
Symmetry == Permutations(Teams)
================================================================================
