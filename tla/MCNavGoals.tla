----------------------------- MODULE MCNavGoals -----------------------------
(* NavGoals with interchangeable goals.                                    *)
EXTENDS NavGoals, TLC

Symmetry == Permutations(Goals)
=============================================================================
