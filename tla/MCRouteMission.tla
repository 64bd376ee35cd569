-------------------------- MODULE MCRouteMission --------------------------
(* RouteMission for TLC. *)
EXTENDS RouteMission, TLC
CONSTANTS w1, w2, t1
Symmetry == Permutations({w1, w2})
=============================================================================
