----------------------------- MODULE MCCmdGate -----------------------------
(* CmdGate with one sequence thread and two hold threads.                  *)
EXTENDS CmdGate, TLC

Symmetry == Permutations(Holds)
=============================================================================
