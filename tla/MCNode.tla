------------------------------- MODULE MCNode -------------------------------
(* A node with two serials and a clock of a few ticks.                     *)
EXTENDS Node, TLC

SerialSymmetry == Permutations(Serials)
=============================================================================
