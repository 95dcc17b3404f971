---------------------------- MODULE MCRingSweep ----------------------------
(***************************************************************************)
(* RingSweep with three sources, which are interchangeable.  Each is       *)
(* opened once, so the system may stop.                                    *)
(***************************************************************************)
EXTENDS RingSweep, TLC

CONSTANTS s1, s2, s3

Symmetry == Permutations(Sources)
=============================================================================
