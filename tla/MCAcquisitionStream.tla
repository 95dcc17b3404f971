------------------------ MODULE MCAcquisitionStream ------------------------
(***************************************************************************)
(* AcquisitionStream on a ring of one or two slots and two frequencies.    *)
(* The stream ends at MaxIndex, so the system may stop.                    *)
(***************************************************************************)
EXTENDS AcquisitionStream, TLC

CONSTANTS f1, f2

Symmetry == Permutations(Centres)
=============================================================================
