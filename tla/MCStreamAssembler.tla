------------------------ MODULE MCStreamAssembler -------------------------
(***************************************************************************)
(* StreamAssembler on short streams.  The consumer's loop ends for good    *)
(* when read_window returns None, so the system may stop.                  *)
(***************************************************************************)
EXTENDS StreamAssembler

AllGaps == {0, 1, Unknown}
NoGaps  == {0}
=============================================================================
