----------------------------- MODULE MCShmRing -----------------------------
(***************************************************************************)
(* ShmRing on small rings.  A call that finds nothing new returns None and *)
(* changes nothing, so a consumer that has caught up with a stopped or     *)
(* dead producer polls for ever: the state is a legal end.                 *)
(***************************************************************************)
EXTENDS ShmRing
=============================================================================
