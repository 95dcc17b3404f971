-------------------------- MODULE MCProcessSource --------------------------
(***************************************************************************)
(* ProcessSource with a few chunks and tune() calls.  After close() the    *)
(* source is finished, so the system may stop.                             *)
(***************************************************************************)
EXTENDS ProcessSource
=============================================================================
