------------------------ MODULE MCSessionRecorder -------------------------
(***************************************************************************)
(* SessionRecorder on short sessions.  When the session is finalised, or   *)
(* the process has been killed, nothing is left to do.                     *)
(***************************************************************************)
EXTENDS SessionRecorder

Plausible == [size |-> 1, keep |-> TRUE, png |-> TRUE, decodes |-> FALSE]
Decoded   == [size |-> 1, keep |-> TRUE, png |-> FALSE, decodes |-> TRUE]
Noise     == [size |-> 1, keep |-> FALSE, png |-> FALSE, decodes |-> FALSE]

AllKinds == {Plausible, Decoded, Noise}
=============================================================================
