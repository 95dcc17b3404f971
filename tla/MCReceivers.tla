---------------------------- MODULE MCReceivers -----------------------------
(* The direct receivers with two buffers in flight, and a USRP whose        *)
(* packets are longer than a chunk.                                        *)
EXTENDS Receivers
=============================================================================
