----------------------------- MODULE MCSikLink ------------------------------
EXTENDS SikLink

Msg(ver, known, signed, body) ==
    [ver |-> ver, known |-> known, signed |-> signed, body |-> body]

(* A short and a signed message; one nobody can verify before one that can; *)
(* one whose payload holds a start byte with a short length behind it, and  *)
(* one with a long length.                                                  *)
MCStreams ==
    {<<Msg("v1", TRUE, FALSE, <<7>>), Msg("v2", TRUE, TRUE, <<8>>)>>,
     <<Msg("v1", FALSE, FALSE, <<>>), Msg("v1", TRUE, FALSE, <<7, 8>>)>>,
     <<Msg("v1", TRUE, FALSE, <<254, 0>>), Msg("v1", TRUE, FALSE, <<>>)>>,
     <<Msg("v1", TRUE, FALSE, <<253, 9, 7>>)>>}
=============================================================================
