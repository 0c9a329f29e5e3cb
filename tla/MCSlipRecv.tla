---------------------------- MODULE MCSlipRecv -----------------------------
(* Packets with every special byte, an escape code as plain data, and one   *)
(* that is longer than the buffer.                                          *)
EXTENDS SlipRecv

MCPackets == {<<"d", END>>, <<ESC, ESC_END>>, <<ZER, "d", "d">>}
=============================================================================
