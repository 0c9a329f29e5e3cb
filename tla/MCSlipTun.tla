----------------------------- MODULE MCSlipTun -----------------------------
(* A packet with an escaped byte, and one that is longer than the MTU and   *)
(* whose tail looks like a packet.                                          *)
EXTENDS SlipTun

MCPackets == {<<"v4", END>>, <<"v4", "v4", "v4">>}
=============================================================================
