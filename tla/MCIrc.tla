-------------------------------- MODULE MCIrc --------------------------------
(* Irc against a server that welcomes the client and pings it, with a line  *)
(* longer than the buffer.                                                  *)
EXTENDS Irc

MCTexts == {<<"P1", "newline", "001", "newline">>,
            <<"P1", "newline", "P2", "newline">>,
            <<"001", "more", "newline">>}

(* The argument of P2 does not fit into pong_arg[]. *)
MCKept == ("P1" :> "P1") @@ ("P2" :> "P2 cut")
=============================================================================
