----------------------------- MODULE MCConsole -----------------------------
(* Numbers of base three, bytes that hold 0 to 3 and words that hold 0 to   *)
(* 7, so that lines of five characters overflow both; addresses whose sum   *)
(* carries at the first and at the second fold of the checksum; log lines   *)
(* that are empty, short, as wide as the screen and wider.                  *)
EXTENDS Console

MCAddresses == {0, 514, 55225, 65535} \X {0, 514, 55225, 65535}
MCDigits == <<"0", "1", "2">>
MCKeys == [ip      |-> {"0", "1", "2", ".", "x"},
           port    |-> {"0", "2", "x"},
           nick    |-> {"x", " "},
           channel |-> {"#", "x", " "}]
MCTexts == {<<>>, <<"x">>, <<"y", "y", "y", "y">>, <<"z", "tab", "ctl", "z", "z", "z">>}
MCPrefix == <<"<">>
=============================================================================
