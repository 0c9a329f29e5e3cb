------------------------------- MODULE MCChat -------------------------------
(* Chat on a screen two characters wide, with texts that have full rows,    *)
(* empty lines, unfinished lines and lines of control characters.           *)
EXTENDS Chat

A == "letter"
NL == "newline"
CTL == "control"

MCTexts == {<<A, A, NL, NL>>, <<A, A, A, NL>>, <<NL, CTL, NL, A>>, <<A, NL, A, CTL>>}
MCHello == {<<A, A, A>>}
=============================================================================
