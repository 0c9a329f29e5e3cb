----------------------------- MODULE SlipCodec -----------------------------
(***************************************************************************)
(* The SLIP encoding of slip.c and slip-tun.c, built with SLIP_ESC_00.     *)
(* A byte is known by its name; every byte without a role of its own is a  *)
(* string that is not one of the names below.                              *)
(***************************************************************************)
EXTENDS Integers, Sequences, SequencesExt, FiniteSetsExt

END == "END"
ESC == "ESC"
ZER == "ZER"
ESC_END == "ESC_END"
ESC_ESC == "ESC_ESC"
ESC_ZER == "ESC_ZER"

(* All bytes, the ones with a role among them. *)
Bytes == STRING \cup {END, ESC, ZER, ESC_END, ESC_ESC, ESC_ZER}

escapes ==
    [b \in {END, ESC, ZER} |->
        CASE b = END -> ESC_END [] b = ESC -> ESC_ESC [] b = ZER -> ESC_ZER]
escape_codes == {escapes[b] : b \in DOMAIN escapes}
unescape(c) == CHOOSE b \in DOMAIN escapes : escapes[b] = c

(* One byte of a packet on the line. *)
stuff(b) == IF b \in DOMAIN escapes THEN <<ESC, escapes[b]>> ELSE <<b>>

(* A whole packet on the line, as send_packet() and slip_encode() put it.   *)
frame_of(packet) ==
    <<END>> \o FlattenSeq([i \in 1 .. Len(packet) |-> stuff(packet[i])]) \o <<END>>
=============================================================================
