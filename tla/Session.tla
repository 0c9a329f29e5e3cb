------------------------------ MODULE Session ------------------------------
(***************************************************************************)
(* The polling loop that tcp_chat.c and irc.c have in common: poll_net(),  *)
(* and the draining send of send_input() and o_send(), over a connection   *)
(* that is already set up.  The two programs add what they do with the     *)
(* data and with the keyboard.                                             *)
(*                                                                         *)
(* tcp.c (module Tcp) appears as what its callers see.  A segment of ours  *)
(* is heard by the server or lost.  Of the server's segments, anything it  *)
(* has sent may arrive, now or again, while we sit in tcp_recv_timeout():  *)
(* the serial port has no buffer, so a segment that does not arrive then   *)
(* is lost.                                                                *)
(***************************************************************************)
EXTENDS Integers, Sequences, FiniteSets

CONSTANTS
    Texts,      \* what the server may have to say: sequences of characters
    RxWindow,   \* RX_WINDOW
    Drains      \* polls before a send (3)

ASSUME SessionAssumption ==
    /\ RxWindow \in Nat \ {0} /\ Drains \in Nat \ {0}
    /\ Texts \subseteq Seq(STRING)

VARIABLES
    text,             \* what this server says
    una, nxt, edge,   \* server: acknowledged, sent, end of its send window
    peer,             \* server: "up", "fin" (hung up) or "gone" (reset)
    got,              \* tcp->ack, counted from the server's first byte
    mode,             \* where the program is
    drains,           \* polls left in the loop before tcp_send()
    framed,           \* recv_packet() has seen an END and waits for the frame
    window_open,
    offered           \* the window in the last segment we sent

connection == <<text, una, nxt, edge, peer>>
program    == <<mode, drains, framed, window_open>>
session    == <<connection, program, got, offered>>

-----------------------------------------------------------------------------
(* The server (external) *)

peer_send(n) ==
    /\ peer # "gone"
    /\ n > nxt /\ n <= edge /\ n <= Len(text)
    /\ nxt' = n
    /\ UNCHANGED <<text, una, edge, peer, program, got, offered>>

(* The FIN comes after the last byte.  Like a byte it is only sent into an  *)
(* open window; a server that knows of none keeps it, and sends probes.     *)
peer_close(how) ==
    /\ \/ how = "fin" /\ peer = "up" /\ nxt = Len(text) /\ edge > nxt
       \/ how = "gone" /\ peer # "gone"
    /\ peer' = how
    /\ UNCHANGED <<text, una, nxt, edge, program, got, offered>>

Server ==
    \/ \E n \in 1 .. Len(text) : peer_send(n)
    \/ \E how \in {"fin", "gone"} : peer_close(how)

may_fin(end, fin) == fin => peer = "fin" /\ end = Len(text)

(* What may arrive: bytes sent and not known to be acknowledged, cut        *)
(* anywhere, a pure ACK, the FIN, or a zero window probe.  What was sent is *)
(* repeated although the window has been closed since.                      *)
segments ==
    {s \in [pos : una .. nxt, len : 0 .. nxt - una, fin : BOOLEAN] :
        s.pos + s.len <= nxt /\ may_fin(s.pos + s.len, s.fin)}
    \cup {[pos |-> una - 1, len |-> 0, fin |-> FALSE]}

-----------------------------------------------------------------------------
(* tcp.c as the programs see it *)

(* A segment with ACK number a and window w, which the server may miss. *)
transmit(a, w) ==
    /\ offered' = w
    /\ \/ UNCHANGED <<una, edge>>
       \/ una' = a /\ edge' = a + w
    /\ UNCHANGED <<text, nxt, peer>>

silent == UNCHANGED <<connection, offered>>

is_probe(s) == s.pos + 1 = got /\ s.len = 0

(* In tcp_recv_timeout(), that is in recv_packet(). *)
waiting == mode \in {"recv", "wait"} \/ (mode = "drain" /\ drains > 0)

(* recv_packet() reads an END, that of a frame whose start was lost or that *)
(* of one whose rest is lost.  From here on it has no timeout: only a whole *)
(* frame gets it out.                                                       *)
frame_begins ==
    /\ waiting /\ ~framed /\ framed' = TRUE
    /\ silent /\ UNCHANGED <<got, mode, drains, window_open>>

(* The frame is there and the wait begins again: a probe is ignored, and    *)
(* tcp_send() sends again after a packet that is not for us.                *)
frame_ends ==
    /\ framed /\ framed' = FALSE
    /\ mode = "wait" \/ \E s \in segments : is_probe(s)
    /\ silent /\ UNCHANGED <<got, mode, drains, window_open>>

(* tcp_recv_timeout() returns > 0: it has ACKed the data, window closed. *)
new_data(s) ==
    /\ s.len > 0 /\ s.pos >= got
    /\ got' = s.pos + s.len
    /\ transmit(got', 0)
    /\ framed' = FALSE

(* tcp_recv_timeout() returns 0: a bare segment, or data seen before. *)
no_data(s) ==
    /\ s.len = 0 \/ s.pos < got
    /\ ~is_probe(s)
    /\ silent /\ UNCHANGED got
    /\ framed' = FALSE

(* -EAGAIN: silence outside a frame, or a packet that is not for us. *)
timed_out == silent /\ UNCHANGED got /\ framed' = FALSE

(* -ERESET *)
was_reset == peer = "gone" /\ silent /\ UNCHANGED got /\ framed' = FALSE
-----------------------------------------------------------------------------
(* poll_net() *)

poll_open ==
    /\ mode = "poll" /\ mode' = "recv"
    /\ IF window_open THEN silent ELSE transmit(got, RxWindow)
    /\ window_open' = TRUE
    /\ UNCHANGED <<drains, framed, got>>

poll_again(next) ==
    /\ mode = "recv" /\ mode' = next
    /\ timed_out
    /\ UNCHANGED <<drains, window_open>>

poll_reset ==
    /\ mode = "recv" /\ mode' = "end"
    /\ was_reset
    /\ UNCHANGED <<drains, window_open>>

(* A plausible bug: the window that the ACK has closed is not opened again. *)
poll_data_forgets(s, next) ==
    /\ mode = "recv" /\ mode' = next
    /\ new_data(s)
    /\ UNCHANGED <<drains, window_open>>

poll_data(s, next) ==
    /\ mode = "recv" /\ mode' = next
    /\ new_data(s)
    /\ window_open' = FALSE
    /\ UNCHANGED drains

(* A plausible bug: a FIN counts only when it follows everything received.  *)
hung_up_exactly(s) == s.fin /\ s.pos = got

(* Another: the peek tests a bit that every segment has.                    *)
hung_up_always(s) == TRUE

(* The peek at the flags in the packet buffer. *)
hung_up(s) == s.fin

poll_nodata(s, next) ==
    /\ mode = "recv" /\ mode' = IF hung_up(s) THEN "end" ELSE next
    /\ no_data(s)
    /\ UNCHANGED <<drains, window_open>>
-----------------------------------------------------------------------------
(* send_input() and o_send(): close the window, drain, send and wait.       *)

send_begin ==
    /\ mode' = "drain" /\ drains' = Drains /\ window_open' = FALSE
    /\ transmit(got, 0)
    /\ UNCHANGED <<framed, got>>

drained == mode = "drain" /\ drains > 0 /\ drains' = drains - 1 /\ UNCHANGED <<mode, window_open>>

drain_data(s) == drained /\ new_data(s)

drain_nodata ==
    /\ drained
    /\ timed_out \/ was_reset \/ \E s \in segments : no_data(s)

(* tcp_send() with the line, up to the wait for an answer. *)
send_line ==
    /\ mode = "drain" /\ drains = 0 /\ mode' = "wait"
    /\ transmit(got, 0)
    /\ UNCHANGED <<got, drains, framed, window_open>>

(* tcp_send() returns 0: any answer ends it, data in the answer is dropped. *)
send_ok(next) ==
    /\ mode = "wait" /\ mode' = next
    /\ \E s \in segments : no_data(s) \/ new_data(s)
    /\ window_open' = FALSE
    /\ UNCHANGED drains

(* tcp_send() returns < 0: no answer to the last retry, or a reset. *)
send_failed(next) ==
    /\ mode = "wait" /\ mode' = next
    /\ timed_out \/ was_reset
    /\ window_open' = FALSE
    /\ UNCHANGED drains

send_end(next) == send_ok(next) \/ send_failed(next)
-----------------------------------------------------------------------------
SessionInit ==
    /\ text \in Texts
    /\ una = 0 /\ nxt = 0 /\ edge = 0 /\ peer = "up"
    /\ got = 0 /\ offered = 0
    /\ drains = 0 /\ framed = FALSE /\ window_open = FALSE

SessionTypeOK ==
    /\ text \in Texts
    /\ una \in 0 .. nxt /\ nxt \in 0 .. Len(text) /\ edge \in 0 .. Len(text) + RxWindow
    /\ peer \in {"up", "fin", "gone"}
    /\ got \in 0 .. nxt
    /\ drains \in 0 .. Drains /\ framed \in BOOLEAN /\ window_open \in BOOLEAN
    /\ offered \in {0, RxWindow}
=============================================================================
