----------------------------- MODULE SlipRecv ------------------------------
(***************************************************************************)
(* recv_packet() of slip.c on the serial line that slip-tun.c feeds.       *)
(*                                                                         *)
(* wire holds the bytes that are on their way.  rs232_get() (external)     *)
(* takes the next one or, when the line is silent or stalls, times out and *)
(* leaves its argument alone; recv_packet never looks at its result.  The  *)
(* serial port has no buffer: while the program is not in recv_packet      *)
(* (pc = "away") the bytes that arrive are lost.                           *)
(***************************************************************************)
EXTENDS SlipCodec

CONSTANTS
    Packets,    \* what the host may send
    BufLen,     \* the len argument: size of the packet buffer
    Ticks,      \* the to arguments callers use
    MaxFrames,  \* bound: packets the host sends
    MaxStalls   \* bound: how often the line stalls with bytes under way

ASSUME BufAssumption == BufLen \in Nat \ {0} /\ Ticks \subseteq Nat \ {0}
ASSUME FramesAssumption ==
    /\ MaxFrames \in Nat /\ MaxStalls \in Nat
    /\ Packets \subseteq Seq(Bytes) /\ \A packet \in Packets : packet # <<>>

VARIABLES
    pc,         \* "away", "hunt" (first loop), "body" (second), "esc" (inner get)
    c, to, p,   \* locals of recv_packet; received is Len(p)
    wire,       \* the line
    sent, got,  \* packets the host sent, packets recv_packet returned
    stalls,     \* how often the line has stalled
    stalled,    \* did it stall within the frame being read?
    hurt        \* places in got of the packets it stalled in

line == <<stalls, stalled, hurt>>
vars == <<pc, c, to, p, wire, sent, got, line>>

(* slip-tun.c hands over a whole frame at once: with at most PIPE_BUF bytes  *)
(* a write to the fifo is not split.                                        *)
host_send(packet) ==
    /\ Len(sent) < MaxFrames
    /\ sent' = Append(sent, packet)
    /\ wire' = wire \o frame_of(packet)
    /\ UNCHANGED <<pc, c, to, p, got, line>>

lose_byte ==
    /\ pc = "away" /\ wire # <<>>
    /\ wire' = Tail(wire)
    /\ UNCHANGED <<pc, c, to, p, sent, got, line>>

(* A plausible bug: reading starts without waiting for a frame border.      *)
recv_packet_unsynced(t) ==
    /\ pc = "away"
    /\ pc' = "body" /\ c' = ZER /\ to' = t /\ p' = <<>> /\ stalled' = FALSE
    /\ UNCHANGED <<wire, sent, got, stalls, hurt>>

recv_packet(t) ==
    /\ pc = "away"
    /\ pc' = "hunt" /\ c' = ZER /\ to' = t /\ p' = <<>> /\ stalled' = FALSE
    /\ UNCHANGED <<wire, sent, got, stalls, hurt>>

(* The value of c after rs232_get(&c): the next byte or, after a timeout,   *)
(* the byte before, which is then taken for one that was received again.    *)
rs232_get ==
    \/ wire # <<>> /\ c' = Head(wire) /\ wire' = Tail(wire) /\ UNCHANGED <<stalls, stalled>>
    \/ wire = <<>> /\ UNCHANGED <<c, wire, stalls, stalled>>
    \/ /\ wire # <<>> /\ stalls < MaxStalls
       /\ stalls' = stalls + 1
       /\ stalled' = (stalled \/ (pc # "hunt" /\ c # END))
       /\ UNCHANGED <<c, wire>>

(* A plausible bug: only bytes count, not timeouts.                         *)
tick_bytes == to' = IF wire = <<>> THEN to ELSE to - 1

tick == to' = to - 1

(* while (--to): a byte other than END costs as much as a timeout.          *)
hunt ==
    /\ pc = "hunt"
    /\ tick
    /\ \/ to' = 0 /\ pc' = "away" /\ UNCHANGED <<c, wire, stalls, stalled>>
       \/ to' > 0 /\ rs232_get /\ pc' = IF c' = END THEN "body" ELSE "hunt"
    /\ UNCHANGED <<p, sent, got, hurt>>

(* A plausible bug: no check for room in the buffer.                        *)
store_unchecked(b) == p' = Append(p, b)

store(b) == p' = IF Len(p) < BufLen THEN Append(p, b) ELSE p

(* A plausible bug: a packet that fills the buffer is not returned.         *)
complete_if_room == p # <<>> /\ Len(p) < BufLen

complete == p # <<>>

(* The second loop has no timeout of its own. *)
body ==
    /\ pc = "body"
    /\ rs232_get
    /\ \/ /\ c' = END /\ complete
          /\ pc' = "away" /\ got' = Append(got, p)
          /\ hurt' = IF stalled THEN hurt \cup {Len(got')} ELSE hurt
          /\ UNCHANGED p
       \/ c' = END /\ ~complete /\ UNCHANGED <<pc, p, got, hurt>>
       \/ c' = ESC /\ pc' = "esc" /\ UNCHANGED <<p, got, hurt>>
       \/ c' \notin {END, ESC} /\ store(c') /\ UNCHANGED <<pc, got, hurt>>
    /\ UNCHANGED <<to, sent>>

(* The byte after ESC; one that is no escape code is dropped. *)
esc ==
    /\ pc = "esc"
    /\ rs232_get
    /\ pc' = "body"
    /\ IF c' \in escape_codes THEN store(unescape(c')) ELSE UNCHANGED p
    /\ UNCHANGED <<to, sent, got, hurt>>

Init ==
    /\ pc = "away" /\ c = ZER /\ to = 0 /\ p = <<>>
    /\ wire = <<>> /\ sent = <<>> /\ got = <<>>
    /\ stalls = 0 /\ stalled = FALSE /\ hurt = {}

Next ==
    \/ \E packet \in Packets : host_send(packet)
    \/ lose_byte
    \/ \E t \in Ticks : recv_packet(t)
    \/ hunt
    \/ body
    \/ esc

(* rs232_get() always comes back, so the loops of recv_packet keep turning. *)
Fairness == WF_vars(hunt) /\ WF_vars(body) /\ WF_vars(esc)

Spec == Init /\ [][Next]_vars /\ Fairness
-----------------------------------------------------------------------------
(* Properties *)

(* The packet buffer is never overrun, whatever lands on the line.          *)
TypeOK ==
    /\ pc \in {"away", "hunt", "body", "esc"}
    /\ c \in Bytes /\ \E t \in Ticks \cup {0} : to \in 0 .. t
    /\ p \in Seq(Bytes) /\ Len(p) <= BufLen
    /\ wire \in Seq(Bytes)
    /\ sent \in Seq(Packets) /\ Len(sent) <= MaxFrames
    /\ got \in Seq(Seq(Bytes))
    /\ stalls \in 0 .. MaxStalls /\ stalled \in BOOLEAN /\ hurt \subseteq DOMAIN got

truncate(packet) == SubSeq(packet, 1, Min({BufLen, Len(packet)}))

(* However the program's absences cut into the byte stream, recv_packet     *)
(* returns only packets that were sent, whole (or cut at the buffer's end), *)
(* in the order they were sent and none of them twice: it finds its way     *)
(* back to a frame border from the middle of any frame.  A line that stalls *)
(* makes it store a byte twice or misread an escape, but this damages only  *)
(* the packet it happens in: no border is missed and none is made up.       *)
ReturnsSentPackets ==
    \E f \in [DOMAIN got -> DOMAIN sent] :
        /\ \A i, j \in DOMAIN got : i < j => f[i] < f[j]
        /\ \A i \in DOMAIN got \ hurt : got[i] = truncate(sent[f[i]])

(* A frame that is complete on the line when recv_packet has found a border *)
(* ends the call.                                                           *)
FrameEndsCall ==
    (pc = "body" /\ \E i \in DOMAIN wire : wire[i] # END) ~> pc = "away"

(* The only place a call can stay forever is the border itself, on a silent *)
(* line: never in the hunt and never inside a frame.                        *)
StopsOnlyAtBorder ==
    pc # "away" ~> (pc = "away" \/ (pc = "body" /\ p = <<>> /\ wire = <<>>))

(* The documentation of tcp_recv, which waits in recv_packet: "If no packet *)
(* has arrived after ~1s the function will timeout with -EAGAIN."           *)
AlwaysReturns == pc # "away" ~> pc = "away"
=============================================================================
