-------------------------------- MODULE Tcp --------------------------------
(***************************************************************************)
(* The TCP client of tcp.c: tcp_connect, tcp_send, tcp_recv and            *)
(* tcp_recv_timeout, called in any order by an application, against an     *)
(* ordinary TCP server (external, modelled from what tcp.c relies on) over *)
(* a network that loses, duplicates, delays and reorders packets.          *)
(*                                                                         *)
(* The client is one thread of control.  pc = "run" is the application     *)
(* between two calls, pc = "wait" is recv_packet() inside the call named   *)
(* by call, pc = "exit" is a program whose tcp_connect failed.  One packet *)
(* (or the silence) that ends the wait is one action, which runs up to the *)
(* next recv_packet() or the return to the application.                    *)
(*                                                                         *)
(* The network is a growing set in each direction: a packet in the set may *)
(* be delivered at any time, any number of times, or never.                *)
(***************************************************************************)
EXTENDS Integers, Sequences, FiniteSets

CONSTANTS
    SeqMod,      \* number of sequence numbers (2^32 in the code)
    Ports,       \* source ports the client may come to use
    FirstPort,   \* tcp->src_port as the application sets it
    Isn,         \* the server's initial sequence number, by port
    Data,        \* the bytes that the application's messages consist of
    Messages,    \* what the application sends: sequences of bytes
    Garbage,     \* a byte that is in no message
    InPlace,     \* which ways to send are used: TRUE is data == NULL
    Windows,     \* the len arguments of tcp_recv and windows of a pure ACK
    MaxWindow,   \* tcp->ip.pkt_size - 44
    MaxRetries,  \* retransmissions in tcp_send (5)
    MaxConnects, \* attempts in tcp_connect (5)
    StreamLen,   \* bound: bytes the server has to send
    MaxStream,   \* bound: bytes the server takes from the client
    MaxSent,     \* bound: no call is made once the client sent this many segments
    MaxPackets   \* bound: distinct packets the server sends

ASSUME SeqModAssumption == SeqMod \in Nat /\ 2 + MaxStream < SeqMod
ASSUME PortAssumption == FirstPort \in Ports /\ Isn \in [Ports -> 0 .. SeqMod - 1]
ASSUME MessageAssumption ==
    Messages \subseteq Seq(Data) \ {<<>>} /\ Garbage \notin Data
ASSUME WindowAssumption == Windows \subseteq Nat /\ MaxWindow \in Nat \ {0}
ASSUME BoundAssumption ==
    /\ MaxRetries \in Nat /\ MaxConnects \in Nat \ {0}
    /\ StreamLen \in Nat /\ StreamLen < SeqMod /\ MaxStream \in Nat
    /\ InPlace \subseteq BOOLEAN

EAGAIN == -11
ERESET == -20
Bytes == 0 .. StreamLen - 1   \* positions in what the server sends

VARIABLES
    seq, ack, port,             \* the fields of tcp_context_t
    pc, call, rc,               \* where the client is; the last call and result
    tx, oseq, inplace,          \* the data tcp_send was given, and seq then
    overwritten,                \* has a packet been received over that data?
    retries, tries,             \* the loop counters of tcp_send and tcp_connect
    c2p, p2c,                   \* every packet sent to and by the server
    pst, stream, psnd,          \* server: state, bytes received, bytes sent
    delivered,                  \* how often tcp_recv returned each byte
    swallowed                   \* bytes that arrived inside tcp_send

context == <<seq, ack, port>>
control == <<pc, call, rc>>
sending == <<tx, oseq, inplace, overwritten>>
loops   == <<retries, tries>>
server  == <<pst, stream, psnd>>
app     == <<delivered, swallowed>>
vars    == <<context, control, sending, loops, c2p, p2c, server, app>>

(* The header tcp_send() builds: SYN exactly when tcp->seq is 1. *)
tcp_segment(p, q, a, w, d) ==
    [port |-> p, syn |-> q = 1, seq |-> q, ack |-> a, wnd |-> w, data |-> d]

SYN(p) == tcp_segment(p, 1, 0, 1, <<>>)

(* A plausible bug: data is copied before the "again:" label.               *)
payload_copied_once(ow) ==
    IF ow THEN [i \in 1 .. Len(tx) |-> Garbage] ELSE tx

(* What lies at ptr + 20 when the segment is built: the copy of data that   *)
(* is made again for every retransmission or, with data == NULL, whatever   *)
(* the packet buffer holds by now.                                          *)
payload(ow) ==
    IF inplace /\ ow THEN [i \in 1 .. Len(tx) |-> Garbage] ELSE tx

-----------------------------------------------------------------------------
(* The server (external).  Its numbers are modulo SeqMod as well.           *)

prcv(p) == 2 + Len(stream[p])                    \* next byte it expects
seq_of(p, pos) == (Isn[p] + 1 + pos) % SeqMod    \* number of its byte pos
pos_of(p, a) == (a - Isn[p] - 1) % SeqMod        \* byte that number is for

peer_segment(p, a, pos, len) ==
    [port |-> p, syn |-> FALSE, rst |-> FALSE, seq |-> seq_of(p, pos),
     ack |-> a, pos |-> pos, len |-> len]

synack(p) == [peer_segment(p, 2, -1, 0) EXCEPT !.syn = TRUE]
reset(p)  == [peer_segment(p, prcv(p), 0, 0) EXCEPT !.rst = TRUE]

client_unchanged == UNCHANGED <<context, control, sending, loops, c2p, app>>

peer_syn(s) ==
    /\ s.syn
    /\ pst[s.port] = "listen"
    /\ pst' = [pst EXCEPT ![s.port] = "synrcvd"]
    /\ p2c' = p2c \cup {synack(s.port)}
    /\ UNCHANGED <<stream, psnd>> /\ client_unchanged

peer_established(s) ==
    /\ ~s.syn
    /\ pst[s.port] = "synrcvd"
    /\ s.ack = seq_of(s.port, 0)
    /\ pst' = [pst EXCEPT ![s.port] = "established"]
    /\ UNCHANGED <<stream, psnd, p2c>> /\ client_unchanged

(* Data that starts at or before the next byte: take what is new, ACK it.  *)
peer_data(s) ==
    LET p == s.port
        new == SubSeq(s.data, prcv(p) - s.seq + 1, Len(s.data))
    IN  /\ ~s.syn
        /\ pst[p] = "established"
        /\ s.seq <= prcv(p) /\ prcv(p) < s.seq + Len(s.data)
        /\ Len(stream[p]) + Len(new) <= MaxStream
        /\ stream' = [stream EXCEPT ![p] = @ \o new]
        /\ p2c' = p2c \cup {peer_segment(p, prcv(p) + Len(new), psnd[p], 0)}
        /\ UNCHANGED <<pst, psnd>> /\ client_unchanged

(* An ACK for a duplicate, or for a SYN that hits an old connection.        *)
peer_ack(p) ==
    /\ pst[p] = "established"
    /\ p2c' = p2c \cup {peer_segment(p, prcv(p), psnd[p], 0)}
    /\ UNCHANGED server /\ client_unchanged

(* New data, or a retransmission cut at any place, within the window that   *)
(* the segment s advertised.                                                *)
peer_send(s, pos, len) ==
    LET p == s.port
        una == pos_of(p, s.ack)
    IN  /\ ~s.syn
        /\ pst[p] = "established"
        /\ una <= pos /\ pos <= psnd[p]
        /\ pos + len <= una + s.wnd
        /\ psnd' = [psnd EXCEPT ![p] = IF @ < pos + len THEN pos + len ELSE @]
        /\ p2c' = p2c \cup {peer_segment(p, prcv(p), pos, len)}
        /\ UNCHANGED <<pst, stream>> /\ client_unchanged

(* Zero window probe: no data, one below the first byte not yet ACKed.      *)
peer_probe(s) ==
    /\ ~s.syn
    /\ pst[s.port] = "established"
    /\ p2c' = p2c \cup {peer_segment(s.port, prcv(s.port), pos_of(s.port, s.ack) - 1, 0)}
    /\ UNCHANGED server /\ client_unchanged

peer_reset(p) ==
    /\ pst[p] # "closed"
    /\ pst' = [pst EXCEPT ![p] = "closed"]
    /\ p2c' = p2c \cup {reset(p)}
    /\ UNCHANGED <<stream, psnd>> /\ client_unchanged

Peer ==
    /\ Cardinality(p2c) < MaxPackets
    /\ \/ \E s \in c2p :
             \/ peer_syn(s)
             \/ peer_established(s)
             \/ peer_data(s)
             \/ \E pos \in Bytes : \E len \in 1 .. StreamLen - pos : peer_send(s, pos, len)
             \/ peer_probe(s)
       \/ \E p \in Ports : peer_ack(p) \/ peer_reset(p)
-----------------------------------------------------------------------------
(* The calls of the application.                                            *)

tcp_connect ==
    /\ pc = "run" /\ call = "none"
    /\ pc' = "wait" /\ call' = "tcp_connect"
    /\ seq' = 1 /\ ack' = 0
    /\ tries' = 1 /\ retries' = 0
    /\ c2p' = c2p \cup {SYN(port)}
    /\ UNCHANGED <<rc, port, sending, p2c, server, app>>

(* tcp_send with data: transmit, then wait for whatever comes back.         *)
tcp_send(m, ip) ==
    /\ pc = "run" /\ call # "none"
    /\ pc' = "wait" /\ call' = "tcp_send"
    /\ tx' = m /\ oseq' = seq /\ inplace' = ip /\ overwritten' = FALSE
    /\ retries' = 0
    /\ c2p' = c2p \cup {tcp_segment(port, seq, ack, 0, m)}
    /\ UNCHANGED <<context, rc, tries, p2c, server, app>>

(* tcp_send with len == 0 returns at once: a window opened or closed.       *)
tcp_send_ack(w) ==
    /\ pc = "run" /\ call # "none"
    /\ call' = "tcp_send" /\ rc' = 0
    /\ tx' = <<>> /\ oseq' = seq
    /\ c2p' = c2p \cup {tcp_segment(port, seq, ack, w, <<>>)}
    /\ UNCHANGED <<pc, context, inplace, overwritten, loops, p2c, server, app>>

(* A plausible bug: the window may exceed the packet buffer.                *)
clamp_not(len) == len

clamp(len) == IF len > MaxWindow THEN MaxWindow ELSE len

tcp_recv(len) ==
    LET w == clamp(len)
    IN  /\ pc = "run" /\ call # "none"
        /\ pc' = "wait" /\ call' = "tcp_recv"
        /\ c2p' = IF w > 0 THEN c2p \cup {tcp_segment(port, seq, ack, w, <<>>)} ELSE c2p
        /\ UNCHANGED <<rc, context, sending, loops, p2c, server, app>>
-----------------------------------------------------------------------------
(* What the callers of tcp_recv_timeout() make of its result.               *)

(* >= 0: tcp_send and tcp_connect return 0, tcp_recv the number of bytes.   *)
succeed(r) ==
    /\ pc' = "run"
    /\ rc' = IF call = "tcp_recv" THEN r ELSE 0
    /\ UNCHANGED <<call, port, loops>>

(* < 0: tcp_connect tries again from another random port.                   *)
fail(r) ==
    \/ /\ call = "tcp_connect" /\ tries < MaxConnects
       /\ tries' = tries + 1 /\ retries' = 0
       /\ seq' = 1 /\ ack' = 0
       /\ port' \in Ports
       /\ c2p' = c2p \cup {SYN(port')}
       /\ UNCHANGED control
    \/ /\ call = "tcp_connect" /\ tries >= MaxConnects
       /\ pc' = "exit" /\ rc' = -1
       /\ UNCHANGED <<call, context, loops, c2p>>
    \/ /\ call # "tcp_connect"
       /\ pc' = "run" /\ rc' = r
       /\ UNCHANGED <<call, context, loops, c2p>>

(* Plausible bugs: retries is not counted; one retransmission too many.     *)
retry_uncounted == retries < MaxRetries /\ retries' = retries
retry_once_more == retries <= MaxRetries /\ retries' = retries + 1

retry == retries < MaxRetries /\ retries' = retries + 1

(* -EAGAIN: tcp_send retransmits from "again:" up to MaxRetries times.      *)
again(ow) ==
    \/ /\ call # "tcp_recv" /\ retry
       /\ c2p' = c2p \cup {IF seq = 1 THEN SYN(port)
                           ELSE tcp_segment(port, seq, ack, 0, payload(ow))}
       /\ UNCHANGED <<context, control, tries>>
    \/ /\ call # "tcp_recv" /\ retries >= MaxRetries
       /\ fail(-1)
    \/ /\ call = "tcp_recv"
       /\ fail(EAGAIN)
-----------------------------------------------------------------------------
(* tcp_recv_timeout() from recv_packet() on.                                *)

(* recv_packet() timed out. *)
rx_timeout ==
    /\ pc = "wait"
    /\ again(overwritten)
    /\ UNCHANGED <<sending, p2c, server, app>>

(* A packet that fails a sanity check: not TCP, or for another port.  It    *)
(* has been received into the packet buffer all the same.                   *)
rx_other ==
    /\ pc = "wait"
    /\ overwritten' = TRUE
    /\ again(TRUE)
    /\ UNCHANGED <<tx, oseq, inplace, p2c, server, app>>

(* A plausible bug: a packet for any port is taken for ours.                *)
for_us_unchecked(s) == pc = "wait"

(* The memcmp() of both port numbers. *)
for_us(s) == pc = "wait" /\ s.port = port

rx_reset(s) ==
    /\ for_us(s) /\ s.rst
    /\ overwritten' = TRUE
    /\ fail(ERESET)
    /\ UNCHANGED <<tx, oseq, inplace, p2c, server, app>>

(* tcp->seq == 1, and the packet is not the SYN-ACK. *)
rx_syn_refused(s) ==
    /\ for_us(s) /\ ~s.rst /\ seq = 1
    /\ s.ack # seq + 1 \/ ~s.syn
    /\ overwritten' = TRUE
    /\ fail(IF s.ack # seq + 1 THEN ERESET ELSE -1)
    /\ UNCHANGED <<tx, oseq, inplace, p2c, server, app>>

rx_synack(s) ==
    /\ for_us(s) /\ ~s.rst /\ seq = 1
    /\ s.ack = seq + 1 /\ s.syn
    /\ seq' = s.ack
    /\ ack' = (s.seq + 1) % SeqMod
    /\ c2p' = c2p \cup {tcp_segment(port, seq', ack', 0, <<>>)}
    /\ succeed(0)
    /\ overwritten' = TRUE
    /\ UNCHANGED <<tx, oseq, inplace, p2c, server, app>>

is_probe(s) == (s.seq + 1) % SeqMod = ack /\ s.len = 0

(* Wait on.  Only a SYN-ACK has header options, which reach the data area.  *)
rx_probe(s) ==
    /\ for_us(s) /\ ~s.rst /\ seq # 1
    /\ is_probe(s)
    /\ overwritten' = (overwritten \/ s.syn)
    /\ UNCHANGED <<context, control, tx, oseq, inplace, loops, c2p, p2c, server, app>>

(* A plausible bug: no test for data that was received before.              *)
is_retransmission_not(s) == FALSE

is_retransmission(s) == s.seq < ack

(* Plausible bugs: any answer counts as the ACK of what was sent; an older  *)
(* ACK is taken for a newer one.                                            *)
rx_ack_assumed(s) == seq' = IF call = "tcp_send" THEN oseq + Len(tx) ELSE seq
rx_ack_latest(s) == seq' = s.ack

rx_ack(s) == seq' = IF seq < s.ack THEN s.ack ELSE seq

(* No data, or data that was seen before: nothing is sent. *)
rx_nodata(s) ==
    /\ for_us(s) /\ ~s.rst /\ seq # 1
    /\ ~is_probe(s)
    /\ s.len = 0 \/ is_retransmission(s)
    /\ rx_ack(s)
    /\ succeed(0)
    /\ overwritten' = TRUE
    /\ UNCHANGED <<ack, c2p, tx, oseq, inplace, p2c, server, app>>

data_of(s) == s.pos .. s.pos + s.len - 1

(* New data: ACK it, close the window.  A tcp_send that waits for its own   *)
(* ACK drops what it is handed.                                             *)
rx_data(s) ==
    /\ for_us(s) /\ ~s.rst /\ seq # 1
    /\ s.len > 0 /\ ~is_retransmission(s)
    /\ rx_ack(s)
    /\ ack' = (s.seq + s.len) % SeqMod
    /\ c2p' = c2p \cup {tcp_segment(port, seq', ack', 0, <<>>)}
    /\ succeed(s.len)
    /\ IF call = "tcp_recv"
         THEN /\ delivered' = [b \in Bytes |-> delivered[b] + IF b \in data_of(s) THEN 1 ELSE 0]
              /\ UNCHANGED swallowed
         ELSE /\ swallowed' = swallowed \cup data_of(s)
              /\ UNCHANGED delivered
    /\ overwritten' = TRUE
    /\ UNCHANGED <<tx, oseq, inplace, p2c, server>>

Receive ==
    \/ rx_timeout
    \/ rx_other
    \/ \E s \in p2c :
          \/ rx_reset(s) \/ rx_syn_refused(s) \/ rx_synack(s)
          \/ rx_probe(s) \/ rx_nodata(s) \/ rx_data(s)
-----------------------------------------------------------------------------
Application ==
    /\ Cardinality(c2p) < MaxSent
    /\ \/ tcp_connect
       \/ \E m \in Messages, ip \in InPlace : tcp_send(m, ip)
       \/ \E w \in Windows : w <= MaxWindow /\ tcp_send_ack(w)
       \/ \E w \in Windows : tcp_recv(w)

Init ==
    /\ seq = 0 /\ ack = 0 /\ port = FirstPort
    /\ pc = "run" /\ call = "none" /\ rc = 0
    /\ tx = <<>> /\ oseq = 0 /\ inplace = FALSE /\ overwritten = FALSE
    /\ retries = 0 /\ tries = 0
    /\ c2p = {} /\ p2c = {}
    /\ pst = [p \in Ports |-> "listen"]
    /\ stream = [p \in Ports |-> <<>>]
    /\ psnd = [p \in Ports |-> 0]
    /\ delivered = [b \in Bytes |-> 0] /\ swallowed = {}

Next == Application \/ Receive \/ Peer

Spec == Init /\ [][Next]_vars

(* A wait that nothing ends is ended by the timeout of recv_packet().       *)
FairSpec == Spec /\ WF_vars(rx_timeout)
-----------------------------------------------------------------------------
(* Properties *)

Segments ==
    [port : Ports, syn : BOOLEAN, seq : 0 .. SeqMod - 1, ack : 0 .. SeqMod - 1,
     wnd : 0 .. MaxWindow, data : Seq(Data \cup {Garbage})]

PeerSegments ==
    [port : Ports, syn : BOOLEAN, rst : BOOLEAN, seq : 0 .. SeqMod - 1,
     ack : 2 .. 2 + MaxStream, pos : -1 .. SeqMod - 1, len : 0 .. StreamLen]

(* Every variable keeps its type; in particular a window never exceeds the  *)
(* packet buffer (tcp_recv_timeout clamps len) and the loops of tcp_send    *)
(* and tcp_connect stay within their limits.                                *)
TypeOK ==
    /\ seq \in 0 .. SeqMod - 1 /\ ack \in 0 .. SeqMod - 1 /\ port \in Ports
    /\ pc \in {"run", "wait", "exit"}
    /\ call \in {"none", "tcp_connect", "tcp_send", "tcp_recv"}
    /\ rc \in {EAGAIN, ERESET, -1} \cup 0 .. StreamLen
    /\ tx \in Messages \cup {<<>>} /\ oseq \in 0 .. SeqMod - 1
    /\ inplace \in BOOLEAN /\ overwritten \in BOOLEAN
    /\ retries \in 0 .. MaxRetries /\ tries \in 0 .. MaxConnects
    /\ c2p \subseteq Segments /\ p2c \subseteq PeerSegments
    /\ pst \in [Ports -> {"listen", "synrcvd", "established", "closed"}]
    /\ stream \in [Ports -> Seq(Data \cup {Garbage})]
    /\ \A p \in Ports : Len(stream[p]) <= MaxStream
    /\ psnd \in [Ports -> 0 .. StreamLen]
    /\ delivered \in [Bytes -> Nat] /\ swallowed \subseteq Bytes

Connected == seq >= 2

(* tcp->seq never passes what the server has received on this very         *)
(* connection, whatever mix of duplicated, delayed and foreign packets     *)
(* tcp_recv_timeout gets to see: its ACK branch checks no upper bound.     *)
AckedIsReceived == Connected => seq <= prcv(port)

(* tcp->ack never passes what the server has sent on this connection, so   *)
(* no ACK of ours makes the server drop a byte it has not sent yet; also   *)
(* the SYN-ACK that tcp_connect believes is one for its present port.      *)
AckWithinSent == Connected => pos_of(port, ack) <= psnd[port]

(* A segment that answers an advertised window fits into the packet buffer *)
(* behind a 44 byte header, so recv_packet truncates no data (the clamp    *)
(* at the top of tcp_recv_timeout).                                        *)
DataFits == \A s \in p2c : s.len <= MaxWindow

(* Neither number of the connection ever moves back while it lasts: a      *)
(* delayed ACK or a retransmission cannot undo progress.                   *)
NeverRegresses ==
    [][Connected => seq' >= seq /\ pos_of(port, ack') >= pos_of(port, ack)]_vars

(* What tcp_recv returns is in order and without repetition: a byte it     *)
(* returns lies above every byte it has returned before (the test that     *)
(* ignores retransmissions).                                               *)
InOrderOnce ==
    [][\A b \in Bytes : delivered'[b] > delivered[b] =>
          \A d \in Bytes : delivered[d] > 0 => d < b]_vars

(* Only bytes the application handed to tcp_send ever reach the server,    *)
(* through any number of retransmissions with other packets in between.    *)
OnlyOurBytes == \A p \in Ports : \A i \in DOMAIN stream[p] : stream[p][i] # Garbage

(* Every call comes back: the waiting loops of tcp_send and tcp_connect    *)
(* are bounded.                                                            *)
CallsReturn == pc = "wait" ~> pc # "wait"

(* What an application notices of the connection. *)
Stream == INSTANCE ByteStream WITH
    Length  <- StreamLen,
    up      <- Connected,
    next    <- IF Connected THEN pos_of(port, ack) ELSE 0,
    given   <- {b \in Bytes : delivered[b] > 0},
    arrived <- IF Connected THEN Len(stream[port]) ELSE 0,
    acked   <- IF Connected THEN seq - 2 ELSE 0

(* The client implements a byte stream: returned data is ordered and never  *)
(* repeated, and what counts as acknowledged has arrived, whatever the      *)
(* network does; after tcp_connect there is nothing else an application     *)
(* could notice.                                                            *)
IsByteStream == Stream!Spec

(* The documentation of tcp_send: "0 : Success. All data sent and was      *)
(* ACKed by the peer."                                                     *)
SuccessMeansAcked ==
    pc = "run" /\ call = "tcp_send" /\ rc = 0 => seq >= oseq + Len(tx)

(* "A packet that is lost this way is simply retransmitted by the peer":   *)
(* then every byte below tcp->ack must have arrived.                       *)
NothingSkipped ==
    Connected => \A b \in Bytes :
        b < pos_of(port, ack) => delivered[b] > 0 \/ b \in swallowed
=============================================================================
