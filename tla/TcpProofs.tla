----------------------------- MODULE TcpProofs -----------------------------
(***************************************************************************)
(* Proofs about module Tcp, for every set of ports, messages and windows,  *)
(* every retry limit and any number of packets.  The safety theorems need  *)
(* NoWrap: tcp_recv_timeout compares sequence numbers with "<", so they    *)
(* hold for as long as the server's numbers do not pass 2^32 (the run      *)
(* tcp_wrap shows what happens when they do).                              *)
(***************************************************************************)
EXTENDS Tcp, SequenceTheorems, TLAPS

NoWrap == \A p \in Ports : Isn[p] + 1 + StreamLen < SeqMod

-----------------------------------------------------------------------------
(* The inductive invariant *)

(* What a packet of the server may say: it numbers bytes the server has     *)
(* sent and acknowledges bytes the server has received.                     *)
PeerSays(s) ==
    /\ s.seq = Isn[s.port] + 1 + s.pos
    /\ s.pos <= psnd[s.port]
    /\ s.len > 0 => 0 <= s.pos /\ s.pos + s.len <= psnd[s.port]
    /\ s.len <= MaxWindow
    /\ s.ack <= prcv(s.port)
    /\ s.syn => s.pos = -1

PeerTruthful == \A s \in p2c : PeerSays(s)

(* What a packet of the client may say, other than its SYN. *)
ClientSays(s) ==
    ~s.syn => /\ Isn[s.port] + 1 <= s.ack
              /\ s.ack <= Isn[s.port] + 1 + psnd[s.port]

ClientTruthful == \A s \in c2p : ClientSays(s)

(* Where the handshake has got to, by the place in the program. *)
Phase ==
    /\ call = "none" => pc = "run" /\ seq = 0
    /\ pc = "run" /\ call # "none" => seq >= 2
    /\ pc = "wait" /\ call = "tcp_connect" => seq = 1
    /\ pc = "wait" /\ call # "tcp_connect" => seq >= 2
    /\ pc = "exit" => seq = 1

(* The client's own numbers, and what it has delivered so far. *)
ClientState ==
    /\ seq >= 2 => /\ seq <= prcv(port)
                   /\ Isn[port] + 1 <= ack
                   /\ ack <= Isn[port] + 1 + psnd[port]
                   /\ \A b \in Bytes : delivered[b] > 0 => b < ack - Isn[port] - 1
    /\ seq < 2 => \A b \in Bytes : delivered[b] = 0

IInv == TypeOK /\ PeerTruthful /\ ClientTruthful /\ Phase /\ ClientState
-----------------------------------------------------------------------------
(* Arithmetic modulo SeqMod, where nothing wraps *)

LEMMA ModIdentity == \A m \in Nat \ {0} : \A x \in 0 .. (m - 1) : x % m = x
  BY SMT

LEMMA ModRange == \A m \in Nat \ {0} : \A x \in Int : x % m \in 0 .. (m - 1)
  BY SMT

LEMMA SeqModPos == SeqMod \in Nat \ {0}
  BY SeqModAssumption, BoundAssumption

(* The number of the server's byte pos. *)
LEMMA SeqOf ==
    ASSUME NoWrap, NEW p \in Ports, NEW pos \in -1 .. StreamLen
    PROVE  seq_of(p, pos) = Isn[p] + 1 + pos /\ seq_of(p, pos) \in 0 .. SeqMod - 1
  <1>1. Isn[p] \in 0 .. SeqMod - 1 /\ Isn[p] + 1 + StreamLen < SeqMod
    BY PortAssumption DEF NoWrap
  <1>2. Isn[p] + 1 + pos \in 0 .. (SeqMod - 1)
    BY <1>1, SeqModAssumption, BoundAssumption
  <1> QED
    BY <1>2, ModIdentity, SeqModPos DEF seq_of

(* The byte that an acknowledgement number of a connection stands for. *)
LEMMA PosOf ==
    ASSUME NEW p \in Ports, NEW a \in 0 .. SeqMod - 1, Isn[p] + 1 <= a
    PROVE  pos_of(p, a) = a - Isn[p] - 1
  <1>1. Isn[p] \in 0 .. SeqMod - 1
    BY PortAssumption
  <1>2. a - Isn[p] - 1 \in 0 .. (SeqMod - 1)
    BY <1>1, SeqModAssumption
  <1> QED
    BY <1>2, ModIdentity, SeqModPos DEF pos_of
-----------------------------------------------------------------------------
(* Steps of the server: the client keeps its state, the network gains one   *)
(* packet at most, and the server's counters only grow.                     *)

LEMMA PeerStep ==
    ASSUME IInv, client_unchanged,
           \A m \in p2c' : m \in p2c \/ (m \in PeerSegments /\ PeerSays(m)'),
           pst' \in [Ports -> {"listen", "synrcvd", "established", "closed"}],
           stream' \in [Ports -> Seq(Data \cup {Garbage})],
           psnd' \in [Ports -> 0 .. StreamLen],
           \A p \in Ports : /\ Len(stream[p]) <= Len(stream'[p])
                            /\ Len(stream'[p]) <= MaxStream
                            /\ psnd[p] <= psnd'[p]
    PROVE  IInv'
  <1>1. /\ seq' = seq /\ ack' = ack /\ port' = port /\ pc' = pc /\ call' = call
        /\ c2p' = c2p /\ delivered' = delivered /\ swallowed' = swallowed
        /\ rc' = rc /\ tx' = tx /\ oseq' = oseq /\ inplace' = inplace
        /\ overwritten' = overwritten /\ retries' = retries /\ tries' = tries
    BY DEF client_unchanged, context, control, sending, loops, app
  <1>2. TypeOK'
    BY <1>1 DEF IInv, TypeOK
  <1>3. PeerTruthful'
    <2> SUFFICES ASSUME NEW s \in p2c' PROVE PeerSays(s)'
      BY DEF PeerTruthful
    <2>1. CASE s \notin p2c
      BY <2>1
    <2>2. CASE s \in p2c
      <3>1. s \in PeerSegments /\ PeerSays(s) /\ s.port \in Ports
        BY <2>2 DEF IInv, TypeOK, PeerTruthful, PeerSegments
      <3>2. Len(stream[s.port]) \in Nat /\ Len(stream'[s.port]) \in Nat
        <4>1. stream[s.port] \in Seq(Data \cup {Garbage}) /\ stream'[s.port] \in Seq(Data \cup {Garbage})
          BY <3>1 DEF IInv, TypeOK
        <4> QED
          BY <4>1
      <3>3. psnd[s.port] \in Int /\ psnd'[s.port] \in Int
        BY <3>1 DEF IInv, TypeOK
      <3>4. s.pos \in Int /\ s.len \in Int /\ s.ack \in Int
        BY <3>1 DEF PeerSegments
      <3>5. psnd[s.port] <= psnd'[s.port] /\ prcv(s.port) <= prcv(s.port)'
        BY <3>1, <3>2 DEF prcv
      <3>6. prcv(s.port) \in Int /\ prcv(s.port)' \in Int
        BY <3>2 DEF prcv
      <3> QED
        BY <3>1, <3>3, <3>4, <3>5, <3>6 DEF PeerSays
    <2> QED
      BY <2>1, <2>2
  <1>4. ClientTruthful'
    <2> SUFFICES ASSUME NEW s \in c2p PROVE ClientSays(s)'
      BY <1>1 DEF ClientTruthful
    <2>1. s.port \in Ports /\ s.ack \in Int /\ ClientSays(s)
      <3>1. s \in Segments
        BY Zenon DEF IInv, TypeOK
      <3>2. s.port \in Ports /\ s.ack \in Int
        BY <3>1 DEF Segments
      <3>3. ClientSays(s)
        BY Zenon DEF IInv, ClientTruthful
      <3> QED
        BY <3>2, <3>3
    <2>2. psnd[s.port] \in Int /\ psnd'[s.port] \in Int /\ Isn[s.port] \in Int
      BY <2>1, PortAssumption DEF IInv, TypeOK
    <2> QED
      BY <2>1, <2>2 DEF ClientSays
  <1>5. Phase'
    BY <1>1 DEF IInv, Phase
  <1>6. ClientState'
    <2>1. port \in Ports /\ seq \in Int /\ ack \in Int
      BY DEF IInv, TypeOK
    <2>2. Len(stream[port]) \in Nat /\ Len(stream'[port]) \in Nat
      BY <2>1 DEF IInv, TypeOK
    <2>3. psnd[port] \in Int /\ psnd'[port] \in Int /\ Isn[port] \in Int
      BY <2>1, PortAssumption DEF IInv, TypeOK
    <2> QED
      BY <1>1, <2>1, <2>2, <2>3, SMTT(30) DEF IInv, ClientState, prcv
  <1> QED
    BY <1>2, <1>3, <1>4, <1>5, <1>6 DEF IInv

(* The types of what the server knows of a port. *)
LEMMA PeerTypes ==
    ASSUME IInv, NEW p \in Ports
    PROVE  /\ stream[p] \in Seq(Data \cup {Garbage})
           /\ Len(stream[p]) \in 0 .. MaxStream
           /\ prcv(p) \in 2 .. 2 + MaxStream
           /\ psnd[p] \in 0 .. StreamLen
           /\ Isn[p] \in 0 .. SeqMod - 1
  <1>1. stream[p] \in Seq(Data \cup {Garbage}) /\ Len(stream[p]) <= MaxStream
    BY DEF IInv, TypeOK
  <1>2. Len(stream[p]) \in 0 .. MaxStream
    BY <1>1, BoundAssumption
  <1>3. prcv(p) \in 2 .. 2 + MaxStream
    BY <1>2, BoundAssumption DEF prcv
  <1>4. psnd[p] \in 0 .. StreamLen
    BY DEF IInv, TypeOK
  <1> QED
    BY <1>1, <1>2, <1>3, <1>4, PortAssumption

(* A packet without data: a SYN-ACK, an ACK, a probe, a reset. *)
LEMMA EmptyPacket ==
    ASSUME IInv, NoWrap, NEW p \in Ports, NEW pos \in -1 .. StreamLen, pos <= psnd'[p],
           NEW a \in 2 .. 2 + MaxStream, a <= prcv(p)',
           NEW syn \in BOOLEAN, syn => pos = -1, NEW rst \in BOOLEAN,
           NEW m, m = [port |-> p, syn |-> syn, rst |-> rst, seq |-> seq_of(p, pos),
                       ack |-> a, pos |-> pos, len |-> 0]
    PROVE  m \in PeerSegments /\ PeerSays(m)'
  <1>1. seq_of(p, pos) = Isn[p] + 1 + pos /\ seq_of(p, pos) \in 0 .. SeqMod - 1
    BY SeqOf
  <1>2. pos \in -1 .. SeqMod - 1 /\ 0 \in 0 .. StreamLen
    BY BoundAssumption, SeqModAssumption
  <1>3. m \in PeerSegments
    BY <1>1, <1>2 DEF PeerSegments
  <1>4. /\ m.port = p /\ m.syn = syn /\ m.seq = seq_of(p, pos)
        /\ m.ack = a /\ m.pos = pos /\ m.len = 0
    OBVIOUS
  <1>5. PeerSays(m)'
    BY <1>1, <1>4, WindowAssumption DEF PeerSays
  <1> QED
    BY <1>3, <1>5

(* Steps that send a packet and move no byte. *)
LEMMA PeerStepEmpty ==
    ASSUME IInv, client_unchanged, stream' = stream, psnd' = psnd,
           \A m \in p2c' : m \in p2c \/ (m \in PeerSegments /\ PeerSays(m)'),
           pst' \in [Ports -> {"listen", "synrcvd", "established", "closed"}]
    PROVE  IInv'
  <1>1. \A p \in Ports : /\ Len(stream[p]) <= Len(stream'[p])
                         /\ Len(stream'[p]) <= MaxStream /\ psnd[p] <= psnd'[p]
    BY PeerTypes, BoundAssumption
  <1>2. stream' \in [Ports -> Seq(Data \cup {Garbage})] /\ psnd' \in [Ports -> 0 .. StreamLen]
    BY DEF IInv, TypeOK
  <1> QED
    BY <1>1, <1>2, PeerStep

LEMMA PeerSyn ==
    ASSUME IInv, NoWrap, NEW s \in c2p, peer_syn(s)
    PROVE  IInv'
  <1>1. s.port \in Ports
    BY DEF IInv, TypeOK, Segments
  <1>2. psnd' = psnd /\ stream' = stream /\ client_unchanged
    BY DEF peer_syn
  <1>3. PICK m : m = synack(s.port)
    OBVIOUS
  <1>4. m = [port |-> s.port, syn |-> TRUE, rst |-> FALSE, seq |-> seq_of(s.port, -1),
             ack |-> 2, pos |-> -1, len |-> 0]
    BY <1>3 DEF synack, peer_segment
  <1>5. m \in PeerSegments /\ PeerSays(m)'
    <2>1. 2 \in 2 .. 2 + MaxStream /\ -1 \in -1 .. StreamLen
      BY BoundAssumption
    <2>2. 2 <= prcv(s.port)' /\ -1 <= psnd'[s.port]
      BY <1>1, <1>2, PeerTypes DEF prcv
    <2> QED
      BY <1>1, <1>4, <2>1, <2>2, EmptyPacket
  <1>6. p2c' = p2c \cup {m}
    BY <1>3 DEF peer_syn
  <1>7. pst' \in [Ports -> {"listen", "synrcvd", "established", "closed"}]
    BY <1>1 DEF peer_syn, IInv, TypeOK
  <1> QED
    BY <1>2, <1>5, <1>6, <1>7, PeerStepEmpty

LEMMA PeerEstablished ==
    ASSUME IInv, NEW s \in c2p, peer_established(s)
    PROVE  IInv'
  <1>1. s.port \in Ports
    BY DEF IInv, TypeOK, Segments
  <1>2. psnd' = psnd /\ stream' = stream /\ client_unchanged /\ p2c' = p2c
    BY DEF peer_established
  <1>3. pst' \in [Ports -> {"listen", "synrcvd", "established", "closed"}]
    BY <1>1 DEF peer_established, IInv, TypeOK
  <1> QED
    BY <1>2, <1>3, PeerStepEmpty

LEMMA PeerAck ==
    ASSUME IInv, NoWrap, NEW p \in Ports, peer_ack(p)
    PROVE  IInv'
  <1>1. psnd' = psnd /\ stream' = stream /\ pst' = pst /\ client_unchanged
    BY DEF peer_ack, server
  <1>2. PICK m : m = peer_segment(p, prcv(p), psnd[p], 0)
    OBVIOUS
  <1>3. m \in PeerSegments /\ PeerSays(m)'
    <2>1. prcv(p) \in 2 .. 2 + MaxStream /\ psnd[p] \in -1 .. StreamLen
      BY PeerTypes, BoundAssumption
    <2>2. prcv(p) <= prcv(p)' /\ psnd[p] <= psnd'[p]
      BY <1>1, <2>1, BoundAssumption DEF prcv
    <2> QED
      BY <1>2, <2>1, <2>2, EmptyPacket DEF peer_segment
  <1>4. p2c' = p2c \cup {m}
    BY <1>2 DEF peer_ack
  <1>5. pst' \in [Ports -> {"listen", "synrcvd", "established", "closed"}]
    BY <1>1 DEF IInv, TypeOK
  <1> QED
    BY <1>1, <1>3, <1>4, <1>5, PeerStepEmpty

LEMMA PeerReset ==
    ASSUME IInv, NoWrap, NEW p \in Ports, peer_reset(p)
    PROVE  IInv'
  <1>1. psnd' = psnd /\ stream' = stream /\ client_unchanged
    BY DEF peer_reset
  <1>2. PICK m : m = reset(p)
    OBVIOUS
  <1>3. m = [port |-> p, syn |-> FALSE, rst |-> TRUE, seq |-> seq_of(p, 0),
             ack |-> prcv(p), pos |-> 0, len |-> 0]
    BY <1>2 DEF reset, peer_segment
  <1>4. m \in PeerSegments /\ PeerSays(m)'
    <2>1. prcv(p) \in 2 .. 2 + MaxStream /\ 0 \in -1 .. StreamLen
      BY PeerTypes, BoundAssumption
    <2>2. prcv(p) <= prcv(p)' /\ 0 <= psnd'[p]
      BY <1>1, <2>1, PeerTypes, BoundAssumption DEF prcv
    <2> QED
      BY <1>3, <2>1, <2>2, EmptyPacket
  <1>5. p2c' = p2c \cup {m}
    BY <1>2 DEF peer_reset
  <1>6. pst' \in [Ports -> {"listen", "synrcvd", "established", "closed"}]
    BY DEF peer_reset, IInv, TypeOK
  <1> QED
    BY <1>1, <1>4, <1>5, <1>6, PeerStepEmpty

(* What a segment of the client, other than a SYN, says about its port. *)
LEMMA AckedBytes ==
    ASSUME IInv, NEW s \in c2p, ~s.syn
    PROVE  /\ s.port \in Ports /\ s.wnd \in 0 .. MaxWindow
           /\ pos_of(s.port, s.ack) \in 0 .. psnd[s.port]
  <1>1. /\ s.port \in Ports /\ s.wnd \in 0 .. MaxWindow
        /\ s.ack \in 0 .. SeqMod - 1 /\ ClientSays(s)
    BY DEF IInv, TypeOK, Segments, ClientTruthful
  <1>2. pos_of(s.port, s.ack) = s.ack - Isn[s.port] - 1
    BY <1>1, PosOf DEF ClientSays
  <1> QED
    BY <1>1, <1>2, PeerTypes DEF ClientSays

LEMMA PeerProbe ==
    ASSUME IInv, NoWrap, NEW s \in c2p, peer_probe(s)
    PROVE  IInv'
  <1>1. psnd' = psnd /\ stream' = stream /\ pst' = pst /\ client_unchanged /\ ~s.syn
    BY DEF peer_probe, server
  <1>2. s.port \in Ports /\ pos_of(s.port, s.ack) \in 0 .. psnd[s.port]
    BY <1>1, AckedBytes
  <1>3. PICK p \in Ports : p = s.port
    BY <1>2
  <1>4. PICK pos \in -1 .. StreamLen : pos = pos_of(p, s.ack) - 1 /\ pos <= psnd[p]
    BY <1>2, <1>3, PeerTypes, BoundAssumption
  <1>5. PICK m : m = peer_segment(p, prcv(p), pos, 0)
    OBVIOUS
  <1>6. m \in PeerSegments /\ PeerSays(m)'
    <2>1. prcv(p) \in 2 .. 2 + MaxStream
      BY PeerTypes
    <2>2. prcv(p) <= prcv(p)' /\ pos <= psnd'[p]
      BY <1>1, <1>4, <2>1, BoundAssumption DEF prcv
    <2> QED
      BY <1>5, <2>1, <2>2, EmptyPacket DEF peer_segment
  <1>7. p2c' = p2c \cup {m}
    BY <1>3, <1>4, <1>5 DEF peer_probe
  <1>8. pst' \in [Ports -> {"listen", "synrcvd", "established", "closed"}]
    BY <1>1 DEF IInv, TypeOK
  <1> QED
    BY <1>1, <1>6, <1>7, <1>8, PeerStepEmpty

LEMMA PeerSend ==
    ASSUME IInv, NoWrap, NEW s \in c2p, NEW pos \in Bytes,
           NEW len \in 1 .. StreamLen - pos, peer_send(s, pos, len)
    PROVE  IInv'
  <1>1. stream' = stream /\ pst' = pst /\ client_unchanged /\ ~s.syn
    BY DEF peer_send
  <1>2. PICK p \in Ports : p = s.port
    BY <1>1, AckedBytes
  <1>3. PICK una \in 0 .. psnd[p] : una = pos_of(p, s.ack)
    BY <1>1, <1>2, AckedBytes
  <1>4. /\ una <= pos /\ pos <= psnd[p] /\ pos + len <= una + s.wnd
        /\ psnd' = [psnd EXCEPT ![p] = IF psnd[p] < pos + len THEN pos + len ELSE psnd[p]]
        /\ p2c' = p2c \cup {peer_segment(p, prcv(p), pos, len)}
    BY <1>2, <1>3 DEF peer_send
  <1>5. /\ psnd[p] \in 0 .. StreamLen /\ s.wnd \in 0 .. MaxWindow
        /\ pos \in 0 .. StreamLen - 1 /\ len \in 1 .. StreamLen /\ pos + len <= StreamLen
        /\ StreamLen \in Nat /\ MaxWindow \in Nat
    BY <1>1, AckedBytes, PeerTypes, BoundAssumption, WindowAssumption DEF Bytes
  <1>6. psnd'[p] = IF psnd[p] < pos + len THEN pos + len ELSE psnd[p]
    BY <1>4 DEF IInv, TypeOK
  <1>7. psnd' \in [Ports -> 0 .. StreamLen] /\ \A q \in Ports : psnd[q] <= psnd'[q]
    <2>1. psnd'[p] \in 0 .. StreamLen /\ psnd[p] <= psnd'[p]
      BY <1>5, <1>6
    <2>2. psnd \in [Ports -> 0 .. StreamLen]
      BY DEF IInv, TypeOK
    <2>3. psnd' \in [Ports -> 0 .. StreamLen]
      BY <1>4, <1>6, <2>1, <2>2
    <2>4. ASSUME NEW q \in Ports PROVE psnd[q] <= psnd'[q]
      <3>1. CASE q = p
        BY <2>1, <3>1
      <3>2. CASE q # p
        BY <1>4, <1>5, <2>2, <3>2
      <3> QED
        BY <3>1, <3>2
    <2> QED
      BY <2>3, <2>4
  <1>8. PICK m : m = peer_segment(p, prcv(p), pos, len)
    OBVIOUS
  <1>9. m \in PeerSegments /\ PeerSays(m)'
    <2>1. seq_of(p, pos) = Isn[p] + 1 + pos /\ seq_of(p, pos) \in 0 .. SeqMod - 1
      BY <1>5, SeqOf
    <2>2. pos \in -1 .. SeqMod - 1 /\ len \in 0 .. StreamLen
      BY <1>5, BoundAssumption, SeqModAssumption
    <2>3. prcv(p) \in 2 .. 2 + MaxStream
      BY PeerTypes
    <2>4. m \in PeerSegments
      BY <1>8, <2>1, <2>2, <2>3 DEF peer_segment, PeerSegments
    <2>5. /\ m.port = p /\ m.syn = FALSE /\ m.seq = seq_of(p, pos)
          /\ m.ack = prcv(p) /\ m.pos = pos /\ m.len = len
      BY <1>8 DEF peer_segment
    <2>6. prcv(p)' = prcv(p)
      BY <1>1 DEF prcv
    <2>7. pos + len <= psnd'[p] /\ pos <= psnd'[p] /\ len <= MaxWindow
      BY <1>3, <1>4, <1>5, <1>6
    <2>8. m.ack <= prcv(m.port)'
      BY <2>3, <2>5, <2>6, BoundAssumption
    <2>9. PeerSays(m)'
      BY <1>5, <2>1, <2>5, <2>7, <2>8 DEF PeerSays
    <2> QED
      BY <2>4, <2>9
  <1>10. \A q \in Ports : Len(stream[q]) <= Len(stream'[q]) /\ Len(stream'[q]) <= MaxStream
    BY <1>1, PeerTypes, BoundAssumption
  <1>11. stream' \in [Ports -> Seq(Data \cup {Garbage})]
    BY <1>1 DEF IInv, TypeOK
  <1>12. pst' \in [Ports -> {"listen", "synrcvd", "established", "closed"}]
    BY <1>1 DEF IInv, TypeOK
  <1> QED
    BY <1>1, <1>4, <1>7, <1>8, <1>9, <1>10, <1>11, <1>12, PeerStep

LEMMA PeerData ==
    ASSUME IInv, NoWrap, NEW s \in c2p, peer_data(s)
    PROVE  IInv'
  <1>1. psnd' = psnd /\ pst' = pst /\ client_unchanged
    BY DEF peer_data
  <1>2. PICK p \in Ports : p = s.port
    BY DEF IInv, TypeOK, Segments
  <1>3. /\ s.data \in Seq(Data \cup {Garbage}) /\ s.seq \in Int
        /\ Len(s.data) \in Nat
    <2>1. s \in Segments
      BY Zenon DEF IInv, TypeOK
    <2> QED
      BY <2>1 DEF Segments
  <1> DEFINE lo == prcv(p) - s.seq + 1
             new == SubSeq(s.data, lo, Len(s.data))
  <1>4. /\ s.seq <= prcv(p) /\ prcv(p) < s.seq + Len(s.data)
        /\ Len(stream[p]) + Len(new) <= MaxStream
        /\ stream' = [stream EXCEPT ![p] = stream[p] \o new]
        /\ p2c' = p2c \cup {peer_segment(p, prcv(p) + Len(new), psnd[p], 0)}
    BY <1>2 DEF peer_data
  <1>5. new \in Seq(Data \cup {Garbage}) /\ Len(new) \in Nat
    <2>0. PICK r \in 2 .. 2 + MaxStream : r = prcv(p)
      BY PeerTypes
    <2>1. lo \in 1 .. Len(s.data) + 1
      <3>1. s.seq <= r /\ r < s.seq + Len(s.data) /\ r \in Int /\ lo = r - s.seq + 1
        BY <1>4, <2>0, BoundAssumption
      <3> HIDE DEF lo
      <3> QED
        BY <1>3, <3>1
    <2>2. \A i \in lo .. Len(s.data) : s.data[i] \in Data \cup {Garbage}
      BY <1>3, <2>1, LenProperties
    <2>3. lo \in Int /\ Len(s.data) \in Int
      BY <1>3, <2>1
    <2> HIDE DEF lo
    <2>4. new \in Seq(Data \cup {Garbage})
      BY <2>2, <2>3, SubSeqProperties
    <2> QED
      BY <2>4, LenProperties
  <1> HIDE DEF lo, new
  <1>6. /\ stream[p] \o new \in Seq(Data \cup {Garbage})
        /\ Len(stream[p] \o new) = Len(stream[p]) + Len(new)
    BY <1>5, PeerTypes, ConcatProperties
  <1>7. stream \in [Ports -> Seq(Data \cup {Garbage})]
    BY DEF IInv, TypeOK
  <1>8. stream' \in [Ports -> Seq(Data \cup {Garbage})] /\ stream'[p] = stream[p] \o new
    BY <1>4, <1>6, <1>7
  <1>9. Len(stream[p]) \in 0 .. MaxStream /\ prcv(p) \in 2 .. 2 + MaxStream
    BY PeerTypes
  <1>10. \A q \in Ports : /\ Len(stream[q]) <= Len(stream'[q])
                          /\ Len(stream'[q]) <= MaxStream /\ psnd[q] <= psnd'[q]
    <2> SUFFICES ASSUME NEW q \in Ports
                 PROVE  /\ Len(stream[q]) <= Len(stream'[q])
                        /\ Len(stream'[q]) <= MaxStream /\ psnd[q] <= psnd'[q]
      OBVIOUS
    <2>1. Len(stream[q]) \in 0 .. MaxStream /\ psnd[q] \in 0 .. StreamLen
      BY PeerTypes
    <2>2. CASE q = p
      BY <1>1, <1>4, <1>5, <1>6, <1>8, <1>9, <2>1, <2>2, BoundAssumption
    <2>3. CASE q # p
      <3>1. stream'[q] = stream[q]
        BY <1>4, <1>7, <2>3
      <3> QED
        BY <1>1, <2>1, <3>1, BoundAssumption
    <2> QED
      BY <2>2, <2>3
  <1>11. PICK a \in 2 .. 2 + MaxStream : a = prcv(p) + Len(new)
    BY <1>4, <1>5, <1>9, BoundAssumption DEF prcv
  <1>12. PICK m : m = [port |-> p, syn |-> FALSE, rst |-> FALSE, seq |-> seq_of(p, psnd[p]),
                       ack |-> a, pos |-> psnd[p], len |-> 0]
    OBVIOUS
  <1>13. p2c' = p2c \cup {m}
    <2>1. peer_segment(p, a, psnd[p], 0) = m
      BY <1>12 DEF peer_segment
    <2> QED
      BY <1>4, <1>11, <2>1
  <1>14. m \in PeerSegments /\ PeerSays(m)'
    <2>1. prcv(p)' = a
      BY <1>5, <1>6, <1>8, <1>9, <1>11 DEF prcv
    <2>2. a <= prcv(p)'
      BY <2>1, BoundAssumption
    <2>3. psnd[p] \in -1 .. StreamLen /\ psnd[p] <= psnd'[p]
      BY <1>1, PeerTypes, BoundAssumption
    <2> QED
      BY <1>12, <2>2, <2>3, EmptyPacket
  <1>15. psnd' \in [Ports -> 0 .. StreamLen]
    BY <1>1 DEF IInv, TypeOK
  <1>16. pst' \in [Ports -> {"listen", "synrcvd", "established", "closed"}]
    BY <1>1 DEF IInv, TypeOK
  <1> QED
    BY <1>1, <1>8, <1>10, <1>13, <1>14, <1>15, <1>16, PeerStep
-----------------------------------------------------------------------------
(* Steps of the client: the server and its packets stay as they are.        *)

LEMMA ClientStep ==
    ASSUME IInv, UNCHANGED <<server, p2c>>, TypeOK', Phase', ClientState',
           \A m \in c2p' : m \in c2p \/ ClientSays(m)
    PROVE  IInv'
  <1>1. psnd' = psnd /\ stream' = stream /\ p2c' = p2c
    BY DEF server
  <1>2. PeerTruthful'
    BY <1>1 DEF IInv, PeerTruthful, PeerSays, prcv
  <1>3. ClientTruthful'
    BY <1>1 DEF IInv, ClientTruthful, ClientSays
  <1> QED
    BY <1>2, <1>3 DEF IInv

LEMMA SegmentType ==
    ASSUME NEW p \in Ports, NEW q \in 0 .. SeqMod - 1, NEW a \in 0 .. SeqMod - 1,
           NEW w \in 0 .. MaxWindow, NEW d \in Seq(Data \cup {Garbage})
    PROVE  tcp_segment(p, q, a, w, d) \in Segments
  BY DEF tcp_segment, Segments

LEMMA SynType == \A p \in Ports : SYN(p) \in Segments /\ ClientSays(SYN(p))
  <1> SUFFICES ASSUME NEW p \in Ports PROVE SYN(p) \in Segments /\ ClientSays(SYN(p))
    OBVIOUS
  <1>1. 1 \in 0 .. SeqMod - 1 /\ 0 \in 0 .. SeqMod - 1 /\ 1 \in 0 .. MaxWindow
    BY SeqModAssumption, BoundAssumption, WindowAssumption
  <1>2. <<>> \in Seq(Data \cup {Garbage})
    OBVIOUS
  <1>3. SYN(p) \in Segments
    BY <1>1, <1>2, SegmentType DEF SYN
  <1>4. SYN(p).syn
    BY DEF SYN, tcp_segment
  <1> QED
    BY <1>3, <1>4 DEF ClientSays

(* Whatever the connected client sends is typed and truthful. *)
LEMMA SegmentSays ==
    ASSUME IInv, seq >= 2, NEW w \in 0 .. MaxWindow, NEW d \in Seq(Data \cup {Garbage})
    PROVE  /\ tcp_segment(port, seq, ack, w, d) \in Segments
           /\ ClientSays(tcp_segment(port, seq, ack, w, d))
  <1>1. port \in Ports /\ seq \in 0 .. SeqMod - 1 /\ ack \in 0 .. SeqMod - 1
    BY DEF IInv, TypeOK
  <1>2. Isn[port] + 1 <= ack /\ ack <= Isn[port] + 1 + psnd[port]
    BY DEF IInv, ClientState
  <1>3. /\ tcp_segment(port, seq, ack, w, d).port = port
        /\ tcp_segment(port, seq, ack, w, d).ack = ack
    BY DEF tcp_segment
  <1> QED
    BY <1>1, <1>2, <1>3, SegmentType DEF ClientSays

LEMMA PayloadType ==
    ASSUME IInv, NEW ow \in BOOLEAN
    PROVE  payload(ow) \in Seq(Data \cup {Garbage})
  <1>1. tx \in Seq(Data)
    <2>1. tx \in Messages \/ tx = <<>>
      BY DEF IInv, TypeOK
    <2>2. <<>> \in Seq(Data)
      OBVIOUS
    <2> QED
      BY <2>1, <2>2, MessageAssumption
  <1>2. Len(tx) \in Nat /\ tx \in Seq(Data \cup {Garbage})
    BY <1>1
  <1>3. [i \in 1 .. Len(tx) |-> Garbage] \in [1 .. Len(tx) -> Data \cup {Garbage}]
    OBVIOUS
  <1>4. [i \in 1 .. Len(tx) |-> Garbage] \in Seq(Data \cup {Garbage})
    BY <1>2, <1>3, SeqDef
  <1> QED
    BY <1>2, <1>4 DEF payload
-----------------------------------------------------------------------------
(* The calls *)

LEMMA Connect ==
    ASSUME IInv, tcp_connect
    PROVE  IInv'
  <1>1. port \in Ports /\ SYN(port) \in Segments /\ ClientSays(SYN(port))
    BY SynType DEF IInv, TypeOK
  <1>2. /\ seq' = 1 /\ ack' = 0 /\ port' = port /\ pc' = "wait" /\ call' = "tcp_connect"
        /\ rc' = rc /\ tx' = tx /\ oseq' = oseq /\ inplace' = inplace
        /\ overwritten' = overwritten /\ retries' = 0 /\ tries' = 1
        /\ c2p' = c2p \cup {SYN(port)} /\ p2c' = p2c
        /\ pst' = pst /\ stream' = stream /\ psnd' = psnd
        /\ delivered' = delivered /\ swallowed' = swallowed
    BY DEF tcp_connect, sending, server, app
  <1>3. 1 \in 0 .. SeqMod - 1 /\ 0 \in 0 .. SeqMod - 1 /\ 0 \in 0 .. MaxRetries /\ 1 \in 0 .. MaxConnects
    BY SeqModAssumption, BoundAssumption
  <1>4. TypeOK'
    BY <1>1, <1>2, <1>3 DEF IInv, TypeOK
  <1>5. Phase'
    BY <1>2 DEF Phase
  <1>6. ClientState'
    <2>1. seq < 2
      BY DEF IInv, Phase, tcp_connect
    <2> QED
      BY <1>2, <2>1 DEF IInv, ClientState
  <1> QED
    BY <1>1, <1>2, <1>4, <1>5, <1>6, ClientStep DEF server

LEMMA Send ==
    ASSUME IInv, NEW m \in Messages, NEW ip \in InPlace, tcp_send(m, ip)
    PROVE  IInv'
  <1>1. seq >= 2
    BY DEF IInv, Phase, tcp_send
  <1>2. m \in Seq(Data \cup {Garbage}) /\ 0 \in 0 .. MaxWindow
    <2>1. m \in Seq(Data)
      BY MessageAssumption
    <2> QED
      BY <2>1, WindowAssumption
  <1>3. PICK g : g = tcp_segment(port, seq, ack, 0, m)
    OBVIOUS
  <1>4. g \in Segments /\ ClientSays(g)
    BY <1>1, <1>2, <1>3, SegmentSays
  <1>5. /\ seq' = seq /\ ack' = ack /\ port' = port /\ pc' = "wait" /\ call' = "tcp_send"
        /\ rc' = rc /\ tx' = m /\ oseq' = seq /\ inplace' = ip
        /\ overwritten' = FALSE /\ retries' = 0 /\ tries' = tries
        /\ c2p' = c2p \cup {g} /\ p2c' = p2c
        /\ pst' = pst /\ stream' = stream /\ psnd' = psnd
        /\ delivered' = delivered /\ swallowed' = swallowed
    BY <1>3 DEF tcp_send, context, server, app
  <1>6. 0 \in 0 .. MaxRetries /\ ip \in BOOLEAN
    BY BoundAssumption
  <1>7. TypeOK'
    BY <1>4, <1>5, <1>6 DEF IInv, TypeOK
  <1>8. Phase'
    BY <1>1, <1>5 DEF Phase
  <1>9. ClientState'
    BY <1>5 DEF IInv, ClientState, prcv
  <1> QED
    BY <1>4, <1>5, <1>7, <1>8, <1>9, ClientStep DEF server

LEMMA SendAck ==
    ASSUME IInv, NEW w \in Windows, w <= MaxWindow, tcp_send_ack(w)
    PROVE  IInv'
  <1>1. seq >= 2
    BY DEF IInv, Phase, tcp_send_ack
  <1>2. <<>> \in Seq(Data \cup {Garbage}) /\ w \in 0 .. MaxWindow
    BY WindowAssumption
  <1>3. PICK g : g = tcp_segment(port, seq, ack, w, <<>>)
    OBVIOUS
  <1>4. g \in Segments /\ ClientSays(g)
    BY <1>1, <1>2, <1>3, SegmentSays
  <1>5. /\ seq' = seq /\ ack' = ack /\ port' = port /\ pc' = "run" /\ call' = "tcp_send"
        /\ rc' = 0 /\ tx' = <<>> /\ oseq' = seq /\ inplace' = inplace
        /\ overwritten' = overwritten /\ retries' = retries /\ tries' = tries
        /\ c2p' = c2p \cup {g} /\ p2c' = p2c
        /\ pst' = pst /\ stream' = stream /\ psnd' = psnd
        /\ delivered' = delivered /\ swallowed' = swallowed
    BY <1>3 DEF tcp_send_ack, context, loops, server, app
  <1>6. 0 \in 0 .. StreamLen
    BY BoundAssumption
  <1>7. TypeOK'
    BY <1>4, <1>5, <1>6 DEF IInv, TypeOK
  <1>8. Phase'
    BY <1>1, <1>5 DEF Phase
  <1>9. ClientState'
    BY <1>5 DEF IInv, ClientState, prcv
  <1> QED
    BY <1>4, <1>5, <1>7, <1>8, <1>9, ClientStep DEF server

LEMMA Recv ==
    ASSUME IInv, NEW len \in Windows, tcp_recv(len)
    PROVE  IInv'
  <1>1. seq >= 2
    BY DEF IInv, Phase, tcp_recv
  <1>2. <<>> \in Seq(Data \cup {Garbage}) /\ clamp(len) \in 0 .. MaxWindow
    BY WindowAssumption DEF clamp
  <1>3. PICK g : g = tcp_segment(port, seq, ack, clamp(len), <<>>)
    OBVIOUS
  <1>4. g \in Segments /\ ClientSays(g)
    BY <1>1, <1>2, <1>3, SegmentSays
  <1>5. /\ seq' = seq /\ ack' = ack /\ port' = port /\ pc' = "wait" /\ call' = "tcp_recv"
        /\ rc' = rc /\ tx' = tx /\ oseq' = oseq /\ inplace' = inplace
        /\ overwritten' = overwritten /\ retries' = retries /\ tries' = tries
        /\ p2c' = p2c
        /\ pst' = pst /\ stream' = stream /\ psnd' = psnd
        /\ delivered' = delivered /\ swallowed' = swallowed
    BY DEF tcp_recv, context, sending, loops, server, app
  <1>6. c2p' \subseteq c2p \cup {g}
    BY <1>3 DEF tcp_recv
  <1>7. TypeOK'
    BY <1>4, <1>5, <1>6 DEF IInv, TypeOK
  <1>8. Phase'
    BY <1>1, <1>5 DEF Phase
  <1>9. ClientState'
    BY <1>5 DEF IInv, ClientState, prcv
  <1> QED
    BY <1>4, <1>5, <1>6, <1>7, <1>8, <1>9, ClientStep DEF server
-----------------------------------------------------------------------------
(* The ends of a wait *)

(* The caller is told of a failure, or tcp_connect tries another port. *)
LEMMA Fail ==
    ASSUME IInv, pc = "wait", NEW r \in {EAGAIN, ERESET, -1}, fail(r),
           overwritten' \in BOOLEAN, UNCHANGED <<tx, oseq, inplace, p2c, server, app>>
    PROVE  IInv'
  <1>1. /\ tx' = tx /\ oseq' = oseq /\ inplace' = inplace /\ p2c' = p2c
        /\ pst' = pst /\ stream' = stream /\ psnd' = psnd
        /\ delivered' = delivered /\ swallowed' = swallowed
    BY DEF server, app
  <1>2. CASE /\ call = "tcp_connect" /\ tries < MaxConnects
             /\ tries' = tries + 1 /\ retries' = 0
             /\ seq' = 1 /\ ack' = 0
             /\ port' \in Ports
             /\ c2p' = c2p \cup {SYN(port')}
             /\ UNCHANGED control
    <2>1. pc' = pc /\ call' = call /\ rc' = rc
      BY <1>2 DEF control
    <2>2. PICK g : g = SYN(port')
      OBVIOUS
    <2>3. g \in Segments /\ ClientSays(g)
      BY <1>2, <2>2, SynType
    <2>4. /\ 1 \in 0 .. SeqMod - 1 /\ 0 \in 0 .. SeqMod - 1 /\ 0 \in 0 .. MaxRetries
          /\ tries' \in 0 .. MaxConnects
      BY <1>2, SeqModAssumption, BoundAssumption DEF IInv, TypeOK
    <2>5. TypeOK'
      BY <1>1, <1>2, <2>1, <2>2, <2>3, <2>4 DEF IInv, TypeOK
    <2>6. Phase'
      BY <1>2, <2>1 DEF Phase
    <2>7. ClientState'
      <3>1. seq = 1
        BY <1>2 DEF IInv, Phase
      <3> QED
        BY <1>1, <1>2, <3>1 DEF IInv, ClientState
    <2> QED
      BY <1>2, <2>2, <2>3, <2>5, <2>6, <2>7, ClientStep
  <1>3. CASE /\ call = "tcp_connect" /\ tries >= MaxConnects
             /\ pc' = "exit" /\ rc' = -1
             /\ UNCHANGED <<call, context, loops, c2p>>
    <2>1. /\ seq' = seq /\ ack' = ack /\ port' = port /\ call' = call
          /\ retries' = retries /\ tries' = tries /\ c2p' = c2p
      BY <1>3 DEF context, loops
    <2>2. TypeOK'
      BY <1>1, <1>3, <2>1 DEF IInv, TypeOK
    <2>3. Phase'
      BY <1>3, <2>1 DEF IInv, Phase
    <2>4. ClientState'
      BY <1>1, <2>1 DEF IInv, ClientState, prcv
    <2> QED
      BY <2>1, <2>2, <2>3, <2>4, ClientStep
  <1>4. CASE /\ call # "tcp_connect"
             /\ pc' = "run" /\ rc' = r
             /\ UNCHANGED <<call, context, loops, c2p>>
    <2>1. /\ seq' = seq /\ ack' = ack /\ port' = port /\ call' = call
          /\ retries' = retries /\ tries' = tries /\ c2p' = c2p
      BY <1>4 DEF context, loops
    <2>2. TypeOK'
      BY <1>1, <1>4, <2>1 DEF IInv, TypeOK
    <2>3. Phase'
      BY <1>4, <2>1 DEF IInv, Phase
    <2>4. ClientState'
      BY <1>1, <2>1 DEF IInv, ClientState, prcv
    <2> QED
      BY <2>1, <2>2, <2>3, <2>4, ClientStep
  <1> QED
    BY <1>2, <1>3, <1>4 DEF fail

(* No usable packet: retransmit, or give up. *)
LEMMA Again ==
    ASSUME IInv, pc = "wait", NEW ow \in BOOLEAN, again(ow),
           overwritten' \in BOOLEAN, UNCHANGED <<tx, oseq, inplace, p2c, server, app>>
    PROVE  IInv'
  <1>1. CASE /\ call # "tcp_recv" /\ retry
             /\ c2p' = c2p \cup {IF seq = 1 THEN SYN(port)
                                 ELSE tcp_segment(port, seq, ack, 0, payload(ow))}
             /\ UNCHANGED <<context, control, tries>>
    <2>1. /\ seq' = seq /\ ack' = ack /\ port' = port /\ pc' = pc /\ call' = call
          /\ rc' = rc /\ tries' = tries
          /\ tx' = tx /\ oseq' = oseq /\ inplace' = inplace /\ p2c' = p2c
          /\ pst' = pst /\ stream' = stream /\ psnd' = psnd
          /\ delivered' = delivered /\ swallowed' = swallowed
      BY <1>1 DEF context, control, server, app
    <2>2. PICK g : g = IF seq = 1 THEN SYN(port)
                       ELSE tcp_segment(port, seq, ack, 0, payload(ow))
      OBVIOUS
    <2>3. g \in Segments /\ ClientSays(g)
      <3>1. CASE seq = 1
        BY <2>2, <3>1, SynType DEF IInv, TypeOK
      <3>2. CASE seq # 1
        <4>1. seq >= 2
          BY <3>2 DEF IInv, Phase
        <4>2. 0 \in 0 .. MaxWindow
          BY WindowAssumption
        <4> QED
          BY <2>2, <3>2, <4>1, <4>2, PayloadType, SegmentSays
      <3> QED
        BY <3>1, <3>2
    <2>4. retries' \in 0 .. MaxRetries
      BY <1>1, BoundAssumption DEF retry, IInv, TypeOK
    <2>5. TypeOK'
      BY <1>1, <2>1, <2>2, <2>3, <2>4 DEF IInv, TypeOK
    <2>6. Phase'
      BY <2>1 DEF IInv, Phase
    <2>7. ClientState'
      BY <2>1 DEF IInv, ClientState, prcv
    <2> QED
      BY <1>1, <2>2, <2>3, <2>5, <2>6, <2>7, ClientStep
  <1>2. CASE fail(-1) \/ fail(EAGAIN)
    BY <1>2, Fail
  <1> QED
    BY <1>1, <1>2 DEF again

LEMMA RxTimeout ==
    ASSUME IInv, rx_timeout
    PROVE  IInv'
  <1>1. overwritten \in BOOLEAN
    BY DEF IInv, TypeOK
  <1> QED
    BY <1>1, Again DEF rx_timeout, sending

LEMMA RxOther ==
    ASSUME IInv, rx_other
    PROVE  IInv'
  BY Again DEF rx_other

LEMMA RxReset ==
    ASSUME IInv, NEW s \in p2c, rx_reset(s)
    PROVE  IInv'
  BY Fail DEF rx_reset, for_us

LEMMA RxSynRefused ==
    ASSUME IInv, NEW s \in p2c, rx_syn_refused(s)
    PROVE  IInv'
  BY Fail DEF rx_syn_refused, for_us

(* What the client may rely on in a packet of the server. *)
LEMMA PacketSays ==
    ASSUME IInv, NEW s \in p2c
    PROVE  /\ s.port \in Ports /\ s.seq \in 0 .. SeqMod - 1 /\ s.ack \in 2 .. 2 + MaxStream
           /\ s.pos \in Int /\ s.len \in 0 .. StreamLen /\ s.syn \in BOOLEAN
           /\ PeerSays(s)
  <1>1. s \in PeerSegments
    BY Zenon DEF IInv, TypeOK
  <1>2. PeerSays(s)
    BY Zenon DEF IInv, PeerTruthful
  <1>3. /\ s.port \in Ports /\ s.seq \in 0 .. SeqMod - 1 /\ s.ack \in 2 .. 2 + MaxStream
        /\ s.pos \in Int /\ s.len \in 0 .. StreamLen /\ s.syn \in BOOLEAN
    BY <1>1 DEF PeerSegments
  <1> QED
    BY <1>2, <1>3, Zenon

LEMMA RxSynack ==
    ASSUME IInv, NoWrap, NEW s \in p2c, rx_synack(s)
    PROVE  IInv'
  <1>1. s.port = port /\ seq = 1 /\ s.ack = 2 /\ s.syn /\ pc = "wait" /\ call = "tcp_connect"
    BY DEF rx_synack, for_us, IInv, Phase
  <1>2. port \in Ports /\ Isn[port] \in 0 .. SeqMod - 1 /\ psnd[port] \in 0 .. StreamLen
    BY PeerTypes DEF IInv, TypeOK
  <1>3. s.seq = Isn[port]
    BY <1>1, <1>2, PacketSays DEF PeerSays
  <1>4. (s.seq + 1) % SeqMod = Isn[port] + 1 /\ Isn[port] + 1 \in 0 .. (SeqMod - 1)
    <2>1. Isn[port] + 1 \in 0 .. (SeqMod - 1)
      BY <1>2, BoundAssumption, SeqModAssumption DEF NoWrap
    <2> QED
      BY <1>3, <2>1, ModIdentity, SeqModPos
  <1>5. /\ seq' = 2 /\ ack' = Isn[port] + 1 /\ port' = port /\ pc' = "run" /\ call' = call
        /\ rc' = 0 /\ tx' = tx /\ oseq' = oseq /\ inplace' = inplace
        /\ overwritten' = TRUE /\ retries' = retries /\ tries' = tries
        /\ c2p' = c2p \cup {tcp_segment(port, 2, Isn[port] + 1, 0, <<>>)} /\ p2c' = p2c
        /\ pst' = pst /\ stream' = stream /\ psnd' = psnd
        /\ delivered' = delivered /\ swallowed' = swallowed
    BY <1>1, <1>4 DEF rx_synack, succeed, loops, server, app
  <1>6. PICK g : g = tcp_segment(port, 2, Isn[port] + 1, 0, <<>>)
    OBVIOUS
  <1>7. g \in Segments /\ ClientSays(g)
    <2>1. 2 \in 0 .. SeqMod - 1 /\ 0 \in 0 .. MaxWindow /\ <<>> \in Seq(Data \cup {Garbage})
      BY SeqModAssumption, BoundAssumption, WindowAssumption
    <2>2. g.port = port /\ g.ack = Isn[port] + 1
      BY <1>6 DEF tcp_segment
    <2>3. Isn[port] + 1 <= g.ack /\ g.ack <= Isn[port] + 1 + psnd[port]
      BY <1>2, <2>2
    <2>4. g \in Segments
      BY <1>2, <1>4, <1>6, <2>1, SegmentType
    <2> QED
      BY <2>2, <2>3, <2>4 DEF ClientSays
  <1>8. 2 \in 0 .. SeqMod - 1 /\ 0 \in 0 .. StreamLen
    BY SeqModAssumption, BoundAssumption
  <1>9. TypeOK'
    BY <1>2, <1>4, <1>5, <1>6, <1>7, <1>8 DEF IInv, TypeOK
  <1>10. Phase'
    BY <1>1, <1>5 DEF Phase
  <1>11. ClientState'
    <2>1. \A b \in Bytes : delivered'[b] = 0
      BY <1>1, <1>5 DEF IInv, ClientState
    <2>2. 2 <= prcv(port)'
      <3>1. prcv(port)' = prcv(port) /\ prcv(port) \in 2 .. 2 + MaxStream
        BY <1>2, <1>5, PeerTypes DEF prcv
      <3> QED
        BY <3>1, BoundAssumption
    <2>3. Isn[port] + 1 <= ack' /\ ack' <= Isn[port] + 1 + psnd[port]
      BY <1>2, <1>5
    <2> QED
      BY <1>5, <2>1, <2>2, <2>3 DEF ClientState
  <1> QED
    BY <1>5, <1>6, <1>7, <1>9, <1>10, <1>11, ClientStep DEF server

LEMMA RxProbe ==
    ASSUME IInv, NEW s \in p2c, rx_probe(s)
    PROVE  IInv'
  <1>1. /\ seq' = seq /\ ack' = ack /\ port' = port /\ pc' = pc /\ call' = call
        /\ rc' = rc /\ tx' = tx /\ oseq' = oseq /\ inplace' = inplace
        /\ retries' = retries /\ tries' = tries /\ c2p' = c2p /\ p2c' = p2c
        /\ pst' = pst /\ stream' = stream /\ psnd' = psnd
        /\ delivered' = delivered /\ swallowed' = swallowed
    BY DEF rx_probe, context, control, loops, server, app
  <1>2. overwritten' \in BOOLEAN
    BY PacketSays DEF rx_probe, IInv, TypeOK
  <1>3. TypeOK'
    BY <1>1, <1>2 DEF IInv, TypeOK
  <1>4. Phase' /\ ClientState'
    BY <1>1 DEF IInv, Phase, ClientState, prcv
  <1> QED
    BY <1>1, <1>3, <1>4, ClientStep DEF server

(* tcp->seq after a packet: not lower, and still within what was received. *)
LEMMA RxAck ==
    ASSUME IInv, NEW s \in p2c, s.port = port, seq >= 2, rx_ack(s)
    PROVE  /\ seq' \in 0 .. SeqMod - 1 /\ seq' >= 2 /\ seq' >= seq
           /\ seq' <= prcv(port)
  <1>1. /\ s.ack \in 2 .. 2 + MaxStream /\ s.ack <= prcv(port)
        /\ seq \in 0 .. SeqMod - 1 /\ seq <= prcv(port)
    BY PacketSays DEF PeerSays, IInv, ClientState, TypeOK
  <1> QED
    BY <1>1, SeqModAssumption, BoundAssumption DEF rx_ack

LEMMA RxNodata ==
    ASSUME IInv, NEW s \in p2c, rx_nodata(s)
    PROVE  IInv'
  <1>1. s.port = port /\ seq >= 2 /\ rx_ack(s) /\ pc = "wait" /\ call # "none"
    BY DEF rx_nodata, for_us, IInv, Phase
  <1>2. /\ ack' = ack /\ port' = port /\ pc' = "run" /\ call' = call
        /\ rc' = 0 /\ tx' = tx /\ oseq' = oseq /\ inplace' = inplace
        /\ overwritten' = TRUE /\ retries' = retries /\ tries' = tries
        /\ c2p' = c2p /\ p2c' = p2c
        /\ pst' = pst /\ stream' = stream /\ psnd' = psnd
        /\ delivered' = delivered /\ swallowed' = swallowed
    BY DEF rx_nodata, succeed, loops, server, app
  <1>3. seq' \in 0 .. SeqMod - 1 /\ seq' >= 2 /\ seq' <= prcv(port)
    BY <1>1, RxAck
  <1>4. 0 \in 0 .. StreamLen
    BY BoundAssumption
  <1>5. TypeOK'
    BY <1>2, <1>3, <1>4 DEF IInv, TypeOK
  <1>6. Phase'
    BY <1>1, <1>2, <1>3 DEF Phase
  <1>7. ClientState'
    <2>1. prcv(port)' = prcv(port)
      BY <1>2 DEF prcv
    <2> QED
      BY <1>1, <1>2, <1>3, <2>1 DEF IInv, ClientState
  <1> QED
    BY <1>2, <1>5, <1>6, <1>7, ClientStep DEF server

(* New data lies at or above tcp->ack, and tcp->ack moves to its end. *)
LEMMA RxNew ==
    ASSUME IInv, NoWrap, NEW s \in p2c, rx_data(s)
    PROVE  /\ s.port = port /\ port \in Ports /\ seq >= 2 /\ s.len \in 1 .. StreamLen
           /\ s.pos \in 0 .. StreamLen /\ s.pos + s.len <= psnd[port]
           /\ psnd[port] \in 0 .. StreamLen /\ Isn[port] \in 0 .. SeqMod - 1
           /\ ack - Isn[port] - 1 <= s.pos
           /\ ack' = Isn[port] + 1 + s.pos + s.len
           /\ ack' \in 0 .. SeqMod - 1
  <1>1. /\ s.port = port /\ seq >= 2 /\ s.len > 0 /\ ~(s.seq < ack)
        /\ ack' = (s.seq + s.len) % SeqMod
    BY DEF rx_data, for_us, IInv, Phase, is_retransmission
  <1>2. /\ port \in Ports /\ ack \in 0 .. SeqMod - 1 /\ s.seq \in 0 .. SeqMod - 1
        /\ s.len \in 0 .. StreamLen /\ s.pos \in Int
        /\ psnd[port] \in 0 .. StreamLen /\ Isn[port] \in 0 .. SeqMod - 1
    BY PacketSays, PeerTypes DEF IInv, TypeOK
  <1>3. /\ s.seq = Isn[port] + 1 + s.pos
        /\ 0 <= s.pos /\ s.pos + s.len <= psnd[port]
    BY <1>1, PacketSays DEF PeerSays
  <1>4. s.seq + s.len \in 0 .. (SeqMod - 1)
    BY <1>2, <1>3, SeqModAssumption, BoundAssumption DEF NoWrap
  <1>5. ack' = s.seq + s.len
    BY <1>1, <1>4, ModIdentity, SeqModPos
  <1>6. ack - Isn[port] - 1 <= s.pos
    BY <1>1, <1>2, <1>3
  <1> QED
    BY <1>1, <1>2, <1>3, <1>4, <1>5, <1>6, BoundAssumption

LEMMA RxData ==
    ASSUME IInv, NoWrap, NEW s \in p2c, rx_data(s)
    PROVE  IInv'
  <1>1. s.port = port /\ rx_ack(s) /\ pc = "wait" /\ call # "none"
    BY DEF rx_data, for_us, IInv, Phase
  <1>2. /\ port \in Ports /\ seq >= 2 /\ s.len \in 1 .. StreamLen
        /\ s.pos \in 0 .. StreamLen /\ s.pos + s.len <= psnd[port]
        /\ psnd[port] \in 0 .. StreamLen /\ Isn[port] \in 0 .. SeqMod - 1
        /\ ack - Isn[port] - 1 <= s.pos
        /\ ack' = Isn[port] + 1 + s.pos + s.len
        /\ ack' \in 0 .. SeqMod - 1
    BY RxNew
  <1>3. seq' \in 0 .. SeqMod - 1 /\ seq' >= 2 /\ seq' <= prcv(port)
    BY <1>1, <1>2, RxAck
  <1>4. /\ port' = port /\ pc' = "run" /\ call' = call
        /\ rc' \in {0, s.len} /\ tx' = tx /\ oseq' = oseq /\ inplace' = inplace
        /\ overwritten' = TRUE /\ retries' = retries /\ tries' = tries
        /\ c2p' = c2p \cup {tcp_segment(port, seq', ack', 0, <<>>)} /\ p2c' = p2c
        /\ pst' = pst /\ stream' = stream /\ psnd' = psnd
    BY DEF rx_data, succeed, loops, server
  <1>5. data_of(s) \subseteq Bytes /\ \A b \in data_of(s) : b < ack' - Isn[port] - 1
    BY <1>2, BoundAssumption DEF data_of, Bytes
  <1>6. /\ delivered' \in [Bytes -> Nat] /\ swallowed' \subseteq Bytes
        /\ \A b \in Bytes : delivered'[b] > 0 => delivered[b] > 0 \/ b \in data_of(s)
    <2>1. delivered \in [Bytes -> Nat] /\ swallowed \subseteq Bytes
      BY DEF IInv, TypeOK
    <2>2. CASE call = "tcp_recv"
      <3>1. /\ swallowed' = swallowed
            /\ delivered' = [b \in Bytes |-> delivered[b] + IF b \in data_of(s) THEN 1 ELSE 0]
        BY <2>2 DEF rx_data
      <3> QED
        BY <2>1, <3>1
    <2>3. CASE call # "tcp_recv"
      <3>1. swallowed' = swallowed \cup data_of(s) /\ delivered' = delivered
        BY <2>3 DEF rx_data
      <3> QED
        BY <1>5, <2>1, <3>1
    <2> QED
      BY <2>2, <2>3
  <1>7. PICK g : g = tcp_segment(port, seq', ack', 0, <<>>)
    OBVIOUS
  <1>8. g \in Segments /\ ClientSays(g)
    <2>1. 0 \in 0 .. MaxWindow /\ <<>> \in Seq(Data \cup {Garbage})
      BY WindowAssumption
    <2>2. g.port = port /\ g.ack = ack'
      BY <1>7 DEF tcp_segment
    <2>3. Isn[port] + 1 <= ack' /\ ack' <= Isn[port] + 1 + psnd[port]
      BY <1>2
    <2> QED
      BY <1>2, <1>3, <1>7, <2>1, <2>2, <2>3, SegmentType DEF ClientSays
  <1>9. rc' \in 0 .. StreamLen
    BY <1>2, <1>4, BoundAssumption
  <1>10. TypeOK'
    BY <1>2, <1>3, <1>4, <1>6, <1>7, <1>8, <1>9 DEF IInv, TypeOK
  <1>11. Phase'
    BY <1>1, <1>3, <1>4 DEF Phase
  <1>12. ClientState'
    <2>1. prcv(port)' = prcv(port)
      BY <1>4 DEF prcv
    <2>2. Isn[port] + 1 <= ack' /\ ack' <= Isn[port] + 1 + psnd[port]
      BY <1>2
    <2>3. ASSUME NEW b \in Bytes, delivered'[b] > 0 PROVE b < ack' - Isn[port] - 1
      <3>1. CASE b \in data_of(s)
        BY <1>5, <3>1
      <3>2. CASE delivered[b] > 0
        <4>1. b < ack - Isn[port] - 1
          BY <1>2, <3>2 DEF IInv, ClientState
        <4>2. b \in Int /\ ack \in Int
          BY DEF Bytes, IInv, TypeOK
        <4> QED
          BY <1>2, <4>1, <4>2
      <3> QED
        BY <1>6, <2>3, <3>1, <3>2
    <2> QED
      BY <1>3, <1>4, <2>1, <2>2, <2>3 DEF ClientState
  <1> QED
    BY <1>4, <1>7, <1>8, <1>10, <1>11, <1>12, ClientStep DEF server
-----------------------------------------------------------------------------
(* The invariant *)

LEMMA InitIInv == Init => IInv
  <1> SUFFICES ASSUME Init PROVE IInv
    OBVIOUS
  <1>1. /\ 0 \in 0 .. SeqMod - 1 /\ 0 \in 0 .. MaxRetries /\ 0 \in 0 .. MaxConnects
        /\ 0 \in 0 .. StreamLen /\ 0 <= MaxStream
    BY SeqModAssumption, BoundAssumption
  <1>2. FirstPort \in Ports
    BY PortAssumption
  <1>3. <<>> \in Seq(Data \cup {Garbage}) /\ Len(<<>>) = 0
    OBVIOUS
  <1>4. TypeOK
    BY <1>1, <1>2, <1>3 DEF Init, TypeOK
  <1>5. PeerTruthful /\ ClientTruthful
    BY DEF Init, PeerTruthful, ClientTruthful
  <1>6. Phase /\ ClientState
    BY DEF Init, Phase, ClientState
  <1> QED
    BY <1>4, <1>5, <1>6 DEF IInv

LEMMA NextIInv == NoWrap /\ IInv /\ [Next]_vars => IInv'
  <1> SUFFICES ASSUME NoWrap, IInv, [Next]_vars PROVE IInv'
    OBVIOUS
  <1>1. CASE Application
    BY <1>1, Connect, Send, SendAck, Recv DEF Application
  <1>2. CASE Receive
    BY <1>2, RxTimeout, RxOther, RxReset, RxSynRefused, RxSynack, RxProbe, RxNodata, RxData
       DEF Receive
  <1>3. CASE Peer
    BY <1>3, PeerSyn, PeerEstablished, PeerData, PeerSend, PeerProbe, PeerAck, PeerReset
       DEF Peer
  <1>4. CASE UNCHANGED vars
    BY <1>4 DEF vars, context, control, sending, loops, server, app, IInv, TypeOK,
       PeerTruthful, PeerSays, ClientTruthful, ClientSays, Phase, ClientState, prcv
  <1> QED
    BY <1>1, <1>2, <1>3, <1>4 DEF Next

LEMMA Invariant == NoWrap => (Spec => []IInv)
  <1> SUFFICES ASSUME NoWrap PROVE Spec => []IInv
    OBVIOUS
  <1>1. IInv /\ [Next]_vars => IInv'
    BY NextIInv
  <1> QED
    BY <1>1, InitIInv, PTL DEF Spec
-----------------------------------------------------------------------------
(* Theorems *)

(* The types of tcp_context_t, the loop limits of tcp_send and tcp_connect  *)
(* and the clamp of the window hold in every run of the client.             *)
THEOREM TypeCorrect == NoWrap => (Spec => []TypeOK)
  <1> SUFFICES ASSUME NoWrap PROVE Spec => []TypeOK
    OBVIOUS
  <1>1. IInv => TypeOK
    BY DEF IInv
  <1> QED
    BY <1>1, Invariant, PTL

(* tcp->seq counts only bytes that the server has: whatever packets are     *)
(* lost, repeated, reordered or meant for another port.                     *)
THEOREM SeqSafe == NoWrap => (Spec => []AckedIsReceived)
  <1> SUFFICES ASSUME NoWrap PROVE Spec => []AckedIsReceived
    OBVIOUS
  <1>1. IInv => AckedIsReceived
    BY DEF IInv, ClientState, AckedIsReceived, Connected
  <1> QED
    BY <1>1, Invariant, PTL

(* tcp->ack counts only bytes that the server has sent on this connection.  *)
THEOREM AckSafe == NoWrap => (Spec => []AckWithinSent)
  <1> SUFFICES ASSUME NoWrap PROVE Spec => []AckWithinSent
    OBVIOUS
  <1>1. IInv => AckWithinSent
    <2> SUFFICES ASSUME IInv, seq >= 2 PROVE pos_of(port, ack) <= psnd[port]
      BY DEF AckWithinSent, Connected
    <2>1. /\ port \in Ports /\ ack \in 0 .. SeqMod - 1
          /\ Isn[port] + 1 <= ack /\ ack <= Isn[port] + 1 + psnd[port]
      BY DEF IInv, TypeOK, ClientState
    <2>2. pos_of(port, ack) = ack - Isn[port] - 1
      BY <2>1, PosOf
    <2>3. psnd[port] \in Int /\ Isn[port] \in Int
      BY <2>1, PeerTypes
    <2> QED
      BY <2>1, <2>2, <2>3
  <1> QED
    BY <1>1, Invariant, PTL

(* No data segment is longer than the room behind the headers in the packet *)
(* buffer, whatever len the application passes to tcp_recv.                 *)
THEOREM BufferSafe == NoWrap => (Spec => []DataFits)
  <1> SUFFICES ASSUME NoWrap PROVE Spec => []DataFits
    OBVIOUS
  <1>1. IInv => DataFits
    BY DEF IInv, PeerTruthful, PeerSays, DataFits
  <1> QED
    BY <1>1, Invariant, PTL
(* Once connected, only a packet of the server moves the numbers or hands   *)
(* out data.                                                                *)
LEMMA OtherSteps ==
    ASSUME IInv, Application \/ rx_timeout \/ rx_other \/ Peer
    PROVE  /\ delivered' = delivered
           /\ seq >= 2 => seq' = seq /\ ack' = ack
  <1>1. CASE Application
    <2>1. ASSUME tcp_connect PROVE delivered' = delivered /\ seq = 0
      BY <2>1 DEF tcp_connect, app, IInv, Phase
    <2>2. ASSUME NEW m \in Messages, NEW ip \in InPlace, tcp_send(m, ip)
          PROVE  delivered' = delivered /\ seq' = seq /\ ack' = ack
      BY <2>2 DEF tcp_send, app, context
    <2>3. ASSUME NEW w \in Windows, tcp_send_ack(w)
          PROVE  delivered' = delivered /\ seq' = seq /\ ack' = ack
      BY <2>3 DEF tcp_send_ack, app, context
    <2>4. ASSUME NEW w \in Windows, tcp_recv(w)
          PROVE  delivered' = delivered /\ seq' = seq /\ ack' = ack
      BY <2>4 DEF tcp_recv, app, context
    <2> QED
      BY <1>1, <2>1, <2>2, <2>3, <2>4 DEF Application
  <1>2. ASSUME NEW ow, pc = "wait", again(ow)
        PROVE  seq >= 2 => seq' = seq /\ ack' = ack
    BY <1>2 DEF again, fail, context, IInv, Phase
  <1>3. CASE rx_timeout
    BY <1>2, <1>3 DEF rx_timeout, app
  <1>4. CASE rx_other
    BY <1>2, <1>4 DEF rx_other, app
  <1>5. CASE Peer
    <2>1. client_unchanged
      BY <1>5 DEF Peer, peer_syn, peer_established, peer_data, peer_ack, peer_send, peer_probe, peer_reset
    <2> QED
      BY <2>1 DEF client_unchanged, context, app
  <1> QED
    BY <1>1, <1>3, <1>4, <1>5

LEMMA RefusedSteps ==
    ASSUME IInv, NEW s \in p2c, rx_reset(s) \/ rx_syn_refused(s) \/ rx_synack(s) \/ rx_probe(s)
    PROVE  /\ delivered' = delivered
           /\ seq >= 2 => seq' = seq /\ ack' = ack
  <1>1. ASSUME NEW r, pc = "wait", fail(r)
        PROVE  seq >= 2 => seq' = seq /\ ack' = ack
    BY <1>1 DEF fail, context, IInv, Phase
  <1>2. CASE rx_reset(s)
    BY <1>1, <1>2 DEF rx_reset, for_us, app
  <1>3. CASE rx_syn_refused(s)
    BY <1>3 DEF rx_syn_refused, app
  <1>4. CASE rx_synack(s)
    BY <1>4 DEF rx_synack, app
  <1>5. CASE rx_probe(s)
    BY <1>5 DEF rx_probe, app, context
  <1> QED
    BY <1>2, <1>3, <1>4, <1>5

LEMMA NoRegress ==
    ASSUME IInv, NoWrap, [Next]_vars, Connected
    PROVE  seq' >= seq /\ pos_of(port, ack') >= pos_of(port, ack)
  <1>1. /\ seq >= 2 /\ seq \in Int /\ port \in Ports /\ ack \in 0 .. SeqMod - 1
        /\ Isn[port] + 1 <= ack /\ Isn[port] \in 0 .. SeqMod - 1
    BY PeerTypes DEF IInv, TypeOK, ClientState, Connected
  <1>2. pos_of(port, ack) = ack - Isn[port] - 1 /\ pos_of(port, ack) \in Int
    BY <1>1, PosOf
  <1>3. ASSUME seq' = seq, ack' = ack
        PROVE  seq' >= seq /\ pos_of(port, ack') >= pos_of(port, ack)
    BY <1>1, <1>2, <1>3
  <1>4. ASSUME NEW s \in p2c, rx_nodata(s)
        PROVE  seq' >= seq /\ ack' = ack
    BY <1>1, <1>4, RxAck DEF rx_nodata, for_us
  <1>5. ASSUME NEW s \in p2c, rx_data(s)
        PROVE  seq' >= seq /\ pos_of(port, ack') >= pos_of(port, ack)
    <2>1. seq' >= seq
      BY <1>1, <1>5, RxAck DEF rx_data, for_us
    <2>2. /\ s.len \in 1 .. StreamLen /\ s.pos \in 0 .. StreamLen
          /\ ack - Isn[port] - 1 <= s.pos
          /\ ack' = Isn[port] + 1 + s.pos + s.len /\ ack' \in 0 .. SeqMod - 1
      BY <1>5, RxNew
    <2>3. pos_of(port, ack') = ack' - Isn[port] - 1
      BY <1>1, <2>2, PosOf
    <2> QED
      BY <1>1, <1>2, <2>1, <2>2, <2>3
  <1>6. CASE UNCHANGED vars
    BY <1>3, <1>6 DEF vars, context
  <1>7. CASE Application \/ rx_timeout \/ rx_other \/ Peer
    BY <1>1, <1>3, <1>7, OtherSteps
  <1>8. ASSUME NEW s \in p2c, rx_reset(s) \/ rx_syn_refused(s) \/ rx_synack(s) \/ rx_probe(s)
        PROVE  seq' = seq /\ ack' = ack
    BY <1>1, <1>8, RefusedSteps
  <1> QED
    BY <1>1, <1>2, <1>3, <1>4, <1>5, <1>6, <1>7, <1>8 DEF Next, Receive

LEMMA InOrder ==
    ASSUME IInv, NoWrap, [Next]_vars,
           NEW b \in Bytes, delivered'[b] > delivered[b],
           NEW d \in Bytes, delivered[d] > 0
    PROVE  d < b
  <1>1. /\ delivered \in [Bytes -> Nat] /\ b \in Int /\ d \in Int
        /\ port \in Ports /\ ack \in Int
    BY BoundAssumption DEF IInv, TypeOK, Bytes
  <1>2. delivered' # delivered
    BY <1>1
  <1>3. ASSUME NEW s \in p2c, rx_data(s) PROVE d < b
    <2>1. /\ seq >= 2 /\ Isn[port] \in Int /\ ack - Isn[port] - 1 <= s.pos
          /\ s.pos \in Int /\ s.len \in Int
      BY <1>3, RxNew
    <2>2. d < ack - Isn[port] - 1
      BY <2>1 DEF IInv, ClientState
    <2>3. b \in data_of(s)
      BY <1>1, <1>2, <1>3 DEF rx_data
    <2> QED
      BY <1>1, <2>1, <2>2, <2>3 DEF data_of
  <1>4. CASE UNCHANGED vars
    BY <1>2, <1>4 DEF vars, app
  <1>5. CASE Application \/ rx_timeout \/ rx_other \/ Peer
    BY <1>2, <1>5, OtherSteps
  <1>6. ASSUME NEW s \in p2c, rx_reset(s) \/ rx_syn_refused(s) \/ rx_synack(s) \/ rx_probe(s)
        PROVE  FALSE
    BY <1>2, <1>6, RefusedSteps
  <1>7. ASSUME NEW s \in p2c, rx_nodata(s) PROVE FALSE
    BY <1>2, <1>7 DEF rx_nodata, app
  <1> QED
    BY <1>3, <1>4, <1>5, <1>6, <1>7 DEF Next, Receive

(* While a connection lasts neither tcp->seq nor tcp->ack moves back, for   *)
(* every loss, repetition and order of the packets.                         *)
THEOREM NoRegression == NoWrap => (Spec => NeverRegresses)
  <1> SUFFICES ASSUME NoWrap PROVE Spec => NeverRegresses
    OBVIOUS
  <1>1. IInv /\ [Next]_vars =>
          [Connected => seq' >= seq /\ pos_of(port, ack') >= pos_of(port, ack)]_vars
    BY NoRegress
  <1> QED
    BY <1>1, Invariant, PTL DEF Spec, NeverRegresses

(* tcp_recv hands out every byte of the server at most once, in ascending   *)
(* order, whatever retransmissions overlap.                                 *)
THEOREM InOrderAtMostOnce == NoWrap => (Spec => InOrderOnce)
  <1> SUFFICES ASSUME NoWrap PROVE Spec => InOrderOnce
    OBVIOUS
  <1>1. IInv /\ [Next]_vars =>
          [\A b \in Bytes : delivered'[b] > delivered[b] =>
             \A d \in Bytes : delivered[d] > 0 => d < b]_vars
    BY InOrder
  <1> QED
    BY <1>1, Invariant, PTL DEF Spec, InOrderOnce
-----------------------------------------------------------------------------
(* The client implements ByteStream, for every instance without wrap        *)
(* around.  On top of IInv this needs Quiet: no byte of the application is  *)
(* under way before the connection is established, so that the stream       *)
(* starts empty.                                                            *)

Quiet ==
    seq < 2 => /\ \A s \in c2p : s.data = <<>>
               /\ \A p \in Ports : stream[p] = <<>>

-----------------------------------------------------------------------------
(* Steps of the client, other than those a packet of the server causes      *)

LEMMA ClientSteps ==
    ASSUME IInv, Application \/ Receive
    PROVE  /\ stream' = stream
           /\ seq >= 2 => port' = port
           /\ seq < 2 /\ seq' < 2 => \A g \in c2p' : g \in c2p \/ g.data = <<>>
  <1>1. \A p : SYN(p).data = <<>>
    BY DEF SYN, tcp_segment
  <1>2. ASSUME NEW r, pc = "wait", fail(r)
        PROVE  /\ seq >= 2 => port' = port
               /\ seq < 2 => \A g \in c2p' : g \in c2p \/ g.data = <<>>
    BY <1>1, <1>2 DEF fail, context, IInv, Phase
  <1>3. ASSUME NEW ow, pc = "wait", again(ow)
        PROVE  /\ seq >= 2 => port' = port
               /\ seq < 2 => \A g \in c2p' : g \in c2p \/ g.data = <<>>
    <2>1. CASE retry /\ UNCHANGED <<context, control, tries>>
               /\ c2p' = c2p \cup {IF seq = 1 THEN SYN(port)
                                   ELSE tcp_segment(port, seq, ack, 0, payload(ow))}
      <3>1. seq < 2 => seq = 1
        BY <1>3 DEF IInv, Phase, TypeOK
      <3> QED
        BY <1>1, <2>1, <3>1 DEF context
    <2> QED
      BY <1>2, <1>3, <2>1 DEF again
  <1>4. CASE Application
    <2>1. ASSUME tcp_connect
          PROVE  stream' = stream /\ port' = port /\ \A g \in c2p' : g \in c2p \/ g.data = <<>>
      BY <1>1, <2>1 DEF tcp_connect, server
    <2>2. ASSUME NEW m \in Messages, NEW ip \in InPlace, tcp_send(m, ip)
          PROVE  stream' = stream /\ port' = port /\ seq >= 2
      BY <2>2 DEF tcp_send, server, context, IInv, Phase
    <2>3. ASSUME NEW w \in Windows, tcp_send_ack(w)
          PROVE  stream' = stream /\ port' = port /\ seq >= 2
      BY <2>3 DEF tcp_send_ack, server, context, IInv, Phase
    <2>4. ASSUME NEW w \in Windows, tcp_recv(w)
          PROVE  stream' = stream /\ port' = port /\ seq >= 2
      BY <2>4 DEF tcp_recv, server, context, IInv, Phase
    <2>5. seq \in Int
      BY DEF IInv, TypeOK
    <2> QED
      BY <1>4, <2>1, <2>2, <2>3, <2>4, <2>5 DEF Application
  <1>5. CASE rx_timeout \/ rx_other
    BY <1>3, <1>5 DEF rx_timeout, rx_other, server
  <1>6. ASSUME NEW s \in p2c, rx_reset(s) \/ rx_syn_refused(s)
        PROVE  /\ stream' = stream
               /\ seq >= 2 => port' = port
               /\ seq < 2 => \A g \in c2p' : g \in c2p \/ g.data = <<>>
    BY <1>2, <1>6 DEF rx_reset, rx_syn_refused, for_us, server
  <1>7. ASSUME NEW s \in p2c, rx_synack(s)
        PROVE  stream' = stream /\ port' = port /\ \A g \in c2p' : g \in c2p \/ g.data = <<>>
    BY <1>7 DEF rx_synack, succeed, server, tcp_segment
  <1>8. ASSUME NEW s \in p2c, rx_probe(s) \/ rx_nodata(s)
        PROVE  stream' = stream /\ port' = port /\ c2p' = c2p
    BY <1>8 DEF rx_probe, rx_nodata, succeed, server, context
  <1>9. ASSUME NEW s \in p2c, rx_data(s)
        PROVE  stream' = stream /\ port' = port /\ \A g \in c2p' : g \in c2p \/ g.data = <<>>
    BY <1>9 DEF rx_data, succeed, server, tcp_segment
  <1> QED
    BY <1>4, <1>5, <1>6, <1>7, <1>8, <1>9 DEF Receive

LEMMA PeerSteps ==
    ASSUME IInv, Quiet, Peer
    PROVE  /\ seq' = seq /\ ack' = ack /\ port' = port /\ delivered' = delivered /\ c2p' = c2p
           /\ Len(stream'[port]) >= Len(stream[port])
           /\ seq < 2 => stream' = stream
  <1>1. client_unchanged
    BY DEF Peer, peer_syn, peer_established, peer_data, peer_ack, peer_send, peer_probe, peer_reset
  <1>2. seq' = seq /\ ack' = ack /\ port' = port /\ delivered' = delivered /\ c2p' = c2p
    BY <1>1 DEF client_unchanged, context, app
  <1>3. stream' = stream \/ \E s \in c2p : peer_data(s)
    BY DEF Peer, peer_syn, peer_established, peer_ack, peer_send, peer_probe, peer_reset, server
  <1>4. port \in Ports /\ stream \in [Ports -> Seq(Data \cup {Garbage})] /\ Len(stream[port]) \in Nat
    BY DEF IInv, TypeOK
  <1>5. CASE stream' = stream
    BY <1>2, <1>4, <1>5
  <1>6. ASSUME NEW s \in c2p, peer_data(s)
        PROVE  /\ Len(stream'[port]) >= Len(stream[port])
               /\ seq < 2 => stream' = stream
    <2>1. s.port \in Ports /\ s.data \in Seq(Data \cup {Garbage}) /\ s.seq \in Nat
      BY SMTT(30) DEF IInv, TypeOK, Segments
    <2> DEFINE new == SubSeq(s.data, prcv(s.port) - s.seq + 1, Len(s.data))
    <2>2. stream' = [stream EXCEPT ![s.port] = @ \o new] /\ s.seq <= prcv(s.port)
          /\ prcv(s.port) < s.seq + Len(s.data)
      BY <1>6 DEF peer_data
    <2>3. prcv(s.port) \in Nat /\ Len(s.data) \in Nat
      BY <1>4, <2>1 DEF prcv
    <2>4. new \in Seq(Data \cup {Garbage})
      BY <2>1, <2>2, <2>3
    <2>5. Len(stream[s.port] \o new) >= Len(stream[s.port])
      BY <1>4, <2>1, <2>4
    <2>6. s.data # <<>>
      BY <2>1, <2>2, <2>3
    <2>7. ~(seq < 2)
      BY <2>6 DEF Quiet
    <2>8. Len(stream'[port]) >= Len(stream[port])
      <3> HIDE DEF new
      <3>1. CASE s.port = port
        BY <1>4, <2>2, <2>5, <3>1
      <3>2. CASE s.port # port
        BY <1>4, <2>2, <3>2
      <3> QED
        BY <3>1, <3>2
    <2> QED
      BY <2>7, <2>8
  <1> QED
    BY <1>2, <1>3, <1>5, <1>6

LEMMA QuietStep == NoWrap /\ IInv /\ Quiet /\ [Next]_vars => Quiet'
  <1> SUFFICES ASSUME NoWrap, IInv, Quiet, [Next]_vars, seq' < 2
               PROVE  /\ \A s \in c2p' : s.data = <<>>
                      /\ \A p \in Ports : stream'[p] = <<>>
    BY DEF Quiet
  <1>1. seq < 2
    <2>1. seq \in Int /\ seq' \in Int
      BY NextIInv DEF IInv, TypeOK
    <2> QED
      BY <2>1, NoRegress DEF Connected
  <1>2. CASE Application \/ Receive
    BY <1>1, <1>2, ClientSteps DEF Quiet
  <1>3. CASE Peer
    BY <1>1, <1>3, PeerSteps DEF Quiet
  <1>4. CASE UNCHANGED vars
    BY <1>1, <1>4 DEF vars, server, Quiet
  <1> QED
    BY <1>2, <1>3, <1>4 DEF Next
-----------------------------------------------------------------------------
(* The refinement *)

LEMMA Types ==
    ASSUME IInv, Connected
    PROVE  /\ seq \in Int /\ seq >= 2 /\ seq <= 2 + Len(stream[port])
           /\ Len(stream[port]) \in Nat
           /\ pos_of(port, ack) = ack - Isn[port] - 1
           /\ pos_of(port, ack) \in 0 .. StreamLen
  <1>1. /\ seq >= 2 /\ seq \in Int /\ port \in Ports /\ ack \in 0 .. SeqMod - 1
        /\ Isn[port] + 1 <= ack /\ ack <= Isn[port] + 1 + psnd[port]
        /\ Isn[port] \in Int /\ psnd[port] \in 0 .. StreamLen /\ seq <= prcv(port)
    BY PeerTypes DEF IInv, TypeOK, ClientState, Connected
  <1>2. Len(stream[port]) \in Nat
    BY <1>1 DEF IInv, TypeOK
  <1> QED
    BY <1>1, <1>2, PosOf, BoundAssumption DEF prcv

LEMMA Opening ==
    ASSUME NoWrap, IInv, Quiet, [Next]_vars, ~Connected, Connected'
    PROVE  Stream!Next
  <1>1. seq \in Int /\ seq < 2 /\ seq' \in Int /\ seq' >= 2
    BY NextIInv DEF IInv, TypeOK, Connected
  <1>2. PICK s \in p2c : rx_synack(s)
    <2>1. ~ UNCHANGED vars
      BY <1>1 DEF vars, context
    <2>2. ~ Peer
      BY <1>1, PeerSteps
    <2>3. ~ Application
      BY <1>1 DEF Application, tcp_connect, tcp_send, tcp_send_ack, tcp_recv, context, IInv, Phase
    <2>4. ASSUME NEW r, fail(r) PROVE FALSE
      BY <1>1, <2>4 DEF fail, context
    <2>5. ASSUME NEW ow, again(ow) PROVE FALSE
      BY <1>1, <2>4, <2>5 DEF again, context
    <2>6. ~ rx_timeout /\ ~ rx_other
      BY <2>5 DEF rx_timeout, rx_other
    <2>7. ASSUME NEW s \in p2c, rx_reset(s) \/ rx_syn_refused(s) PROVE FALSE
      BY <2>4, <2>7 DEF rx_reset, rx_syn_refused
    <2>8. ASSUME NEW s \in p2c, rx_probe(s) \/ rx_nodata(s) \/ rx_data(s) PROVE FALSE
      BY <1>1, <2>8 DEF rx_probe, rx_nodata, rx_data, for_us, IInv, Phase
    <2> QED
      BY <2>1, <2>2, <2>3, <2>6, <2>7, <2>8 DEF Next, Receive
  <1>3. s.port = port /\ seq = 1 /\ s.ack = 2 /\ s.syn /\ seq' = 2 /\ port' = port
        /\ ack' = (s.seq + 1) % SeqMod /\ delivered' = delivered /\ stream' = stream
    BY <1>2 DEF rx_synack, for_us, succeed, app, server
  <1>4. port \in Ports /\ Isn[port] \in 0 .. SeqMod - 1
    BY PortAssumption DEF IInv, TypeOK
  <1>5. s.seq = Isn[port]
    BY <1>3, <1>4, PacketSays DEF PeerSays
  <1>6. Isn[port] + 1 \in 0 .. (SeqMod - 1)
    BY <1>4, BoundAssumption, SeqModAssumption DEF NoWrap
  <1>7. ack' = Isn[port] + 1
    BY <1>3, <1>5, <1>6, ModIdentity, SeqModPos
  <1>8. pos_of(port, ack') = 0
    BY <1>4, <1>6, <1>7, PosOf
  <1>9. Len(stream[port]) = 0
    BY <1>1, <1>4 DEF Quiet
  <1> QED
    BY <1>1, <1>3, <1>8, <1>9 DEF Stream!Next, Stream!Open, Connected, pos_of

(* A step that moves neither number and hands out nothing is not noticed.   *)
LEMMA Unnoticed ==
    ASSUME Connected, Connected', port' = port, ack' = ack, seq' = seq,
           delivered' = delivered, Len(stream'[port]) = Len(stream[port])
    PROVE  UNCHANGED Stream!stream
  BY DEF Stream!stream, Connected, pos_of

LEMMA Arriving ==
    ASSUME IInv, Quiet, Peer, Connected
    PROVE  [Stream!Next]_(Stream!stream)
  <1>1. /\ seq' = seq /\ ack' = ack /\ port' = port /\ delivered' = delivered
        /\ Len(stream'[port]) >= Len(stream[port])
    BY PeerSteps
  <1>2. Connected'
    BY <1>1 DEF Connected
  <1>3. CASE Len(stream'[port]) = Len(stream[port])
    BY <1>1, <1>2, <1>3, Unnoticed
  <1>4. CASE Len(stream'[port]) # Len(stream[port])
    <2>1. Len(stream[port]) \in Int
      BY DEF IInv, TypeOK
    <2>2. port \in Ports
      BY DEF IInv, TypeOK
    <2>3. Len(stream'[port]) > Len(stream[port])
      BY <1>1, <1>4, <2>1
    <2> QED
      BY <1>1, <1>2, <2>3 DEF Stream!Next, Stream!Arrive, Connected, pos_of
  <1> QED
    BY <1>3, <1>4

LEMMA Acknowledged ==
    ASSUME IInv, Connected, NEW s \in p2c, s.port = port, rx_ack(s)
    PROVE  seq' - 2 \in (seq - 2) .. Len(stream[port]) /\ seq' >= 2
  <1>1. seq \in Int /\ seq >= 2 /\ Len(stream[port]) \in Nat
    BY Types
  <1>2. seq' \in Int /\ seq' >= 2 /\ seq' >= seq /\ seq' <= 2 + Len(stream[port])
    BY <1>1, RxAck DEF prcv
  <1>3. \A a, b, c \in Int : a <= b /\ b <= 2 + c => b - 2 \in (a - 2) .. c
    OBVIOUS
  <1>4. Len(stream[port]) \in Int
    BY <1>1
  <1> QED
    BY <1>1, <1>2, <1>3, <1>4

LEMMA NoData ==
    ASSUME IInv, Connected, NEW s \in p2c, rx_nodata(s)
    PROVE  Stream!Next
  <1>1. s.port = port /\ rx_ack(s) /\ ack' = ack /\ port' = port
        /\ delivered' = delivered /\ stream' = stream
    BY DEF rx_nodata, for_us, succeed, app, server
  <1>2. seq' - 2 \in (seq - 2) .. Len(stream[port]) /\ Connected'
    BY <1>1, Acknowledged DEF Connected
  <1>3. pos_of(port, ack) \in pos_of(port, ack) .. StreamLen
    BY Types
  <1>4. pos_of(port, ack)' = pos_of(port, ack)
    BY <1>1 DEF pos_of
  <1>5. Stream!Acknowledge
    BY <1>1, <1>2 DEF Stream!Acknowledge
  <1> QED
    BY <1>1, <1>2, <1>3, <1>4, <1>5 DEF Stream!Next, Stream!Receive

(* Returned data starts at or above the first byte that may still come; a   *)
(* tcp_send that is handed data drops it for good.                          *)
LEMMA NewData ==
    ASSUME NoWrap, IInv, Connected, NEW s \in p2c, rx_data(s)
    PROVE  Stream!Next
  <1>1. s.port = port /\ rx_ack(s) /\ port' = port /\ stream' = stream
    BY DEF rx_data, for_us, succeed, server
  <1>2. seq' - 2 \in (seq - 2) .. Len(stream[port]) /\ Connected'
    BY <1>1, Acknowledged DEF Connected
  <1> DEFINE n == pos_of(port, ack)
             m == s.pos + s.len
  <1>3. /\ n \in 0 .. StreamLen /\ m \in 1 .. StreamLen /\ s.len \in 1 .. StreamLen
        /\ s.pos \in n .. (m - 1) /\ pos_of(port, ack') = m
    <2>1. /\ port \in Ports /\ s.len \in 1 .. StreamLen /\ s.pos \in 0 .. StreamLen
          /\ s.pos + s.len <= psnd[port] /\ psnd[port] \in 0 .. StreamLen
          /\ Isn[port] \in 0 .. SeqMod - 1 /\ ack - Isn[port] - 1 <= s.pos
          /\ ack' = Isn[port] + 1 + s.pos + s.len /\ ack' \in 0 .. SeqMod - 1
      BY RxNew
    <2>2. pos_of(port, ack') = ack' - Isn[port] - 1
      BY <2>1, PosOf
    <2>3. n = ack - Isn[port] - 1 /\ n \in 0 .. StreamLen
      BY Types
    <2> QED
      BY <2>1, <2>2, <2>3, BoundAssumption
  <1>4. pos_of(port, ack)' = m
    BY <1>1, <1>3 DEF pos_of
  <1>5. Stream!Acknowledge
    BY <1>1, <1>2 DEF Stream!Acknowledge
  <1>6. m \in n .. StreamLen /\ m > n /\ s.pos \in n .. StreamLen
    BY <1>3, BoundAssumption
  <1>7. CASE call = "tcp_recv"
    <2>1. delivered' = [b \in Bytes |-> delivered[b] + IF b \in data_of(s) THEN 1 ELSE 0]
      BY <1>7 DEF rx_data
    <2>2. delivered \in [Bytes -> Nat]
      BY DEF IInv, TypeOK
    <2>3. s.pos .. (m - 1) \subseteq Bytes
      BY <1>3, BoundAssumption DEF Bytes
    <2>4. {b \in Bytes : delivered'[b] > 0}
            = {b \in Bytes : delivered[b] > 0} \cup (s.pos .. (m - 1))
      <3>1. ASSUME NEW b \in Bytes
            PROVE  delivered'[b] > 0 <=> delivered[b] > 0 \/ b \in s.pos .. (m - 1)
        <4>1. delivered[b] \in Nat
          BY <2>2
        <4>2. data_of(s) = s.pos .. (m - 1)
          BY <1>3 DEF data_of
        <4>3. CASE b \in data_of(s)
          BY <2>1, <4>1, <4>2, <4>3
        <4>4. CASE b \notin data_of(s)
          BY <2>1, <4>1, <4>2, <4>4
        <4> QED
          BY <4>3, <4>4
      <3> QED
        BY <2>3, <3>1
    <2>5. Stream!Return(s.pos)
      BY <1>1, <1>2, <1>3, <1>4, <2>4 DEF Stream!Return
    <2> QED
      BY <1>1, <1>2, <1>4, <1>5, <1>6, <2>5 DEF Stream!Next, Stream!Receive
  <1>8. CASE call # "tcp_recv"
    <2>1. delivered' = delivered
      BY <1>8 DEF rx_data
    <2>2. Stream!Drop
      BY <1>2, <1>4, <1>6, <2>1 DEF Stream!Drop
    <2> QED
      BY <1>1, <1>2, <1>4, <1>5, <1>6, <2>2 DEF Stream!Next, Stream!Receive
  <1> QED
    BY <1>7, <1>8

(* Before the connection is established nothing is known of the stream.     *)
LEMMA Closed ==
    ASSUME IInv, IInv', ~Connected, ~Connected'
    PROVE  UNCHANGED Stream!stream
  <1>1. seq < 2 /\ seq' < 2
    BY DEF IInv, TypeOK, Connected
  <1>2. {b \in Bytes : delivered[b] > 0} = {} /\ {b \in Bytes : delivered'[b] > 0} = {}
    BY <1>1 DEF IInv, ClientState, Bytes
  <1> QED
    BY <1>1, <1>2 DEF Stream!stream, Connected

LEMMA Refines ==
    ASSUME NoWrap, IInv, Quiet, [Next]_vars
    PROVE  [Stream!Next]_(Stream!stream)
  <1>1. IInv'
    BY NextIInv
  <1>2. CASE ~Connected /\ Connected'
    BY <1>2, Opening
  <1>3. CASE ~Connected /\ ~Connected'
    BY <1>1, <1>3, Closed
  <1>4. CASE Connected
    <2>1. seq \in Int /\ seq >= 2 /\ Connected'
      <3>1. seq \in Int /\ seq' \in Int
        BY <1>1 DEF IInv, TypeOK
      <3> QED
        BY <1>4, <3>1, NoRegress DEF Connected
    <2>2. ASSUME UNCHANGED vars PROVE UNCHANGED Stream!stream
      BY <1>4, <2>1, <2>2, Unnoticed DEF vars, context, server, app
    <2>3. CASE Application \/ rx_timeout \/ rx_other
      <3>1. port' = port /\ stream' = stream
        BY <2>1, <2>3, ClientSteps DEF Receive
      <3> QED
        BY <1>4, <2>1, <2>3, <3>1, OtherSteps, Unnoticed
    <2>4. ASSUME NEW s \in p2c, rx_reset(s) \/ rx_syn_refused(s) \/ rx_synack(s) \/ rx_probe(s)
          PROVE  UNCHANGED Stream!stream
      <3>1. port' = port /\ stream' = stream
        BY <2>1, <2>4, ClientSteps DEF Receive
      <3> QED
        BY <1>4, <2>1, <2>4, <3>1, RefusedSteps, Unnoticed
    <2>5. ASSUME NEW s \in p2c, rx_nodata(s) \/ rx_data(s)
          PROVE  Stream!Next
      BY <1>4, <2>5, NoData, NewData
    <2>6. CASE Peer
      BY <1>4, <2>6, Arriving
    <2> QED
      BY <2>2, <2>3, <2>4, <2>5, <2>6 DEF Next, Receive
  <1> QED
    BY <1>2, <1>3, <1>4

LEMMA Start == Init => Quiet /\ Stream!Init
  <1> SUFFICES ASSUME Init PROVE Quiet /\ Stream!Init
    OBVIOUS
  <1>1. {b \in Bytes : delivered[b] > 0} = {} /\ ~Connected
    BY DEF Init, Connected
  <1>2. Quiet
    BY DEF Init, Quiet
  <1> QED
    BY <1>1, <1>2 DEF Stream!Init

(* The client of tcp.c implements the byte stream of module ByteStream, for *)
(* every loss, repetition, delay and order of the packets: data is returned *)
(* in order and once, what tcp_send dropped (tcp.c:114) never comes back,   *)
(* and tcp->seq claims only what has arrived.                               *)
THEOREM ImplementsByteStream == NoWrap => (Spec => IsByteStream)
  <1> SUFFICES ASSUME NoWrap PROVE Spec => IsByteStream
    OBVIOUS
  <1>1. IInv /\ Quiet /\ [Next]_vars => Quiet'
    BY QuietStep
  <1>2. IInv /\ Quiet /\ [Next]_vars => [Stream!Next]_(Stream!stream)
    BY Refines
  <1>3. Spec => []IInv
    BY Invariant
  <1> QED
    BY <1>1, <1>2, <1>3, Start, PTL DEF Spec, IsByteStream, Stream!Spec
-----------------------------------------------------------------------------
(* What the server receives, when the application passes its data in a      *)
(* buffer of its own                                                        *)

Ours ==
    /\ inplace = FALSE
    /\ \A g \in c2p : g.data \in Seq(Data)
    /\ \A p \in Ports : stream[p] \in Seq(Data)

LEMMA TxData ==
    ASSUME IInv
    PROVE  tx \in Seq(Data) /\ <<>> \in Seq(Data)
  <1>1. tx \in Messages \/ tx = <<>>
    BY DEF IInv, TypeOK
  <1>2. <<>> \in Seq(Data)
    OBVIOUS
  <1> QED
    BY <1>1, <1>2, MessageAssumption

LEMMA OursClient ==
    ASSUME IInv, Ours, InPlace \subseteq {FALSE}, Application \/ Receive
    PROVE  /\ inplace' = FALSE
           /\ \A g \in c2p' : g \in c2p \/ g.data \in Seq(Data)
  <1>1. \A p : SYN(p).data \in Seq(Data)
    BY TxData DEF SYN, tcp_segment
  <1>2. ASSUME NEW r, fail(r)
        PROVE  \A g \in c2p' : g \in c2p \/ g.data \in Seq(Data)
    BY <1>1, <1>2 DEF fail
  <1>3. ASSUME NEW ow, again(ow)
        PROVE  \A g \in c2p' : g \in c2p \/ g.data \in Seq(Data)
    <2>1. tcp_segment(port, seq, ack, 0, payload(ow)).data \in Seq(Data)
      BY TxData DEF tcp_segment, payload, Ours
    <2> QED
      BY <1>1, <1>2, <1>3, <2>1 DEF again
  <1>4. CASE Application
    <2>1. ASSUME tcp_connect
          PROVE  inplace' = FALSE /\ \A g \in c2p' : g \in c2p \/ g.data \in Seq(Data)
      BY <1>1, <2>1 DEF tcp_connect, sending, Ours
    <2>2. ASSUME NEW m \in Messages, NEW ip \in InPlace, tcp_send(m, ip)
          PROVE  inplace' = FALSE /\ \A g \in c2p' : g \in c2p \/ g.data \in Seq(Data)
      <3>1. m \in Seq(Data)
        BY MessageAssumption
      <3>2. ip = FALSE
        OBVIOUS
      <3> QED
        BY <2>2, <3>1, <3>2 DEF tcp_send, tcp_segment
    <2>3. ASSUME NEW w \in Windows, tcp_send_ack(w)
          PROVE  inplace' = FALSE /\ \A g \in c2p' : g \in c2p \/ g.data \in Seq(Data)
      <3>1. inplace' = FALSE /\ \A g \in c2p' : g \in c2p \/ g.data = <<>>
        BY <2>3 DEF tcp_send_ack, tcp_segment, Ours
      <3> QED
        BY <3>1, TxData
    <2>4. ASSUME NEW w \in Windows, tcp_recv(w)
          PROVE  inplace' = FALSE /\ \A g \in c2p' : g \in c2p \/ g.data \in Seq(Data)
      <3>1. inplace' = FALSE /\ \A g \in c2p' : g \in c2p \/ g.data = <<>>
        BY <2>4 DEF tcp_recv, tcp_segment, sending, Ours
      <3> QED
        BY <3>1, TxData
    <2> QED
      BY <1>4, <2>1, <2>2, <2>3, <2>4 DEF Application
  <1>5. CASE rx_timeout \/ rx_other
    BY <1>3, <1>5 DEF rx_timeout, rx_other, sending, Ours
  <1>6. ASSUME NEW s \in p2c, rx_reset(s) \/ rx_syn_refused(s)
        PROVE  inplace' = FALSE /\ \A g \in c2p' : g \in c2p \/ g.data \in Seq(Data)
    BY <1>2, <1>6 DEF rx_reset, rx_syn_refused, Ours
  <1>7. ASSUME NEW s \in p2c, rx_synack(s) \/ rx_probe(s) \/ rx_nodata(s) \/ rx_data(s)
        PROVE  inplace' = FALSE /\ \A g \in c2p' : g \in c2p \/ g.data \in Seq(Data)
    <2>1. inplace' = FALSE /\ \A g \in c2p' : g \in c2p \/ g.data = <<>>
      BY <1>7 DEF rx_synack, rx_probe, rx_nodata, rx_data, tcp_segment, Ours
    <2> QED
      BY <2>1, TxData
  <1> QED
    BY <1>4, <1>5, <1>6, <1>7 DEF Receive

LEMMA OursPeer ==
    ASSUME IInv, Ours, Peer
    PROVE  /\ inplace' = inplace /\ c2p' = c2p
           /\ \A p \in Ports : stream'[p] \in Seq(Data)
  <1>1. inplace' = inplace /\ c2p' = c2p
    <2>1. client_unchanged
      BY DEF Peer, peer_syn, peer_established, peer_data, peer_ack, peer_send, peer_probe, peer_reset
    <2> QED
      BY <2>1 DEF client_unchanged, sending
  <1>2. stream' = stream \/ \E s \in c2p : peer_data(s)
    BY DEF Peer, peer_syn, peer_established, peer_ack, peer_send, peer_probe, peer_reset, server
  <1>3. ASSUME NEW s \in c2p, peer_data(s)
        PROVE  \A p \in Ports : stream'[p] \in Seq(Data)
    <2>1. s.port \in Ports /\ s.data \in Seq(Data) /\ s.seq \in Nat
      BY DEF IInv, TypeOK, Segments, Ours
    <2> DEFINE new == SubSeq(s.data, prcv(s.port) - s.seq + 1, Len(s.data))
    <2>2. stream' = [stream EXCEPT ![s.port] = @ \o new] /\ s.seq <= prcv(s.port)
      BY <1>3 DEF peer_data
    <2>3. prcv(s.port) \in Nat /\ Len(s.data) \in Nat
      BY <2>1, PeerTypes, BoundAssumption
    <2>4. new \in Seq(Data)
      BY <2>1, <2>2, <2>3
    <2>5. stream[s.port] \o new \in Seq(Data)
      BY <2>1, <2>4 DEF Ours
    <2> QED
      BY <2>1, <2>2, <2>5 DEF Ours, IInv, TypeOK
  <1> QED
    BY <1>1, <1>2, <1>3 DEF Ours

LEMMA OursStep ==
    ASSUME IInv, Ours, InPlace \subseteq {FALSE}, [Next]_vars
    PROVE  Ours'
  <1>1. CASE Application \/ Receive
    BY <1>1, ClientSteps, OursClient DEF Ours
  <1>2. CASE Peer
    BY <1>2, OursPeer DEF Ours
  <1>3. CASE UNCHANGED vars
    BY <1>3 DEF vars, sending, server, Ours
  <1> QED
    BY <1>1, <1>2, <1>3 DEF Next

(* As long as no caller passes data == NULL, retransmissions carry the      *)
(* caller's data although the packet buffer has been received into in the   *)
(* meantime: nothing else ever reaches the server.                          *)
THEOREM ServerGetsOurs ==
    NoWrap /\ InPlace \subseteq {FALSE} => (Spec => []OnlyOurBytes)
  <1> SUFFICES ASSUME NoWrap, InPlace \subseteq {FALSE} PROVE Spec => []OnlyOurBytes
    OBVIOUS
  <1>1. Init => Ours
    BY DEF Init, Ours
  <1>2. IInv /\ Ours /\ [Next]_vars => Ours'
    BY OursStep
  <1>3. Ours => OnlyOurBytes
    BY MessageAssumption DEF Ours, OnlyOurBytes
  <1>4. Spec => []IInv
    BY Invariant
  <1> QED
    BY <1>1, <1>2, <1>3, <1>4, PTL DEF Spec
=============================================================================
