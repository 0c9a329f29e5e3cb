--------------------------- MODULE SlipTunProofs ---------------------------
(***************************************************************************)
(* Proofs about module SlipTun, for every set of packets, every size of    *)
(* the buffers and any number of FUSE instances, packets and starts of the *)
(* bridge.                                                                 *)
(***************************************************************************)
EXTENDS SlipTun, DataLemmas

-----------------------------------------------------------------------------
(* slip_decode() *)

Decoders ==
    [frame : Seq(Octets), in_escape : BOOLEAN, in_sync : BOOLEAN, truncated : BOOLEAN,
     inject : Seq(Seq(Octets))]

LEMMA DecodeType ==
    ASSUME NEW d, NEW c, d \in Decoders, Len(d.frame) <= MTU, c \in Octets
    PROVE  slip_decode(d, c) \in Decoders /\ Len(slip_decode(d, c).frame) <= MTU
  <1> DEFINE plain == IF d.in_escape /\ c.b \in escape_codes
                        THEN [c EXCEPT !.b = unescape(c.b)] ELSE c
             e == slip_decode(d, c)
  <1>0. MTU \in Nat \ {0}
    BY TunAssumption
  <1>1. /\ d.frame \in Seq(Octets) /\ d.in_escape \in BOOLEAN /\ d.in_sync \in BOOLEAN
        /\ d.truncated \in BOOLEAN /\ d.inject \in Seq(Seq(Octets))
    BY DEF Decoders
  <1>2. c.b \in Bytes /\ c.from \in 1 .. MaxInst
    BY DEF Octets
  <1>3. plain \in Octets
    <2>1. c.b \in escape_codes => unescape(c.b) \in Bytes
      BY EscapeCodes DEF Bytes
    <2> QED
      BY <1>2, <2>1 DEF Octets
  <1>4. CASE ~d.in_sync
    <2>1. e = [d EXCEPT !.in_sync = (c.b = END)]
      BY <1>4, Zenon DEF slip_decode
    <2> QED
      BY <1>1, <2>1 DEF Decoders
  <1>5. CASE d.in_sync /\ c.b = END
    <2> DEFINE j == IF ~d.truncated /\ is_ipv4(d.frame) THEN Append(d.inject, d.frame) ELSE d.inject
    <2>1. e = [d EXCEPT !.frame = <<>>, !.in_escape = FALSE, !.truncated = FALSE, !.inject = j]
      <3>1. e = [d EXCEPT !.frame = <<>>, !.in_escape = FALSE, !.truncated = FALSE,
                          !.inject = IF ~d.truncated /\ is_ipv4(d.frame)
                                       THEN Append(@, d.frame) ELSE @]
        <4>1. c.b # ESC
          BY <1>5 DEF END, ESC
        <4> QED
          BY <1>5, <4>1, Zenon DEF slip_decode
      <3> QED
        BY <3>1, Zenon
    <2>2. Append(d.inject, d.frame) \in Seq(Seq(Octets)) /\ <<>> \in Seq(Octets) /\ Len(<<>>) = 0
      BY <1>1
    <2>3. j \in Seq(Seq(Octets))
      BY <1>1, <2>2
    <2> HIDE DEF j, e
    <2>4. e \in Decoders
      BY <1>1, <2>1, <2>2, <2>3 DEF Decoders
    <2>5. e.frame = <<>>
      BY <2>1 DEF Decoders
    <2>6. Len(e.frame) <= MTU
      BY <1>0, <2>2, <2>5
    <2> QED
      BY <2>4, <2>6 DEF e
  <1>6. CASE d.in_sync /\ c.b = ESC
    <2>1. c.b # END
      BY <1>6 DEF END, ESC
    <2>2. e = [d EXCEPT !.in_escape = TRUE]
      BY <1>6, <2>1, Zenon DEF slip_decode
    <2> QED
      BY <1>1, <2>2 DEF Decoders
  <1>7. CASE d.in_sync /\ c.b \notin {END, ESC} /\ frame_full(d)
    <2>1. e = [d EXCEPT !.in_escape = FALSE, !.truncated = TRUE]
      BY <1>7, Zenon DEF slip_decode
    <2> QED
      BY <1>1, <2>1 DEF Decoders
  <1>8. CASE d.in_sync /\ c.b \notin {END, ESC} /\ ~frame_full(d)
    <2>1. e = [d EXCEPT !.in_escape = FALSE, !.frame = Append(@, plain)]
      BY <1>8, Zenon DEF slip_decode
    <2>2. /\ Append(d.frame, plain) \in Seq(Octets)
          /\ Len(Append(d.frame, plain)) = Len(d.frame) + 1 /\ Len(d.frame) \in Nat
      <3> HIDE DEF plain
      <3> QED
        BY <1>1, <1>3, Grown
    <2>3. Len(Append(d.frame, plain)) <= MTU
      BY <1>0, <1>8, <2>2 DEF frame_full
    <2> HIDE DEF plain
    <2> QED
      BY <1>1, <2>1, <2>2, <2>3 DEF Decoders
  <1> QED
    BY <1>4, <1>5, <1>6, <1>7, <1>8

(* handle_tx() goes through the fifo: h[i] is the decoder after i bytes.    *)
Run(h) == /\ h[0] = with_inject
          /\ \A i \in 1 .. Len(tx) : h[i] = slip_decode(h[i - 1], tx[i])
          /\ \A i \in 0 .. Len(tx) : h[i] \in Decoders /\ Len(h[i].frame) <= MTU

LEMMA TxLoop ==
    ASSUME TypeOK, handle_tx, tx # <<>>
    PROVE  \E h : /\ Run(h)
                  /\ LET d == h[Len(tx)]
                     IN  /\ decoder' = [frame |-> d.frame, in_escape |-> d.in_escape,
                                        in_sync |-> d.in_sync, truncated |-> d.truncated]
                         /\ injected' = injected \cup
                                {[frame |-> f, by |-> inst] : f \in ToSet(d.inject)}
  <1> DEFINE S == {d \in Decoders : Len(d.frame) <= MTU}
             n == Len(tx)
             F == [i \in 1 .. n |-> [d \in S |-> slip_decode(d, tx[i])]]
             After(f) == f = [i \in 0 .. Len(tx) |->
                                IF i = 0 THEN with_inject ELSE slip_decode(f[i - 1], tx[i])]
             h == CHOOSE f : After(f)
  <1>1. tx \in Seq(Octets) /\ n \in Nat /\ \A i \in 1 .. n : tx[i] \in Octets
    BY DEF TypeOK
  <1>2. with_inject \in S
    <2>1. <<>> \in Seq(Seq(Octets))
      OBVIOUS
    <2> QED
      BY <2>1 DEF TypeOK, with_inject, Decoders
  <1>3. F \in [1 .. n -> [S -> S]]
    BY <1>1, DecodeType
  <1>4. PICK g : g \in [0 .. n -> S] /\ Chain(g, with_inject, F, n)
    <2> HIDE DEF S, F, n
    <2> QED
      BY <1>1, <1>2, <1>3, ChainExists
  <1>5. After(g)
    <2>1. ASSUME NEW i \in 0 .. n
          PROVE  g[i] = IF i = 0 THEN with_inject ELSE slip_decode(g[i - 1], tx[i])
      <3>1. CASE i = 0
        BY <1>4, <3>1 DEF Chain
      <3>2. CASE i # 0
        <4>1. i \in 1 .. n /\ i - 1 \in 0 .. n
          BY <1>1, <3>2
        <4>2. g[i - 1] \in S
          BY <1>4, <4>1
        <4>3. g[i] = F[i][g[i - 1]]
          BY <1>4, <4>1 DEF Chain
        <4> QED
          BY <3>2, <4>1, <4>2, <4>3
      <3> QED
        BY <3>1, <3>2
    <2>2. g = [i \in 0 .. n |-> g[i]]
      BY <1>4
    <2> QED
      BY <2>1, <2>2
  <1>6. After(h)
    <2> HIDE DEF After
    <2> QED
      BY <1>5, Zenon
  <1>7. /\ decoder' = [frame |-> h[Len(tx)].frame, in_escape |-> h[Len(tx)].in_escape,
                       in_sync |-> h[Len(tx)].in_sync, truncated |-> h[Len(tx)].truncated]
        /\ injected' = injected \cup {[frame |-> f, by |-> inst] : f \in ToSet(h[Len(tx)].inject)}
    BY Zenon DEF handle_tx
  <1> HIDE DEF h
  <1>8. h[0] = with_inject
    BY <1>1, <1>6
  <1>9. \A i \in 1 .. n : h[i] = slip_decode(h[i - 1], tx[i])
    BY <1>1, <1>6
  <1>10. \A i \in 0 .. n : h[i] \in S
    <2> DEFINE Good == {i \in 0 .. n : h[i] \in S}
    <2>1. 0 \in Good
      BY <1>1, <1>2, <1>8
    <2>2. \A i \in 1 .. n : i - 1 \in Good => i \in Good
      BY <1>1, <1>9, DecodeType
    <2> HIDE DEF Good
    <2>3. \A i \in 0 .. n : i \in Good
      BY <1>1, <2>1, <2>2, UpTo
    <2> QED
      BY <2>3 DEF Good
  <1> QED
    BY <1>7, <1>8, <1>9, <1>10 DEF Run
-----------------------------------------------------------------------------
(* The inductive invariant *)

Counted ==
    /\ pc = "down" => starts < MaxStarts
    /\ tun <= ntun
    /\ pc = "tun" => tun > 0

Closed ==
    /\ fuse = "off" => ~rx_open /\ ~tx_open
    /\ fuse # "off" => inst > 0

(* With nobody at either end, the kernel has dropped what was in rx.        *)
RxEmptied == ~attached /\ ~rx_open => rx = <<>>

TunInv == TypeOK /\ Counted /\ Closed /\ RxEmptied

(* What an instance finds in rx was written for it, when FUSE is restarted  *)
(* only after its end was noticed.                                          *)
Addressed == SlowRestart => \A i \in DOMAIN rx : rx[i] = inst

Ours == SlowRestart => NoLeftovers

LEMMA Numbers ==
    /\ MTU \in Nat /\ RxCap \in Nat /\ RxCap > 0
    /\ MaxInst \in Nat /\ MaxTx \in Nat /\ MaxTun \in Nat /\ MaxStarts \in Nat /\ MaxStarts > 0
  BY TunAssumption

LEMMA NoFrameType ==
    /\ no_frame \in [frame : Seq(Octets), in_escape : BOOLEAN, in_sync : BOOLEAN, truncated : BOOLEAN]
    /\ Len(no_frame.frame) <= MTU
  <1>1. <<>> \in Seq(Octets) /\ Len(<<>>) = 0
    OBVIOUS
  <1> QED
    BY <1>1, Numbers DEF no_frame

LEMMA Empties == <<>> \in Seq(1 .. MaxInst) /\ Len(<<>>) <= RxCap /\ <<>> \in Seq(Octets)
  <1>1. Len(<<>>) = 0
    OBVIOUS
  <1> QED
    BY <1>1, Numbers

LEMMA InitInv == Init => TunInv
  <1> SUFFICES ASSUME Init PROVE TunInv
    OBVIOUS
  <1>1. rx \in Seq(1 .. MaxInst) /\ Len(rx) <= RxCap /\ tx \in Seq(Octets) /\ out \in Seq(Bytes)
    BY Numbers DEF Init
  <1>2. TypeOK
    <2>1. /\ decoder \in [frame : Seq(Octets), in_escape : BOOLEAN, in_sync : BOOLEAN,
                          truncated : BOOLEAN]
          /\ Len(decoder.frame) <= MTU
      BY NoFrameType, Zenon DEF Init
    <2>2. /\ starts \in 0 .. MaxStarts /\ inst \in 0 .. MaxInst
          /\ tun \in 0 .. MaxTun /\ ntun \in 0 .. MaxTun /\ ntx \in 0 .. MaxTx
      BY Numbers DEF Init
    <2>3. /\ attached \in BOOLEAN /\ rx_open \in BOOLEAN /\ tx_open \in BOOLEAN /\ tx_hup \in BOOLEAN
          /\ revents \subseteq {"tun", "rx", "tx", "continue"}
          /\ pc = "down" /\ fuse = "off"
      BY DEF Init
    <2> QED
      BY <1>1, <2>1, <2>2, <2>3 DEF TypeOK
  <1>3. Counted /\ Closed /\ RxEmptied
    BY Numbers DEF Init, Counted, Closed, RxEmptied
  <1> QED
    BY <1>2, <1>3 DEF TunInv

LEMMA FuseKeeps ==
    ASSUME TunInv,
           fuse_start \/ fuse_open_rx \/ fuse_open_tx
             \/ (\E packet \in Packets : fuse_begin_frame(packet)) \/ fuse_exit
    PROVE  TunInv'
  <1>1. out' \in Seq(Bytes)
    <2>1. \A packet \in Packets : frame_of(packet) \in Seq(Bytes)
      BY FrameType, TunAssumption
    <2>2. <<>> \in Seq(Bytes)
      OBVIOUS
    <2> QED
      BY <2>1, <2>2
      DEF TunInv, TypeOK, fuse_start, fuse_open_rx, fuse_open_tx, fuse_begin_frame, fuse_exit
  <1>2. TypeOK'
    <2>1. /\ fuse' \in {"up", "dying"}
          /\ UNCHANGED <<pc, starts, revents, attached, decoder, rx, tx, tun, ntun>>
      BY DEF fuse_start, fuse_open_rx, fuse_open_tx, fuse_begin_frame, fuse_exit,
             env, bridge, fifos, world
    <2>2. inst' \in 0 .. MaxInst /\ ntx' \in 0 .. MaxTx
      <3>1. /\ inst' = inst \/ (inst' = inst + 1 /\ inst < MaxInst)
            /\ ntx' = ntx \/ ntx' = 0 \/ (ntx' = ntx + 1 /\ ntx < MaxTx)
        BY DEF fuse_start, fuse_open_rx, fuse_open_tx, fuse_begin_frame, fuse_exit
      <3>2. inst \in 0 .. MaxInst /\ ntx \in 0 .. MaxTx
        BY DEF TunInv, TypeOK
      <3> QED
        BY <3>1, <3>2, Numbers
    <2>3. rx_open' \in BOOLEAN /\ tx_open' \in BOOLEAN /\ tx_hup' \in BOOLEAN
      BY DEF TunInv, TypeOK, fuse_start, fuse_open_rx, fuse_open_tx, fuse_begin_frame,
             fuse_exit, fifos
    <2> QED
      BY <1>1, <2>1, <2>2, <2>3 DEF TunInv, TypeOK
  <1>3. Counted'
    BY DEF TunInv, Counted, fuse_start, fuse_open_rx, fuse_open_tx, fuse_begin_frame,
           fuse_exit, env, bridge, fifos, world
  <1>4. Closed'
    BY DEF TunInv, TypeOK, Closed, fuse_start, fuse_open_rx, fuse_open_tx, fuse_begin_frame,
           fuse_exit
  <1>5. RxEmptied'
    BY DEF TunInv, RxEmptied, fuse_start, fuse_open_rx, fuse_open_tx, fuse_begin_frame,
           fuse_exit, env, bridge, fifos, world
  <1> QED
    BY <1>2, <1>3, <1>4, <1>5 DEF TunInv

LEMMA WriteKeeps ==
    ASSUME TunInv, fuse_write PROVE TunInv'
  <1>1. out \in Seq(Bytes) /\ tx \in Seq(Octets) /\ inst \in 1 .. MaxInst /\ out # <<>>
    BY Numbers DEF TunInv, TypeOK, Closed, fuse_write
  <1>2. Tail(out) \in Seq(Bytes) /\ [b |-> Head(out), from |-> inst] \in Octets
    BY <1>1 DEF Octets
  <1>3. out' \in Seq(Bytes) /\ tx' \in Seq(Octets)
    <2>1. Append(tx, [b |-> Head(out), from |-> inst]) \in Seq(Octets)
      BY <1>1, <1>2, Grown
    <2> QED
      BY <1>1, <1>2, <2>1, Zenon DEF fuse_write
  <1>4. TypeOK'
    BY <1>3 DEF TunInv, TypeOK, fuse_write, env, bridge, world
  <1>5. Counted' /\ Closed' /\ RxEmptied'
    BY DEF TunInv, Counted, Closed, RxEmptied, fuse_write, env, bridge, world
  <1> QED
    BY <1>4, <1>5 DEF TunInv

LEMMA ReadKeeps ==
    ASSUME TunInv, fuse_read PROVE TunInv'
  <1>1. rx' \in Seq(1 .. MaxInst) /\ Len(rx') <= RxCap
    BY Numbers DEF TunInv, TypeOK, fuse_read
  <1>2. TypeOK'
    BY <1>1 DEF TunInv, TypeOK, fuse_read, env, bridge, client
  <1>3. Counted' /\ Closed' /\ RxEmptied'
    BY DEF TunInv, Counted, Closed, RxEmptied, fuse_read, env, bridge, client
  <1> QED
    BY <1>2, <1>3 DEF TunInv

LEMMA CloseKeeps ==
    ASSUME TunInv, fuse_close PROVE TunInv'
  <1>1. rx' \in Seq(1 .. MaxInst) /\ Len(rx') <= RxCap /\ tx' \in Seq(Octets)
    <2>1. (rx' = rx \/ rx' = <<>>) /\ (tx' = tx \/ tx' = <<>>)
      BY Zenon DEF fuse_close
    <2> QED
      BY <2>1, Empties, Zenon DEF TunInv, TypeOK
  <1>2. /\ rx_open' \in BOOLEAN /\ tx_open' \in BOOLEAN /\ fuse' \in {"off", "dying"}
        /\ fuse' = "off" => ~rx_open' /\ ~tx_open'
        /\ fuse = "dying"
    <2>1. CASE rx_open /\ rx_open' = FALSE /\ UNCHANGED <<tx_open, fuse>>
      BY <2>1 DEF TunInv, TypeOK, fuse_close
    <2>2. CASE tx_open /\ tx_open' = FALSE /\ UNCHANGED <<rx_open, fuse>>
      BY <2>2 DEF TunInv, TypeOK, fuse_close
    <2>3. CASE ~rx_open /\ ~tx_open /\ fuse' = "off" /\ UNCHANGED <<rx_open, tx_open>>
      BY <2>3 DEF TunInv, TypeOK, fuse_close
    <2> QED
      BY <2>1, <2>2, <2>3 DEF fuse_close
  <1>3. TypeOK'
    BY <1>1, <1>2 DEF TunInv, TypeOK, fuse_close, env, bridge, world
  <1>4. Counted' /\ Closed'
    BY <1>2 DEF TunInv, Counted, Closed, fuse_close, env, bridge, world
  <1>5. RxEmptied'
    <2>1. attached' = attached /\ (~(attached \/ rx_open') => rx' = <<>>)
      BY DEF fuse_close, env, bridge
    <2> QED
      BY <2>1 DEF RxEmptied
  <1> QED
    BY <1>3, <1>4, <1>5 DEF TunInv

LEMMA PacketKeeps ==
    ASSUME TunInv, tun_packet PROVE TunInv'
  <1>1. TypeOK' /\ Counted'
    BY Numbers, SMTT(30) DEF TunInv, TypeOK, Counted, tun_packet, env, bridge, client, fifos
  <1>2. Closed' /\ RxEmptied'
    BY DEF TunInv, Closed, RxEmptied, tun_packet, env, bridge, client, fifos
  <1> QED
    BY <1>1, <1>2 DEF TunInv

(* The bridge's steps leave FUSE alone. *)
LEMMA PollKeeps ==
    ASSUME TunInv, poll PROVE TunInv'
  <1>1. revents' \subseteq {"tun", "rx", "tx", "continue"} /\ pc' \in {"tun", "rx"}
    BY DEF poll, poll_events
  <1>2. pc' = "tun" => tun > 0
    BY DEF poll, poll_events
  <1>3. TypeOK'
    BY <1>1 DEF TunInv, TypeOK, poll, client, fifos, world
  <1>4. Counted'
    BY <1>1, <1>2 DEF TunInv, Counted, poll, client, fifos, world
  <1>5. Closed' /\ RxEmptied'
    BY DEF TunInv, Closed, RxEmptied, poll, client, fifos, world
  <1> QED
    BY <1>3, <1>4, <1>5 DEF TunInv

LEMMA TunKeeps ==
    ASSUME TunInv, tun_drop \/ handle_tun PROVE TunInv'
  <1>1. /\ pc' \in {"rx", "write"} /\ tun' = tun - 1 /\ tun > 0
        /\ UNCHANGED <<bridge, client, fifos, ntun>>
    BY DEF TunInv, Counted, tun_drop, handle_tun
  <1>2. TypeOK' /\ Counted'
    BY <1>1, Numbers DEF TunInv, TypeOK, Counted, bridge, client, fifos
  <1>3. Closed' /\ RxEmptied'
    BY <1>1 DEF TunInv, Closed, RxEmptied, bridge, client, fifos
  <1> QED
    BY <1>2, <1>3 DEF TunInv

LEMMA DetachKeeps ==
    ASSUME TunInv, client_detach
    PROVE  /\ rx' \in Seq(1 .. MaxInst) /\ Len(rx') <= RxCap
           /\ attached' \in BOOLEAN /\ pc' = "drain"
           /\ rx_open' = rx_open => RxEmptied'
  <1>1. rx' = rx \/ rx' = <<>>
    BY Zenon DEF client_detach
  <1>2. rx' \in Seq(1 .. MaxInst) /\ Len(rx') <= RxCap
    BY <1>1, Empties, Zenon DEF TunInv, TypeOK
  <1>3. attached' \in BOOLEAN /\ pc' = "drain"
    BY DEF client_detach
  <1>4. rx_open' = rx_open => RxEmptied'
    BY DEF client_detach, RxEmptied
  <1> QED
    BY <1>2, <1>3, <1>4

(* Steps that change rx, the decoder, tx and where the bridge is. *)
LEMMA BridgeStep ==
    ASSUME TunInv, UNCHANGED <<starts, client, tun, ntun>>,
           pc' \in {"startup", "poll", "write", "drain", "reopen", "rx", "tx", "attach"},
           revents' \subseteq {"tun", "rx", "tx", "continue"}, attached' \in BOOLEAN,
           decoder' \in [frame : Seq(Octets), in_escape : BOOLEAN, in_sync : BOOLEAN,
                         truncated : BOOLEAN],
           Len(decoder'.frame) <= MTU,
           rx' \in Seq(1 .. MaxInst), Len(rx') <= RxCap, tx' \in Seq(Octets), tx_hup' \in BOOLEAN,
           RxEmptied'
    PROVE  TunInv'
  <1>1. TypeOK'
    BY DEF TunInv, TypeOK, client
  <1>2. Counted' /\ Closed'
    BY DEF TunInv, Counted, Closed, client
  <1> QED
    BY <1>1, <1>2 DEF TunInv

LEMMA Unchanged ==
    ASSUME TunInv
    PROVE  /\ revents \subseteq {"tun", "rx", "tx", "continue"} /\ attached \in BOOLEAN
           /\ decoder \in [frame : Seq(Octets), in_escape : BOOLEAN, in_sync : BOOLEAN,
                           truncated : BOOLEAN]
           /\ Len(decoder.frame) <= MTU
           /\ rx \in Seq(1 .. MaxInst) /\ Len(rx) <= RxCap /\ tx \in Seq(Octets)
           /\ tx_hup \in BOOLEAN /\ rx_open \in BOOLEAN /\ tx_open \in BOOLEAN
           /\ RxEmptied
  BY DEF TunInv, TypeOK

LEMMA RxWriteKeeps ==
    ASSUME TunInv, rx_write PROVE TunInv'
  <1>1. CASE ~rx_open /\ client_detach /\ UNCHANGED <<tx, tx_hup>>
    <2>1. UNCHANGED <<starts, revents, decoder, client, tun, ntun, rx_open, tx, tx_hup>>
      BY <1>1 DEF rx_write, client, world
    <2> QED
      BY <1>1, <2>1, DetachKeeps, Unchanged, BridgeStep
  <1>2. CASE rx_open /\ Len(rx) < RxCap /\ rx' = Append(rx, inst) /\ pc' = "rx"
             /\ UNCHANGED <<attached, tx, tx_hup>>
    <2>1. UNCHANGED <<starts, revents, decoder, client, tun, ntun, rx_open>>
      BY DEF rx_write, client, world
    <2>2. inst \in 1 .. MaxInst /\ rx \in Seq(1 .. MaxInst)
      BY <1>2, Numbers DEF TunInv, TypeOK, Closed
    <2>3. rx' \in Seq(1 .. MaxInst) /\ Len(rx') <= RxCap
      <3>1. Append(rx, inst) \in Seq(1 .. MaxInst) /\ Len(Append(rx, inst)) = Len(rx) + 1 /\ Len(rx) \in Nat
        BY <2>2, Grown
      <3> QED
        BY <1>2, <3>1, Numbers
    <2>4. RxEmptied'
      BY <1>2, <2>1 DEF RxEmptied
    <2> QED
      BY <1>2, <2>1, <2>3, <2>4, Unchanged, BridgeStep
  <1>3. CASE pc' = "rx" /\ UNCHANGED <<attached, fifos>>
    <2>1. UNCHANGED <<starts, revents, decoder, client, tun, ntun, rx_open, rx, tx, tx_hup>>
      BY <1>3 DEF rx_write, client, world, fifos
    <2>2. RxEmptied'
      BY <1>3, <2>1, Unchanged DEF RxEmptied
    <2> QED
      BY <1>3, <2>1, <2>2, Unchanged, BridgeStep
  <1> QED
    BY <1>1, <1>2, <1>3 DEF rx_write

LEMMA DrainKeeps ==
    ASSUME TunInv, flush_drain \/ startup_drain PROVE TunInv'
  <1>1. /\ UNCHANGED <<starts, revents, attached, client, tun, ntun, rx_open, rx, tx_hup>>
        /\ pc' \in {"reopen", "poll"} /\ tx' = <<>> /\ decoder' = no_frame
    BY DEF flush_drain, startup_drain, tx_drain, client, world
  <1>2. RxEmptied'
    BY <1>1, Unchanged DEF RxEmptied
  <1>3. decoder' \in [frame : Seq(Octets), in_escape : BOOLEAN, in_sync : BOOLEAN, truncated : BOOLEAN]
        /\ Len(decoder'.frame) <= MTU /\ tx' \in Seq(Octets)
    BY <1>1, NoFrameType, Empties, Zenon
  <1> QED
    BY <1>1, <1>2, <1>3, Unchanged, BridgeStep

LEMMA ReopenKeeps ==
    ASSUME TunInv, tx_reopen PROVE TunInv'
  <1>1. /\ UNCHANGED <<starts, revents, attached, decoder, client, tun, ntun, rx_open, rx, tx>>
        /\ pc' \in {"rx", "poll"} /\ tx_hup' = tx_open
    BY DEF tx_reopen, client, world, bridge
  <1>2. RxEmptied'
    BY <1>1, Unchanged DEF RxEmptied
  <1>3. tx_hup' \in BOOLEAN
    BY <1>1, Unchanged
  <1> QED
    BY <1>1, <1>2, <1>3, Unchanged, BridgeStep

LEMMA RxCheckKeeps ==
    ASSUME TunInv, rx_check PROVE TunInv'
  <1>1. UNCHANGED <<starts, decoder, client, tx, tx_hup, tun, ntun, rx_open>>
    BY DEF rx_check, client, world
  <1>2. CASE client_detach /\ revents' = revents \cup {"continue"}
    <2>1. revents' \subseteq {"tun", "rx", "tx", "continue"}
      BY <1>2, Unchanged
    <2> QED
      BY <1>1, <1>2, <2>1, DetachKeeps, Unchanged, BridgeStep
  <1>3. CASE pc' \in {"poll", "tx", "attach"} /\ UNCHANGED <<attached, rx, revents>>
    <2>1. RxEmptied'
      BY <1>1, <1>3, Unchanged DEF RxEmptied
    <2> QED
      BY <1>1, <1>3, <2>1, Unchanged, BridgeStep
  <1> QED
    BY <1>2, <1>3 DEF rx_check

LEMMA TxKeeps ==
    ASSUME TunInv, handle_tx PROVE TunInv'
  <1>1. UNCHANGED <<starts, client, tx_hup, tun, ntun, rx_open>>
    BY DEF handle_tx, client
  <1>2. CASE tx # <<>>
    <2>1. tx' = <<>> /\ pc' = "attach" /\ UNCHANGED <<revents, attached, rx>>
      BY <1>2 DEF handle_tx
    <2>2. /\ decoder' \in [frame : Seq(Octets), in_escape : BOOLEAN, in_sync : BOOLEAN,
                           truncated : BOOLEAN]
          /\ Len(decoder'.frame) <= MTU
      <3>1. TypeOK
        BY DEF TunInv
      <3>2. PICK h : /\ Run(h)
                     /\ decoder' = [frame |-> h[Len(tx)].frame, in_escape |-> h[Len(tx)].in_escape,
                                    in_sync |-> h[Len(tx)].in_sync,
                                    truncated |-> h[Len(tx)].truncated]
        BY <1>2, <3>1, TxLoop, Zenon
      <3>3. Len(tx) \in 0 .. Len(tx)
        BY <3>1 DEF TypeOK
      <3>4. h[Len(tx)] \in Decoders /\ Len(h[Len(tx)].frame) <= MTU
        BY <3>2, <3>3, Zenon DEF Run
      <3> QED
        BY <3>2, <3>4 DEF Decoders
    <2>3. RxEmptied'
      BY <1>1, <2>1, Unchanged DEF RxEmptied
    <2>4. tx' \in Seq(Octets)
      BY <2>1, Empties, Zenon
    <2> QED
      BY <1>1, <2>1, <2>2, <2>3, <2>4, Unchanged, BridgeStep
  <1>3. CASE pc' = "attach" /\ UNCHANGED <<revents, attached, decoder, rx, tx>>
    <2>1. RxEmptied'
      BY <1>1, <1>3, Unchanged DEF RxEmptied
    <2> QED
      BY <1>1, <1>3, <2>1, Unchanged, BridgeStep
  <1>4. CASE client_detach /\ revents' = revents \cup {"continue"} /\ UNCHANGED <<decoder, tx>>
    <2>1. revents' \subseteq {"tun", "rx", "tx", "continue"}
      BY <1>4, Unchanged
    <2> QED
      BY <1>1, <1>4, <2>1, DetachKeeps, Unchanged, BridgeStep
  <1> QED
    BY <1>2, <1>3, <1>4 DEF handle_tx

LEMMA AttachKeeps ==
    ASSUME TunInv, client_attach PROVE TunInv'
  <1>1. /\ UNCHANGED <<starts, decoder, client, tun, ntun, rx_open, rx, tx, tx_hup>>
        /\ pc' = "poll" /\ revents' = {} /\ attached' = (attached \/ rx_open)
    BY DEF client_attach, client, world, fifos
  <1>2. RxEmptied'
    BY <1>1, Unchanged DEF RxEmptied
  <1>3. attached' \in BOOLEAN /\ revents' \subseteq {"tun", "rx", "tx", "continue"}
    BY <1>1, Unchanged
  <1> QED
    BY <1>1, <1>2, <1>3, Unchanged, BridgeStep

LEMMA StartupKeeps ==
    ASSUME TunInv, startup PROVE TunInv'
  <1>1. /\ UNCHANGED <<revents, attached, decoder, client, rx, tx, tun, ntun, rx_open>>
        /\ pc' = "startup" /\ tx_hup' = tx_open /\ starts' \in 0 .. MaxStarts
    BY Numbers DEF startup, client, world, TunInv, Counted, TypeOK
  <1>2. tx_hup' \in BOOLEAN
    BY <1>1, Unchanged
  <1>3. TypeOK'
    BY <1>1, <1>2 DEF TunInv, TypeOK, client
  <1>4. Counted' /\ Closed' /\ RxEmptied'
    BY <1>1 DEF TunInv, Counted, Closed, RxEmptied, client
  <1> QED
    BY <1>3, <1>4 DEF TunInv

LEMMA DieKeeps ==
    ASSUME TunInv, die PROVE TunInv'
  <1>1. /\ UNCHANGED <<starts, client, tx_hup, ntun, rx_open>> /\ starts < MaxStarts
        /\ pc' = "down" /\ revents' = {} /\ attached' = FALSE /\ decoder' = no_frame /\ tun' = 0
    BY DEF die, client
  <1>2. (rx' = rx \/ rx' = <<>>) /\ (tx' = tx \/ tx' = <<>>)
    BY Zenon DEF die
  <1>3. /\ rx' \in Seq(1 .. MaxInst) /\ Len(rx') <= RxCap /\ tx' \in Seq(Octets)
        /\ decoder' \in [frame : Seq(Octets), in_escape : BOOLEAN, in_sync : BOOLEAN,
                         truncated : BOOLEAN]
        /\ Len(decoder'.frame) <= MTU
    BY <1>1, <1>2, Unchanged, Empties, NoFrameType, Zenon
  <1>4. tun' \in 0 .. MaxTun /\ revents' \subseteq {"tun", "rx", "tx", "continue"}
    BY <1>1, Numbers
  <1>5. TypeOK'
    BY <1>1, <1>3, <1>4 DEF TunInv, TypeOK, client
  <1>6. Counted' /\ Closed'
    BY <1>1 DEF TunInv, Counted, Closed, TypeOK, client
  <1>7. RxEmptied'
    BY <1>1 DEF die, RxEmptied
  <1> QED
    BY <1>5, <1>6, <1>7 DEF TunInv

LEMMA TunStep == TunInv /\ [Next]_vars => TunInv'
  <1>1. ASSUME TunInv, UNCHANGED vars PROVE TunInv'
    BY <1>1 DEF TunInv, TypeOK, Counted, Closed, RxEmptied, vars, bridge, client, fifos, world
  <1> QED
    BY <1>1, FuseKeeps, WriteKeeps, ReadKeeps, CloseKeeps, PacketKeeps, PollKeeps, TunKeeps,
       RxWriteKeeps, DrainKeeps, ReopenKeeps, RxCheckKeeps, TxKeeps, AttachKeeps, StartupKeeps,
       DieKeeps DEF Next, Environment, Main

LEMMA TunInvariant == Spec => []TunInv
  BY InitInv, TunStep, PTL DEF Spec

(* Every variable keeps its type, whatever FUSE does and whenever either    *)
(* side is killed: slip_decode() never writes past the end of its frame     *)
(* buffer, and handle_tun() never takes a packet that is not there.         *)
THEOREM TunTypes == Spec => []TypeOK
  <1>1. TunInv => TypeOK
    BY DEF TunInv
  <1> QED
    BY <1>1, TunInvariant, PTL
-----------------------------------------------------------------------------
(* Leftovers *)

(* rx changes in one of four ways. *)
LEMMA RxChanges ==
    ASSUME TunInv, [Next]_vars
    PROVE  \/ inst' = inst /\ (rx' = rx \/ rx' = <<>>) /\ seen' = seen
           \/ inst' = inst /\ rx' = Append(rx, inst) /\ seen' = seen
           \/ /\ inst' = inst /\ rx # <<>> /\ rx' = Tail(rx)
              /\ seen' = seen \cup {[reader |-> inst, for |-> Head(rx)]}
           \/ rx' = rx /\ seen' = seen /\ (SlowRestart => rx = <<>>)
  <1> DEFINE A == inst' = inst /\ (rx' = rx \/ rx' = <<>>) /\ seen' = seen
  <1>1. CASE fuse_start
    <2>1. rx' = rx /\ seen' = seen
      BY <1>1 DEF fuse_start, fifos, world
    <2>2. SlowRestart => rx = <<>>
      BY <1>1 DEF fuse_start, TunInv, RxEmptied, Closed
    <2> QED
      BY <2>1, <2>2
  <1>2. CASE fuse_read
    BY <1>2 DEF fuse_read, client
  <1>3. CASE rx_write
    BY <1>3 DEF rx_write, client_detach, client, world, fifos
  <1>4. CASE fuse_close \/ die \/ rx_check \/ handle_tx
    <2>1. inst' = inst /\ seen' = seen
      BY <1>4 DEF fuse_close, die, rx_check, handle_tx, client, world
    <2>2. rx' = rx \/ rx' = <<>>
      BY <1>4, Zenon DEF fuse_close, die, rx_check, handle_tx, client_detach
    <2> QED
      BY <2>1, <2>2
  <1>5. CASE fuse_open_rx \/ fuse_open_tx \/ (\E packet \in Packets : fuse_begin_frame(packet))
             \/ fuse_write \/ fuse_exit \/ tun_packet
    BY <1>5 DEF fuse_open_rx, fuse_open_tx, fuse_begin_frame, fuse_write, fuse_exit, tun_packet,
                fifos, world, client
  <1>6. CASE poll \/ tun_drop \/ handle_tun \/ flush_drain \/ tx_reopen \/ client_attach
             \/ startup \/ startup_drain \/ UNCHANGED vars
    BY <1>6 DEF poll, tun_drop, handle_tun, flush_drain, tx_reopen, client_attach, startup,
                startup_drain, vars, fifos, world, client
  <1> QED
    BY <1>1, <1>2, <1>3, <1>4, <1>5, <1>6 DEF Next, Environment, Main

LEMMA LeftoversStep == TunInv /\ Addressed /\ Ours /\ [Next]_vars => Addressed' /\ Ours'
  <1> SUFFICES ASSUME TunInv, Addressed, Ours, [Next]_vars, SlowRestart
               PROVE  (\A i \in DOMAIN rx' : rx'[i] = inst') /\ NoLeftovers'
    BY DEF Addressed, Ours
  <1>1. (\A i \in DOMAIN rx : rx[i] = inst) /\ (\A f \in seen : f.reader = f.for)
    BY DEF Addressed, Ours, NoLeftovers
  <1>2. rx \in Seq(1 .. MaxInst)
    BY DEF TunInv, TypeOK
  <1>3. CASE inst' = inst /\ (rx' = rx \/ rx' = <<>>) /\ seen' = seen
    BY <1>1, <1>3 DEF NoLeftovers
  <1>4. CASE inst' = inst /\ rx' = Append(rx, inst) /\ seen' = seen
    BY <1>1, <1>2, <1>4 DEF NoLeftovers
  <1>5. CASE /\ inst' = inst /\ rx # <<>> /\ rx' = Tail(rx)
             /\ seen' = seen \cup {[reader |-> inst, for |-> Head(rx)]}
    <2>1. Head(rx) = inst
      BY <1>1, <1>2, <1>5
    <2>2. \A i \in DOMAIN rx' : rx'[i] = inst'
      BY <1>1, <1>2, <1>5
    <2>3. NoLeftovers'
      BY <1>1, <1>5, <2>1 DEF NoLeftovers
    <2> QED
      BY <2>2, <2>3
  <1>6. CASE rx' = rx /\ seen' = seen /\ rx = <<>>
    BY <1>1, <1>6 DEF NoLeftovers
  <1> QED
    BY <1>3, <1>4, <1>5, <1>6, RxChanges

(* The head of slip-tun.c: "a restarted FUSE never sees leftovers from the  *)
(* previous instance".  It holds for every history of a FUSE that is only   *)
(* restarted once its end was noticed; without that it does not.            *)
THEOREM TunNoLeftovers == ASSUME SlowRestart PROVE Spec => []NoLeftovers
  <1>1. Init => Addressed /\ Ours
    BY DEF Init, Addressed, Ours, NoLeftovers
  <1>2. Addressed /\ Ours => NoLeftovers
    BY DEF Ours
  <1> QED
    BY <1>1, <1>2, TunInvariant, LeftoversStep, PTL DEF Spec
-----------------------------------------------------------------------------
(* A place in the stream of bytes that one instance writes: k bytes of p    *)
(* are through, and the ESC of the next one (e); after the END that closes  *)
(* the frame k is Len(p) + 1.                                               *)
Idle(l) == l.k = Len(l.p) + 1

Place(l) ==
    /\ l \in [p : Seq(Bytes), k : Nat, e : BOOLEAN]
    /\ l.k <= Len(l.p) + 1
    /\ ~Idle(l) => l.p \in Packets
    /\ l.e => l.k < Len(l.p) /\ l.p[l.k + 1] \in DOMAIN escapes

(* b is the next byte at l, and m the place after it. *)
Follows(l, b, m) ==
    \/ Idle(l) /\ b = END /\ m.p \in Packets /\ m.k = 0 /\ ~m.e
    \/ ~l.e /\ l.k = Len(l.p) /\ b = END /\ m = [p |-> l.p, k |-> l.k + 1, e |-> FALSE]
    \/ /\ ~l.e /\ l.k < Len(l.p) /\ l.p[l.k + 1] \notin DOMAIN escapes
       /\ b = l.p[l.k + 1] /\ m = [p |-> l.p, k |-> l.k + 1, e |-> FALSE]
    \/ /\ ~l.e /\ l.k < Len(l.p) /\ l.p[l.k + 1] \in DOMAIN escapes
       /\ b = ESC /\ m = [p |-> l.p, k |-> l.k, e |-> TRUE]
    \/ /\ l.e /\ l.k < Len(l.p) /\ l.p[l.k + 1] \in DOMAIN escapes
       /\ b = escapes[l.p[l.k + 1]] /\ m = [p |-> l.p, k |-> l.k + 1, e |-> FALSE]

(* What is still to be written at l; between two frames, another one.       *)
Rem(l) == IF Idle(l) THEN <<>>
          ELSE IF l.e THEN <<escapes[l.p[l.k + 1]]>> \o Enc(l.p, l.k + 1)
          ELSE Enc(l.p, l.k)

Left(o, l) == o = Rem(l) \/ (Idle(l) /\ \E p \in Packets : o = frame_of(p))

LEMMA NextByte ==
    ASSUME NEW o, NEW l, Place(l), Left(o, l), o # <<>>
    PROVE  \E m : Place(m) /\ Follows(l, Head(o), m) /\ Left(Tail(o), m)
  <1> DEFINE p == l.p
             k == l.k
             up == [p |-> p, k |-> k + 1, e |-> FALSE]
  <1>1. p \in Seq(Bytes) /\ k \in Nat /\ l.e \in BOOLEAN /\ k <= Len(p) + 1 /\ Len(p) \in Nat
    BY DEF Place
  <1>2. END \in Bytes /\ ESC \in Bytes
    BY DEF Bytes
  <1>3. \A b \in Bytes : b \in DOMAIN escapes => escapes[b] \in Bytes
    BY EscapeCodes DEF Bytes
  <1>u. up.p = p /\ up.k = k + 1 /\ up.e = FALSE
    OBVIOUS
  <1>4. CASE Idle(l)
    <2>1. PICK q \in Packets : o = frame_of(q)
      BY <1>4 DEF Left, Rem
    <2> DEFINE m == [p |-> q, k |-> 0, e |-> FALSE]
    <2>2. q \in Seq(Bytes)
      BY TunAssumption
    <2>3. Place(m) /\ ~Idle(m)
      BY <2>2 DEF Place, Idle
    <2>4. Enc(q, 0) \in Seq(Bytes)
      BY <2>2, EncType
    <2>5. Head(o) = END /\ Tail(o) = Enc(q, 0)
      <3> DEFINE r == Enc(q, 0)
      <3>1. o = <<END>> \o r /\ r \in Seq(Bytes)
        BY <2>1, <2>2, <2>4, FrameIsEnc
      <3> HIDE DEF r
      <3>2. Head(o) = END /\ Tail(o) = r
        BY <1>2, <3>1, Prefixed
      <3> QED
        BY <3>2 DEF r
    <2>6. Rem(m) = Enc(q, 0)
      BY <2>3 DEF Rem
    <2>7. Follows(l, Head(o), m)
      BY <1>4, <2>5 DEF Follows
    <2> QED
      BY <2>3, <2>5, <2>6, <2>7 DEF Left
  <1>5. CASE ~Idle(l) /\ l.e
    <2> DEFINE x == escapes[p[k + 1]]
    <2>1. k < Len(p) /\ p[k + 1] \in DOMAIN escapes /\ p \in Packets
      BY <1>5 DEF Place
    <2>2. x \in Bytes
      BY <1>1, <1>3, <2>1
    <2>3. Enc(p, k + 1) \in Seq(Bytes)
      BY <1>1, <2>1, EncType
    <2>4. o = <<x>> \o Enc(p, k + 1)
      BY <1>5 DEF Left, Rem
    <2>5. Head(o) = x /\ Tail(o) = Enc(p, k + 1)
      <3> HIDE DEF x
      <3> QED
        BY <2>2, <2>3, <2>4, Prefixed
    <2>6. Place(up) /\ ~Idle(up)
      BY <1>1, <2>1 DEF Place, Idle
    <2>7. Rem(up) = Enc(p, k + 1)
      BY <2>6 DEF Rem
    <2>8. Follows(l, Head(o), up)
      BY <1>5, <2>1, <2>5 DEF Follows
    <2> QED
      BY <2>5, <2>6, <2>7, <2>8 DEF Left
  <1>6. CASE ~Idle(l) /\ ~l.e /\ k = Len(p)
    <2>1. o = <<END>>
      BY <1>1, <1>6, EncEnd DEF Left, Rem
    <2>2. Head(o) = END /\ Tail(o) = <<>>
      BY <2>1
    <2>3. Place(up) /\ Idle(up)
      BY <1>1, <1>6 DEF Place, Idle
    <2>4. Rem(up) = <<>>
      BY <2>3 DEF Rem
    <2>5. Follows(l, Head(o), up)
      BY <1>6, <2>2 DEF Follows
    <2> QED
      BY <2>2, <2>3, <2>4, <2>5 DEF Left
  <1>7. CASE ~Idle(l) /\ ~l.e /\ k # Len(p)
    <2>1. k < Len(p) /\ p \in Packets /\ p[k + 1] \in Bytes
      BY <1>1, <1>7 DEF Place, Idle
    <2>2. Enc(p, k + 1) \in Seq(Bytes)
      BY <1>1, <2>1, EncType
    <2>3. o = stuff(p[k + 1]) \o Enc(p, k + 1)
      BY <1>1, <1>7, <2>1, EncCons DEF Left, Rem
    <2>4. Place(up) /\ ~Idle(up)
      BY <1>1, <2>1 DEF Place, Idle
    <2>5. Rem(up) = Enc(p, k + 1)
      BY <2>4 DEF Rem
    <2>6. CASE p[k + 1] \notin DOMAIN escapes
      <3>1. o = <<p[k + 1]>> \o Enc(p, k + 1)
        BY <2>3, <2>6 DEF stuff
      <3>2. Head(o) = p[k + 1] /\ Tail(o) = Enc(p, k + 1)
        BY <2>1, <2>2, <3>1, Prefixed
      <3>3. Follows(l, Head(o), up)
        BY <1>7, <2>1, <2>6, <3>2 DEF Follows
      <3> QED
        BY <2>4, <2>5, <3>2, <3>3 DEF Left
    <2>7. CASE p[k + 1] \in DOMAIN escapes
      <3> DEFINE x == escapes[p[k + 1]]
                 m == [p |-> p, k |-> k, e |-> TRUE]
      <3>1. x \in Bytes
        BY <1>3, <2>1, <2>7
      <3>2. o = <<ESC, x>> \o Enc(p, k + 1)
        BY <2>3, <2>7 DEF stuff
      <3>3. Head(o) = ESC /\ Tail(o) = <<x>> \o Enc(p, k + 1)
        <4> DEFINE r == <<x>> \o Enc(p, k + 1)
        <4> HIDE DEF x
        <4>1. r \in Seq(Bytes)
          BY <2>2, <3>1, Prefixed
        <4>2. o = <<ESC>> \o r
          <5>1. \A a, b \in Bytes : \A t \in Seq(Bytes) : <<a, b>> \o t = <<a>> \o (<<b>> \o t)
            BY PrefixedTwo
          <5> QED
            BY <1>2, <2>2, <3>1, <3>2, <5>1, Zenon
        <4> HIDE DEF r
        <4>3. Head(o) = ESC /\ Tail(o) = r
          BY <1>2, <4>1, <4>2, Prefixed
        <4> QED
          BY <4>3 DEF r
      <3>4. Place(m) /\ ~Idle(m) /\ m.e
        BY <1>1, <2>1, <2>7 DEF Place, Idle
      <3>5. Rem(m) = <<x>> \o Enc(p, k + 1)
        BY <3>4 DEF Rem
      <3>6. Follows(l, Head(o), m)
        BY <1>7, <2>1, <2>7, <3>3 DEF Follows
      <3> QED
        BY <3>3, <3>4, <3>5, <3>6 DEF Left
    <2> QED
      BY <2>6, <2>7
  <1> QED
    BY <1>4, <1>5, <1>6, <1>7

LEMMA RemNonempty ==
    ASSUME NEW l, Place(l), ~Idle(l) PROVE Rem(l) # <<>>
  <1>1. l.p \in Seq(Bytes) /\ l.k \in Nat /\ l.k <= Len(l.p) /\ Len(l.p) \in Nat
    BY DEF Place, Idle
  <1>2. CASE l.e
    <2>1. l.k < Len(l.p) /\ l.p[l.k + 1] \in DOMAIN escapes
      BY <1>2 DEF Place
    <2>2. escapes[l.p[l.k + 1]] \in Bytes
      BY <2>1, EscapeCodes DEF Bytes
    <2>3. Enc(l.p, l.k + 1) \in Seq(Bytes)
      BY <1>1, <2>1, EncType
    <2> QED
      BY <1>2, <2>2, <2>3, Prefixed DEF Rem
  <1>3. CASE ~l.e
    <2>1. l.k \in 0 .. Len(l.p)
      BY <1>1
    <2>2. FlattenSeq(From(Stuffed(l.p), l.k)) \in Seq(Bytes)
      BY <1>1, <2>1, EncType
    <2>3. \A s \in Seq(Bytes) : s \o <<END>> # <<>>
      OBVIOUS
    <2> QED
      BY <1>3, <2>2, <2>3, Zenon DEF Rem, Enc
  <1> QED
    BY <1>2, <1>3

(* Nothing is left only between two frames. *)
LEMMA DoneIsIdle ==
    ASSUME NEW l, Place(l), Left(<<>>, l) PROVE Idle(l)
  BY RemNonempty DEF Left
-----------------------------------------------------------------------------
(* The decoder keeps step with the writer *)

(* The decoder d at place l: it has either not seen a border yet, or holds  *)
(* the bytes of the frame so far, or has noticed that they do not fit.      *)
Empty(d) == d.frame = <<>> /\ ~d.in_escape /\ ~d.truncated

Sync(d, l) ==
    /\ ~d.in_sync \/ Idle(l) => Empty(d)
    /\ d.in_sync /\ ~Idle(l) =>
          /\ d.in_escape = l.e
          /\ l.k > MTU => d.truncated
          /\ l.k <= MTU => /\ ~d.truncated /\ Len(d.frame) = l.k
                           /\ \A i \in 1 .. l.k : d.frame[i].b = l.p[i]

(* A frame that may be injected while n runs. *)
Whole(f, n) ==
    /\ \E packet \in Packets : packet = [i \in DOMAIN f |-> f[i].b]
    /\ \A i \in DOMAIN f : f[i].from = n

FromUs(d, n) == \A i \in DOMAIN d.frame : d.frame[i].from = n

AllWhole(s, n) == \A i \in DOMAIN s : Whole(s[i], n)

(* The bytes after which slip_decode() goes on with the frame. *)
LEMMA PlainByte ==
    ASSUME NEW l, NEW b, NEW m, Place(l), Follows(l, b, m), b # END, b # ESC
    PROVE  /\ ~Idle(l) /\ l.k < Len(l.p) /\ m = [p |-> l.p, k |-> l.k + 1, e |-> FALSE]
           /\ l.e => b \in escape_codes /\ unescape(b) = l.p[l.k + 1]
           /\ ~l.e => b = l.p[l.k + 1]
  <1>1. l.k < Len(l.p) => ~Idle(l)
    BY DEF Idle, Place
  <1>2. \A x \in DOMAIN escapes : escapes[x] \in escape_codes /\ unescape(escapes[x]) = x
    BY EscapeCodes
  <1> QED
    BY <1>1, <1>2 DEF Follows

LEMMA EndByte ==
    ASSUME NEW l, NEW m, Place(l), Place(m), Follows(l, END, m)
    PROVE  \/ Idle(l) /\ ~Idle(m) /\ m.k = 0 /\ m.e = FALSE
           \/ ~Idle(l) /\ Idle(m) /\ l.k = Len(l.p)
  <1>1. \A x \in DOMAIN escapes : escapes[x] # END
    BY EscapeCodes DEF END, ESC_END, ESC_ESC, ESC_ZER
  <1>2. END \in DOMAIN escapes /\ END # ESC
    BY EscapeCodes DEF END, ESC
  <1>3. Idle(l) => ~(l.k <= Len(l.p))
    BY DEF Idle, Place
  <1>4. m.e \in BOOLEAN /\ Len(m.p) \in Nat /\ Len(l.p) \in Nat
    BY DEF Place
  <1>5. CASE Idle(l) /\ m.p \in Packets /\ m.k = 0 /\ ~m.e
    BY <1>4, <1>5 DEF Idle
  <1>6. CASE l.k = Len(l.p) /\ m = [p |-> l.p, k |-> l.k + 1, e |-> FALSE]
    BY <1>3, <1>4, <1>6 DEF Idle
  <1> QED
    BY <1>1, <1>2, <1>5, <1>6 DEF Follows

LEMMA EscByte ==
    ASSUME NEW l, NEW m, Place(l), Follows(l, ESC, m)
    PROVE  ~Idle(l) /\ ~l.e /\ l.k < Len(l.p) /\ m = [p |-> l.p, k |-> l.k, e |-> TRUE]
  <1>1. \A x \in DOMAIN escapes : escapes[x] # ESC
    BY EscapeCodes DEF ESC, ESC_END, ESC_ESC, ESC_ZER
  <1>2. ESC \in DOMAIN escapes /\ END # ESC
    BY EscapeCodes DEF END, ESC
  <1>3. l.k < Len(l.p) => ~Idle(l)
    BY DEF Idle, Place
  <1> QED
    BY <1>1, <1>2, <1>3 DEF Follows

LEMMA SyncFresh ==
    ASSUME NEW d, NEW m, d.frame = <<>>, d.in_escape = FALSE, d.truncated = FALSE,
           ~Idle(m) => m.k = 0 /\ m.e = FALSE
    PROVE  Sync(d, m)
  <1>1. Len(<<>>) = 0 /\ MTU \in Nat \ {0}
    BY TunAssumption
  <1>2. Empty(d)
    BY Zenon DEF Empty
  <1>3. ASSUME ~Idle(m)
        PROVE  /\ d.in_escape = m.e
               /\ m.k > MTU => d.truncated
               /\ m.k <= MTU => /\ ~d.truncated /\ Len(d.frame) = m.k
                                /\ \A i \in 1 .. m.k : d.frame[i].b = m.p[i]
    <2>1. m.k = 0 /\ m.e = FALSE /\ ~(0 > MTU) /\ 1 .. m.k = {}
      BY <1>1, <1>3
    <2> QED
      BY <1>1, <2>1
  <1> QED
    BY <1>2, <1>3, Zenon DEF Sync

LEMMA DecodeStep ==
    ASSUME NEW d, NEW c, NEW l, NEW m, NEW n, d \in Decoders, Len(d.frame) <= MTU, c \in Octets,
           Place(l), Place(m), Follows(l, c.b, m), c.from = n,
           Sync(d, l), FromUs(d, n), AllWhole(d.inject, n)
    PROVE  LET e == slip_decode(d, c)
           IN  Sync(e, m) /\ FromUs(e, n) /\ AllWhole(e.inject, n)
  <1> DEFINE plain == IF d.in_escape /\ c.b \in escape_codes
                        THEN [c EXCEPT !.b = unescape(c.b)] ELSE c
             e == slip_decode(d, c)
  <1> SUFFICES Sync(e, m) /\ FromUs(e, n) /\ AllWhole(e.inject, n)
    OBVIOUS
  <1>0. MTU \in Nat \ {0} /\ IP_HDR_MIN \in Nat \ {0}
    BY TunAssumption
  <1>1. /\ d.frame \in Seq(Octets) /\ d.in_escape \in BOOLEAN /\ d.in_sync \in BOOLEAN
        /\ d.truncated \in BOOLEAN /\ d.inject \in Seq(Seq(Octets))
    BY DEF Decoders
  <1>2. l.p \in Seq(Bytes) /\ l.k \in Nat /\ l.e \in BOOLEAN /\ Len(l.p) \in Nat
    BY DEF Place
  <1>a. m.p \in Seq(Bytes) /\ m.k \in Nat /\ m.e \in BOOLEAN /\ Len(m.p) \in Nat
    BY DEF Place
  <1>3. END # ESC
    BY DEF END, ESC
  <1>4. CASE ~d.in_sync
    <2>1. e = [d EXCEPT !.in_sync = (c.b = END)]
      BY <1>4, Zenon DEF slip_decode
    <2>2. /\ e.frame = d.frame /\ e.in_escape = d.in_escape /\ e.truncated = d.truncated
          /\ e.inject = d.inject /\ e.in_sync = (c.b = END)
      BY <2>1 DEF Decoders
    <2>3. Empty(e) /\ e.in_escape = FALSE /\ e.truncated = FALSE
      BY <1>1, <1>4, <2>2, Zenon DEF Sync, Empty
    <2> HIDE DEF e
    <2>4. CASE c.b # END
      <3>1. ~e.in_sync
        BY <2>2, <2>4, Zenon
      <3>2. Sync(e, m)
        BY <2>3, <3>1, Zenon DEF Sync
      <3> QED
        BY <2>2, <3>2 DEF FromUs
    <2>5. CASE c.b = END
      <3>1. ~Idle(m) => m.k = 0 /\ m.e = FALSE
        BY <2>5, EndByte
      <3>3. Sync(e, m)
        BY <2>3, <3>1, SyncFresh DEF Empty
      <3> QED
        BY <2>2, <3>3 DEF FromUs
    <2> QED
      BY <2>4, <2>5 DEF e
  <1>5. CASE d.in_sync /\ c.b = END
    <2> DEFINE j == IF ~d.truncated /\ is_ipv4(d.frame) THEN Append(d.inject, d.frame) ELSE d.inject
    <2>1. e = [d EXCEPT !.frame = <<>>, !.in_escape = FALSE, !.truncated = FALSE, !.inject = j]
      <3>1. e = [d EXCEPT !.frame = <<>>, !.in_escape = FALSE, !.truncated = FALSE,
                          !.inject = IF ~d.truncated /\ is_ipv4(d.frame)
                                       THEN Append(@, d.frame) ELSE @]
        <4>1. c.b # ESC
          BY <1>5 DEF END, ESC
        <4> QED
          BY <1>5, <4>1, Zenon DEF slip_decode
      <3> QED
        BY <3>1, Zenon
    <2>2. /\ e.frame = <<>> /\ e.in_escape = FALSE /\ e.truncated = FALSE /\ e.in_sync = d.in_sync
          /\ e.inject = j
      <3> HIDE DEF j, e
      <3> QED
        BY <2>1 DEF Decoders
    <2>3. ~Idle(m) => m.k = 0 /\ m.e = FALSE
      BY <1>5, EndByte
    <2>4. Sync(e, m)
      <3> HIDE DEF e
      <3> QED
        BY <2>2, <2>3, SyncFresh
    <2>5. FromUs(e, n)
      <3> HIDE DEF e
      <3> QED
        BY <2>2 DEF FromUs
    <2>6. ASSUME ~d.truncated, is_ipv4(d.frame) PROVE Whole(d.frame, n)
      <3>1. ~Idle(l)
        <4>1. Len(<<>>) = 0
          OBVIOUS
        <4> QED
          BY <1>0, <2>6, <4>1 DEF is_ipv4, Sync, Empty
      <3>2. l.k = Len(l.p) /\ l.p \in Packets
        BY <1>5, <3>1, EndByte DEF Place
      <3>3. Len(d.frame) = Len(l.p) /\ \A i \in 1 .. Len(l.p) : d.frame[i].b = l.p[i]
        BY <1>0, <1>2, <1>5, <2>6, <3>1, <3>2 DEF Sync
      <3>4. DOMAIN d.frame = 1 .. Len(l.p)
        BY <1>1, <3>3
      <3>5. l.p = [i \in DOMAIN d.frame |-> d.frame[i].b]
        BY <1>2, <3>3, <3>4
      <3> QED
        BY <3>2, <3>5 DEF Whole, FromUs
    <2>7. AllWhole(j, n)
      <3>1. CASE ~d.truncated /\ is_ipv4(d.frame)
        <4>1. Whole(d.frame, n)
          BY <2>6, <3>1
        <4> DEFINE q == Append(d.inject, d.frame)
        <4>2. /\ DOMAIN q = 1 .. Len(d.inject) + 1 /\ q[Len(d.inject) + 1] = d.frame
              /\ DOMAIN d.inject = 1 .. Len(d.inject) /\ Len(d.inject) \in Nat
              /\ \A i \in 1 .. Len(d.inject) : q[i] = d.inject[i]
          BY <1>1
        <4> HIDE DEF q
        <4>3. AllWhole(q, n)
          BY <4>1, <4>2 DEF AllWhole
        <4> QED
          BY <3>1, <4>3 DEF q
      <3>2. CASE ~(~d.truncated /\ is_ipv4(d.frame))
        BY <3>2
      <3> QED
        BY <3>1, <3>2
    <2> HIDE DEF j, e
    <2>8. AllWhole(e.inject, n)
      BY <2>2, <2>7
    <2> QED
      BY <2>4, <2>5, <2>8 DEF e
  <1>6. CASE d.in_sync /\ c.b = ESC
    <2>1. e = [d EXCEPT !.in_escape = TRUE]
      BY <1>3, <1>6, Zenon DEF slip_decode
    <2>2. /\ e.frame = d.frame /\ e.in_escape = TRUE /\ e.truncated = d.truncated
          /\ e.inject = d.inject /\ e.in_sync = d.in_sync
      BY <2>1 DEF Decoders
    <2>3. ~Idle(l) /\ m = [p |-> l.p, k |-> l.k, e |-> TRUE]
      BY <1>6, EscByte
    <2>4. m.p = l.p /\ m.k = l.k /\ m.e = TRUE /\ ~Idle(m)
      BY <2>3 DEF Idle
    <2> HIDE DEF e
    <2>5. Sync(e, m)
      BY <1>6, <2>2, <2>3, <2>4 DEF Sync
    <2> QED
      BY <2>2, <2>5 DEF e, FromUs
  <1>7. CASE d.in_sync /\ c.b # END /\ c.b # ESC
    <2>1. /\ ~Idle(l) /\ l.k < Len(l.p) /\ m = [p |-> l.p, k |-> l.k + 1, e |-> FALSE]
          /\ l.e => c.b \in escape_codes /\ unescape(c.b) = l.p[l.k + 1]
          /\ ~l.e => c.b = l.p[l.k + 1]
      BY <1>7, PlainByte
    <2>2. m.p = l.p /\ m.k = l.k + 1 /\ m.e = FALSE /\ ~Idle(m)
      BY <1>2, <2>1 DEF Idle
    <2>3. d.in_escape = l.e
      BY <1>7, <2>1 DEF Sync
    <2>4. plain.b = l.p[l.k + 1] /\ plain.from = n
      <3>1. CASE l.e
        BY <2>1, <2>3, <3>1 DEF Octets
      <3>2. CASE ~l.e
        BY <2>1, <2>3, <3>2
      <3> QED
        BY <1>2, <3>1, <3>2
    <2>5. CASE frame_full(d)
      <3>1. e = [d EXCEPT !.in_escape = FALSE, !.truncated = TRUE]
        BY <1>7, <2>5, Zenon DEF slip_decode
      <3>2. /\ e.frame = d.frame /\ e.in_escape = FALSE /\ e.truncated = TRUE
            /\ e.inject = d.inject /\ e.in_sync = d.in_sync
        BY <3>1 DEF Decoders
      <3>3. l.k + 1 > MTU
        BY <1>0, <1>2, <1>7, <2>1, <2>5 DEF Sync, frame_full
      <3> HIDE DEF e
      <3>4. Sync(e, m)
        <4>1. ~(m.k <= MTU)
          BY <1>0, <1>2, <2>2, <3>3
        <4>2. e.truncated /\ e.in_sync /\ e.in_escape = m.e
          BY <1>7, <2>2, <3>2, Zenon
        <4> QED
          BY <2>2, <4>1, <4>2, Zenon DEF Sync
      <3> QED
        BY <3>2, <3>4 DEF e, FromUs
    <2>6. CASE ~frame_full(d)
      <3> HIDE DEF plain
      <3>1. e = [d EXCEPT !.in_escape = FALSE, !.frame = Append(@, plain)]
        BY <1>7, <2>6, Zenon DEF slip_decode, plain
      <3>2. /\ e.frame = Append(d.frame, plain) /\ e.in_escape = FALSE /\ e.truncated = d.truncated
            /\ e.inject = d.inject /\ e.in_sync = d.in_sync
        BY <3>1 DEF Decoders
      <3> DEFINE q == Append(d.frame, plain)
      <3>3. /\ DOMAIN q = 1 .. Len(d.frame) + 1 /\ q[Len(d.frame) + 1] = plain
            /\ DOMAIN d.frame = 1 .. Len(d.frame) /\ Len(d.frame) \in Nat
            /\ \A i \in 1 .. Len(d.frame) : q[i] = d.frame[i]
            /\ Len(q) = Len(d.frame) + 1
        BY <1>1
      <3> HIDE DEF e, q
      <3>4. FromUs(e, n)
        BY <2>4, <3>2, <3>3 DEF FromUs, q
      <3>5. l.k + 1 > MTU => e.truncated
        BY <1>0, <1>1, <1>2, <1>7, <2>1, <2>6, <3>2, <3>3 DEF Sync, frame_full
      <3>6. l.k + 1 <= MTU => /\ ~e.truncated /\ Len(e.frame) = l.k + 1
                              /\ \A i \in 1 .. l.k + 1 : e.frame[i].b = l.p[i]
        <4> SUFFICES ASSUME l.k + 1 <= MTU
                     PROVE  /\ ~e.truncated /\ Len(e.frame) = l.k + 1
                            /\ \A i \in 1 .. l.k + 1 : e.frame[i].b = l.p[i]
          OBVIOUS
        <4>1. /\ ~d.truncated /\ Len(d.frame) = l.k
              /\ \A i \in 1 .. l.k : d.frame[i].b = l.p[i]
          BY <1>0, <1>2, <1>7, <2>1 DEF Sync
        <4>2. e.frame = q
          BY <3>2 DEF q
        <4>3. \A i \in 1 .. l.k + 1 : q[i].b = l.p[i]
          BY <1>2, <2>4, <3>3, <4>1
        <4> QED
          BY <3>2, <3>3, <4>1, <4>2, <4>3
      <3>7. Sync(e, m)
        <4>1. /\ m.k > MTU => e.truncated
              /\ m.k <= MTU => /\ ~e.truncated /\ Len(e.frame) = m.k
                               /\ \A i \in 1 .. m.k : e.frame[i].b = m.p[i]
          BY <2>2, <3>5, <3>6, Zenon
        <4>2. e.in_sync /\ e.in_escape = m.e
          BY <1>7, <2>2, <3>2, Zenon
        <4> QED
          BY <2>2, <4>1, <4>2, Zenon DEF Sync
      <3> QED
        BY <3>2, <3>4, <3>7 DEF e
    <2> QED
      BY <2>5, <2>6
  <1> QED
    BY <1>1, <1>4, <1>5, <1>6, <1>7
-----------------------------------------------------------------------------
(* The invariant of the way from FUSE to the network *)

(* Nothing of a FUSE that has gone is left once the bridge has noticed.     *)
Gone ==
    /\ pc = "down" => decoder = no_frame /\ (~tx_open => tx = <<>>)
    /\ fuse # "up" /\ ~attached /\ pc \notin {"drain", "startup", "down"} =>
          tx = <<>> /\ decoder = no_frame

AllFromUs == (\A i \in DOMAIN tx : tx[i].from = inst) /\ FromUs(decoder, inst)

(* lab[i] is the place in the stream after the first i bytes of the fifo t: *)
(* the decoder is at the first place and a FUSE that is up at the last one. *)
Trace(lab, t, d, u, o) ==
    /\ \A i \in 0 .. Len(t) : Place(lab[i])
    /\ \A i \in 1 .. Len(t) : Follows(lab[i - 1], t[i].b, lab[i])
    /\ Sync(d, lab[0])
    /\ u = "up" => Left(o, lab[Len(t)])

Writing(o) == \E l : Place(l) /\ Left(o, l)

(* While the bridge is down, or has not drained the fifo yet, bytes may be  *)
(* missing.                                                                 *)
Undrained == pc \in {"down", "startup"}

InStep ==
    /\ Undrained => (fuse = "up" => Writing(out))
    /\ ~Undrained => \E lab : Trace(lab, tx, decoder, fuse, out)

WholeInv == Gone /\ AllFromUs /\ InStep /\ InjectedWhole

Border == [p |-> <<>>, k |-> 1, e |-> FALSE]

LEMMA AtBorder == Place(Border) /\ Idle(Border) /\ Left(<<>>, Border)
  <1>1. <<>> \in Seq(Bytes) /\ Len(<<>>) = 0
    OBVIOUS
  <1>2. Idle(Border)
    BY <1>1 DEF Idle, Border
  <1>3. Place(Border)
    BY <1>1, <1>2 DEF Place, Border
  <1> QED
    BY <1>2, <1>3 DEF Left, Rem

LEMMA NoFrameSync == ASSUME NEW l PROVE Sync(no_frame, l)
  BY Zenon DEF Sync, no_frame, Empty

(* A drained fifo: wherever the writer is, the decoder waits for a border.  *)
LEMMA Drained ==
    ASSUME NEW u, NEW o, u = "up" => Writing(o)
    PROVE  \E lab : Trace(lab, <<>>, no_frame, u, o)
  <1>1. PICK l : Place(l) /\ (u = "up" => Left(o, l))
    BY AtBorder DEF Writing
  <1> DEFINE lab == [i \in 0 .. 0 |-> l]
  <1>2. Len(<<>>) = 0 /\ 0 .. 0 = {0} /\ 1 .. 0 = {} /\ lab[0] = l
    OBVIOUS
  <1>3. Sync(no_frame, l)
    BY NoFrameSync
  <1> HIDE DEF lab
  <1>4. Trace(lab, <<>>, no_frame, u, o)
    BY <1>1, <1>2, <1>3 DEF Trace
  <1> QED
    BY <1>4

LEMMA TraceWrites ==
    ASSUME TunInv, InStep, fuse = "up" PROVE Writing(out)
  <1>1. CASE ~Undrained
    <2>1. PICK lab : Trace(lab, tx, decoder, fuse, out)
      BY <1>1 DEF InStep
    <2>2. Len(tx) \in 0 .. Len(tx)
      BY DEF TunInv, TypeOK
    <2> QED
      BY <2>1, <2>2 DEF Trace, Writing
  <1> QED
    BY <1>1 DEF InStep

LEMMA Untouched ==
    ASSUME WholeInv, UNCHANGED <<tx, decoder, fuse, out, inst, injected>>, Undrained' = Undrained
    PROVE  AllFromUs' /\ InStep' /\ InjectedWhole'
  <1>1. AllFromUs'
    BY DEF WholeInv, AllFromUs, FromUs
  <1>2. InStep'
    BY DEF WholeInv, InStep
  <1>3. InjectedWhole'
    BY DEF WholeInv, InjectedWhole
  <1> QED
    BY <1>1, <1>2, <1>3

LEMMA WholeInit == ASSUME Init PROVE WholeInv
  <1>1. \A i \in DOMAIN <<>> : FALSE
    OBVIOUS
  <1>2. Gone /\ InStep /\ InjectedWhole
    BY DEF Init, Gone, InStep, InjectedWhole, Undrained
  <1>3. AllFromUs
    BY <1>1 DEF Init, AllFromUs, FromUs, no_frame
  <1> QED
    BY <1>2, <1>3 DEF WholeInv

LEMMA StartWhole ==
    ASSUME SlowRestart, TunInv, WholeInv, fuse_start PROVE WholeInv'
  <1>1. /\ UNCHANGED <<pc, attached, decoder, tx, tx_open, injected>>
        /\ fuse' = "up" /\ out' = <<>> /\ fuse = "off" /\ ~attached /\ pc \in {"poll", "down"}
    BY DEF fuse_start, env, bridge, fifos, world
  <1>2. tx = <<>> /\ decoder = no_frame
    BY <1>1 DEF TunInv, Closed, WholeInv, Gone
  <1>3. Gone'
    BY <1>1 DEF WholeInv, Gone
  <1>4. AllFromUs'
    <2>1. \A i \in DOMAIN <<>> : FALSE
      OBVIOUS
    <2> QED
      BY <1>1, <1>2, <2>1 DEF AllFromUs, FromUs, no_frame
  <1>5. InStep'
    <2>1. Writing(<<>>)
      BY AtBorder DEF Writing
    <2>2. \E lab : Trace(lab, <<>>, no_frame, "up", <<>>)
      BY <2>1, Drained
    <2> QED
      BY <1>1, <1>2, <2>1, <2>2 DEF InStep
  <1>6. InjectedWhole'
    BY <1>1 DEF WholeInv, InjectedWhole
  <1> QED
    BY <1>3, <1>4, <1>5, <1>6 DEF WholeInv

LEMMA BeginWhole ==
    ASSUME TunInv, WholeInv, NEW packet \in Packets, fuse_begin_frame(packet) PROVE WholeInv'
  <1>1. /\ UNCHANGED <<pc, attached, decoder, tx, tx_open, fuse, inst, injected>>
        /\ fuse = "up" /\ out = <<>> /\ out' = frame_of(packet)
    BY DEF fuse_begin_frame, env, bridge, fifos, world
  <1>2. ASSUME NEW l, Place(l), Left(out, l) PROVE Left(out', l)
    <2>1. Idle(l)
      BY <1>1, <1>2, DoneIsIdle
    <2> QED
      BY <1>1, <2>1 DEF Left
  <1>3. Gone'
    BY <1>1 DEF WholeInv, Gone
  <1>4. AllFromUs' /\ InjectedWhole'
    BY <1>1 DEF WholeInv, AllFromUs, InjectedWhole, FromUs
  <1>5. CASE Undrained
    <2>1. Writing(out')
      BY <1>1, <1>2, <1>5 DEF WholeInv, InStep, Writing
    <2> QED
      BY <1>1, <1>3, <1>4, <1>5, <2>1 DEF WholeInv, InStep, Undrained
  <1>6. CASE ~Undrained
    <2>1. PICK lab : Trace(lab, tx, decoder, fuse, out)
      BY <1>6 DEF WholeInv, InStep
    <2>2. Len(tx) \in 0 .. Len(tx)
      BY DEF TunInv, TypeOK
    <2>3. Left(out', lab[Len(tx)])
      BY <1>1, <1>2, <2>1, <2>2 DEF Trace
    <2>4. Trace(lab, tx, decoder, fuse, out')
      BY <2>1, <2>3 DEF Trace
    <2>5. InStep'
      BY <1>1, <1>6, <2>4 DEF InStep, Undrained
    <2> QED
      BY <1>3, <1>4, <2>5 DEF WholeInv
  <1> QED
    BY <1>5, <1>6

LEMMA WriteWhole ==
    ASSUME TunInv, WholeInv, fuse_write PROVE WholeInv'
  <1> DEFINE byte == [b |-> Head(out), from |-> inst]
             n == Len(tx)
  <1>1. /\ UNCHANGED <<pc, attached, decoder, tx_open, fuse, inst, injected>>
        /\ fuse = "up" /\ tx_open /\ out # <<>> /\ out' = Tail(out)
        /\ tx' = Append(tx, byte) \/ (pc = "down" /\ tx' = tx)
    BY DEF fuse_write, env, bridge, world
  <1>2. tx \in Seq(Octets) /\ n \in Nat /\ DOMAIN tx = 1 .. n
    BY DEF TunInv, TypeOK
  <1>3. byte.b = Head(out) /\ byte.from = inst
    OBVIOUS
  <1>4. Gone'
    BY <1>1 DEF WholeInv, Gone
  <1>5. InjectedWhole'
    BY <1>1 DEF WholeInv, InjectedWhole
  <1> DEFINE t == Append(tx, byte)
  <1>6. /\ Len(t) = n + 1 /\ DOMAIN t = 1 .. n + 1 /\ t[n + 1] = byte
        /\ \A i \in 1 .. n : t[i] = tx[i]
    <2> HIDE DEF byte
    <2>1. byte \in {byte} \cup Octets /\ tx \in Seq({byte} \cup Octets)
      BY <1>2
    <2> QED
      BY <1>2, <2>1
  <1> HIDE DEF byte, t
  <1>7. AllFromUs'
    <2>1. (\A i \in DOMAIN tx : tx[i].from = inst) /\ FromUs(decoder, inst)
      BY DEF WholeInv, AllFromUs
    <2>2. \A i \in DOMAIN t : t[i].from = inst
      BY <1>2, <1>3, <1>6, <2>1
    <2>3. FromUs(decoder', inst')
      BY <1>1, <2>1
    <2> QED
      BY <1>1, <2>1, <2>2, <2>3 DEF AllFromUs, FromUs, t
  <1>8. CASE Undrained
    <2>1. PICK l : Place(l) /\ Left(out, l)
      BY <1>1, <1>8 DEF WholeInv, InStep, Writing
    <2>2. Writing(out')
      BY <1>1, <2>1, NextByte DEF Writing
    <2>3. InStep'
      BY <1>1, <1>8, <2>2 DEF InStep, Undrained
    <2> QED
      BY <1>4, <1>5, <1>7, <2>3 DEF WholeInv
  <1>9. CASE ~Undrained
    <2>1. PICK lab : Trace(lab, tx, decoder, fuse, out)
      BY <1>9 DEF WholeInv, InStep
    <2>2. n \in 0 .. n
      BY <1>2
    <2>3. Place(lab[n]) /\ Left(out, lab[n])
      BY <1>1, <2>1, <2>2 DEF Trace
    <2>4. PICK m : Place(m) /\ Follows(lab[n], Head(out), m) /\ Left(Tail(out), m)
      BY <1>1, <2>3, NextByte
    <2> DEFINE lab2 == [i \in 0 .. n + 1 |-> IF i = n + 1 THEN m ELSE lab[i]]
    <2>5. lab2[n + 1] = m /\ \A i \in 0 .. n : lab2[i] = lab[i]
      BY <1>2
    <2> HIDE DEF lab2, n
    <2>6. \A i \in 0 .. n + 1 : Place(lab2[i])
      <3> TAKE i \in 0 .. n + 1
      <3>1. CASE i = n + 1
        BY <2>4, <2>5, <3>1
      <3>2. CASE i # n + 1
        <4>1. i \in 0 .. n
          BY <1>2, <3>2
        <4> QED
          BY <2>1, <2>5, <4>1 DEF Trace, n
      <3> QED
        BY <3>1, <3>2
    <2>7. \A i \in 1 .. n + 1 : Follows(lab2[i - 1], t[i].b, lab2[i])
      <3> TAKE i \in 1 .. n + 1
      <3>1. CASE i = n + 1
        <4>1. i - 1 = n
          BY <1>2, <3>1
        <4> QED
          BY <1>3, <1>6, <2>2, <2>4, <2>5, <3>1, <4>1
      <3>2. CASE i # n + 1
        <4>1. i \in 1 .. n /\ i \in 0 .. n /\ i - 1 \in 0 .. n
          BY <1>2, <3>2
        <4> QED
          BY <1>6, <2>1, <2>5, <4>1 DEF Trace, n
      <3> QED
        BY <3>1, <3>2
    <2>8. Sync(decoder, lab2[0])
      BY <1>2, <2>1, <2>5 DEF Trace
    <2>9. Trace(lab2, t, decoder, fuse, Tail(out))
      BY <1>6, <2>4, <2>5, <2>6, <2>7, <2>8 DEF Trace
    <2>10. pc # "down"
      BY <1>9 DEF Undrained
    <2>11. tx' = t
      BY <1>1, <2>10 DEF t
    <2>12. InStep'
      BY <1>1, <1>9, <2>9, <2>11 DEF InStep, Undrained
    <2> QED
      BY <1>4, <1>5, <1>7, <2>12 DEF WholeInv
  <1> QED
    BY <1>8, <1>9

LEMMA ExitWhole ==
    ASSUME SlowRestart, TunInv, WholeInv, fuse_exit \/ fuse_close PROVE WholeInv'
  <1>1. /\ UNCHANGED <<pc, attached, decoder, inst, injected>> /\ fuse' # "up"
        /\ tx' = tx \/ (pc = "down" /\ tx' = <<>>)
        /\ fuse = "up" => attached
    <2>1. CASE fuse_exit
      BY <2>1 DEF fuse_exit, env, bridge, fifos, world
    <2>2. CASE fuse_close
      <3>1. UNCHANGED <<pc, attached, decoder, inst, injected>> /\ fuse = "dying" /\ fuse' # "up"
        BY <2>2 DEF fuse_close, env, bridge, world
      <3>2. tx' = tx \/ (pc = "down" /\ tx' = <<>>)
        BY <2>2, Zenon DEF fuse_close
      <3> QED
        BY <3>1, <3>2
    <2> QED
      BY <2>1, <2>2
  <1>2. Gone'
    <2>1. pc = "down" /\ ~tx_open' => tx' = <<>>
      <3>1. CASE fuse_exit
        BY <3>1 DEF fuse_exit, fifos, WholeInv, Gone
      <3>2. CASE fuse_close
        BY <3>2 DEF fuse_close
      <3> QED
        BY <3>1, <3>2
    <2> QED
      BY <1>1, <2>1 DEF WholeInv, Gone
  <1>3. InjectedWhole'
    BY <1>1 DEF WholeInv, InjectedWhole
  <1>4. AllFromUs'
    <2>1. \A i \in DOMAIN <<>> : FALSE
      OBVIOUS
    <2> QED
      BY <1>1, <2>1 DEF WholeInv, AllFromUs, FromUs
  <1>5. InStep'
    <2>1. CASE Undrained
      BY <1>1, <2>1 DEF InStep, Undrained
    <2>2. CASE ~Undrained
      <3>1. PICK lab : Trace(lab, tx, decoder, fuse, out)
        BY <2>2 DEF WholeInv, InStep
      <3>2. Trace(lab, tx, decoder, fuse', out')
        BY <1>1, <3>1 DEF Trace
      <3> QED
        BY <1>1, <2>2, <3>2 DEF InStep, Undrained
    <2> QED
      BY <2>1, <2>2
  <1> QED
    BY <1>2, <1>3, <1>4, <1>5 DEF WholeInv

(* Steps that touch neither tx nor the decoder. *)
LEMMA OtherWhole ==
    ASSUME TunInv, WholeInv,
           \/ fuse_open_rx \/ fuse_open_tx \/ fuse_read \/ tun_packet
           \/ poll \/ tun_drop \/ handle_tun \/ rx_write \/ tx_reopen \/ rx_check \/ client_attach
           \/ startup \/ UNCHANGED vars
    PROVE  WholeInv'
  <1>1. CASE fuse_open_rx \/ fuse_open_tx \/ fuse_read \/ tun_packet \/ UNCHANGED vars
    <2>1. /\ UNCHANGED <<pc, attached, decoder, inst, injected, fuse, out, tx>>
          /\ tx_open => tx_open'
      BY <1>1 DEF fuse_open_rx, fuse_open_tx, fuse_read, tun_packet, env, bridge, fifos, world,
                  client, vars
    <2>2. Undrained' = Undrained /\ Gone'
      BY <2>1 DEF Undrained, WholeInv, Gone
    <2> QED
      BY <2>1, <2>2, Untouched DEF WholeInv
  <1>2. CASE startup
    <2>1. /\ UNCHANGED <<attached, decoder, inst, injected, fuse, out, tx>>
          /\ pc = "down" /\ pc' = "startup"
      BY <1>2 DEF startup, client, world
    <2>2. Undrained' = Undrained /\ Gone'
      BY <2>1 DEF Undrained, WholeInv, Gone
    <2> QED
      BY <2>1, <2>2, Untouched DEF WholeInv
  <1>3. CASE poll \/ tun_drop \/ handle_tun \/ rx_write \/ tx_reopen \/ rx_check \/ client_attach
    <2>1. UNCHANGED <<decoder, inst, injected, fuse, out, tx>>
      BY <1>3 DEF poll, tun_drop, handle_tun, rx_write, tx_reopen, rx_check, client_attach, bridge,
                  fifos, world, client
    <2>2. /\ pc \notin {"down", "startup", "drain"} /\ pc' \notin {"down", "startup"}
          /\ ~attached' => ~attached \/ pc' = "drain"
      <3>1. CASE poll \/ tun_drop \/ handle_tun \/ tx_reopen
        BY <3>1 DEF poll, tun_drop, handle_tun, tx_reopen, bridge
      <3>2. CASE client_attach
        BY <3>2 DEF client_attach
      <3>3. CASE rx_write
        BY <3>3 DEF rx_write, client_detach
      <3>4. CASE rx_check
        BY <3>4 DEF rx_check, client_detach
      <3> QED
        BY <1>3, <3>1, <3>2, <3>3, <3>4
    <2>3. Undrained' = Undrained
      BY <2>2 DEF Undrained
    <2>4. Gone'
      BY <2>1, <2>2 DEF WholeInv, Gone
    <2> QED
      BY <2>1, <2>3, <2>4, Untouched DEF WholeInv
  <1> QED
    BY <1>1, <1>2, <1>3

LEMMA DrainWhole ==
    ASSUME TunInv, WholeInv, flush_drain \/ startup_drain \/ die PROVE WholeInv'
  <1>1. /\ UNCHANGED <<tx_open, inst, injected, fuse, out>> /\ decoder' = no_frame
        /\ tx' = <<>> \/ (tx_open /\ pc' = "down" /\ tx' = tx)
    <2>1. CASE flush_drain \/ startup_drain
      BY <2>1 DEF flush_drain, startup_drain, tx_drain, client, world
    <2>2. CASE die
      BY <2>2 DEF die, client
    <2> QED
      BY <2>1, <2>2
  <1>2. Gone'
    BY <1>1 DEF Gone
  <1>3. InjectedWhole'
    BY <1>1 DEF WholeInv, InjectedWhole
  <1>4. AllFromUs'
    <2>1. \A i \in DOMAIN <<>> : FALSE
      OBVIOUS
    <2> QED
      BY <1>1, <2>1 DEF WholeInv, AllFromUs, FromUs, no_frame
  <1>5. InStep'
    <2>1. fuse = "up" => Writing(out)
      BY TraceWrites DEF WholeInv
    <2>2. \E lab : Trace(lab, <<>>, no_frame, fuse, out)
      BY <2>1, Drained
    <2> QED
      BY <1>1, <2>1, <2>2 DEF InStep, Undrained
  <1> QED
    BY <1>2, <1>3, <1>4, <1>5 DEF WholeInv

LEMMA TxWhole ==
    ASSUME TunInv, WholeInv, handle_tx PROVE WholeInv'
  <1>1. /\ UNCHANGED <<inst, fuse, out, tx_open>> /\ pc = "tx" /\ pc' \notin {"down", "startup"}
    BY DEF handle_tx, client, client_detach
  <1>2. Undrained' = Undrained /\ ~Undrained
    BY <1>1 DEF Undrained
  <1>3. CASE tx = <<>>
    <2>1. UNCHANGED <<tx, decoder, injected>> /\ (UNCHANGED attached \/ pc' = "drain")
      BY <1>3 DEF handle_tx, client_detach
    <2>2. Gone'
      BY <1>1, <2>1 DEF WholeInv, Gone
    <2> QED
      BY <1>1, <1>2, <2>1, <2>2, Untouched DEF WholeInv
  <1>4. CASE tx # <<>>
    <2> DEFINE n == Len(tx)
    <2>1. tx' = <<>> /\ UNCHANGED attached
      BY <1>4 DEF handle_tx
    <2>2. TypeOK
      BY DEF TunInv
    <2>3. PICK h : /\ Run(h)
                   /\ decoder' = [frame |-> h[n].frame, in_escape |-> h[n].in_escape,
                                  in_sync |-> h[n].in_sync, truncated |-> h[n].truncated]
                   /\ injected' = injected \cup
                          {[frame |-> f, by |-> inst] : f \in ToSet(h[n].inject)}
      BY <1>4, <2>2, TxLoop, Zenon
    <2>4. PICK lab : Trace(lab, tx, decoder, fuse, out)
      BY <1>2 DEF WholeInv, InStep
    <2>5. tx \in Seq(Octets) /\ n \in Nat /\ DOMAIN tx = 1 .. n /\ \A i \in 1 .. n : tx[i] \in Octets
      BY <2>2 DEF TypeOK
    <2>6. (\A i \in 1 .. n : tx[i].from = inst) /\ FromUs(decoder, inst)
      BY <2>5 DEF WholeInv, AllFromUs
    <2> DEFINE Good(i) == Sync(h[i], lab[i]) /\ FromUs(h[i], inst) /\ AllWhole(h[i].inject, inst)
               S == {i \in 0 .. n : Good(i)}
    <2>7. Good(0)
      <3>1. /\ h[0].frame = decoder.frame /\ h[0].in_escape = decoder.in_escape
            /\ h[0].in_sync = decoder.in_sync /\ h[0].truncated = decoder.truncated
            /\ h[0].inject = <<>>
        BY <2>3 DEF Run, with_inject
      <3>2. Sync(decoder, lab[0])
        BY <2>4 DEF Trace
      <3>3. Sync(h[0], lab[0])
        BY <3>1, <3>2, Zenon DEF Sync, Empty
      <3>4. FromUs(h[0], inst)
        BY <2>6, <3>1 DEF FromUs
      <3>5. AllWhole(h[0].inject, inst)
        BY <3>1 DEF AllWhole
      <3> QED
        BY <3>3, <3>4, <3>5
    <2>8. ASSUME NEW i \in 1 .. n, Good(i - 1) PROVE Good(i)
      <3>1. i - 1 \in 0 .. n /\ i \in 0 .. n
        BY <2>5
      <3>2. h[i - 1] \in Decoders /\ Len(h[i - 1].frame) <= MTU /\ h[i] = slip_decode(h[i - 1], tx[i])
        BY <2>3, <3>1 DEF Run
      <3>3. Place(lab[i - 1]) /\ Place(lab[i]) /\ Follows(lab[i - 1], tx[i].b, lab[i])
        BY <2>4, <3>1 DEF Trace
      <3>4. tx[i] \in Octets /\ tx[i].from = inst
        BY <2>5, <2>6
      <3>5. /\ Sync(h[i - 1], lab[i - 1]) /\ FromUs(h[i - 1], inst)
            /\ AllWhole(h[i - 1].inject, inst)
        BY <2>8
      <3> DEFINE e == slip_decode(h[i - 1], tx[i])
      <3>6. Sync(e, lab[i]) /\ FromUs(e, inst) /\ AllWhole(e.inject, inst)
        <4> HIDE DEF Good, n
        <4> QED
          BY <3>2, <3>3, <3>4, <3>5, DecodeStep, Zenon
      <3> QED
        BY <3>2, <3>6, Zenon
    <2> HIDE DEF n, Good
    <2>9. 0 \in S /\ \A i \in 1 .. n : i - 1 \in S => i \in S
      BY <2>5, <2>7, <2>8
    <2>10. Good(n)
      <3> HIDE DEF S
      <3>1. \A i \in 0 .. n : i \in S
        BY <2>5, <2>9, UpTo
      <3> QED
        BY <2>5, <3>1 DEF S
    <2> USE DEF Good
    <2>11. /\ decoder'.frame = h[n].frame /\ decoder'.in_escape = h[n].in_escape
           /\ decoder'.in_sync = h[n].in_sync /\ decoder'.truncated = h[n].truncated
      BY <2>3 DEF n
    <2>12. Sync(decoder', lab[n]) /\ FromUs(decoder', inst)
      <3>1. Sync(decoder', lab[n])
        BY <2>10, <2>11, Zenon DEF Sync, Empty
      <3>2. FromUs(decoder', inst)
        BY <2>10, <2>11 DEF FromUs
      <3> QED
        BY <3>1, <3>2
    <2>13. InStep'
      <3> DEFINE lab2 == [i \in 0 .. 0 |-> lab[n]]
      <3>1. Len(<<>>) = 0 /\ 0 .. 0 = {0} /\ 1 .. 0 = {} /\ lab2[0] = lab[n]
        OBVIOUS
      <3>2. n \in 0 .. n
        BY <2>5
      <3>3. Place(lab[n]) /\ (fuse = "up" => Left(out, lab[n]))
        BY <2>4, <3>2 DEF Trace, n
      <3> HIDE DEF lab2
      <3>4. Trace(lab2, <<>>, decoder', fuse, out)
        BY <2>12, <3>1, <3>3 DEF Trace
      <3> QED
        BY <1>1, <1>2, <2>1, <3>4 DEF InStep
    <2>14. AllFromUs'
      <3>1. \A i \in DOMAIN <<>> : FALSE
        OBVIOUS
      <3> QED
        BY <1>1, <2>1, <2>12, <3>1 DEF AllFromUs, FromUs
    <2>15. InjectedWhole'
      <3>1. ASSUME NEW f \in ToSet(h[n].inject) PROVE Whole(f, inst)
        <4>1. PICK i \in DOMAIN h[n].inject : f = h[n].inject[i]
          BY <3>1, Zenon DEF ToSet
        <4> QED
          BY <2>10, <4>1 DEF AllWhole
      <3>2. ASSUME NEW g \in injected'
            PROVE  /\ \E packet \in Packets : packet = [i \in DOMAIN g.frame |-> g.frame[i].b]
                   /\ \A i \in DOMAIN g.frame : g.frame[i].from = g.by
        <4>1. CASE g \in injected
          BY <4>1 DEF WholeInv, InjectedWhole
        <4>2. CASE g \notin injected
          <5>1. PICK f \in ToSet(h[n].inject) : g = [frame |-> f, by |-> inst]
            BY <2>3, <3>2, <4>2 DEF n
          <5>2. g.frame = f /\ g.by = inst
            BY <5>1
          <5> QED
            BY <3>1, <5>2 DEF Whole
        <4> QED
          BY <4>1, <4>2
      <3> QED
        BY <3>2 DEF InjectedWhole
    <2>16. Gone'
      <3>1. attached \/ fuse = "up"
        BY <1>1, <1>4 DEF WholeInv, Gone
      <3> QED
        BY <1>1, <2>1, <3>1 DEF Gone
    <2> QED
      BY <2>13, <2>14, <2>15, <2>16 DEF WholeInv
  <1> QED
    BY <1>3, <1>4

LEMMA WholeStep ==
    ASSUME SlowRestart, TunInv, WholeInv, [Next]_vars PROVE WholeInv'
  BY StartWhole, BeginWhole, WriteWhole, ExitWhole, OtherWhole, DrainWhole, TxWhole
  DEF Next, Environment, Main

(* What slip_decode() injects is a packet as the present FUSE sent it, for  *)
(* all packets, whatever bytes they hold and however long they are: not a   *)
(* part of one that was killed or of one that the bridge's restart cut, and *)
(* no bytes of two.                                                         *)
THEOREM TunInjectedWhole == ASSUME SlowRestart PROVE Spec => []InjectedWhole
  <1>1. Init => WholeInv
    BY WholeInit
  <1>2. TunInv /\ WholeInv /\ [Next]_vars => WholeInv'
    BY WholeStep
  <1>3. WholeInv => InjectedWhole
    BY DEF WholeInv
  <1> QED
    BY <1>1, <1>2, <1>3, TunInvariant, PTL DEF Spec
=============================================================================
