--------------------------- MODULE SessionProofs ---------------------------
(***************************************************************************)
(* What the steps that tcp_chat.c and irc.c have in common preserve, for   *)
(* every text, window and number of drains.  ChatProofs and IrcProofs cite *)
(* it for the steps of the two programs.                                   *)
(***************************************************************************)
EXTENDS Session, DataLemmas

(* The server never gets ahead of what we have received by more than one    *)
(* window, wherever the segments that opened and closed it were lost.       *)
WithinWindow == edge <= got + RxWindow /\ nxt <= got + RxWindow

(* The window is known to be closed from the first drain of a send to its   *)
(* end, and window_open says what the last segment said.                    *)
WindowKnown ==
    /\ window_open <=> offered > 0
    /\ mode \in {"drain", "wait"} => ~window_open

SessionInv == SessionTypeOK /\ WithinWindow /\ WindowKnown

LEMMA TextLength == \A t \in Texts : Len(t) \in Nat
  BY SessionAssumption

LEMMA SessionInitInv ==
    ASSUME SessionInit, mode \notin {"drain", "wait"} PROVE SessionInv
  <1>1. Len(text) \in Nat
    BY TextLength DEF SessionInit
  <1>2. SessionTypeOK
    <2>1. window_open \in BOOLEAN /\ framed \in BOOLEAN /\ peer \in {"up", "fin", "gone"}
      BY DEF SessionInit
    <2>2. /\ text \in Texts /\ una \in 0 .. nxt /\ nxt \in 0 .. Len(text)
          /\ edge \in 0 .. Len(text) + RxWindow /\ got \in 0 .. nxt
          /\ drains \in 0 .. Drains /\ offered \in {0, RxWindow}
      BY <1>1, SessionAssumption DEF SessionInit
    <2> QED
      BY <2>1, <2>2 DEF SessionTypeOK
  <1>3. WithinWindow
    BY SessionAssumption DEF SessionInit, WithinWindow
  <1>4. ~window_open /\ ~(offered > 0)
    BY DEF SessionInit
  <1> QED
    BY <1>2, <1>3, <1>4, Zenon DEF SessionInv, WindowKnown
-----------------------------------------------------------------------------
(* The pieces of tcp.c *)

(* What a segment holds was sent. *)
LEMMA SegmentSent ==
    ASSUME SessionTypeOK, NEW s \in segments
    PROVE  /\ s.pos \in Int /\ s.len \in Nat /\ s.fin \in BOOLEAN
           /\ s.pos + s.len <= nxt
           /\ s.len > 0 => s.pos \in Nat
           /\ s.fin => peer = "fin" /\ s.pos + s.len = Len(text)
  <1>1. una \in Nat /\ nxt \in Nat /\ una <= nxt /\ Len(text) \in Nat
    BY TextLength DEF SessionTypeOK
  <1>2. CASE s \in [pos : una .. nxt, len : 0 .. nxt - una, fin : BOOLEAN]
    <2>1. s.pos \in una .. nxt /\ s.len \in 0 .. nxt - una /\ s.fin \in BOOLEAN
      BY <1>2
    <2>2. s # [pos |-> una - 1, len |-> 0, fin |-> FALSE]
      BY <1>1, <2>1
    <2>3. s.pos + s.len <= nxt /\ may_fin(s.pos + s.len, s.fin)
      BY <2>2 DEF segments
    <2> QED
      BY <1>1, <2>1, <2>3 DEF may_fin
  <1>3. CASE s = [pos |-> una - 1, len |-> 0, fin |-> FALSE]
    BY <1>1, <1>3
  <1> QED
    BY <1>2, <1>3 DEF segments

LEMMA Shifted == ASSUME NEW r \in Nat, NEW x \in Nat, NEW y \in Nat, NEW z \in Nat, x <= y, z <= x + r
                 PROVE  z <= y + r
  OBVIOUS

LEMMA TransmitKeeps ==
    ASSUME SessionTypeOK, WithinWindow, NEW w \in {0, RxWindow},
           got' \in got .. nxt, transmit(got', w),
           drains' \in 0 .. Drains, window_open' \in BOOLEAN, framed' \in BOOLEAN
    PROVE  SessionTypeOK' /\ WithinWindow' /\ offered' = w
  <1>1. Len(text) \in Nat
    BY TextLength DEF SessionTypeOK
  <1>2. /\ text' \in Texts /\ nxt' = nxt /\ text' = text /\ peer' \in {"up", "fin", "gone"}
        /\ got' \in 0 .. nxt' /\ nxt' \in 0 .. Len(text')
    BY <1>1 DEF SessionTypeOK, transmit
  <1>3. una' \in 0 .. nxt' /\ edge' \in 0 .. Len(text') + RxWindow
    BY <1>1, <1>2, SessionAssumption DEF SessionTypeOK, transmit
  <1>4. WithinWindow'
    <2>1. /\ got \in Nat /\ nxt \in Nat /\ edge \in Nat /\ RxWindow \in Nat /\ w \in Nat /\ w <= RxWindow
          /\ got' \in Nat /\ got <= got' /\ edge <= got + RxWindow /\ nxt <= got + RxWindow
      BY <1>1, SessionAssumption DEF SessionTypeOK, WithinWindow
    <2>2. edge' = edge \/ edge' = got' + w
      BY DEF transmit
    <2>3. edge' <= got' + RxWindow
      BY <2>1, <2>2
    <2>4. nxt' <= got' + RxWindow
      <3>1. nxt' = nxt
        BY <1>2
      <3>2. nxt <= got' + RxWindow
        BY <2>1, Shifted
      <3> QED
        BY <3>1, <3>2, Zenon
    <2> QED
      BY <2>3, <2>4 DEF WithinWindow
  <1>5. offered' = w
    BY DEF transmit
  <1> QED
    BY <1>2, <1>3, <1>4, <1>5 DEF SessionTypeOK

LEMMA SilentKeeps ==
    ASSUME SessionTypeOK, WithinWindow, silent, UNCHANGED got,
           drains' \in 0 .. Drains, window_open' \in BOOLEAN, framed' \in BOOLEAN
    PROVE  SessionTypeOK' /\ WithinWindow' /\ offered' = offered
  BY DEF SessionTypeOK, WithinWindow, silent, connection

LEMMA NewDataKeeps ==
    ASSUME SessionTypeOK, WithinWindow, NEW s \in segments, new_data(s),
           drains' \in 0 .. Drains, window_open' \in BOOLEAN
    PROVE  SessionTypeOK' /\ WithinWindow' /\ offered' = 0 /\ s.len > 0 /\ s.pos >= got
           /\ got' = s.pos + s.len /\ text' = text /\ got' \in Nat /\ s.pos \in Nat /\ s.len \in Nat
           /\ got' <= Len(text)
  <1>1. s.pos \in Int /\ s.len \in Nat /\ s.pos + s.len <= nxt /\ (s.len > 0 => s.pos \in Nat)
    BY SegmentSent
  <1>2. s.len > 0 /\ s.pos >= got /\ got' = s.pos + s.len /\ transmit(got', 0) /\ text' = text
        /\ framed' \in BOOLEAN
    BY DEF new_data, transmit
  <1>3. got \in Nat /\ nxt \in Nat /\ nxt <= Len(text) /\ Len(text) \in Nat
    BY TextLength DEF SessionTypeOK
  <1>4. got' \in got .. nxt
    BY <1>1, <1>2, <1>3
  <1>5. SessionTypeOK' /\ WithinWindow' /\ offered' = 0
    BY <1>2, <1>4, TransmitKeeps
  <1> QED
    BY <1>1, <1>2, <1>3, <1>4, <1>5
-----------------------------------------------------------------------------
(* The steps *)

LEMMA ServerKeeps ==
    ASSUME SessionInv, Server PROVE SessionInv'
  <1>1. /\ una \in Nat /\ nxt \in Nat /\ edge \in Nat /\ got \in Nat /\ Len(text) \in Nat
        /\ RxWindow \in Nat /\ una <= nxt /\ got <= nxt
        /\ edge <= got + RxWindow /\ nxt <= got + RxWindow
    BY TextLength, SessionAssumption DEF SessionInv, SessionTypeOK, WithinWindow
  <1> DEFINE Others == UNCHANGED <<text, una, edge, program, got, offered>>
             Sent == nxt' \in nxt .. Len(text) /\ (nxt' = nxt \/ nxt' <= edge)
             Peers == peer' \in {"up", "fin", "gone"}
  <1>2. Others /\ Sent /\ Peers
    <2>1. ASSUME NEW n \in 1 .. Len(text), peer_send(n) PROVE Others /\ Sent /\ Peers
      BY <1>1, <2>1 DEF peer_send, program, SessionInv, SessionTypeOK
    <2>2. ASSUME NEW how \in {"fin", "gone"}, peer_close(how) PROVE Others /\ Sent /\ Peers
      BY <1>1, <2>2 DEF peer_close, program, SessionInv, SessionTypeOK
    <2> QED
      BY <2>1, <2>2 DEF Server
  <1>3. SessionTypeOK'
    BY <1>1, <1>2 DEF SessionInv, SessionTypeOK, program
  <1>4. WithinWindow'
    BY <1>1, <1>2 DEF WithinWindow
  <1>5. WindowKnown'
    BY <1>2 DEF SessionInv, WindowKnown, program
  <1> QED
    BY <1>3, <1>4, <1>5 DEF SessionInv

LEMMA PollOpenKeeps ==
    ASSUME SessionInv, poll_open PROVE SessionInv'
  <1>1. /\ mode' = "recv" /\ window_open' = TRUE /\ drains' \in 0 .. Drains /\ window_open' \in BOOLEAN
        /\ framed' \in BOOLEAN /\ got' = got /\ window_open \in BOOLEAN /\ SessionTypeOK /\ WithinWindow
    BY DEF poll_open, SessionInv, SessionTypeOK
  <1>2. CASE window_open
    <2>1. silent
      BY <1>2 DEF poll_open
    <2>2. SessionTypeOK' /\ WithinWindow' /\ offered' = offered
      BY <1>1, <2>1, SilentKeeps
    <2>3. offered' > 0
      BY <1>2, <2>2 DEF SessionInv, WindowKnown
    <2> QED
      BY <1>1, <2>2, <2>3 DEF SessionInv, WindowKnown
  <1>3. CASE ~window_open
    <2>1. transmit(got', RxWindow)
      BY <1>1, <1>3 DEF poll_open
    <2>2. got' \in got .. nxt
      BY <1>1 DEF SessionTypeOK
    <2>3. SessionTypeOK' /\ WithinWindow' /\ offered' = RxWindow
      BY <1>1, <2>1, <2>2, TransmitKeeps
    <2>4. offered' > 0
      BY <2>3, SessionAssumption
    <2> QED
      BY <1>1, <2>3, <2>4 DEF SessionInv, WindowKnown
  <1> QED
    BY <1>2, <1>3

(* Nothing is sent or received. *)
LEMMA QuietKeeps ==
    ASSUME SessionInv, silent, UNCHANGED <<got, window_open>>, drains' \in 0 .. Drains,
           framed' \in BOOLEAN,
           mode' \notin {"drain", "wait"} \/ ~window_open
    PROVE  SessionInv'
  <1>1. SessionTypeOK /\ WithinWindow /\ window_open' \in BOOLEAN
    BY DEF SessionInv, SessionTypeOK
  <1>2. SessionTypeOK' /\ WithinWindow' /\ offered' = offered
    BY <1>1, SilentKeeps
  <1> QED
    BY <1>2 DEF SessionInv, WindowKnown

LEMMA PollQuietKeeps ==
    ASSUME SessionInv, NEW next, next \notin {"drain", "wait"},
           poll_again(next) \/ poll_reset \/ \E s \in segments : poll_nodata(s, next)
    PROVE  SessionInv'
  <1>1. silent /\ UNCHANGED <<got, window_open, drains>> /\ mode' \in {"end", next}
        /\ framed' \in BOOLEAN
    BY DEF poll_again, poll_reset, poll_nodata, timed_out, was_reset, no_data
  <1>2. drains' \in 0 .. Drains
    BY <1>1 DEF SessionInv, SessionTypeOK
  <1> QED
    BY <1>1, <1>2, QuietKeeps

LEMMA PollDataKeeps ==
    ASSUME SessionInv, NEW next, next \notin {"drain", "wait"},
           NEW s \in segments, poll_data(s, next)
    PROVE  SessionInv'
  <1>1. /\ SessionTypeOK /\ WithinWindow /\ new_data(s) /\ window_open' = FALSE
        /\ window_open' \in BOOLEAN /\ drains' \in 0 .. Drains /\ mode' = next
    BY DEF poll_data, SessionInv, SessionTypeOK
  <1>2. SessionTypeOK' /\ WithinWindow' /\ offered' = 0
    BY <1>1, NewDataKeeps
  <1>3. ~(offered' > 0)
    BY <1>2
  <1> QED
    BY <1>1, <1>2, <1>3 DEF SessionInv, WindowKnown

LEMMA SendBeginKeeps ==
    ASSUME SessionInv, send_begin PROVE SessionInv'
  <1>0. drains' \in 0 .. Drains
    BY SessionAssumption DEF send_begin
  <1>1. /\ SessionTypeOK /\ WithinWindow /\ transmit(got', 0) /\ got' = got /\ window_open' = FALSE
        /\ window_open' \in BOOLEAN /\ framed' \in BOOLEAN
    BY DEF send_begin, SessionInv, SessionTypeOK
  <1>2. got' \in got .. nxt
    BY <1>1 DEF SessionTypeOK
  <1>3. SessionTypeOK' /\ WithinWindow' /\ offered' = 0
    BY <1>0, <1>1, <1>2, TransmitKeeps
  <1>4. ~(offered' > 0)
    BY <1>3
  <1> QED
    BY <1>1, <1>3, <1>4 DEF SessionInv, WindowKnown

LEMMA DrainDataKeeps ==
    ASSUME SessionInv, NEW s \in segments, drain_data(s) PROVE SessionInv'
  <1>1. /\ SessionTypeOK /\ WithinWindow /\ new_data(s) /\ ~window_open'
        /\ window_open' \in BOOLEAN
    BY DEF drain_data, drained, SessionInv, SessionTypeOK, WindowKnown
  <1>2. drains' \in 0 .. Drains
    BY SessionAssumption DEF drain_data, drained, SessionInv, SessionTypeOK
  <1>3. SessionTypeOK' /\ WithinWindow' /\ offered' = 0
    BY <1>1, <1>2, NewDataKeeps
  <1>4. ~(offered' > 0)
    BY <1>3
  <1> QED
    BY <1>1, <1>3, <1>4 DEF SessionInv, WindowKnown

LEMMA DrainNodataKeeps ==
    ASSUME SessionInv, drain_nodata PROVE SessionInv'
  <1>1. silent /\ UNCHANGED <<got, window_open>> /\ ~window_open /\ framed' \in BOOLEAN
    BY DEF drain_nodata, drained, timed_out, was_reset, no_data, SessionInv, WindowKnown
  <1>2. drains' \in 0 .. Drains
    BY SessionAssumption DEF drain_nodata, drained, SessionInv, SessionTypeOK
  <1> QED
    BY <1>1, <1>2, QuietKeeps

LEMMA SendLineKeeps ==
    ASSUME SessionInv, send_line PROVE SessionInv'
  <1>1. /\ SessionTypeOK /\ WithinWindow /\ transmit(got', 0) /\ got' = got /\ ~window_open'
        /\ window_open' \in BOOLEAN /\ framed' \in BOOLEAN /\ drains' \in 0 .. Drains
    BY DEF send_line, SessionInv, SessionTypeOK, WindowKnown
  <1>2. got' \in got .. nxt
    BY <1>1 DEF SessionTypeOK
  <1>3. SessionTypeOK' /\ WithinWindow' /\ offered' = 0
    BY <1>1, <1>2, TransmitKeeps
  <1>4. ~(offered' > 0)
    BY <1>3
  <1> QED
    BY <1>1, <1>3, <1>4 DEF SessionInv, WindowKnown

LEMMA SendEndKeeps ==
    ASSUME SessionInv, NEW next, next \notin {"drain", "wait"}, send_end(next)
    PROVE  SessionInv'
  <1>1. /\ SessionTypeOK /\ WithinWindow /\ ~window_open /\ window_open' = FALSE /\ mode' = next
        /\ window_open' \in BOOLEAN /\ drains' \in 0 .. Drains
    BY DEF send_end, send_ok, send_failed, SessionInv, SessionTypeOK, WindowKnown
  <1>2. CASE \E s \in segments : new_data(s)
    <2>1. SessionTypeOK' /\ WithinWindow' /\ offered' = 0
      BY <1>1, <1>2, NewDataKeeps
    <2>2. ~(offered' > 0)
      BY <2>1
    <2> QED
      BY <1>1, <2>1, <2>2 DEF SessionInv, WindowKnown
  <1>3. CASE silent /\ UNCHANGED got /\ framed' = FALSE
    <2>1. SessionTypeOK' /\ WithinWindow' /\ offered' = offered
      BY <1>1, <1>3, SilentKeeps
    <2>2. ~(offered' > 0)
      BY <1>1, <2>1 DEF SessionInv, WindowKnown
    <2> QED
      BY <1>1, <2>1, <2>2 DEF SessionInv, WindowKnown
  <1> QED
    BY <1>2, <1>3 DEF send_end, send_ok, send_failed, timed_out, was_reset, no_data

(* A frame begins or ends: nothing else has changed. *)
LEMMA FrameKeeps ==
    ASSUME SessionInv, frame_begins \/ frame_ends
    PROVE  SessionInv' /\ silent /\ UNCHANGED <<got, mode, drains, window_open>>
  <1>1. silent /\ UNCHANGED <<got, mode, drains, window_open>> /\ framed' \in BOOLEAN
    BY DEF frame_begins, frame_ends
  <1>2. drains' \in 0 .. Drains /\ (mode' \notin {"drain", "wait"} \/ ~window_open)
    BY <1>1 DEF SessionInv, SessionTypeOK, WindowKnown
  <1> QED
    BY <1>1, <1>2, QuietKeeps
=============================================================================
