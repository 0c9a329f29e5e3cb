----------------------------- MODULE IrcProofs -----------------------------
(***************************************************************************)
(* Proofs about module Irc, for every text of the server, every set of     *)
(* PING commands and of channels, and every size of the buffers.           *)
(***************************************************************************)
EXTENDS Irc, SessionProofs

-----------------------------------------------------------------------------
(* The loop over a segment: what every character keeps, the segment keeps.  *)
LEMMA RxLoop ==
    ASSUME NEW S, NEW b \in S, NEW p \in Nat, NEW n \in Nat,
           \A l \in S : \A k \in 1 .. n : rx_char(l, p + k) \in S
    PROVE  FoldLeft(rx_char, b, [k \in 1 .. n |-> p + k]) \in S
  <1> DEFINE q == [k \in 1 .. n |-> p + k]
             F == [k \in 1 .. n |-> [l \in S |-> rx_char(l, p + k)]]
             Loop(g) == g = [T \in SUBSET (1 .. n) |->
                               IF T = {} THEN b ELSE rx_char(g[T \ {Max(T)}], q[Max(T)])]
             g == CHOOSE g : Loop(g)
  <1>1. FoldLeft(rx_char, b, q) = g[1 .. n]
    BY Zenon DEF FoldLeft, MapThenFoldSet
  <1>2. F \in [1 .. n -> [S -> S]]
    OBVIOUS
  <1>3. \E f : Loop(f)
    <2>1. PICK f : f \in [SUBSET (1 .. n) -> S] /\ FoldsTo(f, b, F, n)
      <3> HIDE DEF F
      <3> QED
        BY <1>2, FoldExists
    <2>2. ASSUME NEW T \in SUBSET (1 .. n)
          PROVE  f[T] = IF T = {} THEN b ELSE rx_char(f[T \ {Max(T)}], q[Max(T)])
      <3>1. f[T] = IF T = {} THEN b ELSE F[Max(T)][f[T \ {Max(T)}]]
        <4> HIDE DEF F
        <4> QED
          BY <2>1 DEF FoldsTo
      <3>2. CASE T # {}
        <4>1. Max(T) \in 1 .. n
          BY <3>2, MaxIn
        <4>2. T \ {Max(T)} \in SUBSET (1 .. n)
          OBVIOUS
        <4>3. f[T \ {Max(T)}] \in S
          BY <2>1, <4>2
        <4> QED
          BY <3>1, <3>2, <4>1, <4>3
      <3> QED
        BY <3>1, <3>2
    <2>3. f = [T \in SUBSET (1 .. n) |-> f[T]]
      BY <2>1
    <2>4. Loop(f)
      <3> DEFINE R(T) == IF T = {} THEN b ELSE rx_char(f[T \ {Max(T)}], q[Max(T)])
      <3>1. \A T \in SUBSET (1 .. n) : f[T] = R(T)
        BY <2>2, Zenon
      <3>2. f = [T \in SUBSET (1 .. n) |-> R(T)]
        <4> HIDE DEF R
        <4> QED
          BY <2>3, <3>1
      <3> QED
        BY <3>2, Zenon
    <2> HIDE DEF Loop
    <2> QED
      BY <2>4
  <1>4. Loop(g)
    BY <1>3
  <1> HIDE DEF g, F
  <1> DEFINE Done == {k \in 0 .. n : g[1 .. k] \in S}
  <1>5. g[1 .. 0] \in S
    <2>1. 1 .. 0 = {} /\ {} \in SUBSET (1 .. n)
      OBVIOUS
    <2>2. g[{}] = b
      BY <1>4, <2>1
    <2> QED
      BY <2>1, <2>2
  <1>6. ASSUME NEW k \in 1 .. n, g[1 .. k - 1] \in S PROVE g[1 .. k] \in S
    <2>1. 1 .. k \in SUBSET (1 .. n) /\ 1 .. k # {}
      OBVIOUS
    <2>2. Max(1 .. k) = k /\ (1 .. k) \ {k} = 1 .. k - 1
      BY MaxInterval
    <2>3. g[1 .. k] = rx_char(g[(1 .. k) \ {Max(1 .. k)}], q[Max(1 .. k)])
      <3> HIDE DEF q
      <3> QED
        BY <1>4, <2>1
    <2>4. g[1 .. k] = rx_char(g[1 .. k - 1], p + k)
      BY <2>2, <2>3
    <2> QED
      BY <1>6, <2>4
  <1>7. 0 \in Done /\ \A k \in 1 .. n : k - 1 \in Done => k \in Done
    BY <1>5, <1>6
  <1>8. n \in Done
    <2> HIDE DEF Done
    <2> QED
      BY <1>7, UpTo
  <1> QED
    BY <1>1, <1>8

KeptArgs == {Kept[a] : a \in Pings}

(* What reading lines may do to the reader b: a PING is remembered with its *)
(* argument, the welcome asks for the channel, and out[] is left alone.     *)
Readers(o) ==
    [rxline : Seq(STRING), pong_arg : KeptArgs \cup {Nothing}, pong_pending : BOOLEAN,
     join_pending : BOOLEAN, asked : Pings \cup {Nothing}, welcomed : BOOLEAN, out : {o}]

Reads(b, l) ==
    /\ Len(l.rxline) <= RxLine - 1
    /\ l.pong_pending => l.pong_arg \in KeptArgs /\ (l.asked # Nothing => l.pong_arg = Kept[l.asked])
    /\ \/ l.asked = b.asked /\ (b.pong_pending => l.pong_pending) /\ l.pong_arg = b.pong_arg
       \/ l.pong_pending /\ l.pong_arg = Kept[l.asked]
    /\ b.welcomed => l.welcomed
    /\ b.join_pending => l.join_pending
    /\ l.welcomed => b.welcomed \/ l.join_pending \/ cur_chan = Nothing

LEMMA LineReads ==
    ASSUME NEW b, NEW o, NEW l, l \in Readers(o), Reads(b, l)
    PROVE  handle_server_line(l) \in Readers(o) /\ Reads(b, handle_server_line(l))
  <1> DEFINE cmd == IF l.rxline = <<>> THEN Nothing ELSE Head(l.rxline)
             d == [l EXCEPT !.rxline = <<>>]
             h == handle_server_line(l)
  <1>0. RxLine \in Nat \ {0} /\ <<>> \in Seq(STRING) /\ Len(<<>>) = 0
    BY IrcAssumption
  <1>1. /\ d \in Readers(o) /\ d.rxline = <<>> /\ d.pong_arg = l.pong_arg
        /\ d.pong_pending = l.pong_pending /\ d.join_pending = l.join_pending
        /\ d.asked = l.asked /\ d.welcomed = l.welcomed
    BY <1>0 DEF Readers
  <1>2. Len(<<>>) <= RxLine - 1
    BY <1>0
  <1>3. Reads(b, d)
    <2> HIDE DEF d
    <2> QED
      BY <1>1, <1>2, Zenon DEF Reads
  <1>4. ASSUME NEW c \in Pings
        PROVE  ping_line(d, c) \in Readers(o) /\ Reads(b, ping_line(d, c))
    <2> DEFINE e == ping_line(d, c)
    <2> HIDE DEF d
    <2>0. Kept[c] \in KeptArgs
      BY <1>4 DEF KeptArgs
    <2>1. /\ e \in Readers(o) /\ e.rxline = d.rxline /\ e.pong_arg = Kept[c] /\ e.asked = c
          /\ e.pong_pending = TRUE
          /\ e.join_pending = d.join_pending /\ e.welcomed = d.welcomed
      BY <1>1, <1>4, <2>0 DEF ping_line, Readers
    <2> HIDE DEF e
    <2>2. Reads(b, e)
      BY <1>3, <2>0, <2>1, Zenon DEF Reads
    <2> QED
      BY <2>1, <2>2 DEF e
  <1>5. welcome_line(d) \in Readers(o) /\ Reads(b, welcome_line(d))
    <2> DEFINE e == welcome_line(d)
    <2> HIDE DEF d
    <2>1. /\ e \in Readers(o) /\ e.rxline = d.rxline /\ e.pong_arg = d.pong_arg
          /\ e.asked = d.asked /\ e.pong_pending = d.pong_pending
          /\ e.join_pending = (d.join_pending \/ cur_chan # Nothing) /\ e.welcomed = TRUE
      BY <1>1 DEF welcome_line, Readers
    <2> HIDE DEF e
    <2>2. Reads(b, e)
      BY <1>3, <2>1, Zenon DEF Reads
    <2> QED
      BY <2>1, <2>2 DEF e
  <1>6. (h = ping_line(d, cmd) /\ cmd \in Pings) \/ h = welcome_line(d) \/ h = d
    <2>1. CASE cmd \in Pings /\ cmd # "001"
      BY <2>1, Zenon DEF handle_server_line
    <2>2. CASE cmd = "001" /\ cmd \notin Pings
      BY <2>2, Zenon DEF handle_server_line
    <2>3. CASE cmd # "001" /\ cmd \notin Pings
      BY <2>3, Zenon DEF handle_server_line
    <2> QED
      BY <2>1, <2>2, <2>3, IrcAssumption
  <1> QED
    BY <1>1, <1>3, <1>4, <1>5, <1>6, Zenon

LEMMA CharReads ==
    ASSUME NEW b, NEW o, NEW l, l \in Readers(o), Reads(b, l), NEW i, text[i] \in STRING
    PROVE  rx_char(l, i) \in Readers(o) /\ Reads(b, rx_char(l, i))
  <1>1. CASE text[i] = "newline"
    BY <1>1, LineReads, Zenon DEF rx_char
  <1>2. CASE text[i] # "newline" /\ rxline_room(l)
    <2> DEFINE e == [l EXCEPT !.rxline = Append(@, text[i])]
    <2>1. rx_char(l, i) = e
      BY <1>2, Zenon DEF rx_char
    <2>2. l.rxline \in Seq(STRING)
      BY DEF Readers
    <2>3. Append(l.rxline, text[i]) \in Seq(STRING) /\ Len(Append(l.rxline, text[i])) = Len(l.rxline) + 1
          /\ Len(l.rxline) \in Nat
      <3>1. ASSUME NEW x \in Seq(STRING), NEW y \in STRING
            PROVE  Append(x, y) \in Seq(STRING) /\ Len(Append(x, y)) = Len(x) + 1 /\ Len(x) \in Nat
        BY Grown
      <3> QED
        BY <2>2, <3>1, Zenon
    <2>4. Len(Append(l.rxline, text[i])) <= RxLine - 1
      BY <1>2, <2>3, IrcAssumption DEF rxline_room
    <2>5. /\ e \in Readers(o) /\ e.rxline = Append(l.rxline, text[i]) /\ e.pong_arg = l.pong_arg
          /\ e.pong_pending = l.pong_pending /\ e.join_pending = l.join_pending
          /\ e.asked = l.asked /\ e.welcomed = l.welcomed
      BY <2>3 DEF Readers
    <2> HIDE DEF e
    <2>6. Reads(b, e)
      BY <2>4, <2>5, Zenon DEF Reads
    <2> QED
      BY <2>1, <2>5, <2>6, Zenon
  <1>3. CASE text[i] # "newline" /\ ~rxline_room(l)
    BY <1>3, Zenon DEF rx_char
  <1> QED
    BY <1>1, <1>2, <1>3
-----------------------------------------------------------------------------
(* The inductive invariant *)

Modes == {"register", "key", "poll", "recv", "flush", "flush_join", "drain", "wait", "end"}
Sending == {"drain", "wait"}

ReaderTypeOK ==
    /\ rxline \in Seq(STRING) /\ Len(rxline) <= RxLine - 1
    /\ pong_arg \in KeptArgs \cup {Nothing} /\ asked \in Pings \cup {Nothing}
    /\ pong_pending \in BOOLEAN /\ join_pending \in BOOLEAN /\ welcomed \in BOOLEAN

ProgramTypeOK ==
    /\ mode \in Modes
    /\ input_len \in 0 .. MaxInput
    /\ cur_chan \in Channels \cup {Nothing}
    /\ ret \in {"key", "poll", "flush_join", "end"}

(* What is pending is the answer to the last PING. *)
PongKnown ==
    pong_pending => pong_arg \in KeptArgs /\ (asked # Nothing => pong_arg = Kept[asked])

(* Outside o_send() the channel we are to be on is joined, or is about to   *)
(* be for the first time; inside it, the line in out[] is about cur_chan.   *)
ChannelKnown ==
    /\ ~welcomed => joined \in {Nothing, Unknown}
    /\ welcomed /\ joined # Unknown /\ cur_chan # joined =>
          \/ joined = Nothing /\ join_pending
          \/ mode \in Sending /\ out = <<"JOIN", cur_chan>>
          \/ mode \in Sending /\ out = <<"PART", joined>> /\ cur_chan = Nothing
    /\ \A c \in Channels : mode \in Sending /\ out = <<"JOIN", c>> => c = cur_chan
    /\ \A c \in Channels : mode \in Sending /\ out = <<"PART", c>> => cur_chan = Nothing

IrcInv ==
    /\ SessionInv /\ ReaderTypeOK /\ ProgramTypeOK
    /\ OutIsOneLine /\ PongKnown /\ PingRemembered /\ ChannelKnown

LEMMA InitInv ==
    ASSUME Init PROVE IrcInv
  <1>1. SessionInv
    BY SessionInitInv DEF Init
  <1>2. ReaderTypeOK /\ ProgramTypeOK
    <2>1. rxline \in Seq(STRING) /\ Len(rxline) <= RxLine - 1 /\ input_len \in 0 .. MaxInput
      BY IrcAssumption DEF Init
    <2> QED
      BY <2>1 DEF Init, ReaderTypeOK, ProgramTypeOK, Modes
  <1>3. ~pong_pending /\ ~welcomed /\ asked = Nothing /\ joined = Nothing /\ mode = "register" /\ out = <<>>
    BY DEF Init
  <1>4. mode \notin {"drain", "wait"} /\ mode \notin Sending /\ joined \in {Nothing, Unknown}
    BY <1>3 DEF Sending
  <1> QED
    BY <1>1, <1>2, <1>3, <1>4, Zenon DEF IrcInv, OutIsOneLine, PongKnown, PingRemembered, ChannelKnown

(* Steps that begin or end no send and read nothing. *)
LEMMA IdleKeeps ==
    ASSUME IrcInv, SessionInv', UNCHANGED <<reader, sender, cur_chan>>, input_len' \in 0 .. MaxInput,
           \/ mode' = mode
           \/ mode \notin Sending /\ mode' \in Modes \ Sending
           \/ mode \in Sending /\ mode' \in Sending
    PROVE  IrcInv'
  <1>1. ReaderTypeOK' /\ ProgramTypeOK'
    BY DEF IrcInv, ReaderTypeOK, ProgramTypeOK, reader, sender, Sending, Modes
  <1>2. /\ UNCHANGED <<pong_pending, pong_arg, join_pending, asked, welcomed, out, joined, cur_chan>>
        /\ mode' \in Sending <=> mode \in Sending
    BY DEF reader, sender
  <1>3. OutIsOneLine' /\ PongKnown'
    BY <1>2 DEF IrcInv, OutIsOneLine, PongKnown, Lines, Sending
  <1>4. PingRemembered'
    BY <1>2 DEF IrcInv, PingRemembered, Sending
  <1>5. ChannelKnown'
    BY <1>2 DEF IrcInv, ChannelKnown
  <1> QED
    BY <1>1, <1>3, <1>4, <1>5 DEF IrcInv
-----------------------------------------------------------------------------
(* o_send() *)

LEMMA LineForms ==
    /\ <<"NICK">> \in Lines /\ <<"QUIT">> \in Lines /\ <<"OTHER">> \in Lines /\ <<"RAW">> \in Lines
    /\ \A a \in KeptArgs : <<"PONG", a>> \in Lines
    /\ \A c \in Channels : /\ <<"JOIN", c>> \in Lines /\ <<"PART", c>> \in Lines
                           /\ <<"PRIVMSG", c>> \in Lines
  BY DEF Lines, KeptArgs

Plain(line) ==
    /\ line \in Lines
    /\ \A c : line # <<"JOIN", c>> /\ line # <<"PART", c>>

LEMMA PlainLines ==
    /\ Plain(<<"NICK">>) /\ Plain(<<"QUIT">>) /\ Plain(<<"OTHER">>) /\ Plain(<<"RAW">>)
    /\ \A a \in KeptArgs : Plain(<<"PONG", a>>)
    /\ \A c \in Channels : Plain(<<"PRIVMSG", c>>)
  BY LineForms DEF Plain

(* What a send keeps, before the channel is looked at. *)
LEMMA SendKeeps ==
    ASSUME IrcInv, NEW line, NEW r, mode \notin Sending, o_send(line, r), line \in Lines,
           r \in {"key", "poll", "flush_join", "end"}, input_len' \in 0 .. MaxInput,
           cur_chan' \in Channels \cup {Nothing}
    PROVE  /\ SessionInv' /\ ProgramTypeOK' /\ OutIsOneLine'
           /\ mode' = "drain" /\ mode' \in Sending /\ out' = line /\ joined' = joined
  <1>1. /\ send_begin /\ mode' = "drain" /\ mode' \in Sending /\ out' = line /\ ret' = r
        /\ joined' = joined
    BY DEF o_send, send_begin, Sending
  <1>2. SessionInv'
    BY <1>1, SendBeginKeeps DEF IrcInv
  <1>3. ProgramTypeOK'
    BY <1>1 DEF ProgramTypeOK, Modes
  <1>4. OutIsOneLine'
    BY <1>1 DEF OutIsOneLine, Lines
  <1> QED
    BY <1>1, <1>2, <1>3, <1>4

LEMMA PlainSendKeeps ==
    ASSUME IrcInv, NEW line, NEW r, mode \notin Sending, o_send(line, r), Plain(line),
           r \in {"key", "poll", "flush_join", "end"}, input_len' \in 0 .. MaxInput,
           UNCHANGED <<reader, cur_chan>>
    PROVE  IrcInv'
  <1>1. cur_chan' \in Channels \cup {Nothing} /\ line \in Lines
    BY DEF IrcInv, ProgramTypeOK, Plain
  <1>2. /\ SessionInv' /\ ProgramTypeOK' /\ OutIsOneLine'
        /\ mode' = "drain" /\ mode' \in Sending /\ out' = line /\ joined' = joined
    BY <1>1, SendKeeps
  <1>3. ReaderTypeOK' /\ PongKnown'
    BY DEF IrcInv, ReaderTypeOK, PongKnown, reader
  <1>4. UNCHANGED <<pong_pending, pong_arg, join_pending, asked, welcomed, joined, cur_chan>>
    BY <1>2 DEF reader
  <1>5. PingRemembered'
    BY <1>2, <1>4 DEF IrcInv, PingRemembered, Sending
  <1>6. ChannelKnown'
    BY <1>2, <1>4 DEF IrcInv, ChannelKnown, Plain
  <1> QED
    BY <1>2, <1>3, <1>5, <1>6 DEF IrcInv

LEMMA FlushPongKeeps ==
    ASSUME IrcInv, flush_pong PROVE IrcInv'
  <1>1. /\ mode \notin Sending /\ o_send(<<"PONG", pong_arg>>, "flush_join") /\ pong_arg \in KeptArgs
        /\ asked # Nothing => pong_arg = Kept[asked]
        /\ pong_pending' = FALSE /\ pong_pending
        /\ UNCHANGED <<rxline, pong_arg, join_pending, asked, welcomed, input_len, cur_chan>>
    BY DEF flush_pong, IrcInv, PongKnown, Sending
  <1>2. cur_chan' \in Channels \cup {Nothing} /\ input_len' \in 0 .. MaxInput
    BY <1>1 DEF IrcInv, ProgramTypeOK
  <1> DEFINE line == <<"PONG", pong_arg>>
  <1>3. Plain(line) /\ line \in Lines
    BY <1>1, PlainLines DEF Plain
  <1>4. /\ SessionInv' /\ ProgramTypeOK' /\ OutIsOneLine'
        /\ mode' = "drain" /\ mode' \in Sending /\ out' = line /\ joined' = joined
    BY <1>1, <1>2, <1>3, SendKeeps
  <1>5. ReaderTypeOK' /\ PongKnown'
    BY <1>1 DEF IrcInv, ReaderTypeOK, PongKnown
  <1>6. PingRemembered'
    <2>1. PingRemembered
      BY DEF IrcInv
    <2> QED
      BY <1>1, <1>4, <2>1, Zenon DEF PingRemembered
  <1>7. ChannelKnown'
    <2>1. ChannelKnown /\ \A c : line # <<"JOIN", c>> /\ line # <<"PART", c>>
      BY <1>3 DEF IrcInv, Plain
    <2> HIDE DEF line
    <2> QED
      BY <1>1, <1>4, <2>1, Zenon DEF ChannelKnown
  <1> QED
    BY <1>4, <1>5, <1>6, <1>7 DEF IrcInv

(* The two sends that are about a channel. *)
LEMMA JoinSendKeeps ==
    ASSUME IrcInv, NEW c \in Channels, NEW r, mode \notin Sending, o_send(<<"JOIN", c>>, r),
           r \in {"key", "poll"}, input_len' \in 0 .. MaxInput, cur_chan' = c,
           UNCHANGED <<rxline, pong_arg, pong_pending, asked, welcomed>>, join_pending' \in BOOLEAN
    PROVE  IrcInv'
  <1> DEFINE line == <<"JOIN", c>>
  <1>1. cur_chan' \in Channels \cup {Nothing} /\ line \in Lines
    BY LineForms
  <1>2. /\ SessionInv' /\ ProgramTypeOK' /\ OutIsOneLine'
        /\ mode' = "drain" /\ mode' \in Sending /\ out' = line /\ joined' = joined
    BY <1>1, SendKeeps
  <1>3. ReaderTypeOK' /\ PongKnown'
    BY DEF IrcInv, ReaderTypeOK, PongKnown
  <1>4. PingRemembered'
    BY <1>2 DEF IrcInv, PingRemembered, Sending
  <1>5. ChannelKnown'
    <2>1. \A d : line = <<"JOIN", d>> => d = c
      OBVIOUS
    <2>2. \A d : line # <<"PART", d>>
      OBVIOUS
    <2>3. ~welcomed => joined \in {Nothing, Unknown}
      BY DEF IrcInv, ChannelKnown
    <2> QED
      BY <1>2, <2>1, <2>2, <2>3, Zenon DEF ChannelKnown
  <1> QED
    BY <1>2, <1>3, <1>4, <1>5 DEF IrcInv

LEMMA PartKeeps ==
    ASSUME IrcInv, cmd_part PROVE IrcInv'
  <1> DEFINE line == <<"PART", cur_chan>>
  <1>1. /\ mode \notin Sending /\ o_send(line, "poll") /\ cur_chan # Nothing /\ cur_chan' = Nothing
        /\ input_len' = 0 /\ UNCHANGED reader
    BY DEF cmd_part, enter, Sending
  <1>2. cur_chan' \in Channels \cup {Nothing} /\ line \in Lines /\ input_len' \in 0 .. MaxInput
    <2>1. cur_chan \in Channels
      BY <1>1 DEF IrcInv, ProgramTypeOK
    <2>2. input_len' \in 0 .. MaxInput
      BY <1>1, IrcAssumption
    <2> QED
      BY <1>1, <2>1, <2>2, LineForms, Zenon
  <1>3. /\ SessionInv' /\ ProgramTypeOK' /\ OutIsOneLine'
        /\ mode' = "drain" /\ mode' \in Sending /\ out' = line /\ joined' = joined
    BY <1>1, <1>2, SendKeeps
  <1>4. ReaderTypeOK' /\ PongKnown'
    BY <1>1 DEF IrcInv, ReaderTypeOK, PongKnown, reader
  <1>5. PingRemembered'
    BY <1>1, <1>3 DEF IrcInv, PingRemembered, Sending, reader
  <1>6. ChannelKnown'
    <2>1. \A d : line # <<"JOIN", d>>
      OBVIOUS
    <2>2. ChannelKnown /\ UNCHANGED <<welcomed, join_pending>>
      BY <1>1 DEF IrcInv, reader
    <2> QED
      BY <1>1, <1>3, <2>1, <2>2, Zenon DEF ChannelKnown
  <1> QED
    BY <1>3, <1>4, <1>5, <1>6 DEF IrcInv

LEMMA FlushNoneKeeps ==
    ASSUME IrcInv, flush_none PROVE IrcInv'
  <1>1. /\ mode \notin {"drain", "wait"} /\ mode' \notin {"drain", "wait"} /\ mode' \in Modes
        /\ join_pending' = (join_pending /\ mode = "flush")
        /\ UNCHANGED <<connection, got, offered, drains, framed, window_open, sender, input_len, cur_chan,
                       rxline, pong_arg, pong_pending, asked, welcomed>>
    BY DEF flush_none, Modes
  <1>2. SessionInv'
    <2>1. silent /\ UNCHANGED <<got, window_open>> /\ drains' \in 0 .. Drains
          /\ framed' \in BOOLEAN /\ SessionInv
      BY <1>1 DEF silent, IrcInv, SessionInv, SessionTypeOK
    <2> QED
      BY <1>1, <2>1, QuietKeeps
  <1>3. ReaderTypeOK' /\ ProgramTypeOK'
    BY <1>1 DEF IrcInv, ReaderTypeOK, ProgramTypeOK, sender
  <1>4. OutIsOneLine' /\ PongKnown' /\ PingRemembered'
    BY <1>1 DEF IrcInv, OutIsOneLine, PongKnown, PingRemembered, sender
  <1>5. ChannelKnown'
    <2>1. /\ ChannelKnown /\ UNCHANGED <<out, joined, cur_chan, welcomed>>
          /\ mode \notin Sending /\ mode' \notin Sending
      BY <1>1 DEF IrcInv, sender, Sending
    <2>2. ~welcomed => joined \in {Nothing, Unknown}
      BY <2>1 DEF ChannelKnown
    <2>3. CASE mode = "flush"
      <3>1. join_pending => join_pending'
        BY <1>1, <2>3, Zenon
      <3>2. welcomed /\ joined # Unknown /\ cur_chan # joined => joined = Nothing /\ join_pending'
        BY <2>1, <3>1, Zenon DEF ChannelKnown
      <3> QED
        BY <2>1, <2>2, <3>2, Zenon DEF ChannelKnown
    <2>4. CASE mode = "flush_join" /\ ~(join_pending /\ cur_chan # Nothing)
      <3>1. welcomed /\ joined # Unknown => cur_chan = joined
        BY <2>1, <2>4 DEF ChannelKnown
      <3> QED
        BY <2>1, <2>2, <3>1, Zenon DEF ChannelKnown
    <2> QED
      BY <2>3, <2>4 DEF flush_none
  <1> QED
    BY <1>2, <1>3, <1>4, <1>5 DEF IrcInv
-----------------------------------------------------------------------------
(* A segment with new text, read in poll_net() or in the middle of o_send() *)
LEMMA DataKeeps ==
    ASSUME IrcInv, SessionInv', NEW s \in segments, new_data(s), show_data(s),
           UNCHANGED <<ret, joined, input_len, cur_chan>>,
           mode' = mode \/ (mode \notin Sending /\ mode' \in Modes \ Sending)
    PROVE  IrcInv'
  <1> DEFINE b == [rxline |-> rxline, pong_arg |-> pong_arg, pong_pending |-> pong_pending,
                   join_pending |-> join_pending, asked |-> asked, welcomed |-> welcomed,
                   out |-> out]
             S == {l \in Readers(out) : Reads(b, l)}
             q == [i \in 1 .. s.len |-> s.pos + i]
             l == FoldLeft(rx_char, b, q)
  <1>1. s.pos \in Nat /\ s.len \in Nat /\ s.pos + s.len <= Len(text) /\ text \in Seq(STRING)
    <2>1. drains' \in 0 .. Drains /\ window_open' \in BOOLEAN /\ SessionTypeOK /\ WithinWindow
      BY DEF IrcInv, SessionInv, SessionTypeOK
    <2>2. s.pos \in Nat /\ s.len \in Nat /\ got' = s.pos + s.len /\ got' <= Len(text)
      BY <2>1, NewDataKeeps
    <2>3. text \in Seq(STRING)
      BY <2>1, SessionAssumption DEF SessionTypeOK
    <2> QED
      BY <2>2, <2>3
  <1>2. b \in S
    <2>1. b \in Readers(out)
      BY DEF Readers, IrcInv, ReaderTypeOK
    <2>2. Reads(b, b)
      <3>1. /\ b.rxline = rxline /\ b.pong_arg = pong_arg /\ b.pong_pending = pong_pending
            /\ b.join_pending = join_pending /\ b.asked = asked /\ b.welcomed = welcomed
        OBVIOUS
      <3>2. Len(rxline) <= RxLine - 1 /\ PongKnown
        BY DEF IrcInv, ReaderTypeOK
      <3> HIDE DEF b
      <3> QED
        BY <3>1, <3>2, Zenon DEF Reads, PongKnown
    <2> QED
      BY <2>1, <2>2
  <1>3. ASSUME NEW x \in S, NEW k \in 1 .. s.len PROVE rx_char(x, s.pos + k) \in S
    <2>1. text[s.pos + k] \in STRING
      <3>1. s.pos + k \in 1 .. Len(text)
        BY <1>1
      <3> QED
        BY <1>1, <3>1
    <2>2. x \in Readers(out) /\ Reads(b, x)
      OBVIOUS
    <2> HIDE DEF b
    <2>3. rx_char(x, s.pos + k) \in Readers(out) /\ Reads(b, rx_char(x, s.pos + k))
      BY <2>1, <2>2, CharReads
    <2> QED
      BY <2>3
  <1>4. l \in S
    <2> HIDE DEF S, b
    <2> QED
      BY <1>1, <1>2, <1>3, RxLoop
  <1>5. /\ rxline' = l.rxline /\ pong_arg' = l.pong_arg /\ pong_pending' = l.pong_pending
        /\ join_pending' = l.join_pending /\ asked' = l.asked /\ welcomed' = l.welcomed
        /\ out' = l.out
    BY Zenon DEF show_data
  <1>6. l \in Readers(out) /\ Reads(b, l)
    BY <1>4
  <1>7. /\ b.pong_arg = pong_arg /\ b.pong_pending = pong_pending
        /\ b.join_pending = join_pending /\ b.asked = asked /\ b.welcomed = welcomed
    OBVIOUS
  <1> HIDE DEF l, b, S
  <1>8. /\ rxline' \in Seq(STRING) /\ pong_arg' \in KeptArgs \cup {Nothing}
        /\ asked' \in Pings \cup {Nothing} /\ pong_pending' \in BOOLEAN
        /\ join_pending' \in BOOLEAN /\ welcomed' \in BOOLEAN /\ out' = out
    BY <1>5, <1>6 DEF Readers
  <1>9. /\ Len(rxline') <= RxLine - 1
        /\ pong_pending' => pong_arg' \in KeptArgs /\ (asked' # Nothing => pong_arg' = Kept[asked'])
        /\ \/ asked' = asked /\ (pong_pending => pong_pending') /\ pong_arg' = pong_arg
           \/ pong_pending' /\ pong_arg' = Kept[asked']
        /\ welcomed => welcomed'
        /\ join_pending => join_pending'
        /\ welcomed' => welcomed \/ join_pending' \/ cur_chan = Nothing
    BY <1>5, <1>6, <1>7, Zenon DEF Reads
  <1>10. ReaderTypeOK' /\ ProgramTypeOK'
    BY <1>8, <1>9 DEF IrcInv, ReaderTypeOK, ProgramTypeOK
  <1>11. mode' \in Sending <=> mode \in Sending
    BY DEF Sending
  <1>12. OutIsOneLine' /\ PongKnown'
    <2>1. OutIsOneLine
      BY DEF IrcInv
    <2>2. Lines' = Lines
      BY DEF Lines
    <2>3. OutIsOneLine'
      BY <1>8, <1>11, <2>1, <2>2, Zenon DEF OutIsOneLine, Sending
    <2> QED
      BY <1>9, <2>3, Zenon DEF PongKnown
  <1>13. PingRemembered'
    <2>1. PingRemembered
      BY DEF IrcInv
    <2> QED
      BY <1>8, <1>9, <1>11, <2>1, Zenon DEF PingRemembered, Sending
  <1>14. ChannelKnown'
    <2>1. ChannelKnown /\ cur_chan' = cur_chan /\ joined' = joined
      BY DEF IrcInv
    <2> QED
      BY <1>8, <1>9, <1>11, <2>1, Zenon DEF ChannelKnown
  <1> QED
    BY <1>10, <1>12, <1>13, <1>14 DEF IrcInv

(* tcp_send() has returned: the server has been told, or we cannot know.    *)
LEMMA TellsChannel ==
    ASSUME IrcInv, mode = "wait", mode' \notin Sending, NEW sent \in BOOLEAN, told(sent),
           UNCHANGED <<join_pending, welcomed, cur_chan>>
    PROVE  ChannelKnown'
  <1>1. ChannelKnown /\ out \in Lines /\ mode \in Sending
    BY DEF IrcInv, OutIsOneLine, Sending
  <1>2. joined' = joined_by_line \/ joined' = Unknown
    BY DEF told
  <1>3. ASSUME NEW c \in Channels, out = <<"JOIN", c>>
        PROVE  joined_by_line = IF welcomed THEN cur_chan ELSE joined
    <2>1. c = cur_chan
      BY <1>1, <1>3 DEF ChannelKnown
    <2>2. out[1] = "JOIN" /\ out[1] # "PART" /\ out[1] # "RAW" /\ out[2] = cur_chan
      BY <1>3, <2>1
    <2> QED
      BY <2>2, Zenon DEF joined_by_line
  <1>4. ASSUME NEW c \in Channels, out = <<"PART", c>>
        PROVE  joined_by_line = Nothing /\ cur_chan = Nothing
    <2>1. cur_chan = Nothing
      BY <1>1, <1>4 DEF ChannelKnown
    <2>2. out[1] = "PART" /\ out[1] # "JOIN" /\ out[1] # "RAW"
      BY <1>4
    <2> QED
      BY <2>1, <2>2, Zenon DEF joined_by_line
  <1>5. ASSUME \A c : out # <<"JOIN", c>> /\ out # <<"PART", c>>
        PROVE  joined_by_line \in {joined, Unknown}
    <2>1. out[1] # "JOIN" /\ out[1] # "PART"
      BY <1>1, <1>5 DEF Lines
    <2> QED
      BY <2>1, Zenon DEF joined_by_line
  <1>6. \/ \E c \in Channels : out = <<"JOIN", c>>
        \/ \E c \in Channels : out = <<"PART", c>>
        \/ \A c : out # <<"JOIN", c>> /\ out # <<"PART", c>>
    BY <1>1 DEF Lines
  <1>7. ASSUME ~welcomed => joined' \in {Nothing, Unknown},
               welcomed /\ joined' # Unknown /\ cur_chan # joined' => joined' = Nothing /\ join_pending
        PROVE  ChannelKnown'
    BY <1>7 DEF ChannelKnown
  <1>8. ~welcomed => joined \in {Nothing, Unknown}
    BY <1>1 DEF ChannelKnown
  <1>9. CASE \E c \in Channels : out = <<"JOIN", c>>
    <2>1. joined_by_line = IF welcomed THEN cur_chan ELSE joined
      BY <1>3, <1>9
    <2> QED
      BY <1>2, <1>7, <1>8, <2>1
  <1>10. CASE \E c \in Channels : out = <<"PART", c>>
    <2>1. joined_by_line = Nothing /\ cur_chan = Nothing
      BY <1>4, <1>10
    <2> QED
      BY <1>2, <1>7, <2>1
  <1>11. CASE \A c : out # <<"JOIN", c>> /\ out # <<"PART", c>>
    <2>1. joined' \in {joined, Unknown}
      BY <1>2, <1>5, <1>11
    <2>2. welcomed /\ joined # Unknown /\ cur_chan # joined => joined = Nothing /\ join_pending
      BY <1>1, <1>11 DEF ChannelKnown
    <2> QED
      BY <1>7, <1>8, <2>1, <2>2
  <1> QED
    BY <1>6, <1>9, <1>10, <1>11

LEMMA SendEnds ==
    ASSUME IrcInv, o_send_end PROVE IrcInv'
  <1>1. /\ send_end(ret) /\ out' = <<>> /\ mode = "wait" /\ mode' = ret
        /\ \E sent \in BOOLEAN : told(sent)
        /\ UNCHANGED <<rxline, pong_arg, pong_pending, join_pending, welcomed,
                       ret, input_len, cur_chan>>
    BY DEF o_send_end, o_sent, send_end, send_ok, send_failed
  <1>2. ret \in {"key", "poll", "flush_join", "end"}
    BY DEF IrcInv, ProgramTypeOK
  <1>3. ret \notin {"drain", "wait"} /\ ret \in Modes /\ mode' \notin Sending
    BY <1>1, <1>2 DEF Modes, Sending
  <1>4. SessionInv'
    BY <1>1, <1>3, SendEndKeeps DEF IrcInv
  <1>5. asked' = IF answered THEN Nothing ELSE asked
    BY <1>1 DEF told
  <1>6. ReaderTypeOK' /\ ProgramTypeOK'
    BY <1>1, <1>3, <1>5 DEF IrcInv, ReaderTypeOK, ProgramTypeOK
  <1>7. OutIsOneLine'
    BY <1>1, <1>3 DEF OutIsOneLine
  <1>8. PongKnown'
    BY <1>1, <1>5 DEF IrcInv, PongKnown
  <1>9. PingRemembered'
    <2>1. PingRemembered /\ PongKnown
      BY DEF IrcInv
    <2> QED
      BY <1>1, <1>5, <2>1, Zenon DEF PingRemembered, PongKnown, answered
  <1>10. ChannelKnown'
    BY <1>1, <1>3, TellsChannel
  <1> QED
    BY <1>4, <1>6, <1>7, <1>8, <1>9, <1>10 DEF IrcInv
-----------------------------------------------------------------------------
(* The steps *)

LEMMA KeyboardKeeps ==
    ASSUME IrcInv, Keyboard PROVE IrcInv'
  <1>1. /\ SessionInv /\ input_len \in 0 .. MaxInput /\ MaxInput \in Nat
        /\ cur_chan \in Channels \cup {Nothing}
    BY IrcAssumption DEF IrcInv, ProgramTypeOK
  <1>2. CASE key_none \/ key_char \/ key_delete \/ cmd_refused
    <2>1. /\ UNCHANGED <<connection, got, offered, drains, framed, window_open, reader, sender, cur_chan>>
          /\ mode = "key" /\ mode' = "poll"
      BY <1>2 DEF key_none, key_char, key_delete, cmd_refused, enter
    <2>2. input_len' \in 0 .. MaxInput
      BY <1>1, <1>2 DEF key_none, key_char, key_delete, cmd_refused, enter
    <2>3. SessionInv'
      <3>1. silent /\ UNCHANGED <<got, window_open>> /\ drains' \in 0 .. Drains
            /\ framed' \in BOOLEAN
        BY <1>1, <2>1 DEF silent, SessionInv, SessionTypeOK
      <3> QED
        BY <1>1, <2>1, <3>1, QuietKeeps
    <2>4. UNCHANGED <<reader, sender, cur_chan>> /\ mode \notin Sending /\ mode' \in Modes \ Sending
      BY <2>1 DEF Sending, Modes
    <2> QED
      BY <2>2, <2>3, <2>4, IdleKeeps
  <1>3. CASE key_quit \/ cmd_quit \/ cmd_other \/ cmd_raw
    <2>1. /\ o_send(<<"QUIT">>, "end") \/ o_send(<<"OTHER">>, "poll") \/ o_send(<<"RAW">>, "poll")
          /\ mode = "key" /\ UNCHANGED <<reader, cur_chan>> /\ input_len' \in {0, input_len}
      BY <1>3 DEF key_quit, cmd_quit, cmd_other, cmd_raw, enter
    <2>2. mode \notin Sending /\ input_len' \in 0 .. MaxInput
      BY <1>1, <2>1 DEF Sending
    <2> QED
      BY <2>1, <2>2, PlainLines, PlainSendKeeps
  <1>4. CASE cmd_say
    <2>1. /\ o_send(<<"PRIVMSG", cur_chan>>, "poll") /\ mode = "key" /\ cur_chan # Nothing
          /\ UNCHANGED <<reader, cur_chan>> /\ input_len' = 0
      BY <1>4 DEF cmd_say, enter
    <2>2. mode \notin Sending /\ input_len' \in 0 .. MaxInput /\ cur_chan \in Channels
      BY <1>1, <2>1 DEF Sending
    <2>3. Plain(<<"PRIVMSG", cur_chan>>)
      BY <2>2, PlainLines
    <2> QED
      BY <2>1, <2>2, <2>3, PlainSendKeeps
  <1>5. ASSUME NEW c \in Channels, cmd_join(c) PROVE IrcInv'
    <2>1. /\ o_send(<<"JOIN", c>>, "poll") /\ mode = "key" /\ cur_chan' = c
          /\ UNCHANGED <<rxline, pong_arg, pong_pending, asked, welcomed, join_pending>>
          /\ input_len' = 0
      BY <1>5 DEF cmd_join, enter, reader
    <2>2. mode \notin Sending /\ input_len' \in 0 .. MaxInput /\ join_pending' \in BOOLEAN
      BY <1>1, <2>1 DEF Sending, IrcInv, ReaderTypeOK
    <2> QED
      BY <2>1, <2>2, JoinSendKeeps
  <1> QED
    BY <1>2, <1>3, <1>4, <1>5, PartKeeps DEF Keyboard

LEMMA NetworkKeeps ==
    ASSUME IrcInv, Network PROVE IrcInv'
  <1>1. /\ SessionInv /\ input_len \in 0 .. MaxInput /\ MaxInput \in Nat
        /\ cur_chan \in Channels \cup {Nothing}
    BY IrcAssumption DEF IrcInv, ProgramTypeOK
  <1>2. CASE register
    <2>1. /\ o_send(<<"NICK">>, "key") /\ UNCHANGED <<reader, cur_chan>> /\ mode \notin Sending
          /\ input_len' \in 0 .. MaxInput
      BY <1>1, <1>2 DEF register, Sending
    <2> QED
      BY <2>1, PlainLines, PlainSendKeeps
  <1>3. CASE net_open
    <2>1. SessionInv'
      BY <1>1, <1>3, PollOpenKeeps DEF net_open
    <2>2. /\ UNCHANGED <<reader, sender, cur_chan>> /\ input_len' \in 0 .. MaxInput
          /\ mode \notin Sending /\ mode' \in Modes \ Sending
      BY <1>1, <1>3 DEF net_open, poll_open, others, Modes, Sending
    <2> QED
      BY <2>1, <2>2, IdleKeeps
  <1>4. CASE net_again \/ net_reset \/ \E s \in segments : net_nodata(s)
    <2>1. SessionInv'
      BY <1>1, <1>4, PollQuietKeeps DEF net_again, net_reset, net_nodata
    <2>2. /\ UNCHANGED <<reader, sender, cur_chan>> /\ input_len' \in 0 .. MaxInput
          /\ mode \notin Sending /\ mode' \in Modes \ Sending
      BY <1>1, <1>4 DEF net_again, net_reset, net_nodata, poll_again, poll_reset, poll_nodata,
                        others, Modes, Sending
    <2> QED
      BY <2>1, <2>2, IdleKeeps
  <1>5. ASSUME NEW s \in segments, net_data(s) PROVE IrcInv'
    <2>1. SessionInv'
      BY <1>1, <1>5, PollDataKeeps DEF net_data
    <2>2. /\ new_data(s) /\ show_data(s) /\ UNCHANGED <<ret, joined, input_len, cur_chan>>
          /\ mode \notin Sending /\ mode' \in Modes \ Sending
      BY <1>5 DEF net_data, poll_data, Modes, Sending
    <2> QED
      BY <2>1, <2>2, DataKeeps
  <1>6. ASSUME NEW s \in segments, drain_data(s), show_data(s),
               UNCHANGED <<ret, joined, input_len, cur_chan>>
        PROVE  IrcInv'
    <2>1. SessionInv'
      BY <1>1, <1>6, DrainDataKeeps
    <2>2. new_data(s) /\ mode' = mode
      BY <1>6 DEF drain_data, drained
    <2> QED
      BY <1>6, <2>1, <2>2, DataKeeps
  <1>7. CASE (drain_nodata \/ send_line) /\ UNCHANGED <<reader, sender, input_len, cur_chan>>
    <2>1. SessionInv'
      BY <1>1, <1>7, DrainNodataKeeps, SendLineKeeps
    <2>2. /\ mode \in Sending /\ mode' \in Sending
          /\ UNCHANGED <<reader, sender, cur_chan>> /\ input_len' \in 0 .. MaxInput
      BY <1>1, <1>7 DEF drain_nodata, drained, send_line, Sending
    <2> QED
      BY <2>1, <2>2, IdleKeeps
  <1>8. CASE flush_join
    <2>1. /\ o_send(<<"JOIN", cur_chan>>, "key") /\ mode \notin Sending /\ cur_chan # Nothing
          /\ join_pending' = FALSE
          /\ UNCHANGED <<rxline, pong_arg, pong_pending, asked, welcomed, input_len, cur_chan>>
      BY <1>8 DEF flush_join, Sending
    <2>2. cur_chan \in Channels /\ cur_chan' = cur_chan /\ input_len' \in 0 .. MaxInput
          /\ join_pending' \in BOOLEAN
      BY <1>1, <2>1
    <2> QED
      BY <2>1, <2>2, JoinSendKeeps
  <1> QED
    BY <1>2, <1>3, <1>4, <1>5, <1>6, <1>7, <1>8, SendEnds, FlushPongKeeps, FlushNoneKeeps
    DEF Network, o_send_drain

LEMMA IrcStep ==
    ASSUME IrcInv, [Next]_vars PROVE IrcInv'
  <1>1. SessionInv /\ input_len \in 0 .. MaxInput
    BY DEF IrcInv, ProgramTypeOK
  <1>2. CASE Server /\ UNCHANGED reader /\ others
    <2>1. SessionInv'
      BY <1>1, <1>2, ServerKeeps
    <2>2. mode' = mode /\ UNCHANGED <<reader, sender, cur_chan>> /\ input_len' \in 0 .. MaxInput
      BY <1>1, <1>2 DEF Server, peer_send, peer_close, program, others
    <2> QED
      BY <2>1, <2>2, IdleKeeps
  <1>3. CASE UNCHANGED vars
    <2>1. UNCHANGED <<connection, program, got, offered, reader, sender, input_len, cur_chan>>
      BY <1>3 DEF vars, session
    <2>2. SessionInv'
      BY <1>1, <2>1 DEF SessionInv, SessionTypeOK, WithinWindow, WindowKnown, connection, program
    <2>3. mode' = mode /\ UNCHANGED <<reader, sender, cur_chan>> /\ input_len' \in 0 .. MaxInput
      BY <1>1, <2>1 DEF program
    <2> QED
      BY <2>2, <2>3, IdleKeeps
  <1>4. CASE Frames
    <2>1. SessionInv' /\ mode' = mode
      BY <1>1, <1>4, FrameKeeps DEF Frames
    <2>2. UNCHANGED <<reader, sender, cur_chan>> /\ input_len' \in 0 .. MaxInput
      BY <1>1, <1>4 DEF Frames, others
    <2> QED
      BY <2>1, <2>2, IdleKeeps
  <1> QED
    BY <1>2, <1>3, <1>4, KeyboardKeeps, NetworkKeeps DEF Next

LEMMA IrcInvariant == Spec => []IrcInv
  <1>1. Init => IrcInv
    BY InitInv
  <1>2. IrcInv /\ [Next]_vars => IrcInv'
    BY IrcStep
  <1> QED
    BY <1>1, <1>2, PTL DEF Spec
-----------------------------------------------------------------------------
(* The theorems *)

(* Every variable of irc.c keeps its type: however long the server's lines  *)
(* are, rxline leaves room for its NUL, and input never outgrows its        *)
(* buffer.                                                                  *)
THEOREM IrcTypes == Spec => []TypeOK
  <1>1. IrcInv => TypeOK
    BY DEF IrcInv, SessionInv, ReaderTypeOK, ProgramTypeOK, Modes, TypeOK, KeptArgs
  <1> QED
    BY <1>1, IrcInvariant, PTL

(* out[] holds one whole line while o_send() is at work and nothing         *)
(* otherwise: what is read in its drain loop never writes to it.            *)
THEOREM IrcOutIsOneLine == Spec => []OutIsOneLine
  <1>1. IrcInv => OutIsOneLine
    BY DEF IrcInv
  <1> QED
    BY <1>1, IrcInvariant, PTL

(* A PING that handle_server_line() reads is answered next, also when it is *)
(* read in the middle of sending the PONG for the one before.               *)
THEOREM IrcPingRemembered == Spec => []PingRemembered
  <1>1. IrcInv => PingRemembered
    BY DEF IrcInv
  <1> QED
    BY <1>1, IrcInvariant, PTL

(* cur_chan is the channel we have asked for last, or are about to ask for: *)
(* no order of /join, /part and the 001 gets the two out of step.  A /raw   *)
(* line, which handle_input_line() does not look into, and a JOIN or PART   *)
(* that tcp_send() could not send leave it open, until the next one is sent.*)
THEOREM IrcChannelJoined == Spec => []ChannelJoined
  <1>1. IrcInv => ChannelJoined
    BY Zenon DEF IrcInv, ChannelKnown, ChannelJoined, Sending
  <1> QED
    BY <1>1, IrcInvariant, PTL
=============================================================================
