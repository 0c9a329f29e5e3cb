-------------------------------- MODULE Irc --------------------------------
(***************************************************************************)
(* irc.c: the main loop of the IRC client after tcp_connect(): assembling  *)
(* and acting on the server's lines, the lines the user types, and the one *)
(* buffer out[] through which everything is sent.                          *)
(*                                                                         *)
(* A character of the server's text is a word here: the first one of a     *)
(* line is its command (a PING with its argument, the welcome 001, or      *)
(* anything else), and "newline" ends the line.  A line in out[] is the    *)
(* sequence of the words that o_str() puts there.                          *)
(***************************************************************************)
EXTENDS Session, SequencesExt

CONSTANTS
    Pings,      \* PING commands, by their argument
    Kept,       \* what pong_arg[] has room for of each argument
    Channels,   \* channels the user may /join
    RxLine,     \* RX_LINE
    MaxInput    \* MAX_INPUT

ASSUME IrcAssumption ==
    /\ RxLine \in Nat \ {0} /\ MaxInput \in Nat \ {0}
    /\ "001" \notin Pings /\ DOMAIN Kept = Pings

Nothing == "nothing"   \* no channel, no argument
Unknown == "unknown"   \* a channel the program does not know

VARIABLES
    input_len,
    rxline,         \* the words of the line being assembled
    pong_arg, pong_pending, join_pending,
    cur_chan,
    out,            \* the line being sent
    ret,            \* where o_send() returns to
    asked,          \* the last PING read for which no PONG has been sent
    welcomed,       \* has the 001 been read?
    joined          \* the channel that the last JOIN or PART sent since then left us on

reader  == <<rxline, pong_arg, pong_pending, join_pending, asked, welcomed>>
sender  == <<out, ret, joined>>
vars    == <<session, reader, sender, input_len, cur_chan>>

-----------------------------------------------------------------------------
(* What the server sends, as a fold of rx_char() over a segment *)

(* A plausible bug: the PONG is put into out[] at once, whatever it holds.  *)
ping_now(l, cmd) ==
    [l EXCEPT !.asked = cmd, !.out = @ \o <<"PONG", Kept[cmd]>>]

ping_line(l, cmd) ==
    [l EXCEPT !.asked = cmd, !.pong_arg = Kept[cmd], !.pong_pending = TRUE]

welcome_line(l) ==
    [l EXCEPT !.welcomed = TRUE,
              !.join_pending = @ \/ cur_chan # Nothing]

handle_server_line(l) ==
    LET cmd == IF l.rxline = <<>> THEN Nothing ELSE Head(l.rxline)
        done == [l EXCEPT !.rxline = <<>>]
    IN  CASE cmd \in Pings -> ping_line(done, cmd)
          [] cmd = "001" -> welcome_line(done)
          [] OTHER -> done

(* A plausible bug: no room is left for the terminating NUL.                *)
rxline_room_late(l) == Len(l.rxline) < RxLine

rxline_room(l) == Len(l.rxline) < RxLine - 1

rx_char(l, i) ==
    CASE text[i] = "newline" -> handle_server_line(l)
      [] text[i] # "newline" /\ rxline_room(l) -> [l EXCEPT !.rxline = Append(@, text[i])]
      [] OTHER -> l

show_data(s) ==
    LET l == FoldLeft(rx_char,
                 [rxline |-> rxline, pong_arg |-> pong_arg, pong_pending |-> pong_pending,
                  join_pending |-> join_pending, asked |-> asked, welcomed |-> welcomed,
                  out |-> out],
                 [i \in 1 .. s.len |-> s.pos + i])
    IN  /\ rxline' = l.rxline /\ pong_arg' = l.pong_arg /\ pong_pending' = l.pong_pending
        /\ join_pending' = l.join_pending /\ asked' = l.asked /\ welcomed' = l.welcomed
        /\ out' = l.out
-----------------------------------------------------------------------------
(* o_send() of the line given, to return to r *)

o_send(line, r) == out' = line /\ ret' = r /\ send_begin /\ UNCHANGED joined

o_send_drain ==
    \/ /\ \E s \in segments : drain_data(s) /\ show_data(s)
       /\ UNCHANGED <<ret, joined, input_len, cur_chan>>
    \/ (drain_nodata \/ send_line) /\ UNCHANGED <<reader, sender, input_len, cur_chan>>

(* What the server has been told once tcp_send() has returned: the ghosts.  *)
(* A PONG that could not be sent is not tried again: the user reads "***    *)
(* send failed".                                                            *)
answered == asked # Nothing /\ ~pong_pending /\ out = <<"PONG", Kept[asked]>>

joined_by_line ==
    CASE out[1] = "JOIN" /\ welcomed -> out[2]
      [] out[1] = "PART" -> Nothing
      [] out[1] = "RAW" -> Unknown
      [] OTHER -> joined

told(sent) ==
    /\ asked' = IF answered THEN Nothing ELSE asked
    /\ joined' = IF sent \/ joined_by_line = joined THEN joined_by_line ELSE Unknown

o_sent ==
    /\ \/ send_ok(ret) /\ told(TRUE)
       \/ send_failed(ret) /\ told(FALSE)
    /\ out' = <<>>

(* A plausible bug: the request is forgotten after the PONG has been sent.  *)
o_send_end_forgets ==
    /\ o_sent
    /\ pong_pending' = (pong_pending /\ ret # "flush_join")
    /\ UNCHANGED <<rxline, pong_arg, join_pending, welcomed, ret, input_len, cur_chan>>

o_send_end ==
    /\ o_sent
    /\ UNCHANGED <<rxline, pong_arg, pong_pending, join_pending, welcomed,
                   ret, input_len, cur_chan>>

(* main() sends NICK and USER before its loop. *)
register ==
    /\ mode = "register"
    /\ o_send(<<"NICK">>, "key")
    /\ UNCHANGED <<reader, input_len, cur_chan>>
-----------------------------------------------------------------------------
(* flush_pending() *)

flush_pong ==
    /\ mode = "flush" /\ pong_pending
    /\ pong_pending' = FALSE
    /\ o_send(<<"PONG", pong_arg>>, "flush_join")
    /\ UNCHANGED <<rxline, pong_arg, join_pending, asked, welcomed, input_len, cur_chan>>

flush_join ==
    /\ mode = "flush_join" /\ join_pending /\ cur_chan # Nothing
    /\ join_pending' = FALSE
    /\ o_send(<<"JOIN", cur_chan>>, "key")
    /\ UNCHANGED <<rxline, pong_arg, pong_pending, asked, welcomed, input_len, cur_chan>>

flush_none ==
    /\ \/ mode = "flush" /\ ~pong_pending /\ mode' = "flush_join"
       \/ mode = "flush_join" /\ ~(join_pending /\ cur_chan # Nothing) /\ mode' = "key"
    /\ join_pending' = (join_pending /\ mode = "flush")
    /\ UNCHANGED <<connection, got, offered, drains, framed, window_open, sender, input_len, cur_chan,
                   rxline, pong_arg, pong_pending, asked, welcomed>>
-----------------------------------------------------------------------------
(* handle_key() and handle_input_line() *)

(* No key, or one that does nothing: a character when the line is full,     *)
(* delete or ENTER on an empty line.                                        *)
key_none ==
    /\ mode = "key" /\ mode' = "poll"
    /\ UNCHANGED <<connection, got, offered, drains, framed, window_open, reader, sender, input_len, cur_chan>>

key_char ==
    /\ mode = "key" /\ mode' = "poll"
    /\ input_len < MaxInput
    /\ input_len' = input_len + 1
    /\ UNCHANGED <<connection, got, offered, drains, framed, window_open, reader, sender, cur_chan>>

key_delete ==
    /\ mode = "key" /\ mode' = "poll"
    /\ input_len > 0
    /\ input_len' = input_len - 1
    /\ UNCHANGED <<connection, got, offered, drains, framed, window_open, reader, sender, cur_chan>>

key_quit ==
    /\ mode = "key"
    /\ o_send(<<"QUIT">>, "end")
    /\ UNCHANGED <<reader, input_len, cur_chan>>

enter == mode = "key" /\ input_len > 0 /\ input_len' = 0

(* /help, an unknown command, one that is not used right, or one that needs *)
(* a channel when there is none.                                            *)
cmd_refused ==
    /\ enter
    /\ mode' = "poll"
    /\ UNCHANGED <<connection, got, offered, drains, framed, window_open, reader, sender, cur_chan>>

(* Something said on the channel, /me and /topic. *)
cmd_say ==
    /\ enter /\ cur_chan # Nothing
    /\ o_send(<<"PRIVMSG", cur_chan>>, "poll")
    /\ UNCHANGED <<reader, cur_chan>>

(* /nick, /msg and /names *)
cmd_other ==
    /\ enter
    /\ o_send(<<"OTHER">>, "poll")
    /\ UNCHANGED <<reader, cur_chan>>

(* /raw and /quote: any line, a JOIN or a PART too, which is not looked at. *)
cmd_raw ==
    /\ enter
    /\ o_send(<<"RAW">>, "poll")
    /\ UNCHANGED <<reader, cur_chan>>

cmd_join(c) ==
    /\ enter
    /\ cur_chan' = c
    /\ o_send(<<"JOIN", c>>, "poll")
    /\ UNCHANGED reader

(* A plausible bug: /part leaves the channel and forgets to forget it.      *)
cmd_part_keeps ==
    /\ enter /\ cur_chan # Nothing
    /\ o_send(<<"PART", cur_chan>>, "poll")
    /\ UNCHANGED <<reader, cur_chan>>

cmd_part ==
    /\ enter /\ cur_chan # Nothing
    /\ cur_chan' = Nothing
    /\ o_send(<<"PART", cur_chan>>, "poll")
    /\ UNCHANGED reader

cmd_quit ==
    /\ enter
    /\ o_send(<<"QUIT">>, "end")
    /\ UNCHANGED <<reader, cur_chan>>
-----------------------------------------------------------------------------
others == UNCHANGED <<sender, input_len, cur_chan>>

net_open      == poll_open /\ UNCHANGED reader /\ others
net_again     == poll_again("flush") /\ UNCHANGED reader /\ others
net_reset     == poll_reset /\ UNCHANGED reader /\ others
net_data(s)   == poll_data(s, "flush") /\ show_data(s) /\ UNCHANGED <<ret, joined, input_len, cur_chan>>
net_nodata(s) == poll_nodata(s, "flush") /\ UNCHANGED reader /\ others

Keyboard ==
    \/ key_none \/ key_char \/ key_delete \/ key_quit
    \/ cmd_refused \/ cmd_say \/ cmd_other \/ cmd_raw \/ cmd_part \/ cmd_quit
    \/ \E c \in Channels : cmd_join(c)

Network ==
    \/ register
    \/ net_open \/ net_again \/ net_reset
    \/ \E s \in segments : net_data(s) \/ net_nodata(s)
    \/ o_send_drain \/ o_send_end
    \/ flush_pong \/ flush_join \/ flush_none

Frames == (frame_begins \/ frame_ends) /\ UNCHANGED reader /\ others

Init ==
    /\ SessionInit /\ mode = "register"
    /\ input_len = 0
    /\ rxline = <<>> /\ pong_arg = Nothing /\ pong_pending = FALSE /\ join_pending = FALSE
    /\ cur_chan \in Channels \cup {Nothing}
    /\ out = <<>> /\ ret = "key"
    /\ asked = Nothing /\ welcomed = FALSE /\ joined = Nothing

Next == Keyboard \/ Network \/ Frames \/ (Server /\ UNCHANGED reader /\ others)

Spec == Init /\ [][Next]_vars

(* The program goes on, unless it stays in a frame for ever.  It need not   *)
(* leave one: recv_packet() has no timeout there.                           *)
goes_on == ~framed /\ (Keyboard \/ Network)

FairSpec == Spec /\ SF_vars(goes_on)
-----------------------------------------------------------------------------
(* Properties *)

Lines ==
    {<<"NICK">>, <<"QUIT">>, <<"OTHER">>, <<"RAW">>} \cup {<<"PONG", Kept[a]>> : a \in Pings}
    \cup {<<cmd, c>> : cmd \in {"JOIN", "PART", "PRIVMSG"}, c \in Channels}

(* Every variable keeps its type; in particular the line being assembled    *)
(* leaves room for its NUL, however long the server's lines are.            *)
TypeOK ==
    /\ SessionTypeOK
    /\ mode \in {"register", "key", "poll", "recv", "flush", "flush_join", "drain", "wait", "end"}
    /\ input_len \in 0 .. MaxInput
    /\ Len(rxline) <= RxLine - 1
    /\ pong_arg \in {Kept[a] : a \in Pings} \cup {Nothing}
    /\ pong_pending \in BOOLEAN /\ join_pending \in BOOLEAN
    /\ cur_chan \in Channels \cup {Nothing}
    /\ ret \in {"key", "poll", "flush_join", "end"}

(* What is in out[] is always one whole line, and only while it is being    *)
(* sent: the server's lines that are read in the middle of o_send() never   *)
(* get into it.                                                             *)
OutIsOneLine ==
    IF mode \in {"drain", "wait"} THEN out \in Lines ELSE out = <<>>

(* "That new request has to survive": the last PING read is about to be     *)
(* answered with as much of its argument as there is room for, also when it *)
(* was read while the PONG for another one was being sent.                  *)
PingRemembered ==
    asked # Nothing =>
        \/ pong_pending /\ pong_arg = Kept[asked]
        \/ mode \in {"drain", "wait"} /\ out = <<"PONG", Kept[asked]>>

(* Once the server has let us in, cur_chan is the channel we have asked it  *)
(* to join last, or are about to: lines typed before the 001 was read, or   *)
(* while it was being read, do not get the two out of step.  The client     *)
(* does not know what a /raw line asks for, nor whether a JOIN or a PART    *)
(* that failed has reached the server: then all is open until the next one. *)
ChannelJoined ==
    welcomed /\ joined # Unknown /\ cur_chan # joined =>
        \/ join_pending /\ cur_chan # Nothing
        \/ mode \in {"drain", "wait"} /\ out \in {<<"JOIN", cur_chan>>, <<"PART", joined>>}

(* Every PING that is read is answered, unless a later one takes its place, *)
(* or recv_packet() stays in a frame that never comes.                      *)
PingAnswered ==
    \/ <>[]framed
    \/ \A a \in Pings : asked = a ~> asked # a \/ mode = "end"
=============================================================================
