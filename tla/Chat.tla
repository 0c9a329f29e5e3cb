-------------------------------- MODULE Chat --------------------------------
(***************************************************************************)
(* tcp_chat.c: the main loop of the chat client after tcp_connect(), that  *)
(* is the keyboard, the line being typed, the poll of the connection and   *)
(* the log of what the server says.  Local lines in the log (the echo of   *)
(* what we type, "*** send failed") are left out: rows holds what          *)
(* logline_flush() writes.                                                 *)
(***************************************************************************)
EXTENDS Session, SequencesExt

CONSTANTS
    Cols,       \* SCREEN_COLS
    MaxInput    \* MAX_INPUT

ASSUME ChatAssumption == Cols \in Nat \ {0} /\ MaxInput \in Nat \ {0}

VARIABLES
    input_len,        \* characters on the input line
    logline,          \* positions in text of the row being assembled
    logline_emitted,
    rows,             \* every row logline_flush() has written
    rcvd              \* the positions in text handed to show_data()

display == <<logline, logline_emitted, rows, rcvd>>
vars == <<session, display, input_len>>

-----------------------------------------------------------------------------
(* The log, as a fold of logline_char() over a segment.                     *)

printable(i) == text[i] \notin {"newline", "control"}

logline_flush(l) ==
    [logline |-> <<>>, emitted |-> TRUE, rows |-> Append(l.rows, l.logline)]

(* A plausible bug: a newline always starts a row.                          *)
newline_always(l) == [logline_flush(l) EXCEPT !.emitted = FALSE]

newline(l) ==
    [(IF l.logline # <<>> \/ ~l.emitted THEN logline_flush(l) ELSE l)
        EXCEPT !.emitted = FALSE]

logline_char(l, i) ==
    LET full == [l EXCEPT !.logline = Append(@, i)]
    IN  CASE text[i] = "newline" -> newline(l)
          [] text[i] = "control" -> l
          [] printable(i) /\ Len(full.logline) = Cols -> logline_flush(full)
          [] OTHER -> full

logged(s) ==
    FoldLeft(logline_char,
             [logline |-> logline, emitted |-> logline_emitted, rows |-> rows],
             [i \in 1 .. s.len |-> s.pos + i])

(* A plausible bug: an unfinished line waits for its end.                   *)
leftover_kept(l) == l

(* A line without its newline is shown at the end of the segment.           *)
leftover(l) == IF l.logline # <<>> THEN logline_flush(l) ELSE l

show_data(s) ==
    LET l == leftover(logged(s))
    IN  /\ logline' = l.logline /\ logline_emitted' = l.emitted /\ rows' = l.rows
        /\ rcvd' = rcvd \o [i \in 1 .. s.len |-> s.pos + i]
-----------------------------------------------------------------------------
(* handle_key(), each followed by poll_net() *)

(* No key, or one that does nothing: a character when the line is full,     *)
(* delete or ENTER on an empty line.                                        *)
key_none ==
    /\ mode = "key" /\ mode' = "poll"
    /\ UNCHANGED <<connection, got, offered, drains, framed, window_open, display, input_len>>

(* A plausible bug: room for one more character is assumed.                 *)
room_for_one_more == input_len <= MaxInput

room == input_len < MaxInput

key_char ==
    /\ mode = "key" /\ mode' = "poll"
    /\ room
    /\ input_len' = input_len + 1
    /\ UNCHANGED <<connection, got, offered, drains, framed, window_open, display>>

key_delete ==
    /\ mode = "key" /\ mode' = "poll"
    /\ input_len > 0
    /\ input_len' = input_len - 1
    /\ UNCHANGED <<connection, got, offered, drains, framed, window_open, display>>

key_quit ==
    /\ mode = "key" /\ mode' = "end"
    /\ UNCHANGED <<connection, got, offered, drains, framed, window_open, display, input_len>>

send_input ==
    /\ mode = "key" /\ input_len > 0
    /\ send_begin
    /\ UNCHANGED <<display, input_len>>

send_input_drain ==
    \/ \E s \in segments : drain_data(s) /\ show_data(s) /\ UNCHANGED input_len
    \/ drain_nodata /\ UNCHANGED <<display, input_len>>
    \/ send_line /\ UNCHANGED <<display, input_len>>

send_input_end ==
    /\ send_end("poll")
    /\ input_len' = 0
    /\ UNCHANGED display
-----------------------------------------------------------------------------
(* poll_net(), which returns to the keyboard *)

net_open  == poll_open /\ UNCHANGED <<display, input_len>>
net_again == poll_again("key") /\ UNCHANGED <<display, input_len>>
net_reset == poll_reset /\ UNCHANGED <<display, input_len>>
net_data(s) == poll_data(s, "key") /\ show_data(s) /\ UNCHANGED input_len
net_nodata(s) == poll_nodata(s, "key") /\ UNCHANGED <<display, input_len>>

Keyboard == key_none \/ key_char \/ key_delete \/ key_quit \/ send_input

Network ==
    \/ net_open \/ net_again \/ net_reset
    \/ \E s \in segments : net_data(s) \/ net_nodata(s)
    \/ send_input_drain \/ send_input_end

Frames == (frame_begins \/ frame_ends) /\ UNCHANGED <<display, input_len>>

Init ==
    /\ SessionInit /\ mode = "key"
    /\ input_len = 0
    /\ logline = <<>> /\ logline_emitted = FALSE /\ rows = <<>> /\ rcvd = <<>>

Next == Keyboard \/ Network \/ Frames \/ (Server /\ UNCHANGED <<display, input_len>>)

Spec == Init /\ [][Next]_vars

(* The program goes on, unless it stays in a frame for ever.  It need not   *)
(* leave one: recv_packet() has no timeout there.                           *)
goes_on == ~framed /\ (Keyboard \/ Network)

(* The server sends what it may send.                                       *)
server_sends == \E n \in 1 .. Len(text) : peer_send(n) /\ UNCHANGED <<display, input_len>>

(* It repeats its FIN with all that is not acknowledged, which is no more   *)
(* than a window and so one segment: a poll receives it in the end, and a   *)
(* frame does not wait for ever.                                            *)
fin_again == \E s \in segments : s.fin /\ s.pos = una /\ (net_data(s) \/ net_nodata(s))
fin_frames == framed /\ peer = "fin" /\ Network

(* What is sent often enough is received, in both directions.               *)
heard == net_open /\ una' = got /\ edge' = got + RxWindow
data_arrives == \E s \in segments : net_data(s)

FairSpec ==
    /\ Spec
    /\ SF_vars(goes_on) /\ WF_vars(server_sends)
    /\ SF_vars(fin_again) /\ WF_vars(fin_frames)
    /\ SF_vars(heard) /\ SF_vars(data_arrives)
-----------------------------------------------------------------------------
(* Properties *)

(* Every variable keeps its type; in particular the input line never        *)
(* outgrows its buffer, the server is never told of bytes it has not sent,  *)
(* and a row is never longer than the screen is wide.                       *)
TypeOK ==
    /\ SessionTypeOK
    /\ mode \in {"key", "poll", "recv", "drain", "wait", "end"}
    /\ input_len \in 0 .. MaxInput
    /\ Len(logline) < Cols /\ logline_emitted \in BOOLEAN
    /\ \A r \in DOMAIN rows : Len(rows[r]) <= Cols

(* window_open is true exactly when the last segment we sent offered a      *)
(* window: the zero window of every ACK and of every send is noticed.       *)
WindowTracked == window_open <=> offered > 0

visible(i) == IF printable(i) THEN <<i>> ELSE <<>>

(* Every printable character given to show_data() is on the screen when it  *)
(* returns, once and in order, however the server's text is cut into        *)
(* segments: nothing waits invisibly for more to come.                      *)
NothingHidden == FlattenSeq(rows) = FlattenSeq([k \in DOMAIN rcvd |-> visible(rcvd[k])])

(* Position k of s ends a line; the line that ends there has nothing to     *)
(* show.                                                                    *)
line_ends(s, k) == text[s[k]] = "newline"

nothing_between(s, j, k) ==
    /\ j > 0 => line_ends(s, j)
    /\ \A m \in j + 1 .. k - 1 : ~printable(s[m]) /\ ~line_ends(s, m)

empty_line(s, k) == line_ends(s, k) /\ \E j \in 0 .. k - 1 : nothing_between(s, j, k)

(* No row holds characters of two lines, and there is one blank row for     *)
(* every empty line and no other: a line that filled the screen width, or   *)
(* that was flushed at the end of a segment, leaves no blank row behind.    *)
LinesKept ==
    /\ \A r \in DOMAIN rows : \A k \in DOMAIN rcvd :
          rows[r] # <<>> /\ line_ends(rcvd, k) => rcvd[k] < Head(rows[r]) \/ rcvd[k] > Last(rows[r])
    /\ Cardinality({r \in DOMAIN rows : rows[r] = <<>>})
         = Cardinality({k \in DOMAIN rcvd : empty_line(rcvd, k)})

(* A FIN that the server has sent is noticed, also when it came with data  *)
(* or while a line was being sent, and the ACK of that data was lost: "A    *)
(* FIN that came with data is picked up when the peer retransmits it."  A   *)
(* server that was never told of our window cannot send one (AllArrives).   *)
HangupNoticed == peer = "fin" ~> mode = "end" \/ peer = "gone"

(* poll_net() ends the session on any FIN, also on one that overtakes lost  *)
(* text which the server would send again.  What is missing from the end of *)
(* the text is then no more than one window: the FIN comes after the last   *)
(* byte, and no window we offer reaches further.                            *)
HangupLosesOneWindow ==
    [][mode = "recv" /\ mode' = "end" /\ peer # "gone" => Len(text) - got <= RxWindow]_vars

(* "We keep a window open while we are idle and re-open it every time the   *)
(* stack has closed it again": so a server that is up gets all its text     *)
(* across, unless recv_packet() stays in a frame.                           *)
AllArrives == <>[]framed \/ <>(got = Len(text) \/ mode = "end" \/ peer # "up")
=============================================================================
