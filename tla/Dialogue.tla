------------------------------ MODULE Dialogue ------------------------------
(***************************************************************************)
(* The questions that tcp_chat.c and irc.c ask before they connect, up to  *)
(* the result of tcp_connect().  A line is a sequence of characters; the   *)
(* numbers of the machine are scaled down (ByteMod, WordMod and the number *)
(* of Digits) so that short lines overflow them.                           *)
(***************************************************************************)
EXTENDS Integers, Sequences, SequencesExt, FiniteSetsExt

CONSTANTS
    Digits,       \* the digits in ascending order
    Keys,         \* the characters typed, by question
    Parts,        \* bytes of an address (4)
    ByteMod,      \* what a uint8_t holds (2^8)
    WordMod,      \* what an unsigned int holds (2^16)
    LineMax,      \* sizeof(line): MAX_INPUT + 2
    MaxNick,      \* MAX_NICK
    MaxChan,      \* MAX_CHAN
    DefaultPort   \* 6667

Questions == {"ip", "port", "nick", "channel"}

ASSUME DialogueAssumption ==
    /\ Parts \in Nat \ {0} /\ LineMax \in Nat \ {0} /\ MaxNick \in Nat /\ MaxChan \in Nat
    /\ ByteMod \in Nat \ {0} /\ WordMod \in Nat \ {0} /\ WordMod % ByteMod = 0
    /\ DefaultPort \in 1 .. WordMod - 1
    /\ DOMAIN Keys = Questions
    /\ Digits \in Seq(STRING) /\ "." \notin ToSet(Digits)

VARIABLES
    irc,        \* is this irc.c (or tcp_chat.c)?
    asked,      \* the question on the screen, "dial", "connected" or "exit"
    line,       \* what has been typed
    ip, dst_port, mynick, cur_chan

answers == <<ip, dst_port, mynick, cur_chan>>
dialogue == <<irc, asked, line, answers>>

-----------------------------------------------------------------------------
(* Characters and words *)

is_digit(ch) == ch \in ToSet(Digits)
is_blank(ch) == ch = " "
value(ch) == CHOOSE d \in 0 .. Len(Digits) - 1 : Digits[d + 1] = ch
is_channel(s) == s # <<>> /\ Head(s) \in {"#", "&"}

(* How many characters at the start of p pass the test. *)
span(p, Test(_)) == Max({n \in 0 .. Len(p) : \A k \in 1 .. n : Test(p[k])})
after(p, n) == SubSeq(p, n + 1, Len(p))
starts_with(p, Test(_)) == p # <<>> /\ Test(Head(p))

(* One turn of the loop of parse_number(). *)
add_digit(val, ch) == (val * Len(Digits) + value(ch)) % WordMod

parse_number(p) ==
    LET n == span(p, is_digit)
    IN  [val |-> FoldLeft(add_digit, 0, SubSeq(p, 1, n)), p |-> after(p, n)]

(* A plausible bug: any character separates two numbers.                    *)
separated_by_any(p) == p # <<>>

separated(p) == starts_with(p, LAMBDA ch : ch = ".")

(* One turn of the loop of parse_ip(). *)
parse_byte(r, i) ==
    LET n == parse_number(r.p)
    IN  IF ~r.ok \/ ~starts_with(r.p, is_digit)
        THEN [r EXCEPT !.ok = FALSE]
        ELSE [ok |-> i < Parts => separated(n.p),
              p  |-> after(n.p, 1),
              ip |-> [r.ip EXCEPT ![i] = n.val % ByteMod]]

parse_ip(p) ==
    FoldLeft(parse_byte, [ok |-> TRUE, p |-> p, ip |-> ip], [i \in 1 .. Parts |-> i])

next_word(p) ==
    LET q == after(p, span(p, is_blank))
    IN  SubSeq(q, 1, span(q, LAMBDA ch : ~is_blank(ch)))

str_copy(s, max) == SubSeq(s, 1, Min({Len(s), max - 1}))
-----------------------------------------------------------------------------
(* read_line() *)

(* A plausible bug: the place of the terminating NUL is not counted.        *)
room_without_nul == Len(line) < LineMax

room == Len(line) < LineMax - 1

key_char ==
    /\ asked \in Questions
    /\ room
    /\ \E ch \in Keys[asked] : line' = Append(line, ch)
    /\ UNCHANGED <<irc, asked, answers>>

key_delete ==
    /\ asked \in Questions
    /\ line # <<>>
    /\ line' = Front(line)
    /\ UNCHANGED <<irc, asked, answers>>

(* ENTER: the question is answered and the next one asked. *)
answer(question, next) ==
    /\ asked = question /\ asked' = next
    /\ line' = <<>> /\ UNCHANGED irc
-----------------------------------------------------------------------------
(* main() *)

enter_ip ==
    LET r == parse_ip(line)
    IN  /\ answer("ip", IF r.ok THEN "port" ELSE "ip")
        /\ ip' = r.ip
        /\ UNCHANGED <<dst_port, mynick, cur_chan>>

(* A plausible bug: tcp_chat.c takes any line that starts with a digit.     *)
chat_port_typed == IF starts_with(line, is_digit) THEN "dial" ELSE "port"

(* The loop of tcp_chat.c goes on while port is 0. *)
chat_port == IF starts_with(line, is_digit) /\ parse_number(line).val # 0 THEN "dial" ELSE "port"

enter_port_chat ==
    /\ ~irc
    /\ answer("port", chat_port)
    /\ dst_port' = IF starts_with(line, is_digit) THEN parse_number(line).val ELSE 0
    /\ UNCHANGED <<ip, mynick, cur_chan>>

enter_port_irc ==
    LET n == parse_number(line).val
    IN  /\ irc
        /\ answer("port", "nick")
        /\ dst_port' = IF n = 0 THEN DefaultPort ELSE n
        /\ UNCHANGED <<ip, mynick, cur_chan>>

enter_nick ==
    /\ mynick' = str_copy(next_word(line), MaxNick + 1)
    /\ answer("nick", IF mynick' = <<>> THEN "nick" ELSE "channel")
    /\ UNCHANGED <<ip, dst_port, cur_chan>>

enter_channel ==
    LET c == str_copy(next_word(line), MaxChan + 1)
    IN  /\ answer("channel", "dial")
        /\ cur_chan' = IF is_channel(c) THEN c ELSE <<>>
        /\ UNCHANGED <<ip, dst_port, mynick>>

(* slip_init(), whose result nobody looks at, and tcp_connect() (Tcp).      *)
dial(rc) ==
    /\ asked = "dial" /\ asked' = IF rc < 0 THEN "exit" ELSE "connected"
    /\ UNCHANGED <<irc, line, answers>>

DialogueInit ==
    /\ irc \in BOOLEAN
    /\ asked = "ip" /\ line = <<>>
    /\ ip = [i \in 1 .. Parts |-> 0] /\ dst_port = 0
    /\ mynick = <<>> /\ cur_chan = <<>>

DialogueNext ==
    \/ key_char \/ key_delete
    \/ enter_ip \/ enter_port_chat \/ enter_port_irc \/ enter_nick \/ enter_channel
    \/ \E rc \in {-1, 0} : dial(rc)
-----------------------------------------------------------------------------
(* Properties *)

Characters == UNION {Keys[q] : q \in Questions}

DialogueTypeOK ==
    /\ irc \in BOOLEAN
    /\ asked \in Questions \cup {"dial", "connected", "exit"}
    /\ line \in Seq(Characters) /\ Len(line) <= LineMax - 1
    /\ ip \in [1 .. Parts -> 0 .. ByteMod - 1] /\ dst_port \in 0 .. WordMod - 1
    /\ mynick \in Seq(Characters) /\ Len(mynick) <= MaxNick
    /\ cur_chan \in Seq(Characters) /\ Len(cur_chan) <= MaxChan

(* The line read as numbers between dots: number i lies between cut[i - 1]  *)
(* and cut[i], and something other than a digit or nothing follows the last. *)
number_in(cut, i) == SubSeq(line, cut[i - 1] + 1, cut[i] - 1)

reads_as_address(cut) ==
    /\ cut[0] = 0
    /\ \A i \in 1 .. Parts :
          /\ number_in(cut, i) # <<>>
          /\ \A k \in cut[i - 1] + 1 .. cut[i] - 1 : is_digit(line[k])
          /\ i < Parts => cut[i] \in DOMAIN line /\ line[cut[i]] = "."
    /\ cut[Parts] \in DOMAIN line => ~is_digit(line[cut[Parts]])

(* The number that the digits s stand for, however large. *)
meant(s) ==
    LET upto[k \in 0 .. Len(s)] ==
            IF k = 0 THEN 0 ELSE upto[k - 1] * Len(Digits) + value(s[k])
    IN  upto[Len(s)]

(* parse_ip() accepts a line exactly when it starts with numbers between    *)
(* dots, and understands each number as meant, up to what fits a byte: the  *)
(* wrap of the 16 bit value on the way does no further harm.                *)
AddressAsTyped ==
    asked = "ip" =>
        LET cuts == {cut \in [0 .. Parts -> 0 .. Len(line) + 1] : reads_as_address(cut)}
        IN  /\ parse_ip(line).ok <=> cuts # {}
            /\ \A cut \in cuts : \A i \in 1 .. Parts :
                  parse_ip(line).ip[i] = meant(number_in(cut, i)) % ByteMod

(* Whatever was typed, corrected, cut short or wrapped around on the way,   *)
(* the program dials a port other than 0 and registers with one word as its *)
(* nick, and what it joins is a channel and one word.                       *)
ReadyToDial ==
    asked \in {"dial", "connected"} =>
        /\ dst_port # 0
        /\ irc => /\ mynick # <<>> /\ \A k \in DOMAIN mynick : ~is_blank(mynick[k])
                  /\ cur_chan # <<>> => is_channel(cur_chan)
                  /\ \A k \in DOMAIN cur_chan : ~is_blank(cur_chan[k])
=============================================================================
