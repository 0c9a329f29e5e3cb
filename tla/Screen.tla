------------------------------- MODULE Screen -------------------------------
(***************************************************************************)
(* The screen of the chat and IRC clients during a session: a log that is  *)
(* scrolled up from the bottom row, where the line being typed is drawn    *)
(* again after each line of the log.  The two programs draw alike and      *)
(* differ in when they clear the input line they send.                     *)
(*                                                                         *)
(* The console driver (external) is what the comments of draw_input() and  *)
(* log_line() say of it: printing the last column leaves the position on   *)
(* the row below, printing or a newline below the last row scrolls first,  *)
(* and a control code eats what follows as its arguments.                  *)
(***************************************************************************)
EXTENDS Integers, Sequences, SequencesExt, FiniteSetsExt

CONSTANTS
    Cols, Rows,    \* SCREEN_COLS, SCREEN_ROWS
    MaxInput,      \* MAX_INPUT
    Typed,         \* the characters typed
    Texts,         \* what is logged: sequences of characters, "ctl", "tab"
    Prefix         \* what IRC puts in front of an echo: <mynick>

ASSUME ScreenAssumption ==
    /\ Cols \in Nat /\ Cols > 2 /\ Rows \in Nat /\ Rows > 1
    /\ MaxInput \in Nat \ {0}
    /\ Typed \subseteq STRING /\ "ctl" \notin Typed
    /\ Texts \subseteq Seq(STRING) /\ Prefix \in Seq(STRING)

VARIABLES
    console,           \* the rows, the position, arguments still to be eaten
    input, input_len,  \* input up to its NUL, which is behind input_len
    session,           \* "chat" or "irc"
    doing,             \* "keys", "send" or "left"
    sent,              \* what is being sent (history)
    logged             \* the last rows that were logged (history)

screen == <<console, input, input_len, session, doing, sent, logged>>
-----------------------------------------------------------------------------
(* The console driver *)

SPACE == " "
CURSOR == "_"

blanks(n) == [i \in 1 .. n |-> SPACE]

cleared == [rows |-> [r \in 1 .. Rows |-> blanks(Cols)], row |-> 1, col |-> 1, eat |-> 0]

scroll(con) == [con EXCEPT !.rows = Append(Tail(@), blanks(Cols)), !.row = Rows]

at(con, row, col) == [con EXCEPT !.row = row, !.col = col]

newline(con) ==
    IF con.row < Rows THEN at(con, con.row + 1, 1) ELSE at(scroll(con), Rows, 1)

putchar(con, ch) ==
    LET c == IF con.row > Rows THEN scroll(con) ELSE con
        p == [c EXCEPT !.rows[c.row][c.col] = ch]
    IN  CASE con.eat > 0 -> [con EXCEPT !.eat = @ - 1]
          [] con.eat = 0 /\ ch = "ctl" -> [con EXCEPT !.eat = 2]
          [] OTHER -> IF c.col < Cols THEN [p EXCEPT !.col = @ + 1] ELSE at(p, c.row + 1, 1)

puts_raw(con, s) == FoldLeft(putchar, con, s)
-----------------------------------------------------------------------------
(* Drawing *)

INPUT_ROW == Rows
INPUT_VIEW == Cols - 2

(* A plausible bug: the row is not padded.                                  *)
draw_input_short(con, line) ==
    at(puts_raw(at(con, INPUT_ROW, 1), <<">">> \o line \o <<CURSOR>>), INPUT_ROW, 1)

(* The tail of the line, where the cursor is. *)
draw_input(con, line) ==
    LET n == Min({Len(line), INPUT_VIEW})
        tail == SubSeq(line, Len(line) - n + 1, Len(line))
        row == <<">">> \o tail \o <<CURSOR>> \o blanks(INPUT_VIEW - n)
    IN  at(puts_raw(at(con, INPUT_ROW, 1), row), INPUT_ROW, 1)

(* Only what can be printed is, and a tab as a space. *)
emit(t, ch) == IF ch = "ctl" THEN t ELSE Append(t, IF ch = "tab" THEN SPACE ELSE ch)

printable(s) == FoldLeft(emit, <<>>, s)

padding(n) == IF n = 0 THEN Cols ELSE (Cols - (n % Cols)) % Cols

(* log_line(), emit_start() ... emit_end(): what is typed is drawn again.   *)
log_line(con, s, line) ==
    LET text == printable(s)
        up == puts_raw(at(con, INPUT_ROW, 1), text \o blanks(padding(Len(text))))
    IN  draw_input(newline(up), line)
-----------------------------------------------------------------------------
(* What the log should be: the text cut into rows, the last one filled up.  *)
rows_of(s) ==
    LET text == printable(s)
        n == Max({1, (Len(text) + Cols - 1) \div Cols})
        char(k) == IF k <= Len(text) THEN text[k] ELSE SPACE
    IN  [r \in 1 .. n |-> [c \in 1 .. Cols |-> char((r - 1) * Cols + c)]]

note(s) == LET all == logged \o rows_of(s) IN SubSeq(all, Len(all) - Rows + 2, Len(all))
-----------------------------------------------------------------------------
(* Operations *)

typed == SubSeq(input, 1, input_len)

key_typed(ch) ==
    /\ doing = "keys" /\ input_len < MaxInput
    /\ input' = Append(typed, ch) /\ input_len' = input_len + 1
    /\ console' = draw_input(console, input')
    /\ UNCHANGED <<session, doing, sent, logged>>

key_backspace ==
    /\ doing = "keys" /\ input_len > 0
    /\ input_len' = input_len - 1
    /\ console' = draw_input(console, SubSeq(input, 1, input_len'))
    /\ UNCHANGED <<input, session, doing, sent, logged>>

(* A plausible bug: the text is forgotten with the input line.              *)
clear_input_text ==
    /\ input_len' = 0 /\ input' = <<>>
    /\ console' = draw_input(console, <<>>)

(* "The text is still there to echo since only input_len was reset"; the    *)
(* NUL is behind it.                                                        *)
clear_input ==
    /\ input_len' = 0 /\ input' = typed
    /\ console' = draw_input(console, <<>>)

(* ENTER.  chat keeps the line on the screen while it is sent, IRC clears   *)
(* it first.                                                                *)
key_enter ==
    /\ doing = "keys" /\ input_len > 0
    /\ doing' = "send" /\ sent' = typed
    /\ \/ /\ session = "chat"
          /\ input' = typed
          /\ UNCHANGED <<console, input_len>>
       \/ /\ session = "irc"
          /\ clear_input
    /\ UNCHANGED <<session, logged>>

(* A command of IRC that only prints something (show).                      *)
key_enter_local ==
    /\ doing = "keys" /\ input_len > 0 /\ session = "irc"
    /\ clear_input
    /\ UNCHANGED <<session, doing, sent, logged>>

(* Something is said, in the middle of sending, too: both programs drain    *)
(* the connection before they send.                                         *)
show(s) ==
    /\ doing \in {"keys", "send"}
    /\ console' = log_line(console, s, typed)
    /\ logged' = note(s)
    /\ UNCHANGED <<input, input_len, session, doing, sent>>

(* The echo, after the text was sent. *)
echo ==
    LET prefix == IF session = "irc" THEN Prefix ELSE <<>>
    IN  /\ doing = "send" /\ doing' = "keys"
        /\ input_len' = 0
        /\ console' = log_line(console, prefix \o input, <<>>)
        /\ logged' = note(prefix \o sent) /\ sent' = <<>>
        /\ UNCHANGED <<input, session>>

(* Most commands of IRC are not echoed. *)
no_echo ==
    /\ doing = "send" /\ session = "irc"
    /\ doing' = "keys" /\ sent' = <<>>
    /\ UNCHANGED <<console, input, input_len, session, logged>>

(* The end of main(): the prompt of what comes next is not on the log.      *)
leave ==
    /\ doing = "keys" /\ doing' = "left"
    /\ console' = newline(at(console, INPUT_ROW, 1))
    /\ UNCHANGED <<input, input_len, session, sent, logged>>

(* Connected: the screen is cleared and the first line logged. *)
ScreenInit ==
    /\ session \in {"chat", "irc"}
    /\ doing = "keys" /\ input = <<>> /\ input_len = 0 /\ sent = <<>>
    /\ console = log_line(cleared, <<"*">>, <<>>)
    /\ logged = [r \in 1 .. Rows - 1 |-> IF r = Rows - 1 THEN rows_of(<<"*">>)[1] ELSE blanks(Cols)]

ScreenNext ==
    \/ \E ch \in Typed : key_typed(ch)
    \/ \E s \in Texts : show(s)
    \/ key_backspace \/ key_enter \/ key_enter_local \/ echo \/ no_echo \/ leave
-----------------------------------------------------------------------------
(* Properties *)

ScreenTypeOK ==
    /\ console.row \in 1 .. Rows + 1 /\ console.col \in 1 .. Cols /\ console.eat \in 0 .. 2
    /\ Len(console.rows) = Rows
    /\ \A r \in 1 .. Rows : Len(console.rows[r]) = Cols
    /\ input_len \in 0 .. Len(input) /\ Len(input) <= MaxInput
    /\ session \in {"chat", "irc"} /\ doing \in {"keys", "send", "left"}
    /\ Len(logged) = Rows - 1

(* The log above the input line is what was logged, in order: nothing is    *)
(* lost, scrolled twice, left with the remains of an input line or of a     *)
(* control code, and what is echoed is the text that was sent, whatever was *)
(* drawn while it was being sent.                                           *)
LogIntact ==
    doing # "left" => SubSeq(console.rows, 1, Rows - 1) = logged

(* The bottom row always shows the prompt, the end of what is being typed   *)
(* and the cursor, and nothing else.                                        *)
InputShown ==
    doing # "left" =>
        \E n \in 0 .. Min({input_len, Cols - 2}) :
            /\ n < Cols - 2 => n = input_len
            /\ console.rows[Rows] =
                  [c \in 1 .. Cols |-> CASE c = 1 -> ">"
                                         [] c \in 2 .. n + 1 -> input[input_len - n + c - 1]
                                         [] c = n + 2 -> CURSOR
                                         [] OTHER -> SPACE]
=============================================================================
