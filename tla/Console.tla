------------------------------ MODULE Console ------------------------------
(***************************************************************************)
(* What the user of the Spectrum sees of the programs: ping (Ping), the    *)
(* questions of the chat and IRC clients (Dialogue) and their screen       *)
(* during a session (Screen).  Only one of them runs at a time, and a      *)
(* session begins with a cleared screen, so the three share no state and   *)
(* the state of the others is idle.                                        *)
(***************************************************************************)
EXTENDS Ping, Dialogue, Screen

VARIABLE running    \* "ping", "dialogue" or "session"

all == <<vars, dialogue, screen, running>>

ConsoleInit ==
    /\ Init /\ DialogueInit /\ ScreenInit
    /\ running \in {"ping", "dialogue", "session"}
    /\ irc = (session = "irc") /\ (running # "ping" => ~answered)

run_ping == running = "ping" /\ Next /\ UNCHANGED <<dialogue, screen, running>>
run_dialogue == running = "dialogue" /\ DialogueNext /\ UNCHANGED <<vars, screen, running>>
run_session == running = "session" /\ ScreenNext /\ UNCHANGED <<vars, dialogue, running>>

ConsoleSpec == ConsoleInit /\ [][run_ping \/ run_dialogue \/ run_session]_all

ConsoleFair == ConsoleSpec /\ WF_all(run_ping /\ (slip_init \/ again \/ recv_timeout))
-----------------------------------------------------------------------------
(* Every variable keeps its type: the words of a packet stay words, a typed *)
(* line, a nick and a channel leave room for their NUL, and the print       *)
(* position stays on the screen or right below it.                          *)
TypeOK == PingTypeOK /\ DialogueTypeOK /\ ScreenTypeOK

=============================================================================
