----------------------------- MODULE ByteStream -----------------------------
(***************************************************************************)
(* What tcp.c amounts to for an application, without packets, numbers,     *)
(* ports and timeouts: one connection with a stream in each direction.     *)
(* Received bytes come in order and at most once, but bytes may be left    *)
(* out; sent bytes are known to have arrived only when they have.          *)
(***************************************************************************)
EXTENDS Integers

CONSTANT Length    \* bytes the server has to send

VARIABLES
    up,       \* the connection is established
    next,     \* the first byte that may still be received
    given,    \* the bytes that were returned to the application
    arrived,  \* how many of our bytes the server has
    acked     \* how many of them we know it has

stream == <<up, next, given, arrived, acked>>

Init == up = FALSE /\ next = 0 /\ given = {} /\ arrived = 0 /\ acked = 0

Open == ~up /\ up' = TRUE /\ UNCHANGED <<next, given, arrived, acked>>

Arrive == up /\ arrived' > arrived /\ UNCHANGED <<up, next, given, acked>>

Acknowledge == acked' \in acked .. arrived

(* Bytes up to next' are returned; the ones before lo are left out.         *)
Return(lo) == lo \in next .. next' - 1 /\ given' = given \cup (lo .. next' - 1)

(* Bytes are acknowledged to the server that nobody has seen.               *)
Drop == next' > next /\ given' = given

Receive ==
    /\ up /\ Acknowledge
    /\ next' \in next .. Length
    /\ \/ \E lo \in next .. Length : Return(lo)
       \/ Drop
       \/ UNCHANGED <<next, given>>
    /\ UNCHANGED <<up, arrived>>

Next == Open \/ Arrive \/ Receive

Spec == Init /\ [][Next]_stream
=============================================================================
