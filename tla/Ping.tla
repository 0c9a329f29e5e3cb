-------------------------------- MODULE Ping --------------------------------
(***************************************************************************)
(* ping.c and icmp.c: the program asks for an address, sends an echo       *)
(* request up to Retries times and judges the first packet that comes in.  *)
(* recv_packet() (module SlipRecv) is "recv" until it has seen an END and  *)
(* "frame" from then on, where it knows no timeout.                        *)
(*                                                                         *)
(* The host (external) answers a request only if both checksums are right. *)
(***************************************************************************)
EXTENDS Ip

CONSTANTS
    Addresses,  \* what scanf may leave in ipi[]: pairs of words
    Retries     \* 5

ASSUME PingAssumption == Addresses \subseteq Words \X Words /\ Retries \in Nat \ {0}

saddr == <<192, 514>>   \* 192.0.2.2
IP_ICMP == 1
ICMP_TYPE_ECHO == 8
ICMP_LEN == 16          \* bytes of the message that are sent

VARIABLES
    pc,         \* "ask", "init", "again", "recv", "frame", "alive", "no_response"
    daddr, id,  \* the ip_context_t
    icmp,       \* the message in the packet buffer: its first word and checksum
    header,     \* the IP header in front of it
    retries,
    requests,   \* requests sent
    answered,   \* is there a reply on its way?
    noise       \* has a packet been received that is no reply?

vars == <<pc, daddr, id, icmp, header, retries, requests, answered, noise>>

(* The words of the message; all but two are 0, in what is sent and in the  *)
(* rest of the 64 bytes that the checksum is taken over.                    *)
icmp_sum(m) == m.type + m.check

(* main(): scanf may store fewer than four numbers, the others are whatever *)
(* was on the stack, and each is cut to a byte.                             *)
ask ==
    /\ pc = "ask" /\ pc' = "init"
    /\ daddr' \in Addresses
    /\ UNCHANGED <<id, icmp, header, retries, requests, answered, noise>>

(* slip_init() can fail; nobody looks. *)
slip_init ==
    /\ pc = "init" /\ pc' = "again"
    /\ retries' = Retries
    /\ UNCHANGED <<daddr, id, icmp, header, requests, answered, noise>>

(* A plausible bug: the message is cleared before the label "again".        *)
icmp_echo_uncleared ==
    icmp' = [type |-> ICMP_TYPE_ECHO,
             check |-> csum(icmp_sum([icmp EXCEPT !.type = ICMP_TYPE_ECHO]))]

icmp_echo ==
    icmp' = [type |-> ICMP_TYPE_ECHO,
             check |-> csum(icmp_sum([type |-> ICMP_TYPE_ECHO, check |-> 0]))]

again ==
    /\ pc = "again" /\ pc' = "recv"
    /\ icmp_echo
    /\ header' = ip_build(id, 20 + ICMP_LEN, IP_ICMP, saddr, daddr)
    /\ id' = (id + 1) % Word
    /\ requests' = requests + 1
    /\ UNCHANGED <<daddr, retries, answered, noise>>

(* Plausible bugs: the test comes before the decrement; a timeout only goes *)
(* on waiting.                                                              *)
count_down_late == retries' = retries - 1 /\ pc' = IF retries # 0 THEN "again" ELSE "no_response"
count_down_not == UNCHANGED retries /\ pc' = "recv"

count_down == retries' = retries - 1 /\ pc' = IF retries' # 0 THEN "again" ELSE "no_response"

(* -EAGAIN *)
recv_timeout ==
    /\ pc = "recv"
    /\ count_down
    /\ UNCHANGED <<daddr, id, icmp, header, requests, answered, noise>>

(* An END on the line, of a packet or of the tail of one. *)
recv_border ==
    /\ pc = "recv" /\ pc' = "frame"
    /\ UNCHANGED <<daddr, id, icmp, header, retries, requests, answered, noise>>

(* Too short, with IP options, not ICMP, or not an echo reply. *)
recv_refused ==
    /\ pc = "frame" /\ pc' = "no_response"
    /\ noise' = TRUE
    /\ UNCHANGED <<daddr, id, icmp, header, retries, requests, answered>>

recv_reply ==
    /\ pc = "frame" /\ answered
    /\ pc' = "alive"
    /\ UNCHANGED <<daddr, id, icmp, header, retries, requests, answered, noise>>

host_answers ==
    /\ requests > 0
    /\ valid(header_sum(header)) /\ valid(icmp_sum(icmp))
    /\ answered' = TRUE
    /\ UNCHANGED <<pc, daddr, id, icmp, header, retries, requests, noise>>

(* A reply to an earlier run of the program may still be under way. *)
Init ==
    /\ pc = "ask"
    /\ daddr = <<0, 0>> /\ id = 0
    /\ icmp = [type |-> 0, check |-> 0]
    /\ header = ip_build(0, 0, 0, <<0, 0>>, <<0, 0>>)
    /\ retries = 0 /\ requests = 0
    /\ answered \in BOOLEAN /\ noise = FALSE

Program ==
    \/ ask \/ slip_init \/ again
    \/ recv_timeout \/ recv_border \/ recv_refused \/ recv_reply

Next == Program \/ host_answers

Spec == Init /\ [][Next]_vars

(* Between the answer to its question and the first byte on the line the    *)
(* program does not wait for anybody.                                       *)
FairSpec == Spec /\ WF_vars(slip_init \/ again \/ recv_timeout)
-----------------------------------------------------------------------------
(* Properties *)

Headers ==
    [total_len : {0, 20 + ICMP_LEN}, id : Words, proto : {0, IP_ICMP}, check : Words,
     saddr : {<<0, 0>>, saddr}, daddr : Addresses \cup {<<0, 0>>}]

(* Every variable keeps its type, and the words stay words.                 *)
PingTypeOK ==
    /\ pc \in {"ask", "init", "again", "recv", "frame", "alive", "no_response"}
    /\ daddr \in Addresses \cup {<<0, 0>>} /\ id \in Words
    /\ icmp \in [type : {0, ICMP_TYPE_ECHO}, check : Words]
    /\ header \in Headers
    /\ retries \in 0 .. Retries /\ requests \in 0 .. Retries
    /\ answered \in BOOLEAN /\ noise \in BOOLEAN

(* Every request, the first one and those that repeat it, passes the checks *)
(* of its receiver, whatever the address: the carry of the sum is folded in *)
(* twice, the checksum fields are 0 when the sums are taken, and the ICMP   *)
(* checksum over 64 bytes fits the 16 bytes that are sent.                  *)
RequestsVerify ==
    requests > 0 => valid(header_sum(header)) /\ valid(icmp_sum(icmp))

(* "No response" is said only after all requests were sent in vain, or when *)
(* some other packet came first.                                            *)
AllTried == pc = "no_response" => requests = Retries \/ noise

(* The program ends its retries, unless the line keeps it in a frame.       *)
PingEnds == pc = "init" ~> pc \in {"frame", "alive", "no_response"}
=============================================================================
