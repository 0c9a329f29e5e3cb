--------------------------------- MODULE Ip ---------------------------------
(***************************************************************************)
(* ip.c: the Internet checksum and the header of an outgoing packet.  A    *)
(* packet is known by its 16 bit words, as they lie in memory on the Z80   *)
(* (low byte first); of csum() only the sum of the words matters.          *)
(***************************************************************************)
EXTENDS Integers

Word == 65536
Words == 0 .. Word - 1

htons(x) == 256 * (x % 256) + (x \div 256)

(* A plausible bug: the carry of the first fold is lost.                    *)
csum_one_fold(sum) == (Word - 1) - (((sum \div Word) + (sum % Word)) % Word)

(* csum() of words that add up to sum: two folds and the complement.  The   *)
(* uint32_t does not overflow, no packet has 2^16 words.                    *)
csum(sum) ==
    LET once  == (sum \div Word) + (sum % Word)
        twice == once + (once \div Word)
    IN  (Word - 1) - (twice % Word)

(* The ten words of a header, of which the flags are 0; an address is two.  *)
header_sum(h) ==
    69 + htons(h.total_len) + h.id + 64 + 256 * h.proto + h.check
       + h.saddr[1] + h.saddr[2] + h.daddr[1] + h.daddr[2]

(* ip_build_and_send() up to send_packet(): the checksum is taken while its *)
(* own field is 0.                                                          *)
ip_build(id, total_len, proto, saddr, daddr) ==
    LET h == [total_len |-> total_len, id |-> id, proto |-> proto, check |-> 0,
              saddr |-> saddr, daddr |-> daddr]
    IN  [h EXCEPT !.check = csum(header_sum(h))]

(* What a receiver demands of the words it gets, checksum included: their   *)
(* one's complement sum is 0 in the notation with all bits set.             *)
valid(sum) == sum > 0 /\ sum % (Word - 1) = 0
=============================================================================
