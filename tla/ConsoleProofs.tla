---------------------------- MODULE ConsoleProofs ---------------------------
(***************************************************************************)
(* Proofs about module Console, for every value of its constants: the      *)
(* checksum and the retries of ping (Ip, Ping), what the questions of the  *)
(* chat and IRC clients make of a typed line (Dialogue), and what their    *)
(* screen shows during a session (Screen).                                 *)
(*                                                                         *)
(* The provers are slow with large literals: only WordFacts looks into     *)
(* Word, every other proof knows no more of it than what WordFacts says.   *)
(***************************************************************************)
EXTENDS Console, DataLemmas

-----------------------------------------------------------------------------
(* Ping *)

LEMMA WordFacts == Word \in Nat /\ Word > 1000
  BY SMT DEF Word

LEMMA Lengths == htons(0) \in Words /\ htons(36) \in Words
  <1>1. 256 * 36 < Word
    BY SMT DEF Word
  <1>2. htons(0) = 0 /\ htons(36) = 256 * 36
    BY SMT DEF htons
  <1> QED
    BY <1>1, <1>2, WordFacts, SMT DEF Words

-----------------------------------------------------------------------------
(* The checksum *)

LEMMA Division ==
    ASSUME NEW W \in Nat, W > 1, NEW s \in Nat
    PROVE  /\ s = W * (s \div W) + (s % W)
           /\ s % W \in 0 .. W - 1
           /\ s \div W \in Nat
  BY SMT

LEMMA Below ==
    ASSUME NEW W \in Nat, W > 1, NEW s \in Nat, s < W
    PROVE  s \div W = 0 /\ s % W = s
  BY SMT

LEMMA Carry ==
    ASSUME NEW W \in Nat, W > 1, NEW s \in Nat, s >= W, s < W + W
    PROVE  s \div W = 1 /\ s % W = s - W
  BY SMT

LEMMA Multiple ==
    ASSUME NEW W \in Nat, W > 1, NEW k \in Nat
    PROVE  (W * k) % W = 0
  BY SMT

(* Two folds are enough: with the checksum in its field the words add up to *)
(* a multiple of 2^16 - 1 that is not 0.                                    *)
LEMMA ChecksumVerifies ==
    ASSUME NEW sum \in Nat, sum \div Word < Word
    PROVE  csum(sum) \in Words /\ valid(sum + csum(sum))
  <1> DEFINE q == sum \div Word
             r == sum % Word
             once == q + r
             twice == once + (once \div Word)
  <1>1. sum = Word * q + r /\ q \in Nat /\ q < Word /\ r \in 0 .. Word - 1
    <2>1. Word > 1 /\ Word \in Nat
      BY WordFacts
    <2>2. sum = Word * (sum \div Word) + (sum % Word)  /\ sum % Word \in 0 .. Word - 1
             /\ sum \div Word \in Nat
      BY <2>1, Division
    <2> QED
      BY <2>2
  <1>2. csum(sum) = (Word - 1) - (twice % Word)
    BY DEF csum
  <1> HIDE DEF q, r
  <1>3. csum(sum) \in Words /\ \E k \in Nat : k > 0 /\ sum + csum(sum) = (Word - 1) * k
    <2>1. CASE once < Word
      <3>1. once \in Nat /\ once \div Word = 0
        BY <1>1, <2>1, WordFacts, Below
      <3>2. twice % Word = once
        BY <2>1, <3>1, WordFacts, Below
      <3>3. csum(sum) \in Words
        BY <1>1, <1>2, <2>1, <3>2, WordFacts DEF Words
      <3>4. sum + csum(sum) = (Word - 1) * (q + 1)
        BY <1>1, <1>2, <3>2, WordFacts
      <3> QED
        BY <1>1, <3>3, <3>4
    <2>2. CASE once >= Word
      <3>1. once \in Nat /\ once + 1 < Word + Word /\ once \div Word = 1
        BY <1>1, <2>2, WordFacts, Carry
      <3>2. twice % Word = once + 1 - Word
        BY <2>2, <3>1, WordFacts, Carry
      <3>3. csum(sum) \in Words
        BY <1>1, <1>2, <2>2, <3>1, <3>2, WordFacts DEF Words
      <3>4. sum + csum(sum) = (Word - 1) * (q + 2)
        BY <1>1, <1>2, <3>2, WordFacts
      <3> QED
        BY <1>1, <3>3, <3>4
    <2> QED
      BY <1>1, <2>1, <2>2, WordFacts
  <1>4. PICK k \in Nat : k > 0 /\ sum + csum(sum) = (Word - 1) * k
    BY <1>3
  <1>5. ((Word - 1) * k) % (Word - 1) = 0 /\ (Word - 1) * k > 0
    BY <1>4, WordFacts, Multiple
  <1> QED
    BY <1>3, <1>4, <1>5 DEF valid

(* The sums of a few words are small enough for that. *)
LEMMA FewWords ==
    ASSUME NEW s \in Nat, s <= 10 * Word
    PROVE  s \div Word < Word
  BY WordFacts, Division
-----------------------------------------------------------------------------
(* What is sent *)

LEMMA HeaderVerifies ==
    ASSUME NEW i \in Words, NEW t \in {0, 20 + ICMP_LEN}, NEW p \in {0, IP_ICMP},
           NEW s \in {<<0, 0>>, saddr}, NEW d \in Addresses \cup {<<0, 0>>}
    PROVE  /\ ip_build(i, t, p, s, d) \in Headers
           /\ valid(header_sum(ip_build(i, t, p, s, d)))
  <1> DEFINE h == [total_len |-> t, id |-> i, proto |-> p, check |-> 0, saddr |-> s, daddr |-> d]
             words(check) == 69 + htons(t) + i + 64 + 256 * p + check + s[1] + s[2] + d[1] + d[2]
             cs == csum(words(0))
  <1>1. htons(t) \in Words /\ p \in 0 .. 1 /\ s[1] \in Words /\ s[2] \in Words
    <2>1. t \in {0, 36}
      BY DEF ICMP_LEN
    <2>2. htons(t) \in Words
      BY <2>1, Lengths, Zenon
    <2>3. p \in 0 .. 1
      BY DEF IP_ICMP
    <2> QED
      BY <2>2, <2>3, WordFacts DEF saddr, Words
  <1>2. d[1] \in Words /\ d[2] \in Words
    BY PingAssumption, WordFacts DEF Words
  <1>3. /\ words(0) \in Nat /\ words(0) <= 10 * Word
        /\ \A check \in Words : words(check) = words(0) + check
    <2>1. PICK a \in Words, s1 \in Words, s2 \in Words, d1 \in Words, d2 \in Words :
             a = htons(t) /\ s1 = s[1] /\ s2 = s[2] /\ d1 = d[1] /\ d2 = d[2]
      BY <1>1, <1>2, Zenon
    <2> DEFINE w(check) == 69 + a + i + 64 + 256 * p + check + s1 + s2 + d1 + d2
    <2>2. /\ w(0) \in Nat /\ w(0) <= 10 * Word
          /\ \A check \in Words : w(check) = w(0) + check
      BY <1>1, WordFacts DEF Words
    <2>3. \A check : words(check) = w(check)
      BY <2>1
    <2> HIDE DEF w, words
    <2> QED
      BY <2>2, <2>3, WordFacts DEF Words
  <1>4. cs \in Words /\ valid(words(0) + cs)
    BY <1>3, FewWords, ChecksumVerifies
  <1>5. header_sum(h) = words(0)
    BY DEF header_sum
  <1>6. ip_build(i, t, p, s, d) = [h EXCEPT !.check = cs]
    BY <1>5, Zenon DEF ip_build
  <1> HIDE DEF cs
  <1>7. header_sum([h EXCEPT !.check = cs]) = words(cs)
    BY DEF header_sum
  <1>8. [h EXCEPT !.check = cs] \in Headers
    BY <1>4 DEF Headers
  <1> HIDE DEF h, words
  <1> QED
    BY <1>3, <1>4, <1>6, <1>7, <1>8

LEMMA MessageVerifies ==
    /\ csum(ICMP_TYPE_ECHO) \in Words
    /\ valid(ICMP_TYPE_ECHO + csum(ICMP_TYPE_ECHO))
  BY WordFacts, FewWords, ChecksumVerifies DEF ICMP_TYPE_ECHO
-----------------------------------------------------------------------------
(* The requests *)

(* Where the program is decides how many requests it has sent.              *)
Counted ==
    /\ pc \in {"ask", "init"} => requests = 0 /\ ~noise
    /\ pc = "again" => retries \in 1 .. Retries /\ requests = Retries - retries
    /\ pc \in {"recv", "frame"} => retries \in 1 .. Retries /\ requests = Retries - retries + 1
    /\ pc = "no_response" /\ ~noise => requests = Retries

PingInv == PingTypeOK /\ Counted /\ RequestsVerify

LEMMA ZeroWord == 0 \in Words
  BY WordFacts DEF Words

LEMMA NextId == ASSUME NEW i \in Words PROVE (i + 1) % Word \in Words
  <1>1. i + 1 \in Nat /\ Word \in Nat /\ Word > 1
    BY WordFacts DEF Words
  <1> QED
    BY <1>1, Division DEF Words

LEMMA InitPingInv == Init => PingInv
  <1> SUFFICES ASSUME Init PROVE PingInv
    OBVIOUS
  <1>1. header \in Headers
    BY ZeroWord, HeaderVerifies DEF Init
  <1>2. Retries \in Nat \ {0}
    BY PingAssumption
  <1>3. PingTypeOK
    <2>1. retries \in 0 .. Retries /\ requests \in 0 .. Retries
      BY <1>2 DEF Init
    <2>2. answered \in BOOLEAN /\ noise \in BOOLEAN
      BY Zenon DEF Init
    <2>3. icmp \in [type : {0, ICMP_TYPE_ECHO}, check : Words]
      BY ZeroWord DEF Init
    <2> QED
      BY <1>1, <2>1, <2>2, <2>3, ZeroWord, Zenon DEF Init, PingTypeOK
  <1> QED
    BY <1>2, <1>3 DEF PingInv, Counted, RequestsVerify, Init

LEMMA NextPingInv == PingInv /\ [Next]_vars => PingInv'
  <1> SUFFICES ASSUME PingInv, [Next]_vars PROVE PingInv'
    OBVIOUS
  <1>0. Retries \in Nat \ {0}
    BY PingAssumption
  <1> USE DEF PingInv
  <1>1. CASE ask
    BY <1>0, <1>1 DEF ask, PingTypeOK, Counted, RequestsVerify
  <1>2. CASE slip_init
    BY <1>0, <1>2 DEF slip_init, PingTypeOK, Counted, RequestsVerify
  <1>3. CASE again
    <2>1. icmp' \in [type : {0, ICMP_TYPE_ECHO}, check : Words] /\ valid(icmp_sum(icmp'))
      <3>1. icmp' = [type |-> ICMP_TYPE_ECHO, check |-> csum(ICMP_TYPE_ECHO)]
        BY <1>3 DEF again, icmp_echo, icmp_sum, ICMP_TYPE_ECHO
      <3>2. icmp_sum(icmp') = ICMP_TYPE_ECHO + csum(ICMP_TYPE_ECHO)
        BY <3>1 DEF icmp_sum
      <3> QED
        BY <3>1, <3>2, MessageVerifies
    <2>2. header' \in Headers /\ valid(header_sum(header'))
      <3>1. id \in Words /\ daddr \in Addresses \cup {<<0, 0>>}
        BY DEF PingTypeOK
      <3> QED
        BY <1>3, <3>1, HeaderVerifies DEF again
    <2>3. id' \in Words
      BY <1>3, NextId DEF again, PingTypeOK
    <2>4. requests' \in 0 .. Retries /\ Counted'
      BY <1>0, <1>3 DEF again, PingTypeOK, Counted
    <2>5. PingTypeOK'
      BY <1>3, <2>1, <2>2, <2>3, <2>4 DEF again, PingTypeOK
    <2> QED
      BY <2>1, <2>2, <2>4, <2>5 DEF RequestsVerify
  <1>4. CASE recv_timeout
    BY <1>0, <1>4 DEF recv_timeout, count_down, PingTypeOK, Counted, RequestsVerify
  <1>5. CASE recv_border
    BY <1>0, <1>5 DEF recv_border, PingTypeOK, Counted, RequestsVerify
  <1>6. CASE recv_refused
    BY <1>0, <1>6 DEF recv_refused, PingTypeOK, Counted, RequestsVerify
  <1>7. CASE recv_reply
    BY <1>0, <1>7 DEF recv_reply, PingTypeOK, Counted, RequestsVerify
  <1>8. CASE host_answers
    BY <1>0, <1>8 DEF host_answers, PingTypeOK, Counted, RequestsVerify
  <1>9. CASE UNCHANGED vars
    BY <1>9 DEF vars, PingTypeOK, Counted, RequestsVerify
  <1> QED
    BY <1>1, <1>2, <1>3, <1>4, <1>5, <1>6, <1>7, <1>8, <1>9 DEF Next, Program

-----------------------------------------------------------------------------
(* The questions of the dialogue: the characters of a typed line *)

LEMMA DialogueNumbers ==
    /\ Parts \in Nat \ {0} /\ LineMax \in Nat \ {0} /\ MaxNick \in Nat /\ MaxChan \in Nat
    /\ ByteMod \in Nat \ {0} /\ WordMod \in Nat \ {0} /\ WordMod % ByteMod = 0
    /\ DefaultPort \in 1 .. WordMod - 1
    /\ Len(Digits) \in Nat /\ DOMAIN Digits = 1 .. Len(Digits) /\ ~is_digit(".")
  BY DialogueAssumption DEF is_digit

LEMMA DigitValue == ASSUME NEW ch, is_digit(ch) PROVE value(ch) \in Nat
  <1>1. \E d \in 0 .. Len(Digits) - 1 : Digits[d + 1] = ch
    <2>1. PICK i \in 1 .. Len(Digits) : Digits[i] = ch
      BY DialogueNumbers DEF is_digit, ToSet
    <2>2. i - 1 \in 0 .. Len(Digits) - 1 /\ (i - 1) + 1 = i
      BY <2>1, DialogueNumbers
    <2> QED
      BY <2>1, <2>2
  <1>2. value(ch) \in 0 .. Len(Digits) - 1
    BY <1>1, Zenon DEF value
  <1> QED
    BY <1>2, DialogueNumbers

(* span(), for each of the three tests. *)
LEMMA DigitSpan ==
    ASSUME NEW T, NEW p \in Seq(T)
    PROVE  LET m == span(p, is_digit)
           IN  /\ m \in 0 .. Len(p) /\ (\A k \in 1 .. m : is_digit(p[k]))
               /\ m < Len(p) => ~is_digit(p[m + 1])
  <1> DEFINE A == {k \in 1 .. Len(p) : is_digit(p[k])}
             m == Max(Starts(Len(p), A))
  <1>1. {i \in 0 .. Len(p) : \A k \in 1 .. i : is_digit(p[k])} = Starts(Len(p), A)
    BY DEF Starts
  <1>2. span(p, is_digit) = m
    BY <1>1, Zenon DEF span
  <1>3. m \in 0 .. Len(p) /\ (\A k \in 1 .. m : k \in A) /\ (m < Len(p) => m + 1 \notin A)
    <2>1. Len(p) \in Nat
      OBVIOUS
    <2>2. m = Max(Starts(Len(p), A))
      OBVIOUS
    <2> HIDE DEF A, m
    <2> QED
      BY <2>1, <2>2, LongestStart
  <1> HIDE DEF m
  <1> QED
    BY <1>2, <1>3

LEMMA BlankSpan ==
    ASSUME NEW T, NEW p \in Seq(T)
    PROVE  span(p, is_blank) \in 0 .. Len(p)
  <1> DEFINE A == {k \in 1 .. Len(p) : is_blank(p[k])}
             m == Max(Starts(Len(p), A))
  <1>1. {i \in 0 .. Len(p) : \A k \in 1 .. i : is_blank(p[k])} = Starts(Len(p), A)
    BY DEF Starts
  <1>2. span(p, is_blank) = m
    BY <1>1, Zenon DEF span
  <1>3. m \in 0 .. Len(p)
    <2>1. Len(p) \in Nat
      OBVIOUS
    <2>2. m = Max(Starts(Len(p), A))
      OBVIOUS
    <2> HIDE DEF A, m
    <2> QED
      BY <2>1, <2>2, LongestStart
  <1> HIDE DEF m
  <1> QED
    BY <1>2, <1>3

LEMMA WordSpan ==
    ASSUME NEW T, NEW p \in Seq(T)
    PROVE  LET m == span(p, LAMBDA ch : ~is_blank(ch))
           IN  m \in 0 .. Len(p) /\ \A k \in 1 .. m : ~is_blank(p[k])
  <1> DEFINE A == {k \in 1 .. Len(p) : ~is_blank(p[k])}
             m == Max(Starts(Len(p), A))
  <1>1. {i \in 0 .. Len(p) : \A k \in 1 .. i : ~is_blank(p[k])} = Starts(Len(p), A)
    BY DEF Starts
  <1>2. span(p, LAMBDA ch : ~is_blank(ch)) = m
    BY <1>1, Zenon DEF span
  <1>3. m \in 0 .. Len(p) /\ \A k \in 1 .. m : k \in A
    <2>1. Len(p) \in Nat
      OBVIOUS
    <2>2. m = Max(Starts(Len(p), A))
      OBVIOUS
    <2> HIDE DEF A, m
    <2> QED
      BY <2>1, <2>2, LongestStart
  <1> HIDE DEF m
  <1> QED
    BY <1>2, <1>3

(* A word of the line, cut to its place. *)
LEMMA WordCopied ==
    ASSUME NEW T, NEW p \in Seq(T), NEW max \in Nat
    PROVE  LET w == str_copy(next_word(p), max + 1)
           IN  w \in Seq(T) /\ Len(w) <= max /\ \A k \in DOMAIN w : ~is_blank(w[k])
  <1> DEFINE q == after(p, span(p, is_blank))
             n == span(q, LAMBDA ch : ~is_blank(ch))
             s == SubSeq(q, 1, n)
             w == str_copy(s, max + 1)
  <1>1. q \in Seq(T)
    BY BlankSpan DEF after
  <1> HIDE DEF q
  <1>2. n \in 0 .. Len(q) /\ \A k \in 1 .. n : ~is_blank(q[k])
    BY <1>1, WordSpan
  <1> HIDE DEF n
  <1>3. s \in Seq(T) /\ Len(s) \in Nat /\ \A k \in 1 .. Len(s) : ~is_blank(s[k])
    BY <1>1, <1>2
  <1> HIDE DEF s
  <1>4. next_word(p) = s
    BY Zenon DEF next_word, s, n, q
  <1> DEFINE l == Min({Len(s), max})
  <1>5. l \in {Len(s), max} /\ \A y \in {Len(s), max} : l <= y
    <2> DEFINE P == {Len(s), max}
    <2>1. \E x \in P : \A y \in P : x <= y
      BY <1>3
    <2> HIDE DEF P
    <2>2. Min(P) \in P /\ \A y \in P : Min(P) <= y
      BY <2>1 DEF Min
    <2> QED
      BY <2>2 DEF P
  <1>6. w = SubSeq(s, 1, l)
    <2>1. (max + 1) - 1 = max
      OBVIOUS
    <2> QED
      BY <2>1, Zenon DEF str_copy
  <1> HIDE DEF l
  <1>7. l \in 0 .. Len(s) /\ l <= max
    BY <1>3, <1>5
  <1>8. w \in Seq(T) /\ Len(w) <= max /\ \A k \in DOMAIN w : ~is_blank(w[k])
    BY <1>3, <1>6, <1>7
  <1> HIDE DEF w
  <1> QED
    BY <1>4, <1>8, Zenon DEF w
(* What the loop of parse_number() computes: h[k] after k digits. *)
DigitRun(h, S, b, q, n) ==
    /\ h \in [0 .. n -> S] /\ h[0] = b /\ FoldLeft(add_digit, b, q) = h[n]
    /\ \A k \in 1 .. n : h[k] = add_digit(h[k - 1], q[k])

LEMMA NumberLoop ==
    ASSUME NEW S, NEW b \in S, NEW n \in Nat, NEW q, DOMAIN q = 1 .. n,
           \A x \in S : \A k \in 1 .. n : add_digit(x, q[k]) \in S
    PROVE  \E h : DigitRun(h, S, b, q, n)
  <1> DEFINE F == [k \in 1 .. n |-> [x \in S |-> add_digit(x, q[k])]]
             Loop(g) == g = [s \in SUBSET (DOMAIN q) |->
                               IF s = {} THEN b ELSE add_digit(g[s \ {Max(s)}], q[Max(s)])]
             g == CHOOSE g : Loop(g)
  <1>1. FoldLeft(add_digit, b, q) = g[DOMAIN q]
    BY Zenon DEF FoldLeft, MapThenFoldSet
  <1>2. F \in [1 .. n -> [S -> S]]
    OBVIOUS
  <1>3. \E f : f \in [SUBSET (1 .. n) -> S] /\ FoldsTo(f, b, F, n)
    <2> HIDE DEF F
    <2> QED
      BY <1>2, FoldExists
  <1>4. \E f : Loop(f)
    <2>1. PICK f : f \in [SUBSET (1 .. n) -> S] /\ FoldsTo(f, b, F, n)
      BY <1>3, Zenon
    <2> DEFINE R(s) == IF s = {} THEN b ELSE add_digit(f[s \ {Max(s)}], q[Max(s)])
    <2>2. ASSUME NEW s \in SUBSET (1 .. n) PROVE f[s] = R(s)
      <3>1. f[s] = IF s = {} THEN b ELSE F[Max(s)][f[s \ {Max(s)}]]
        <4> HIDE DEF F
        <4> QED
          BY <2>1 DEF FoldsTo
      <3>2. CASE s # {}
        <4>1. Max(s) \in 1 .. n
          BY <3>2, MaxIn
        <4>2. f[s \ {Max(s)}] \in S
          <5>1. s \ {Max(s)} \in SUBSET (1 .. n)
            OBVIOUS
          <5> QED
            BY <2>1, <5>1
        <4>3. F[Max(s)][f[s \ {Max(s)}]] = add_digit(f[s \ {Max(s)}], q[Max(s)])
          BY <4>1, <4>2
        <4> HIDE DEF F
        <4> QED
          BY <3>1, <3>2, <4>3, Zenon
      <3>3. CASE s = {}
        BY <3>1, <3>3, Zenon
      <3> QED
        BY <3>2, <3>3
    <2>3. f = [s \in SUBSET (1 .. n) |-> R(s)]
      <3> HIDE DEF R
      <3>1. f = [s \in SUBSET (1 .. n) |-> f[s]]
        BY <2>1
      <3> QED
        BY <2>2, <3>1
    <2>4. Loop(f)
      <3>1. f = [s \in SUBSET (DOMAIN q) |-> R(s)]
        BY <2>3, Zenon
      <3> QED
        BY <3>1, Zenon
    <2> HIDE DEF Loop
    <2> QED
      BY <2>4
  <1>5. Loop(g)
    BY <1>4, Zenon
  <1> HIDE DEF g, F
  <1> DEFINE R(s) == IF s = {} THEN b ELSE add_digit(g[s \ {Max(s)}], q[Max(s)])
             h == [k \in 0 .. n |-> g[1 .. k]]
  <1>6. \A s \in SUBSET (1 .. n) : g[s] = R(s)
    <2>1. g = [s \in SUBSET (1 .. n) |-> R(s)]
      BY <1>5, Zenon
    <2> HIDE DEF R
    <2> QED
      BY <2>1, Zenon
  <1>7. h[0] = b
    <2>1. 1 .. 0 = {} /\ {} \in SUBSET (1 .. n) /\ h[0] = g[1 .. 0]
      OBVIOUS
    <2>2. g[{}] = R({})
      <3> HIDE DEF R
      <3> QED
        BY <1>6, <2>1, Zenon
    <2> QED
      BY <2>1, <2>2, Zenon
  <1>8. ASSUME NEW k \in 1 .. n PROVE h[k] = add_digit(h[k - 1], q[k])
    <2>0. k - 1 \in 0 .. n /\ k \in 0 .. n /\ k \in 1 .. k
      OBVIOUS
    <2>1. 1 .. k \in SUBSET (1 .. n) /\ 1 .. k # {} /\ h[k - 1] = g[1 .. k - 1] /\ h[k] = g[1 .. k]
      <3>1. 1 .. k \in SUBSET (1 .. n) /\ 1 .. k # {}
        BY StartOf
      <3>2. h[k - 1] = g[1 .. k - 1] /\ h[k] = g[1 .. k]
        BY <2>0, Zenon
      <3> QED
        BY <3>1, <3>2, Zenon
    <2>2. Max(1 .. k) = k /\ (1 .. k) \ {k} = 1 .. k - 1
      BY MaxInterval
    <2>3. g[1 .. k] = R(1 .. k)
      <3> HIDE DEF R
      <3> QED
        BY <1>6, <2>1, Zenon
    <2>4. R(1 .. k) = add_digit(g[1 .. k - 1], q[k])
      BY <2>1, <2>2, Zenon
    <2> QED
      BY <2>1, <2>3, <2>4, Zenon
  <1>9. FoldLeft(add_digit, b, q) = h[n]
    <2>1. h[n] = g[1 .. n]
      OBVIOUS
    <2> QED
      BY <1>1, <2>1, Zenon
  <1>10. DOMAIN h = 0 .. n
    OBVIOUS
  <1>11. h \in [0 .. n -> S]
    <2> HIDE DEF h
    <2> DEFINE Good == {k \in 0 .. n : h[k] \in S}
    <2>1. 0 \in Good /\ \A k \in 1 .. n : k - 1 \in Good => k \in Good
      BY <1>7, <1>8
    <2>2. \A k \in 0 .. n : k \in Good
      <3> HIDE DEF Good
      <3> QED
        BY <2>1, UpTo
    <2>3. \A k \in 0 .. n : h[k] \in S
      BY <2>2
    <2>4. h = [k \in 0 .. n |-> h[k]]
      BY DEF h
    <2> QED
      BY <2>3, <2>4
  <1> HIDE DEF h
  <1> QED
    BY <1>7, <1>8, <1>9, <1>11, Zenon DEF DigitRun

(* And that of parse_ip(): h[k] after k numbers. *)
ByteRun(h, S, b, q, n) ==
    /\ h \in [0 .. n -> S] /\ h[0] = b /\ FoldLeft(parse_byte, b, q) = h[n]
    /\ \A k \in 1 .. n : h[k] = parse_byte(h[k - 1], q[k])

LEMMA AddressLoop ==
    ASSUME NEW S, NEW b \in S, NEW n \in Nat, NEW q, DOMAIN q = 1 .. n,
           \A x \in S : \A k \in 1 .. n : parse_byte(x, q[k]) \in S
    PROVE  \E h : ByteRun(h, S, b, q, n)
  <1> DEFINE F == [k \in 1 .. n |-> [x \in S |-> parse_byte(x, q[k])]]
             Loop(g) == g = [s \in SUBSET (DOMAIN q) |->
                               IF s = {} THEN b ELSE parse_byte(g[s \ {Max(s)}], q[Max(s)])]
             g == CHOOSE g : Loop(g)
  <1>1. FoldLeft(parse_byte, b, q) = g[DOMAIN q]
    BY Zenon DEF FoldLeft, MapThenFoldSet
  <1>2. F \in [1 .. n -> [S -> S]]
    OBVIOUS
  <1>3. \E f : f \in [SUBSET (1 .. n) -> S] /\ FoldsTo(f, b, F, n)
    <2> HIDE DEF F
    <2> QED
      BY <1>2, FoldExists
  <1>4. \E f : Loop(f)
    <2>1. PICK f : f \in [SUBSET (1 .. n) -> S] /\ FoldsTo(f, b, F, n)
      BY <1>3, Zenon
    <2> DEFINE R(s) == IF s = {} THEN b ELSE parse_byte(f[s \ {Max(s)}], q[Max(s)])
    <2>2. ASSUME NEW s \in SUBSET (1 .. n) PROVE f[s] = R(s)
      <3>1. f[s] = IF s = {} THEN b ELSE F[Max(s)][f[s \ {Max(s)}]]
        <4> HIDE DEF F
        <4> QED
          BY <2>1 DEF FoldsTo
      <3>2. CASE s # {}
        <4>1. Max(s) \in 1 .. n
          BY <3>2, MaxIn
        <4>2. f[s \ {Max(s)}] \in S
          <5>1. s \ {Max(s)} \in SUBSET (1 .. n)
            OBVIOUS
          <5> QED
            BY <2>1, <5>1
        <4>3. F[Max(s)][f[s \ {Max(s)}]] = parse_byte(f[s \ {Max(s)}], q[Max(s)])
          BY <4>1, <4>2
        <4> HIDE DEF F
        <4> QED
          BY <3>1, <3>2, <4>3, Zenon
      <3>3. CASE s = {}
        BY <3>1, <3>3, Zenon
      <3> QED
        BY <3>2, <3>3
    <2>3. f = [s \in SUBSET (1 .. n) |-> R(s)]
      <3> HIDE DEF R
      <3>1. f = [s \in SUBSET (1 .. n) |-> f[s]]
        BY <2>1
      <3> QED
        BY <2>2, <3>1
    <2>4. Loop(f)
      <3>1. f = [s \in SUBSET (DOMAIN q) |-> R(s)]
        BY <2>3, Zenon
      <3> QED
        BY <3>1, Zenon
    <2> HIDE DEF Loop
    <2> QED
      BY <2>4
  <1>5. Loop(g)
    BY <1>4, Zenon
  <1> HIDE DEF g, F
  <1> DEFINE R(s) == IF s = {} THEN b ELSE parse_byte(g[s \ {Max(s)}], q[Max(s)])
             h == [k \in 0 .. n |-> g[1 .. k]]
  <1>6. \A s \in SUBSET (1 .. n) : g[s] = R(s)
    <2>1. g = [s \in SUBSET (1 .. n) |-> R(s)]
      BY <1>5, Zenon
    <2> HIDE DEF R
    <2> QED
      BY <2>1, Zenon
  <1>7. h[0] = b
    <2>1. 1 .. 0 = {} /\ {} \in SUBSET (1 .. n) /\ h[0] = g[1 .. 0]
      OBVIOUS
    <2>2. g[{}] = R({})
      <3> HIDE DEF R
      <3> QED
        BY <1>6, <2>1, Zenon
    <2> QED
      BY <2>1, <2>2, Zenon
  <1>8. ASSUME NEW k \in 1 .. n PROVE h[k] = parse_byte(h[k - 1], q[k])
    <2>0. k - 1 \in 0 .. n /\ k \in 0 .. n /\ k \in 1 .. k
      OBVIOUS
    <2>1. 1 .. k \in SUBSET (1 .. n) /\ 1 .. k # {} /\ h[k - 1] = g[1 .. k - 1] /\ h[k] = g[1 .. k]
      <3>1. 1 .. k \in SUBSET (1 .. n) /\ 1 .. k # {}
        BY StartOf
      <3>2. h[k - 1] = g[1 .. k - 1] /\ h[k] = g[1 .. k]
        BY <2>0, Zenon
      <3> QED
        BY <3>1, <3>2, Zenon
    <2>2. Max(1 .. k) = k /\ (1 .. k) \ {k} = 1 .. k - 1
      BY MaxInterval
    <2>3. g[1 .. k] = R(1 .. k)
      <3> HIDE DEF R
      <3> QED
        BY <1>6, <2>1, Zenon
    <2>4. R(1 .. k) = parse_byte(g[1 .. k - 1], q[k])
      BY <2>1, <2>2, Zenon
    <2> QED
      BY <2>1, <2>3, <2>4, Zenon
  <1>9. FoldLeft(parse_byte, b, q) = h[n]
    <2>1. h[n] = g[1 .. n]
      OBVIOUS
    <2> QED
      BY <1>1, <2>1, Zenon
  <1>10. DOMAIN h = 0 .. n
    OBVIOUS
  <1>11. h \in [0 .. n -> S]
    <2> HIDE DEF h
    <2> DEFINE Good == {k \in 0 .. n : h[k] \in S}
    <2>1. 0 \in Good /\ \A k \in 1 .. n : k - 1 \in Good => k \in Good
      BY <1>7, <1>8
    <2>2. \A k \in 0 .. n : k \in Good
      <3> HIDE DEF Good
      <3> QED
        BY <2>1, UpTo
    <2>3. \A k \in 0 .. n : h[k] \in S
      BY <2>2
    <2>4. h = [k \in 0 .. n |-> h[k]]
      BY DEF h
    <2> QED
      BY <2>3, <2>4
  <1> HIDE DEF h
  <1> QED
    BY <1>7, <1>8, <1>9, <1>11, Zenon DEF ByteRun

(* meant() is the number of all its digits, one more at each step. *)
LEMMA MeantLoop ==
    ASSUME NEW T, NEW s \in Seq(T), \A k \in 1 .. Len(s) : is_digit(s[k])
    PROVE  \E m \in [0 .. Len(s) -> Nat] :
              /\ m[0] = 0 /\ meant(s) = m[Len(s)]
              /\ \A k \in 1 .. Len(s) : m[k] = m[k - 1] * Len(Digits) + value(s[k])
  <1> DEFINE n == Len(s)
             D == Len(Digits)
             F == [k \in 1 .. n |-> [x \in Nat |-> x * D + value(s[k])]]
             R(f, k) == IF k = 0 THEN 0 ELSE f[k - 1] * D + value(s[k])
             Loop(f) == f = [k \in 0 .. n |-> R(f, k)]
             m == CHOOSE f : Loop(f)
  <1>1. n \in Nat /\ D \in Nat /\ \A k \in 1 .. n : value(s[k]) \in Nat
    BY DialogueNumbers, DigitValue
  <1>2. meant(s) = m[n]
    BY Zenon DEF meant
  <1> HIDE DEF n, D
  <1>3. F \in [1 .. n -> [Nat -> Nat]]
    BY <1>1
  <1>4. \E f : f \in [0 .. n -> Nat] /\ Chain(f, 0, F, n)
    <2> HIDE DEF F
    <2> QED
      BY <1>1, <1>3, ChainExists
  <1>5. \E f : Loop(f)
    <2>1. PICK f : f \in [0 .. n -> Nat] /\ Chain(f, 0, F, n)
      BY <1>4, Zenon
    <2>2. ASSUME NEW k \in 0 .. n PROVE f[k] = R(f, k)
      <3>1. CASE k = 0
        BY <2>1, <3>1 DEF Chain
      <3>2. CASE k # 0
        <4>0. k \in 1 .. n /\ k - 1 \in 0 .. n
          BY <1>1, <3>2
        <4>1. k \in 1 .. n /\ f[k - 1] \in Nat
          BY <2>1, <4>0
        <4>2. f[k] = F[k][f[k - 1]]
          BY <2>1, <4>1, Zenon DEF Chain
        <4>3. F[k][f[k - 1]] = f[k - 1] * D + value(s[k])
          BY <4>1
        <4> HIDE DEF F
        <4> QED
          BY <3>2, <4>2, <4>3, Zenon
      <3> QED
        BY <3>1, <3>2
    <2>3. f = [k \in 0 .. n |-> R(f, k)]
      <3> HIDE DEF R
      <3>1. f = [k \in 0 .. n |-> f[k]]
        BY <2>1
      <3> QED
        BY <2>2, <3>1
    <2> HIDE DEF R
    <2> QED
      BY <2>3, Zenon
  <1>6. Loop(m)
    BY <1>5, Zenon
  <1> HIDE DEF m
  <1>7. \A k \in 0 .. n : m[k] = R(m, k)
    <2> HIDE DEF R
    <2> QED
      BY <1>6, Zenon
  <1>8. m[0] = 0
    BY <1>1, <1>7
  <1>9. ASSUME NEW k \in 1 .. n PROVE m[k] = m[k - 1] * D + value(s[k])
    <2>1. k \in 0 .. n /\ k # 0
      BY <1>1
    <2>2. m[k] = R(m, k)
      BY <1>7, <2>1, Zenon
    <2> QED
      BY <2>1, <2>2, Zenon
  <1>10. m \in [0 .. n -> Nat]
    <2> DEFINE Good == {k \in 0 .. n : m[k] \in Nat}
    <2>1. 0 \in Good
      BY <1>1, <1>8
    <2>2. ASSUME NEW k \in 1 .. n, k - 1 \in Good PROVE k \in Good
      <3>1. m[k - 1] \in Nat /\ value(s[k]) \in Nat
        BY <1>1, <2>2
      <3>2. m[k - 1] * D + value(s[k]) \in Nat
        BY <1>1, <3>1, DigitMore
      <3>3. m[k] \in Nat
        BY <1>9, <3>2
      <3> QED
        BY <1>1, <3>3
    <2>3. \A k \in 0 .. n : k \in Good
      <3> HIDE DEF Good
      <3> QED
        BY <1>1, <2>1, <2>2, UpTo
    <2>4. m = [k \in 0 .. n |-> m[k]]
      <3> HIDE DEF R
      <3> QED
        BY <1>6
    <2> QED
      BY <2>3, <2>4
  <1> QED
    BY <1>2, <1>8, <1>9, <1>10, Zenon DEF n, D

(* parse_number() keeps the last word of it. *)
LEMMA NumberParsed ==
    ASSUME NEW T, NEW s \in Seq(T), \A k \in 1 .. Len(s) : is_digit(s[k])
    PROVE  meant(s) \in Nat /\ FoldLeft(add_digit, 0, s) = meant(s) % WordMod
  <1> DEFINE n == Len(s)
             D == Len(Digits)
             W16 == 0 .. WordMod - 1
  <1>1. n \in Nat /\ D \in Nat /\ DOMAIN s = 1 .. n /\ \A k \in 1 .. n : value(s[k]) \in Nat
    BY DialogueNumbers, DigitValue
  <1>2. WordMod \in Nat \ {0}
    BY DialogueNumbers
  <1>3. PICK m \in [0 .. n -> Nat] :
              /\ m[0] = 0 /\ meant(s) = m[n]
              /\ \A k \in 1 .. n : m[k] = m[k - 1] * D + value(s[k])
    BY MeantLoop
  <1> HIDE DEF n, D
  <1>4. 0 \in W16
    BY <1>2
  <1>5. ASSUME NEW x \in W16, NEW k \in 1 .. n PROVE add_digit(x, s[k]) \in W16
    <2> DEFINE y == x * D + value(s[k])
    <2>1. y \in Nat
      <3>1. x \in Nat /\ value(s[k]) \in Nat
        BY <1>1, <1>2
      <3> QED
        BY <1>1, <3>1, DigitMore
    <2>2. add_digit(x, s[k]) = y % WordMod
      BY Zenon DEF add_digit, D
    <2> HIDE DEF y
    <2> QED
      BY <1>2, <2>1, <2>2, Remainder
  <1>a. PICK h : DigitRun(h, W16, 0, s, n)
    <2>1. \A x \in W16 : \A k \in 1 .. n : add_digit(x, s[k]) \in W16
      BY <1>5, Zenon
    <2> HIDE DEF W16
    <2> QED
      BY <1>1, <1>4, <2>1, NumberLoop
  <1>6. /\ h \in [0 .. n -> W16] /\ h[0] = 0 /\ FoldLeft(add_digit, 0, s) = h[n]
        /\ \A k \in 1 .. n : h[k] = add_digit(h[k - 1], s[k])
    BY <1>a, Zenon DEF DigitRun
  <1> DEFINE Good == {k \in 0 .. n : h[k] = m[k] % WordMod}
  <1>7. 0 \in Good
    <2>1. 0 % WordMod = 0
      BY <1>2, RemainderIs
    <2> QED
      BY <1>1, <1>3, <1>6, <2>1
  <1>8. ASSUME NEW k \in 1 .. n, k - 1 \in Good PROVE k \in Good
    <2>1. k - 1 \in 0 .. n /\ k \in 0 .. n
      BY <1>1
    <2>2. m[k - 1] \in Nat /\ h[k - 1] = m[k - 1] % WordMod /\ value(s[k]) \in Nat
      BY <1>1, <1>3, <1>8, <2>1
    <2> DEFINE x == m[k - 1]
               d == value(s[k])
    <2>3. h[k] = ((x % WordMod) * D + d) % WordMod
      BY <1>6, <2>2, Zenon DEF add_digit, D
    <2>4. m[k] = x * D + d
      BY <1>3, Zenon
    <2>5. x \in Nat /\ d \in Nat
      BY <2>2
    <2> HIDE DEF x, d
    <2>6. ((x % WordMod) * D + d) % WordMod = (x * D + d) % WordMod
      <3>1. \A W \in Nat \ {0}, y \in Nat, b \in Nat, e \in Nat :
                ((y % W) * b + e) % W = (y * b + e) % W
        BY DigitOfWord
      <3>2. \A y \in Nat, b \in Nat, e \in Nat :
                ((y % WordMod) * b + e) % WordMod = (y * b + e) % WordMod
        BY <1>2, <3>1, Zenon
      <3>3. \A b \in Nat, e \in Nat :
                ((x % WordMod) * b + e) % WordMod = (x * b + e) % WordMod
        BY <2>5, <3>2, Zenon
      <3>4. \A e \in Nat : ((x % WordMod) * D + e) % WordMod = (x * D + e) % WordMod
        BY <1>1, <3>3, Zenon
      <3> QED
        BY <2>5, <3>4, Zenon
    <2> QED
      BY <2>1, <2>3, <2>4, <2>6
  <1>9. \A k \in 0 .. n : k \in Good
    <2> HIDE DEF Good
    <2> QED
      BY <1>1, <1>7, <1>8, UpTo
  <1>10. h[n] = m[n] % WordMod /\ m[n] \in Nat
    BY <1>1, <1>3, <1>9
  <1> QED
    BY <1>3, <1>6, <1>10, Zenon
-----------------------------------------------------------------------------
(* An address *)

(* The rest of a line behind its first a characters. *)
LEMMA After ==
    ASSUME NEW T, NEW l \in Seq(T), NEW a \in 0 .. Len(l) + 1
    PROVE  /\ after(l, a) \in Seq(T)
           /\ a <= Len(l) => Len(after(l, a)) = Len(l) - a
           /\ a > Len(l) => after(l, a) = <<>>
           /\ \A k \in 1 .. Len(l) - a : after(l, a)[k] = l[a + k]
  BY DEF after

digits_of(q) == span(q, is_digit)

LEMMA StartsDigit ==
    ASSUME NEW T, NEW q \in Seq(T)
    PROVE  starts_with(q, is_digit) <=> q # <<>> /\ is_digit(q[1])
  <1>1. starts_with(q, is_digit) <=> q # <<>> /\ is_digit(Head(q))
    BY Zenon DEF starts_with
  <1>2. q # <<>> => Head(q) = q[1]
    OBVIOUS
  <1> QED
    BY <1>1, <1>2, Zenon

LEMMA StartsDot ==
    ASSUME NEW T, NEW q \in Seq(T)
    PROVE  separated(q) <=> q # <<>> /\ q[1] = "."
  <1>1. separated(q) <=> q # <<>> /\ Head(q) = "."
    BY Zenon DEF separated, starts_with
  <1>2. q # <<>> => Head(q) = q[1]
    OBVIOUS
  <1> QED
    BY <1>1, <1>2, Zenon

(* The number behind the first a characters, of m digits. *)
ReadAt(l, a, m) ==
    /\ m \in 0 .. Len(l) - a
    /\ \A k \in a + 1 .. a + m : is_digit(l[k])
    /\ a + m < Len(l) => ~is_digit(l[a + m + 1])
    /\ starts_with(after(l, a), is_digit) <=> m > 0
    /\ parse_number(after(l, a)).p = after(l, a + m)
    /\ meant(SubSeq(l, a + 1, a + m)) \in Nat
    /\ parse_number(after(l, a)).val = meant(SubSeq(l, a + 1, a + m)) % WordMod

LEMMA NumberAt ==
    ASSUME NEW T, NEW l \in Seq(T), NEW a \in 0 .. Len(l), NEW m, m = digits_of(after(l, a))
    PROVE  ReadAt(l, a, m)
  <1> DEFINE q == after(l, a)
             s == SubSeq(l, a + 1, a + m)
  <1>1. q \in Seq(T) /\ Len(q) = Len(l) - a /\ (\A k \in 1 .. Len(l) - a : q[k] = l[a + k])
    BY After
  <1>2. /\ m \in 0 .. Len(q) /\ (\A k \in 1 .. m : is_digit(q[k]))
        /\ m < Len(q) => ~is_digit(q[m + 1])
    BY <1>1, DigitSpan, Zenon DEF digits_of
  <1>3. parse_number(q) = [val |-> FoldLeft(add_digit, 0, SubSeq(q, 1, m)), p |-> after(q, m)]
    BY Zenon DEF parse_number, digits_of
  <1>4. q = SubSeq(l, a + 1, Len(l))
    BY DEF after
  <1> HIDE DEF q
  <1>5. m \in 0 .. Len(l) - a
    BY <1>1, <1>2
  <1>s. s \in Seq(T) /\ Len(s) = m /\ \A k \in 1 .. m : s[k] = l[a + k]
    BY <1>5, SubSeqIs
  <1>6. ASSUME NEW k \in a + 1 .. a + m PROVE is_digit(l[k])
    <2>1. k - a \in 1 .. m /\ k - a \in 1 .. Len(l) - a /\ a + (k - a) = k
      BY <1>5
    <2> QED
      BY <1>1, <1>2, <2>1
  <1>7. a + m < Len(l) => ~is_digit(l[a + m + 1])
    <2> HAVE a + m < Len(l)
    <2>1. m < Len(q) /\ m + 1 \in 1 .. Len(l) - a /\ a + (m + 1) = a + m + 1
      BY <1>1, <1>5
    <2> QED
      BY <1>1, <1>2, <2>1
  <1>8. starts_with(q, is_digit) <=> m > 0
    <2>1. starts_with(q, is_digit) <=> q # <<>> /\ is_digit(q[1])
      BY <1>1, StartsDigit, Zenon
    <2>2. CASE m > 0
      <3>1. q # <<>> /\ 1 \in 1 .. m
        BY <1>1, <1>2, <2>2
      <3> QED
        BY <1>2, <2>1, <2>2, <3>1
    <2>3. CASE m = 0
      <3>1. q # <<>> => m < Len(q) /\ m + 1 = 1
        BY <1>1, <2>3
      <3>2. ~starts_with(q, is_digit)
        BY <1>2, <2>1, <3>1, Zenon
      <3> QED
        BY <2>3, <3>2
    <2> QED
      BY <1>5, <2>2, <2>3
  <1>9. after(q, m) = after(l, a + m)
    <2> DEFINE x == after(q, m)
               y == after(l, a + m)
    <2>1. m \in 0 .. Len(q) + 1 /\ a + m \in 0 .. Len(l) + 1 /\ m <= Len(q) /\ a + m <= Len(l)
      BY <1>1, <1>2
    <2>2. x \in Seq(T) /\ Len(x) = Len(q) - m /\ \A k \in 1 .. Len(q) - m : x[k] = q[m + k]
      <3>1. \A b \in 0 .. Len(q) + 1 :
                /\ after(q, b) \in Seq(T) /\ (b <= Len(q) => Len(after(q, b)) = Len(q) - b)
                /\ \A k \in 1 .. Len(q) - b : after(q, b)[k] = q[b + k]
        <4>1. q \in Seq(T)
          BY <1>1
        <4> TAKE b \in 0 .. Len(q) + 1
        <4> QED
          BY <4>1, After
      <3> QED
        BY <2>1, <3>1, Zenon
    <2>3. y \in Seq(T) /\ Len(y) = Len(l) - (a + m) /\ \A k \in 1 .. Len(l) - (a + m) : y[k] = l[a + m + k]
      BY <1>1, <2>1, After
    <2> HIDE DEF x, y
    <2>4. Len(x) = Len(y)
      BY <1>1, <1>5, <2>2, <2>3
    <2>5. ASSUME NEW k \in 1 .. Len(x) PROVE x[k] = y[k]
      <3>1. k \in 1 .. Len(q) - m /\ k \in 1 .. Len(l) - (a + m) /\ m + k \in 1 .. Len(l) - a
        BY <1>1, <1>5, <2>2, <2>5
      <3>2. a + (m + k) = a + m + k
        BY <1>5, <3>1
      <3>3. x[k] = q[m + k]
        BY <2>2, <3>1, Zenon
      <3>4. q[m + k] = l[a + (m + k)]
        BY <1>1, <3>1, Zenon
      <3>5. y[k] = l[a + m + k]
        BY <2>3, <3>1, Zenon
      <3> QED
        BY <3>2, <3>3, <3>4, <3>5, Zenon
    <2>6. x = y
      BY <2>2, <2>3, <2>4, <2>5, SeqEqual
    <2> QED
      BY <2>6 DEF x, y
  <1>10. SubSeq(q, 1, m) = s
    <2> DEFINE x == SubSeq(q, 1, m)
    <2>1. x \in Seq(T) /\ Len(x) = m /\ \A k \in 1 .. m : x[k] = q[k]
      BY <1>1, <1>2
    <2>2. s \in Seq(T) /\ Len(s) = m /\ \A k \in 1 .. m : s[k] = l[a + k]
      BY <1>s
    <2> HIDE DEF x, s
    <2>3. ASSUME NEW k \in 1 .. Len(x) PROVE x[k] = s[k]
      <3>1. k \in 1 .. m /\ k \in 1 .. Len(l) - a
        BY <1>5, <2>1, <2>3
      <3> QED
        BY <1>1, <2>1, <2>2, <3>1
    <2>4. x = s
      BY <2>1, <2>2, <2>3, SeqEqual
    <2> QED
      BY <2>4 DEF x
  <1>11. meant(s) \in Nat /\ FoldLeft(add_digit, 0, s) = meant(s) % WordMod
    <2>1. s \in Seq(T) /\ Len(s) = m /\ \A k \in 1 .. m : s[k] = l[a + k]
      BY <1>s
    <2> HIDE DEF s
    <2>2. ASSUME NEW k \in 1 .. Len(s) PROVE is_digit(s[k])
      <3>1. a + k \in a + 1 .. a + m /\ k \in 1 .. m
        BY <1>5, <2>1, <2>2
      <3> QED
        BY <1>6, <2>1, <3>1, Zenon
    <2> QED
      BY <2>1, <2>2, NumberParsed
  <1>12. parse_number(q).p = after(l, a + m) /\ parse_number(q).val = meant(s) % WordMod
    <2>1. parse_number(q) = [val |-> meant(s) % WordMod, p |-> after(l, a + m)]
      BY <1>3, <1>9, <1>10, <1>11, Zenon
    <2> HIDE DEF s
    <2> QED
      BY <2>1
  <1> QED
    BY <1>5, <1>6, <1>7, <1>8, <1>11, <1>12, Zenon DEF q, ReadAt

(* Whether a dot follows, and what is behind it. *)
LEMMA DotAt ==
    ASSUME NEW T, NEW l \in Seq(T), NEW e \in 0 .. Len(l)
    PROVE  /\ separated(after(l, e)) <=> e < Len(l) /\ l[e + 1] = "."
           /\ after(after(l, e), 1) = after(l, e + 1)
  <1> DEFINE q == after(l, e)
  <1>1. q \in Seq(T) /\ Len(q) = Len(l) - e /\ (\A k \in 1 .. Len(l) - e : q[k] = l[e + k])
    BY After
  <1> HIDE DEF q
  <1>2. separated(q) <=> q # <<>> /\ q[1] = "."
    BY <1>1, StartsDot, Zenon
  <1>3. separated(q) <=> e < Len(l) /\ l[e + 1] = "."
    <2>1. q # <<>> <=> e < Len(l)
      BY <1>1
    <2>2. e < Len(l) => q[1] = l[e + 1]
      BY <1>1
    <2> QED
      BY <1>2, <2>1, <2>2
  <1>4. after(q, 1) = after(l, e + 1)
    <2>1. CASE e = Len(l)
      <3>1. q = <<>> /\ e + 1 \in 0 .. Len(l) + 1 /\ e + 1 > Len(l)
        BY <1>1, <2>1
      <3>2. after(l, e + 1) = <<>>
        BY <3>1, After
      <3>3. 1 \in 0 .. Len(q) + 1 /\ 1 > Len(q)
        BY <3>1
      <3>4. after(q, 1) = <<>>
        BY <1>1, <3>3, After
      <3> QED
        BY <3>2, <3>4
    <2>2. CASE e < Len(l)
      <3> DEFINE x == after(q, 1)
                 y == after(l, e + 1)
      <3>1. 1 \in 0 .. Len(q) + 1 /\ 1 <= Len(q) /\ e + 1 \in 0 .. Len(l) + 1 /\ e + 1 <= Len(l)
        BY <1>1, <2>2
      <3>2. x \in Seq(T) /\ Len(x) = Len(q) - 1 /\ \A k \in 1 .. Len(q) - 1 : x[k] = q[1 + k]
        <4>1. q \in Seq(T) /\ 1 \in 0 .. Len(q) + 1 /\ 1 <= Len(q)
          BY <1>1, <3>1
        <4> QED
          BY <4>1, After
      <3>3. y \in Seq(T) /\ Len(y) = Len(l) - (e + 1) /\ \A k \in 1 .. Len(l) - (e + 1) : y[k] = l[e + 1 + k]
        BY <3>1, After
      <3> HIDE DEF x, y
      <3>4. Len(x) = Len(y)
        BY <1>1, <3>2, <3>3
      <3>5. ASSUME NEW k \in 1 .. Len(x) PROVE x[k] = y[k]
        <4>1. k \in 1 .. Len(q) - 1 /\ k \in 1 .. Len(l) - (e + 1) /\ 1 + k \in 1 .. Len(l) - e
          BY <1>1, <3>2, <3>5
        <4>2. e + (1 + k) = e + 1 + k
          BY <4>1
        <4> QED
          BY <1>1, <3>2, <3>3, <4>1, <4>2
      <3>6. x = y
        BY <3>2, <3>3, <3>4, <3>5, SeqEqual
      <3> QED
        BY <3>6 DEF x, y
    <2> QED
      BY <2>1, <2>2
  <1> QED
    BY <1>3, <1>4, Zenon DEF q

(* The states of the loop of parse_ip(). *)
Reads(T) == [ok : BOOLEAN, p : Seq(T), ip : [1 .. Parts -> 0 .. ByteMod - 1]]

(* What one turn makes of the number behind the first a characters. *)
Turned(T, l, a, m, r, i, t) ==
    /\ t \in Reads(T)
    /\ t.ok <=> m > 0 /\ (i < Parts => a + m < Len(l) /\ l[a + m + 1] = ".")
    /\ m > 0 => /\ t.p = after(l, a + m + 1)
                /\ t.ip = [r.ip EXCEPT ![i] = meant(SubSeq(l, a + 1, a + m)) % ByteMod]

LEMMA ByteAt ==
    ASSUME NEW T, NEW l \in Seq(T), NEW a \in 0 .. Len(l), NEW m, m = digits_of(after(l, a)),
           NEW r \in Reads(T), r.ok, r.p = after(l, a), NEW i \in 1 .. Parts,
           NEW t, t = parse_byte(r, i)
    PROVE  Turned(T, l, a, m, r, i, t)
  <1> DEFINE n == parse_number(r.p)
             x == meant(SubSeq(l, a + 1, a + m))
  <1>1. /\ m \in 0 .. Len(l) - a
        /\ starts_with(r.p, is_digit) <=> m > 0
        /\ n.p = after(l, a + m)
        /\ x \in Nat /\ n.val = x % WordMod
    <2>1. ReadAt(l, a, m)
      BY NumberAt
    <2> QED
      BY <2>1, Zenon DEF ReadAt
  <1> HIDE DEF x
  <1>2. n.val % ByteMod = x % ByteMod /\ x % ByteMod \in 0 .. ByteMod - 1
    <2>1. (x % WordMod) % ByteMod = x % ByteMod
      <3>1. \A W \in Nat \ {0}, B \in Nat \ {0}, y \in Nat : W % B = 0 => (y % W) % B = y % B
        BY ByteOfWord
      <3>2. /\ WordMod \in Nat \ {0} /\ ByteMod \in Nat \ {0} /\ WordMod % ByteMod = 0
            /\ x \in Nat
        BY <1>1, DialogueNumbers, Zenon
      <3> QED
        BY <3>1, <3>2, Zenon
    <2>2. x % ByteMod \in 0 .. ByteMod - 1
      BY <1>1, DialogueNumbers, Remainder
    <2> QED
      BY <1>1, <2>1, <2>2, Zenon
  <1>3. /\ separated(n.p) <=> a + m < Len(l) /\ l[a + m + 1] = "."
        /\ after(n.p, 1) = after(l, a + m + 1)
    <2>1. a + m \in 0 .. Len(l)
      BY <1>1
    <2>2. \A e \in 0 .. Len(l) : /\ separated(after(l, e)) <=> e < Len(l) /\ l[e + 1] = "."
                                 /\ after(after(l, e), 1) = after(l, e + 1)
      BY DotAt, Zenon
    <2> QED
      BY <1>1, <2>1, <2>2, Zenon
  <1>4. after(l, a + m + 1) \in Seq(T)
    <2>1. a + m + 1 \in 0 .. Len(l) + 1
      BY <1>1
    <2> QED
      BY <2>1, After
  <1>5. CASE m = 0
    <2>1. ~starts_with(r.p, is_digit)
      BY <1>1, <1>5
    <2>2. t = [r EXCEPT !.ok = FALSE]
      BY <2>1, Zenon DEF parse_byte
    <2>3. t \in Reads(T) /\ ~t.ok
      BY <2>2 DEF Reads
    <2> QED
      BY <1>5, <2>3 DEF Turned
  <1>6. CASE m > 0
    <2>1. starts_with(r.p, is_digit)
      BY <1>1, <1>6
    <2> DEFINE ok == i < Parts => separated(n.p)
               new == [r.ip EXCEPT ![i] = n.val % ByteMod]
    <2>2. t = [ok |-> ok, p |-> after(n.p, 1), ip |-> new]
      BY <2>1, Zenon DEF parse_byte
    <2>3. ok <=> (i < Parts => a + m < Len(l) /\ l[a + m + 1] = ".")
      BY <1>3, Zenon
    <2>4. ok \in BOOLEAN
      BY Zenon
    <2>5. new = [r.ip EXCEPT ![i] = x % ByteMod]
      BY <1>2, Zenon
    <2>6. new \in [1 .. Parts -> 0 .. ByteMod - 1]
      BY <1>2, <2>5 DEF Reads
    <2> HIDE DEF ok, new, n
    <2>7. t.ok = ok /\ t.p = after(l, a + m + 1) /\ t.ip = new
      BY <1>3, <2>2
    <2>8. t \in Reads(T)
      BY <1>3, <1>4, <2>2, <2>4, <2>6 DEF Reads
    <2> QED
      BY <1>6, <2>3, <2>5, <2>7, <2>8, Zenon DEF x, Turned
  <1> QED
    BY <1>1, <1>5, <1>6

LEMMA ByteType ==
    ASSUME NEW T, NEW r \in Reads(T), NEW i \in 1 .. Parts
    PROVE  parse_byte(r, i) \in Reads(T) /\ (parse_byte(r, i).ok => r.ok)
  <1>1. CASE r.ok
    <2>1. r.p \in Seq(T) /\ 0 \in 0 .. Len(r.p)
      BY DEF Reads
    <2>2. r.p = after(r.p, 0)
      BY <2>1 DEF after
    <2> QED
      BY <1>1, <2>1, <2>2, ByteAt DEF Turned
  <1>2. CASE ~r.ok
    <2>1. parse_byte(r, i) = [r EXCEPT !.ok = FALSE]
      BY <1>2, Zenon DEF parse_byte
    <2> QED
      BY <2>1 DEF Reads
  <1> QED
    BY <1>1, <1>2

(* The loop over all bytes of an address. *)
LEMMA AddressRead ==
    ASSUME line \in Seq(Characters), ip \in [1 .. Parts -> 0 .. ByteMod - 1]
    PROVE  \E h \in [0 .. Parts -> Reads(Characters)] :
              /\ h[0] = [ok |-> TRUE, p |-> line, ip |-> ip] /\ parse_ip(line) = h[Parts]
              /\ \A i \in 1 .. Parts : h[i] = parse_byte(h[i - 1], i)
  <1> DEFINE R == Reads(Characters)
             b == [ok |-> TRUE, p |-> line, ip |-> ip]
             q == [i \in 1 .. Parts |-> i]
  <1>1. Parts \in Nat /\ DOMAIN q = 1 .. Parts /\ \A i \in 1 .. Parts : q[i] = i
    BY DialogueNumbers
  <1>2. b \in R
    BY DEF Reads
  <1>3. \A x \in R : \A i \in 1 .. Parts : parse_byte(x, q[i]) \in R
    BY <1>1, ByteType
  <1>4. parse_ip(line) = FoldLeft(parse_byte, b, q)
    BY Zenon DEF parse_ip
  <1> HIDE DEF R, b, q
  <1>5. PICK h : ByteRun(h, R, b, q, Parts)
    BY <1>1, <1>2, <1>3, AddressLoop
  <1>6. /\ h \in [0 .. Parts -> R] /\ h[0] = b /\ parse_ip(line) = h[Parts]
        /\ \A i \in 1 .. Parts : h[i] = parse_byte(h[i - 1], i)
    <2>1. /\ h \in [0 .. Parts -> R] /\ h[0] = b /\ FoldLeft(parse_byte, b, q) = h[Parts]
          /\ \A i \in 1 .. Parts : h[i] = parse_byte(h[i - 1], q[i])
      BY <1>5, Zenon DEF ByteRun
    <2> QED
      BY <1>1, <1>4, <2>1, Zenon
  <1> QED
    BY <1>6, Zenon DEF R, b

(* A line that parse_ip() takes reads as an address: the cuts are where     *)
(* the loop went on.                                                        *)
LEMMA TakenReads ==
    ASSUME line \in Seq(Characters), ip \in [1 .. Parts -> 0 .. ByteMod - 1], parse_ip(line).ok
    PROVE  \E cut \in [0 .. Parts -> 0 .. Len(line) + 1] : reads_as_address(cut)
  <1> DEFINE T == Characters
             L == Len(line)
             R == Reads(T)
  <1>1. L \in Nat /\ DOMAIN line = 1 .. L /\ Parts \in Nat \ {0}
    BY DialogueNumbers
  <1>2. PICK h \in [0 .. Parts -> R] :
              /\ h[0] = [ok |-> TRUE, p |-> line, ip |-> ip] /\ parse_ip(line) = h[Parts]
              /\ \A i \in 1 .. Parts : h[i] = parse_byte(h[i - 1], i)
    BY AddressRead
  <1>3. \A i \in 0 .. Parts : h[i] \in R
    BY <1>2
  <1> HIDE DEF L, R, T
  <1> DEFINE end(i) == (L - Len(h[i - 1].p)) + digits_of(h[i - 1].p) + 1
             c == [i \in 0 .. Parts |-> IF i = 0 THEN 0 ELSE end(i)]
             Cut(i) ==
                /\ c[i - 1] \in 0 .. L /\ c[i] \in c[i - 1] + 2 .. L + 1
                /\ \A k \in c[i - 1] + 1 .. c[i] - 1 : is_digit(line[k])
                /\ i < Parts => c[i] \in 1 .. L /\ line[c[i]] = "." /\ h[i].p = after(line, c[i])
                /\ c[i] <= L => ~is_digit(line[c[i]])
             Good == {i \in 0 .. Parts : h[i].ok => \A j \in 1 .. i : Cut(j)}
  <1>4. c[0] = 0 /\ \A i \in 1 .. Parts : c[i] = end(i)
    BY <1>1
  <1> HIDE DEF c, end
  <1>5. 0 \in Good
    BY <1>1
  <1>6. ASSUME NEW i \in 1 .. Parts, i - 1 \in Good PROVE i \in Good
    <2> SUFFICES ASSUME h[i].ok PROVE \A j \in 1 .. i : Cut(j)
      BY <1>1
    <2> HIDE DEF Cut
    <2>1. h[i - 1] \in R /\ h[i] = parse_byte(h[i - 1], i)
      BY <1>1, <1>2, <1>3
    <2>2. h[i - 1].ok /\ \A j \in 1 .. i - 1 : Cut(j)
      <3>1. h[i - 1].ok
        BY <2>1, ByteType DEF R
      <3> QED
        BY <1>6, <3>1
    <2> DEFINE a == c[i - 1]
               r == h[i - 1]
               m == digits_of(r.p)
    <2>3. a \in 0 .. L /\ r.p = after(line, a)
      <3>1. CASE i = 1
        <4>1. a = 0 /\ r.p = line
          BY <1>2, <1>4, <3>1
        <4>2. line = after(line, 0)
          BY DEF after
        <4> QED
          BY <1>1, <4>1, <4>2
      <3>2. CASE i # 1
        <4>1. i - 1 \in 1 .. i - 1 /\ i - 1 < Parts
          BY <1>1, <3>2
        <4> QED
          BY <2>2, <4>1 DEF Cut
      <3> QED
        BY <3>1, <3>2
    <2>4. c[i] = a + m + 1
      <3>1. Len(r.p) = L - a
        <4>1. a \in 0 .. Len(line) + 1 /\ a <= Len(line)
          BY <1>1, <2>3 DEF L
        <4> QED
          BY <2>3, <4>1, After DEF L
      <3>2. c[i] = (L - Len(r.p)) + m + 1
        BY <1>4, Zenon DEF end
      <3> HIDE DEF m
      <3> QED
        BY <1>1, <2>3, <3>1, <3>2
    <2>5. m = digits_of(after(line, a))
      BY <2>3, Zenon
    <2>6. r \in Reads(Characters) /\ r.ok /\ h[i] = parse_byte(r, i)
      BY <2>1, <2>2 DEF R, T
    <2> HIDE DEF m, a, r
    <2>7. ReadAt(line, a, m)
      BY <2>3, <2>5, NumberAt DEF L
    <2>8. /\ h[i].ok <=> m > 0 /\ (i < Parts => a + m < Len(line) /\ line[a + m + 1] = ".")
          /\ m > 0 => h[i].p = after(line, a + m + 1)
      <3>1. Turned(Characters, line, a, m, r, i, h[i])
        BY <2>3, <2>5, <2>6, ByteAt DEF L
      <3> QED
        BY <3>1, Zenon DEF Turned
    <2>9. /\ m \in 0 .. L - a
          /\ \A k \in a + 1 .. a + m : is_digit(line[k])
          /\ a + m < L => ~is_digit(line[a + m + 1])
      BY <2>7, Zenon DEF ReadAt, L
    <2>10. m > 0 /\ c[i] = a + m + 1 /\ c[i] - 1 = a + m /\ c[i] \in a + 2 .. L + 1
      BY <1>1, <2>3, <2>4, <2>8, <2>9
    <2>11. i < Parts => c[i] \in 1 .. L /\ line[c[i]] = "." /\ h[i].p = after(line, c[i])
      <3> HAVE i < Parts
      <3>1. a + m < L /\ line[a + m + 1] = "." /\ h[i].p = after(line, a + m + 1)
        BY <2>8, <2>10 DEF L
      <3> QED
        BY <1>1, <2>3, <2>9, <2>10, <3>1
    <2>12. c[i] <= L => ~is_digit(line[c[i]])
      BY <1>1, <2>3, <2>9, <2>10
    <2>13. Cut(i)
      BY <2>3, <2>9, <2>10, <2>11, <2>12 DEF Cut, a
    <2>14. \A j \in 1 .. i : j \in 1 .. i - 1 \/ j = i
      BY <1>1
    <2> QED
      BY <2>2, <2>13, <2>14
  <1>7. \A i \in 0 .. Parts : i \in Good
    <2> HIDE DEF Good
    <2> QED
      BY <1>1, <1>5, <1>6, UpTo
  <1>8. \A i \in 1 .. Parts : Cut(i)
    <2> HIDE DEF Cut
    <2>1. Parts \in Good
      BY <1>1, <1>7
    <2> QED
      BY <1>2, <2>1
  <1>9. c \in [0 .. Parts -> 0 .. Len(line) + 1]
    <2>1. c = [i \in 0 .. Parts |-> c[i]]
      BY DEF c
    <2>2. ASSUME NEW i \in 0 .. Parts PROVE c[i] \in 0 .. L + 1
      <3>1. CASE i = 0
        BY <1>1, <1>4, <3>1
      <3>2. CASE i # 0
        <4>1. i \in 1 .. Parts
          BY <1>1, <3>2
        <4>2. c[i - 1] \in 0 .. L /\ c[i] \in c[i - 1] + 2 .. L + 1
          BY <1>8, <4>1
        <4> QED
          BY <1>1, <4>2
      <3> QED
        BY <3>1, <3>2
    <2> QED
      BY <2>1, <2>2 DEF L
  <1>10. ASSUME NEW i \in 1 .. Parts
         PROVE  /\ number_in(c, i) # <<>>
                /\ \A k \in c[i - 1] + 1 .. c[i] - 1 : is_digit(line[k])
                /\ i < Parts => c[i] \in DOMAIN line /\ line[c[i]] = "."
    <2>1. Cut(i)
      BY <1>8
    <2>2. number_in(c, i) # <<>>
      <3> DEFINE u == c[i - 1]
                 v == c[i]
      <3>1. u \in 0 .. L /\ v \in u + 2 .. L + 1
        BY <2>1, Zenon
      <3>2. number_in(c, i) = SubSeq(line, u + 1, v - 1)
        BY Zenon DEF number_in
      <3> HIDE DEF u, v
      <3>3. u + 1 \in 1 .. L /\ v - 1 \in u + 1 .. L
        BY <1>1, <3>1
      <3> QED
        BY <3>2, <3>3, SubSeqSome DEF L
    <2> QED
      BY <1>1, <2>1, <2>2
  <1>11. c[Parts] \in DOMAIN line => ~is_digit(line[c[Parts]])
    <2>1. Parts \in 1 .. Parts
      BY <1>1
    <2> QED
      BY <1>1, <1>8, <2>1
  <1>12. reads_as_address(c)
    BY <1>4, <1>10, <1>11, Zenon DEF reads_as_address
  <1> QED
    BY <1>9, <1>12

(* A line that reads as an address is taken, and each number as meant.      *)
LEMMA ReadsTaken ==
    ASSUME line \in Seq(Characters), ip \in [1 .. Parts -> 0 .. ByteMod - 1],
           NEW cut \in [0 .. Parts -> 0 .. Len(line) + 1], reads_as_address(cut)
    PROVE  /\ parse_ip(line).ok
           /\ \A i \in 1 .. Parts : parse_ip(line).ip[i] = meant(number_in(cut, i)) % ByteMod
  <1> DEFINE T == Characters
             L == Len(line)
             R == Reads(T)
  <1>1. L \in Nat /\ DOMAIN line = 1 .. L /\ Parts \in Nat \ {0}
    BY DialogueNumbers
  <1>2. PICK h \in [0 .. Parts -> R] :
              /\ h[0] = [ok |-> TRUE, p |-> line, ip |-> ip] /\ parse_ip(line) = h[Parts]
              /\ \A i \in 1 .. Parts : h[i] = parse_byte(h[i - 1], i)
    BY AddressRead
  <1>3. \A i \in 0 .. Parts : h[i] \in R /\ cut[i] \in 0 .. L + 1
    BY <1>2
  <1>4. cut[0] = 0 /\ (cut[Parts] \in 1 .. L => ~is_digit(line[cut[Parts]]))
    BY <1>1 DEF reads_as_address
  <1>5. ASSUME NEW i \in 1 .. Parts
        PROVE  /\ cut[i] >= cut[i - 1] + 2
               /\ \A k \in cut[i - 1] + 1 .. cut[i] - 1 : is_digit(line[k])
               /\ i < Parts => cut[i] \in 1 .. L /\ line[cut[i]] = "."
               /\ cut[i] \in 1 .. L => ~is_digit(line[cut[i]])
    <2>1. /\ number_in(cut, i) # <<>>
          /\ \A k \in cut[i - 1] + 1 .. cut[i] - 1 : is_digit(line[k])
          /\ i < Parts => cut[i] \in 1 .. L /\ line[cut[i]] = "."
      BY <1>1, Zenon DEF reads_as_address
    <2>2. cut[i] >= cut[i - 1] + 2
      <3>1. i - 1 \in 0 .. Parts /\ i \in 0 .. Parts
        BY <1>1
      <3> DEFINE u == cut[i - 1]
                 v == cut[i]
      <3>2. u \in 0 .. L + 1 /\ v \in 0 .. L + 1
        BY <1>3, <3>1
      <3>3. SubSeq(line, u + 1, v - 1) # <<>>
        BY <2>1 DEF number_in
      <3> HIDE DEF u, v
      <3>4. v - 1 >= u + 1
        BY <1>1, <3>2, <3>3 DEF L
      <3>5. v >= u + 2
        BY <1>1, <3>2, <3>4
      <3> QED
        BY <3>5 DEF u, v
    <2>3. cut[i] \in 1 .. L => ~is_digit(line[cut[i]])
      <3>1. CASE i < Parts
        BY <2>1, <3>1, DialogueNumbers
      <3>2. CASE i = Parts
        BY <1>4, <3>2
      <3> QED
        BY <1>1, <3>1, <3>2
    <2> QED
      BY <2>1, <2>2, <2>3
  <1> HIDE DEF L, R, T
  <1> DEFINE byte(i) == meant(SubSeq(line, cut[i - 1] + 1, cut[i] - 1)) % ByteMod
             Good(i) == /\ h[i].ok
                        /\ i < Parts => cut[i] \in 0 .. L /\ h[i].p = after(line, cut[i])
                        /\ \A j \in 1 .. i : h[i].ip[j] = byte(j)
             S == {i \in 0 .. Parts : Good(i)}
  <1>6. Good(0)
    <2>1. h[0].ok /\ h[0].p = line
      BY <1>2
    <2>2. line = after(line, 0)
      BY DEF after
    <2> QED
      BY <1>1, <1>4, <2>1, <2>2
  <1>7. ASSUME NEW i \in 1 .. Parts, Good(i - 1) PROVE Good(i)
    <2> DEFINE a == cut[i - 1]
               r == h[i - 1]
               m == digits_of(r.p)
    <2>1. i - 1 \in 0 .. Parts /\ i - 1 < Parts /\ i \in 0 .. Parts
      BY <1>1
    <2>2. a \in 0 .. L /\ r.p = after(line, a) /\ r.ok /\ r \in R /\ h[i] = parse_byte(r, i)
      BY <1>2, <1>3, <1>7, <2>1
    <2>3. m = digits_of(after(line, a))
      BY <2>2, Zenon
    <2>4. \A j \in 1 .. i - 1 : r.ip[j] = byte(j)
      BY <1>7
    <2>5. /\ cut[i] >= a + 2 /\ cut[i] \in 0 .. L + 1
          /\ \A k \in a + 1 .. cut[i] - 1 : is_digit(line[k])
          /\ i < Parts => cut[i] \in 1 .. L /\ line[cut[i]] = "."
          /\ cut[i] \in 1 .. L => ~is_digit(line[cut[i]])
      BY <1>3, <1>5, <2>1
    <2> HIDE DEF m, a, r, byte
    <2>6. ReadAt(line, a, m)
      BY <2>2, <2>3, NumberAt DEF L
    <2>7. /\ m \in 0 .. L - a
          /\ \A k \in a + 1 .. a + m : is_digit(line[k])
          /\ a + m < L => ~is_digit(line[a + m + 1])
      BY <2>6, Zenon DEF ReadAt, L
    <2>8. cut[i] = a + m + 1
      <3>1. ASSUME a + m + 1 < cut[i] PROVE FALSE
        <4>1. a + m < L /\ a + m + 1 \in a + 1 .. cut[i] - 1
          BY <1>1, <2>2, <2>5, <2>7, <3>1
        <4> QED
          BY <2>5, <2>7, <4>1
      <3>2. ASSUME a + m + 1 > cut[i] PROVE FALSE
        <4>1. cut[i] \in a + 1 .. a + m /\ cut[i] \in 1 .. L
          BY <1>1, <2>2, <2>5, <2>7, <3>2
        <4> QED
          BY <2>5, <2>7, <4>1
      <3>3. cut[i] \in Nat /\ a + m + 1 \in Nat
        BY <1>1, <2>2, <2>5, <2>7
      <3> QED
        BY <3>1, <3>2, <3>3
    <2> DEFINE x == meant(SubSeq(line, a + 1, a + m)) % ByteMod
    <2>9. /\ h[i] \in R
          /\ h[i].ok <=> m > 0 /\ (i < Parts => a + m < Len(line) /\ line[a + m + 1] = ".")
          /\ m > 0 => h[i].p = after(line, a + m + 1) /\ h[i].ip = [r.ip EXCEPT ![i] = x]
      <3>1. Turned(Characters, line, a, m, r, i, h[i])
        BY <2>2, <2>3, ByteAt DEF L, R, T
      <3> QED
        BY <3>1, Zenon DEF Turned, R, T
    <2>10. m > 0 /\ (i < Parts => a + m < L)
      BY <1>1, <2>2, <2>5, <2>7, <2>8
    <2>11. h[i].ok /\ (i < Parts => cut[i] \in 0 .. L /\ h[i].p = after(line, cut[i]))
      <3>1. i < Parts => cut[i] \in 0 .. L
        BY <1>1, <2>5
      <3> QED
        BY <2>5, <2>8, <2>9, <2>10, <3>1 DEF L
    <2>12. x = byte(i)
      <3>1. a + m = cut[i] - 1
        BY <1>1, <2>2, <2>7, <2>8
      <3> QED
        BY <3>1, Zenon DEF byte, a
    <2> HIDE DEF x
    <2>13. ASSUME NEW j \in 1 .. i PROVE h[i].ip[j] = byte(j)
      <3>0. r.ip \in [1 .. Parts -> 0 .. ByteMod - 1]
        BY <2>2 DEF R, Reads
      <3>1. r.ip \in [1 .. Parts -> 0 .. ByteMod - 1] /\ j \in 1 .. Parts
        BY <1>1, <3>0
      <3>2. h[i].ip = [r.ip EXCEPT ![i] = x]
        BY <2>9, <2>10
      <3>3. CASE j = i
        BY <2>12, <3>1, <3>2, <3>3
      <3>4. CASE j # i
        <4>1. j \in 1 .. i - 1
          BY <1>1, <3>4
        <4> QED
          BY <2>4, <3>1, <3>2, <3>4, <4>1
      <3> QED
        BY <3>3, <3>4
    <2> QED
      BY <2>11, <2>13
  <1>8. \A i \in 0 .. Parts : Good(i)
    <2> HIDE DEF Good
    <2>1. 0 \in S /\ \A i \in 1 .. Parts : i - 1 \in S => i \in S
      BY <1>1, <1>6, <1>7
    <2>2. \A i \in 0 .. Parts : i \in S
      <3> HIDE DEF S
      <3> QED
        BY <1>1, <2>1, UpTo
    <2> QED
      BY <2>2
  <1>9. h[Parts].ok /\ \A j \in 1 .. Parts : h[Parts].ip[j] = byte(j)
    <2>1. Parts \in 0 .. Parts
      BY <1>1
    <2> HIDE DEF byte
    <2> QED
      BY <1>8, <2>1
  <1> QED
    BY <1>2, <1>9, Zenon DEF number_in

LEMMA AddressTaken == ASSUME DialogueTypeOK PROVE AddressAsTyped
  <1> DEFINE cuts == {cut \in [0 .. Parts -> 0 .. Len(line) + 1] : reads_as_address(cut)}
  <1>1. line \in Seq(Characters) /\ ip \in [1 .. Parts -> 0 .. ByteMod - 1]
    BY Zenon DEF DialogueTypeOK
  <1>2. parse_ip(line).ok => cuts # {}
    BY <1>1, TakenReads
  <1>3. \A cut \in cuts :
           /\ parse_ip(line).ok
           /\ \A i \in 1 .. Parts : parse_ip(line).ip[i] = meant(number_in(cut, i)) % ByteMod
    BY <1>1, ReadsTaken
  <1>4. parse_ip(line).ok \in BOOLEAN
    <2>1. PICK h \in [0 .. Parts -> Reads(Characters)] : parse_ip(line) = h[Parts]
      BY <1>1, AddressRead
    <2>2. Parts \in 0 .. Parts
      BY DialogueNumbers
    <2> QED
      BY <2>1, <2>2 DEF Reads
  <1> QED
    BY <1>2, <1>3, <1>4, Zenon DEF AddressAsTyped
-----------------------------------------------------------------------------
(* The dialogue: what each question has settled when the next is asked. *)

OneWord(s) == \A k \in DOMAIN s : ~is_blank(s[k])

Settled ==
    /\ asked \in {"nick", "channel"} => irc
    /\ asked \in {"nick", "channel", "dial", "connected"} => dst_port # 0
    /\ irc /\ asked \in {"channel", "dial", "connected"} => mynick # <<>>
    /\ OneWord(mynick) /\ OneWord(cur_chan) /\ (cur_chan # <<>> => is_channel(cur_chan))

DialogueInv == DialogueTypeOK /\ Settled

LEMMA SettledReady == Settled => ReadyToDial
  BY Zenon DEF Settled, ReadyToDial, OneWord

LEMMA DialogueBegins == DialogueInit => DialogueInv
  <1> SUFFICES ASSUME DialogueInit PROVE DialogueInv
    OBVIOUS
  <1>1. <<>> \in Seq(Characters) /\ Len(<<>>) = 0 /\ DOMAIN <<>> = {}
    OBVIOUS
  <1>2. ip \in [1 .. Parts -> 0 .. ByteMod - 1] /\ 0 \in 0 .. WordMod - 1
    BY DialogueNumbers DEF DialogueInit
  <1>3. DialogueTypeOK
    <2>1. 0 <= LineMax - 1 /\ 0 <= MaxNick /\ 0 <= MaxChan
      BY DialogueNumbers
    <2>2. "ip" \in Questions
      BY DEF Questions
    <2> QED
      BY <1>1, <1>2, <2>1, <2>2, Zenon DEF DialogueInit, DialogueTypeOK
  <1>4. Settled
    BY <1>1 DEF DialogueInit, Settled, OneWord
  <1> QED
    BY <1>3, <1>4 DEF DialogueInv

LEMMA SameWords == mynick' = mynick /\ cur_chan' = cur_chan
                     => /\ (OneWord(mynick)' <=> OneWord(mynick)) /\ (OneWord(cur_chan)' <=> OneWord(cur_chan))
                        /\ (is_channel(cur_chan)' <=> is_channel(cur_chan))
  BY Zenon DEF OneWord, is_channel, is_blank

(* A step that keeps the answers and the question. *)
LEMMA KeysKeep ==
    ASSUME DialogueInv, UNCHANGED <<irc, asked, answers>>,
           line' \in Seq(Characters), Len(line') <= LineMax - 1
    PROVE  DialogueInv'
  <1>1. irc' = irc /\ asked' = asked /\ ip' = ip /\ dst_port' = dst_port /\ mynick' = mynick /\ cur_chan' = cur_chan
    BY DEF answers
  <1>2. DialogueTypeOK'
    BY <1>1, Zenon DEF DialogueInv, DialogueTypeOK, Characters
  <1>3. Settled'
    BY <1>1, SameWords DEF DialogueInv, Settled
  <1> QED
    BY <1>2, <1>3 DEF DialogueInv

LEMMA KeyChar == ASSUME DialogueInv, key_char PROVE DialogueInv'
  <1>1. PICK ch \in Keys[asked] : line' = Append(line, ch)
    BY DEF key_char
  <1>2. ch \in Characters
    BY <1>1 DEF key_char, Characters
  <1>3. line \in Seq(Characters) /\ Len(line) < LineMax - 1 /\ UNCHANGED <<irc, asked, answers>>
    BY Zenon DEF DialogueInv, DialogueTypeOK, key_char, room
  <1>4. line' \in Seq(Characters) /\ Len(line') <= LineMax - 1
    BY <1>1, <1>2, <1>3, DialogueNumbers
  <1> QED
    BY <1>3, <1>4, KeysKeep

LEMMA KeyDelete == ASSUME DialogueInv, key_delete PROVE DialogueInv'
  <1>1. line \in Seq(Characters) /\ line # <<>> /\ Len(line) <= LineMax - 1 /\ UNCHANGED <<irc, asked, answers>>
    BY Zenon DEF DialogueInv, DialogueTypeOK, key_delete
  <1>2. line' = SubSeq(line, 1, Len(line) - 1)
    BY Zenon DEF key_delete, Front
  <1>3. line' \in Seq(Characters) /\ Len(line') <= LineMax - 1
    BY <1>1, <1>2, DialogueNumbers
  <1> QED
    BY <1>1, <1>3, KeysKeep

(* What an answer leaves of the type invariant. *)
LEMMA Answered ==
    ASSUME NEW question, NEW next \in Questions \cup {"dial"}, answer(question, next)
    PROVE  /\ asked = question /\ asked' = next /\ irc' = irc
           /\ line' \in Seq(Characters) /\ Len(line') <= LineMax - 1
           /\ asked' \in Questions \cup {"dial", "connected", "exit"}
  <1>1. asked = question /\ asked' = next /\ irc' = irc /\ line' = <<>>
    BY Zenon DEF answer
  <1>2. <<>> \in Seq(Characters) /\ Len(<<>>) = 0 /\ 0 <= LineMax - 1
    BY DialogueNumbers
  <1> QED
    BY <1>1, <1>2, Zenon

LEMMA EnterIp == ASSUME DialogueInv, enter_ip PROVE DialogueInv'
  <1> DEFINE r == parse_ip(line)
             next == IF r.ok THEN "port" ELSE "ip"
  <1>1. line \in Seq(Characters) /\ ip \in [1 .. Parts -> 0 .. ByteMod - 1]
    BY Zenon DEF DialogueInv, DialogueTypeOK
  <1>2. r \in Reads(Characters)
    <2>1. PICK h \in [0 .. Parts -> Reads(Characters)] : r = h[Parts]
      BY <1>1, AddressRead
    <2>2. Parts \in 0 .. Parts
      BY DialogueNumbers
    <2> QED
      BY <2>1, <2>2
  <1>3. r.ip \in [1 .. Parts -> 0 .. ByteMod - 1]
    BY <1>2 DEF Reads
  <1>4. answer("ip", next) /\ ip' = r.ip /\ UNCHANGED <<dst_port, mynick, cur_chan>>
    BY Zenon DEF enter_ip
  <1>5. next \in {"ip", "port"}
    BY Zenon
  <1> HIDE DEF r, next
  <1>6. next \in Questions \cup {"dial"}
    BY <1>5 DEF Questions
  <1>7. /\ asked' = next /\ irc' = irc
        /\ line' \in Seq(Characters) /\ Len(line') <= LineMax - 1
        /\ asked' \in Questions \cup {"dial", "connected", "exit"}
    BY <1>4, <1>6, Answered
  <1>8. dst_port' = dst_port /\ mynick' = mynick /\ cur_chan' = cur_chan
    BY <1>4
  <1>9. DialogueTypeOK'
    BY <1>3, <1>4, <1>7, <1>8, Zenon DEF DialogueInv, DialogueTypeOK, Characters
  <1>10. asked' \notin {"nick", "channel", "dial", "connected"}
    BY <1>5, <1>7
  <1>11. Settled'
    BY <1>7, <1>8, <1>10, SameWords DEF DialogueInv, Settled
  <1> QED
    BY <1>9, <1>11 DEF DialogueInv

(* What parse_number() returns is a word. *)
LEMMA PortParsed ==
    ASSUME line \in Seq(Characters)
    PROVE  parse_number(line).val \in 0 .. WordMod - 1
  <1>1. 0 \in 0 .. Len(line) /\ line = after(line, 0)
    BY DEF after
  <1> DEFINE m == digits_of(after(line, 0))
  <1>2. ReadAt(line, 0, m)
    <2>1. m = digits_of(after(line, 0))
      OBVIOUS
    <2> HIDE DEF m
    <2> QED
      BY <1>1, <2>1, NumberAt
  <1> HIDE DEF m
  <1> DEFINE x == meant(SubSeq(line, 0 + 1, 0 + m))
  <1>3. x \in Nat /\ parse_number(line).val = x % WordMod
    BY <1>1, <1>2, Zenon DEF ReadAt
  <1> HIDE DEF x
  <1> QED
    BY <1>3, DialogueNumbers, Remainder

LEMMA EnterPortChat == ASSUME DialogueInv, enter_port_chat PROVE DialogueInv'
  <1> DEFINE v == parse_number(line).val
             digits == starts_with(line, is_digit)
  <1>1. v \in 0 .. WordMod - 1 /\ 0 \in 0 .. WordMod - 1
    BY PortParsed, DialogueNumbers DEF DialogueInv, DialogueTypeOK
  <1>2. /\ ~irc /\ answer("port", chat_port) /\ UNCHANGED <<ip, mynick, cur_chan>>
        /\ dst_port' = IF digits THEN v ELSE 0
    BY Zenon DEF enter_port_chat
  <1>3. chat_port = IF digits /\ v # 0 THEN "dial" ELSE "port"
    BY Zenon DEF chat_port
  <1> HIDE DEF v, digits
  <1>4. chat_port \in {"dial", "port"} /\ (chat_port = "dial" => dst_port' # 0) /\ dst_port' \in 0 .. WordMod - 1
    BY <1>1, <1>2, <1>3
  <1>5. chat_port \in Questions \cup {"dial"}
    BY <1>4 DEF Questions
  <1>6. /\ asked' = chat_port /\ irc' = irc
        /\ line' \in Seq(Characters) /\ Len(line') <= LineMax - 1
        /\ asked' \in Questions \cup {"dial", "connected", "exit"}
    BY <1>2, <1>5, Answered
  <1>7. ip' = ip /\ mynick' = mynick /\ cur_chan' = cur_chan
    BY <1>2
  <1>8. DialogueTypeOK'
    BY <1>4, <1>6, <1>7, Zenon DEF DialogueInv, DialogueTypeOK, Characters
  <1>9. /\ asked' \notin {"nick", "channel"} /\ ~irc'
        /\ asked' \in {"dial", "connected"} => dst_port' # 0
    BY <1>2, <1>4, <1>6
  <1>10. Settled'
    BY <1>7, <1>9, SameWords DEF DialogueInv, Settled
  <1> QED
    BY <1>8, <1>10 DEF DialogueInv

LEMMA EnterPortIrc == ASSUME DialogueInv, enter_port_irc PROVE DialogueInv'
  <1> DEFINE v == parse_number(line).val
  <1>1. v \in 0 .. WordMod - 1
    BY PortParsed DEF DialogueInv, DialogueTypeOK
  <1>2. /\ irc /\ answer("port", "nick") /\ UNCHANGED <<ip, mynick, cur_chan>>
        /\ dst_port' = IF v = 0 THEN DefaultPort ELSE v
    BY Zenon DEF enter_port_irc
  <1> HIDE DEF v
  <1>3. dst_port' # 0 /\ dst_port' \in 0 .. WordMod - 1
    BY <1>1, <1>2, DialogueNumbers
  <1>4. "nick" \in Questions \cup {"dial"}
    BY DEF Questions
  <1>5. /\ asked' = "nick" /\ irc' = irc
        /\ line' \in Seq(Characters) /\ Len(line') <= LineMax - 1
        /\ asked' \in Questions \cup {"dial", "connected", "exit"}
    BY <1>2, <1>4, Answered
  <1>6. ip' = ip /\ mynick' = mynick /\ cur_chan' = cur_chan
    BY <1>2
  <1>7. DialogueTypeOK'
    BY <1>3, <1>5, <1>6, Zenon DEF DialogueInv, DialogueTypeOK, Characters
  <1>8. irc' /\ asked' \notin {"channel", "dial", "connected"}
    BY <1>2, <1>5
  <1>9. Settled'
    BY <1>3, <1>6, <1>8, SameWords DEF DialogueInv, Settled
  <1> QED
    BY <1>7, <1>9 DEF DialogueInv

LEMMA EnterNick == ASSUME DialogueInv, enter_nick PROVE DialogueInv'
  <1> DEFINE w == str_copy(next_word(line), MaxNick + 1)
             next == IF mynick' = <<>> THEN "nick" ELSE "channel"
  <1>1. w \in Seq(Characters) /\ Len(w) <= MaxNick /\ OneWord(w)
    <2>1. line \in Seq(Characters) /\ MaxNick \in Nat
      BY DialogueNumbers, Zenon DEF DialogueInv, DialogueTypeOK
    <2> QED
      BY <2>1, WordCopied, Zenon DEF OneWord
  <1>2. mynick' = w /\ answer("nick", next) /\ UNCHANGED <<ip, dst_port, cur_chan>>
    BY Zenon DEF enter_nick
  <1> HIDE DEF w
  <1>3. next \in {"nick", "channel"} /\ (next = "channel" => mynick' # <<>>)
    BY Zenon
  <1> HIDE DEF next
  <1>4. next \in Questions \cup {"dial"}
    BY <1>3 DEF Questions
  <1>5. /\ asked = "nick" /\ asked' = next /\ irc' = irc
        /\ line' \in Seq(Characters) /\ Len(line') <= LineMax - 1
        /\ asked' \in Questions \cup {"dial", "connected", "exit"}
    BY <1>2, <1>4, Answered
  <1>6. ip' = ip /\ dst_port' = dst_port /\ cur_chan' = cur_chan
    BY <1>2
  <1>7. DialogueTypeOK'
    BY <1>1, <1>2, <1>5, <1>6, Zenon DEF DialogueInv, DialogueTypeOK, Characters
  <1>8. irc /\ irc' /\ dst_port' # 0
    BY <1>5, <1>6 DEF DialogueInv, Settled
  <1>9. OneWord(mynick)' /\ OneWord(cur_chan)' /\ (cur_chan' # <<>> => is_channel(cur_chan)')
    BY <1>1, <1>2, <1>6, Zenon DEF DialogueInv, Settled, OneWord, is_channel, is_blank
  <1>10. irc' /\ asked' \in {"channel", "dial", "connected"} => mynick' # <<>>
    BY <1>3, <1>5
  <1> QED
    BY <1>7, <1>8, <1>9, <1>10, Zenon DEF DialogueInv, Settled

LEMMA EnterChannel == ASSUME DialogueInv, enter_channel PROVE DialogueInv'
  <1> DEFINE w == str_copy(next_word(line), MaxChan + 1)
  <1>1. w \in Seq(Characters) /\ Len(w) <= MaxChan /\ OneWord(w)
    <2>1. line \in Seq(Characters) /\ MaxChan \in Nat
      BY DialogueNumbers, Zenon DEF DialogueInv, DialogueTypeOK
    <2> QED
      BY <2>1, WordCopied, Zenon DEF OneWord
  <1>2. /\ answer("channel", "dial") /\ UNCHANGED <<ip, dst_port, mynick>>
        /\ cur_chan' = IF is_channel(w) THEN w ELSE <<>>
    BY Zenon DEF enter_channel
  <1> HIDE DEF w
  <1>3. "dial" \in Questions \cup {"dial"}
    OBVIOUS
  <1>4. /\ asked = "channel" /\ asked' = "dial" /\ irc' = irc
        /\ line' \in Seq(Characters) /\ Len(line') <= LineMax - 1
        /\ asked' \in Questions \cup {"dial", "connected", "exit"}
    BY <1>2, <1>3, Answered
  <1>5. ip' = ip /\ dst_port' = dst_port /\ mynick' = mynick
    BY <1>2
  <1>6. <<>> \in Seq(Characters) /\ Len(<<>>) <= MaxChan /\ OneWord(<<>>)
    BY DialogueNumbers DEF OneWord
  <1>7. /\ cur_chan' \in Seq(Characters) /\ Len(cur_chan') <= MaxChan /\ OneWord(cur_chan')
        /\ cur_chan' # <<>> => is_channel(cur_chan')
    BY <1>1, <1>2, <1>6, Zenon
  <1>8. DialogueTypeOK'
    BY <1>4, <1>5, <1>7, Zenon DEF DialogueInv, DialogueTypeOK, Characters
  <1>9. irc' /\ dst_port' # 0 /\ mynick' # <<>> /\ OneWord(mynick')
    BY <1>4, <1>5, Zenon DEF DialogueInv, Settled
  <1>10. Settled'
    BY <1>7, <1>9, Zenon DEF Settled
  <1> QED
    BY <1>8, <1>10 DEF DialogueInv

LEMMA Dial == ASSUME DialogueInv, NEW rc \in {-1, 0}, dial(rc) PROVE DialogueInv'
  <1>1. /\ asked = "dial" /\ asked' \in {"exit", "connected"}
        /\ irc' = irc /\ line' = line /\ ip' = ip /\ dst_port' = dst_port /\ mynick' = mynick /\ cur_chan' = cur_chan
    BY DEF dial, answers
  <1>2. asked' \in Questions \cup {"dial", "connected", "exit"}
    BY <1>1
  <1>3. DialogueTypeOK'
    BY <1>1, <1>2, Zenon DEF DialogueInv, DialogueTypeOK, Characters
  <1>4. dst_port' # 0 /\ (irc' => mynick' # <<>>) /\ asked' \notin {"nick", "channel"}
    BY <1>1 DEF DialogueInv, Settled
  <1>5. Settled'
    BY <1>1, <1>4, SameWords DEF DialogueInv, Settled
  <1> QED
    BY <1>3, <1>5 DEF DialogueInv

LEMMA DialogueStep == DialogueInv /\ (DialogueNext \/ UNCHANGED dialogue) => DialogueInv'
  <1> SUFFICES ASSUME DialogueInv, DialogueNext \/ UNCHANGED dialogue PROVE DialogueInv'
    OBVIOUS
  <1>1. CASE UNCHANGED dialogue
    <2>1. UNCHANGED <<irc, asked, answers>> /\ line' = line
      BY <1>1 DEF dialogue
    <2>2. line' \in Seq(Characters) /\ Len(line') <= LineMax - 1
      BY <2>1, Zenon DEF DialogueInv, DialogueTypeOK
    <2> QED
      BY <2>1, <2>2, KeysKeep
  <1> QED
    BY <1>1, KeyChar, KeyDelete, EnterIp, EnterPortChat, EnterPortIrc, EnterNick, EnterChannel, Dial,
       Zenon DEF DialogueNext

-----------------------------------------------------------------------------
(* The screen of a session: the console *)

Chars == STRING \cup {"ctl", "tab", ">", "*", SPACE, CURSOR}
Printed == Chars \ {"ctl"}

Row == [1 .. Cols -> Chars]
Consoles == [rows : [1 .. Rows -> Row], row : 1 .. Rows + 1, col : 1 .. Cols, eat : 0 .. 2]

LEMMA ScreenNumbers == /\ Cols \in Nat /\ Cols > 2 /\ Rows \in Nat /\ Rows > 1
                       /\ MaxInput \in Nat \ {0} /\ Typed \subseteq Printed
                       /\ Texts \subseteq Seq(Chars) /\ Prefix \in Seq(Chars)
  <1>1. STRING \subseteq Chars
    BY Zenon DEF Chars
  <1>2. Typed \subseteq Printed
    BY ScreenAssumption, <1>1, Zenon DEF Printed
  <1>3. \A s \in Seq(STRING) : s \in Seq(Chars)
    <2> DEFINE S == STRING
    <2> HIDE DEF S
    <2>1. S \subseteq Chars
      BY <1>1 DEF S
    <2>2. \A s \in Seq(S) : s \in Seq(Chars)
      BY <2>1, SeqWider
    <2> QED
      BY <2>2, Zenon DEF S
  <1> QED
    BY ScreenAssumption, <1>2, <1>3

LEMMA Marks == SPACE \in Printed /\ CURSOR \in Printed /\ ">" \in Printed /\ "*" \in Chars
  <1>1. SPACE # "ctl" /\ CURSOR # "ctl"
    BY Zenon DEF SPACE, CURSOR
  <1> QED
    BY <1>1 DEF Printed, Chars

LEMMA Blanks ==
    ASSUME NEW n \in Nat
    PROVE  blanks(n) \in Seq(Printed) /\ Len(blanks(n)) = n /\ \A k \in 1 .. n : blanks(n)[k] = SPACE
  <1>1. SPACE \in Printed
    BY Marks
  <1> QED
    BY <1>1 DEF blanks

LEMMA BlankRow == blanks(Cols) \in Row
  <1>1. SPACE \in Chars
    BY Marks DEF Printed
  <1> QED
    BY <1>1 DEF blanks, Row

(* Scrolling moves every row up. *)
LEMMA Scrolled ==
    ASSUME NEW con \in Consoles
    PROVE  /\ scroll(con) \in Consoles /\ scroll(con).row = Rows
           /\ scroll(con).col = con.col /\ scroll(con).eat = con.eat
           /\ \A r \in 1 .. Rows - 1 : scroll(con).rows[r] = con.rows[r + 1]
           /\ scroll(con).rows[Rows] = blanks(Cols)
  <1> DEFINE R == Row
             b == blanks(Cols)
             p == con.rows
             q == Append(Tail(p), b)
  <1>1. Rows \in Nat /\ Rows > 1
    BY ScreenNumbers
  <1>2. b \in R /\ p \in [1 .. Rows -> R]
    BY BlankRow DEF Consoles
  <1>3. scroll(con) = [con EXCEPT !.rows = q, !.row = Rows]
    BY Zenon DEF scroll
  <1> HIDE DEF R, b, p
  <1>4. p \in Seq(R) /\ Len(p) = Rows
    BY <1>1, <1>2
  <1>5. Tail(p) \in Seq(R) /\ Len(Tail(p)) = Rows - 1 /\ \A r \in 1 .. Rows - 1 : Tail(p)[r] = p[r + 1]
    BY <1>1, <1>4
  <1>6. /\ q \in Seq(R) /\ Len(q) = Rows /\ q[Rows] = b
        /\ \A r \in 1 .. Rows - 1 : q[r] = p[r + 1]
    <2> DEFINE u == Tail(p)
    <2> HIDE DEF u
    <2>1. u \in Seq(R) /\ Len(u) = Rows - 1 /\ \A r \in 1 .. Rows - 1 : u[r] = p[r + 1]
      BY <1>5 DEF u
    <2>2. q = Append(u, b)
      BY DEF u
    <2>3. Len(q) = Rows
      BY <1>1, <1>2, <2>1, <2>2
    <2> QED
      BY <1>1, <1>2, <2>1, <2>2, <2>3
  <1>7. q \in [1 .. Rows -> R]
    <2> HIDE DEF q
    <2> QED
      BY <1>1, <1>6
  <1> HIDE DEF q
  <1>8. scroll(con) \in Consoles
    <2>1. Rows \in 1 .. Rows + 1 /\ q \in [1 .. Rows -> Row]
      BY <1>1, <1>7 DEF R
    <2> QED
      BY <1>3, <2>1 DEF Consoles
  <1>9. scroll(con).rows = q /\ scroll(con).row = Rows /\ scroll(con).col = con.col /\ scroll(con).eat = con.eat
    BY <1>3 DEF Consoles
  <1> QED
    BY <1>6, <1>8, <1>9 DEF p, b

(* A character printed on the last row, or right below it. *)
LEMMA PutLast ==
    ASSUME NEW con \in Consoles, con.eat = 0, con.row \in {Rows, Rows + 1},
           NEW ch \in Printed, NEW t, t = putchar(con, ch)
    PROVE  /\ t \in Consoles /\ t.eat = 0
           /\ con.col < Cols => t.row = Rows /\ t.col = con.col + 1
           /\ con.col = Cols => t.row = Rows + 1 /\ t.col = 1
           /\ \A r \in 1 .. Rows - 1 :
                 t.rows[r] = IF con.row = Rows THEN con.rows[r] ELSE con.rows[r + 1]
           /\ t.rows[Rows][con.col] = ch
           /\ con.row = Rows => \A c \in 1 .. Cols : c # con.col => t.rows[Rows][c] = con.rows[Rows][c]
  <1> DEFINE c == IF con.row > Rows THEN scroll(con) ELSE con
             p == [c EXCEPT !.rows[c.row][c.col] = ch]
  <1>1. Rows \in Nat /\ Rows > 1 /\ Cols \in Nat /\ Cols > 2
    BY ScreenNumbers
  <1>2. ch \in Chars /\ ch # "ctl"
    BY DEF Printed
  <1>3. t = IF c.col < Cols THEN [p EXCEPT !.col = @ + 1] ELSE at(p, c.row + 1, 1)
    <2>1. ~(con.eat > 0) /\ ~(con.eat = 0 /\ ch = "ctl")
      BY <1>2
    <2> QED
      BY <2>1, Zenon DEF putchar
  <1>4. /\ c \in Consoles /\ c.row = Rows /\ c.col = con.col /\ c.eat = 0
        /\ \A r \in 1 .. Rows - 1 : c.rows[r] = IF con.row = Rows THEN con.rows[r] ELSE con.rows[r + 1]
        /\ con.row = Rows => c = con
    <2>1. CASE con.row = Rows
      <3>1. c = con
        BY <1>1, <2>1
      <3> HIDE DEF c
      <3> QED
        BY <2>1, <3>1
    <2>2. CASE con.row = Rows + 1
      <3>1. c = scroll(con) /\ con.row # Rows
        BY <1>1, <2>2
      <3> HIDE DEF c
      <3> QED
        BY <3>1, Scrolled
    <2> QED
      BY <2>1, <2>2
  <1> HIDE DEF c
  <1> DEFINE w == [c.rows EXCEPT ![Rows] = [c.rows[Rows] EXCEPT ![con.col] = ch]]
  <1>5. p = [c EXCEPT !.rows = w]
    BY <1>4 DEF Consoles
  <1>6. /\ w \in [1 .. Rows -> Row]
        /\ \A r \in 1 .. Rows - 1 : w[r] = c.rows[r]
        /\ w[Rows][con.col] = ch
        /\ \A d \in 1 .. Cols : d # con.col => w[Rows][d] = c.rows[Rows][d]
    <2> DEFINE v == c.rows[Rows]
               x == [v EXCEPT ![con.col] = ch]
    <2>1. Rows \in 1 .. Rows /\ con.col \in 1 .. Cols /\ c.rows \in [1 .. Rows -> Row]
      BY <1>1, <1>4 DEF Consoles
    <2>2. v \in [1 .. Cols -> Chars]
      BY <2>1 DEF Row
    <2> HIDE DEF v
    <2>3. x \in Row /\ x[con.col] = ch /\ \A d \in 1 .. Cols : d # con.col => x[d] = v[d]
      BY <1>2, <2>1, <2>2 DEF Row
    <2>4. w = [c.rows EXCEPT ![Rows] = x]
      BY DEF v
    <2> HIDE DEF x, w
    <2>5. w \in [1 .. Rows -> Row] /\ w[Rows] = x /\ \A r \in 1 .. Rows - 1 : w[r] = c.rows[r]
      BY <1>1, <2>1, <2>3, <2>4
    <2> QED
      BY <2>3, <2>5 DEF v
  <1> HIDE DEF w, p
  <1>7. p \in Consoles /\ p.rows = w /\ p.row = Rows /\ p.col = con.col /\ p.eat = 0
    BY <1>4, <1>5, <1>6 DEF Consoles
  <1>10. con.col \in 1 .. Cols
    BY DEF Consoles
  <1>8. CASE con.col < Cols
    <2>1. t = [p EXCEPT !.col = @ + 1]
      BY <1>3, <1>4, <1>8
    <2>2. t.rows = w /\ t.row = Rows /\ t.col = con.col + 1 /\ t.eat = 0
      BY <1>7, <2>1 DEF Consoles
    <2>3. con.col + 1 \in 1 .. Cols
      BY <1>1, <1>8, <1>10
    <2>4. t \in Consoles
      BY <1>7, <2>1, <2>3 DEF Consoles
    <2> QED
      BY <1>1, <1>4, <1>6, <1>8, <1>10, <2>2, <2>4
  <1>9. CASE con.col = Cols
    <2>0. ~(c.col < Cols) /\ c.row = Rows
      BY <1>1, <1>4, <1>9
    <2>1. t = at(p, Rows + 1, 1)
      BY <1>3, <2>0, Zenon
    <2>2. t.rows = w /\ t.row = Rows + 1 /\ t.col = 1 /\ t.eat = 0
      BY <1>7, <2>1 DEF Consoles, at
    <2>3. 1 \in 1 .. Cols /\ Rows + 1 \in 1 .. Rows + 1
      BY <1>1
    <2>4. t \in Consoles
      BY <1>7, <2>1, <2>3 DEF Consoles, at
    <2> QED
      BY <1>1, <1>4, <1>6, <1>9, <2>2, <2>4
  <1> QED
    BY <1>1, <1>8, <1>9, <1>10

(* Positions from which a text is printed at the bottom of the screen. *)
Low == {con \in Consoles : con.eat = 0 /\ con.row \in {Rows, Rows + 1}}

LEMMA PutLow == ASSUME NEW con \in Low, NEW ch \in Printed PROVE putchar(con, ch) \in Low
  <1> DEFINE t == putchar(con, ch)
  <1>1. con \in Consoles /\ con.eat = 0 /\ con.row \in {Rows, Rows + 1}
    BY DEF Low
  <1>2. t = putchar(con, ch)
    OBVIOUS
  <1> HIDE DEF t
  <1>3. /\ t \in Consoles /\ t.eat = 0
        /\ con.col < Cols => t.row = Rows /\ t.col = con.col + 1
        /\ con.col = Cols => t.row = Rows + 1 /\ t.col = 1
    BY <1>1, <1>2, PutLast
  <1>4. con.col < Cols \/ con.col = Cols
    BY <1>1, ScreenNumbers DEF Consoles
  <1> QED
    BY <1>3, <1>4 DEF Low, t

(* Row i of a text, from 0. *)
slice(q, i) == [c \in 1 .. Cols |-> q[i * Cols + c]]

(* A row of characters, printed from the first column of s. *)
RowPut(q, e, s, t) ==
    /\ t \in Low /\ t.row = Rows + 1 /\ t.col = 1
    /\ \A r \in 1 .. Rows - 1 : t.rows[r] = IF s.row = Rows THEN s.rows[r] ELSE s.rows[r + 1]
    /\ \A c \in 1 .. Cols : t.rows[Rows][c] = q[e + c]

LEMMA OneRow ==
    ASSUME NEW q, NEW h, NEW e \in Nat, h[e] \in Low, h[e].col = 1,
           \A c \in 1 .. Cols : q[e + c] \in Printed /\ h[e + c] = putchar(h[e + c - 1], q[e + c])
    PROVE  RowPut(q, e, h[e], h[e + Cols])
  <1> DEFINE up(r) == IF h[e].row = Rows THEN h[e].rows[r] ELSE h[e].rows[r + 1]
             Upper(t) == \A r \in 1 .. Rows - 1 : t.rows[r] = up(r)
             Lower(t, b) == \A c \in 1 .. b : t.rows[Rows][c] = q[e + c]
             Placed(t, b) == /\ b < Cols => t.row = Rows /\ t.col = b + 1
                             /\ b = Cols => t.row = Rows + 1 /\ t.col = 1
             Good(b) == h[e + b] \in Low /\ Upper(h[e + b]) /\ Lower(h[e + b], b) /\ Placed(h[e + b], b)
             S == {b \in 0 .. Cols : b > 0 => Good(b)}
  <1>1. Rows \in Nat /\ Rows > 1 /\ Cols \in Nat /\ Cols > 2
    BY ScreenNumbers
  <1>2. ASSUME NEW b \in 1 .. Cols,
               b > 1 => Good(b - 1)
        PROVE  Good(b)
    <2> DEFINE con == h[e + b - 1]
               ch == q[e + b]
               t == h[e + b]
    <2>1. t = putchar(con, ch) /\ ch \in Printed
      OBVIOUS
    <2>2. con \in Low /\ con.col = b /\ (b > 1 => con.row = Rows)
      <3>1. CASE b = 1
        <4>1. e + b - 1 = e
          BY <3>1
        <4> QED
          BY <3>1, <4>1
      <3>2. CASE b > 1
        <4>1. e + (b - 1) = e + b - 1 /\ b - 1 < Cols /\ (b - 1) + 1 = b
          BY <1>1, <3>2
        <4> HIDE DEF Upper, Lower, up
        <4>2. con \in Low /\ con.row = Rows /\ con.col = (b - 1) + 1
          BY <1>2, <3>2, <4>1
        <4> QED
          BY <4>1, <4>2
      <3> QED
        BY <1>1, <3>1, <3>2
    <2>3. con \in Consoles /\ con.eat = 0 /\ con.row \in {Rows, Rows + 1}
      BY <2>2 DEF Low
    <2> HIDE DEF Upper, Lower, up, Placed, con, ch, t
    <2>4. /\ t \in Consoles /\ t.eat = 0
          /\ con.col < Cols => t.row = Rows /\ t.col = con.col + 1
          /\ con.col = Cols => t.row = Rows + 1 /\ t.col = 1
      BY <2>1, <2>3, PutLast
    <2>5. /\ \A r \in 1 .. Rows - 1 :
                t.rows[r] = IF con.row = Rows THEN con.rows[r] ELSE con.rows[r + 1]
          /\ t.rows[Rows][con.col] = ch
          /\ con.row = Rows => \A c \in 1 .. Cols : c # con.col => t.rows[Rows][c] = con.rows[Rows][c]
      BY <2>1, <2>3, PutLast
    <2>6. t \in Low /\ Placed(t, b)
      BY <1>1, <2>2, <2>4 DEF Low, Placed
    <2>7. Upper(t) /\ Lower(t, b)
      <3>1. CASE b = 1
        <4>1. con = h[e]
          <5>1. e + b - 1 = e
            BY <3>1
          <5> QED
            BY <5>1 DEF con
        <4>2. Upper(t)
          BY <2>5, <4>1, Zenon DEF Upper, up
        <4>3. Lower(t, b)
          BY <2>2, <2>5, <3>1 DEF Lower, ch
        <4> QED
          BY <4>2, <4>3
      <3>2. CASE b > 1
        <4>1. e + (b - 1) = e + b - 1
          BY <1>1, <3>2
        <4>2. Upper(con) /\ Lower(con, b - 1) /\ con.row = Rows
          BY <1>2, <2>2, <3>2, <4>1 DEF con
        <4>3. Upper(t)
          BY <2>5, <4>2, Zenon DEF Upper
        <4>4. ASSUME NEW c \in 1 .. b PROVE t.rows[Rows][c] = q[e + c]
          <5>1. CASE c = b
            BY <2>2, <2>5, <5>1 DEF ch
          <5>2. CASE c # b
            <6>1. c \in 1 .. b - 1 /\ c \in 1 .. Cols /\ c # con.col
              BY <1>1, <2>2, <5>2
            <6>2. con.rows[Rows][c] = q[e + c]
              BY <4>2, <6>1, Zenon DEF Lower
            <6> QED
              BY <2>5, <4>2, <6>1, <6>2, Zenon
          <5> QED
            BY <5>1, <5>2
        <4>5. Lower(t, b)
          BY <4>4, Zenon DEF Lower
        <4> QED
          BY <4>3, <4>5
      <3> QED
        BY <1>1, <3>1, <3>2
    <2> QED
      BY <2>6, <2>7, Zenon DEF t
  <1>3. Good(Cols)
    <2> HIDE DEF Good
    <2>1. 0 \in S
      BY <1>1
    <2>2. ASSUME NEW b \in 1 .. Cols, b - 1 \in S PROVE b \in S
      <3>1. b > 1 => Good(b - 1)
        BY <1>1, <2>2
      <3> QED
        BY <1>1, <1>2, <3>1
    <2>3. \A b \in 0 .. Cols : b \in S
      <3> HIDE DEF S
      <3> QED
        BY <1>1, <2>1, <2>2, UpTo
    <2> QED
      BY <1>1, <2>3
  <1>4. Cols = Cols /\ ~(Cols < Cols)
    BY <1>1
  <1> QED
    BY <1>3, <1>4, Zenon DEF RowPut

(* What printing a text computes: h[k] after k characters. *)
PrintRun(h, S, b, q, n) ==
    /\ h \in [0 .. n -> S] /\ h[0] = b /\ FoldLeft(putchar, b, q) = h[n]
    /\ \A k \in 1 .. n : h[k] = putchar(h[k - 1], q[k])

LEMMA PrintLoop ==
    ASSUME NEW S, NEW b \in S, NEW n \in Nat, NEW q, DOMAIN q = 1 .. n,
           \A x \in S : \A k \in 1 .. n : putchar(x, q[k]) \in S
    PROVE  \E h : PrintRun(h, S, b, q, n)
  <1> DEFINE F == [k \in 1 .. n |-> [x \in S |-> putchar(x, q[k])]]
             Loop(g) == g = [s \in SUBSET (DOMAIN q) |->
                               IF s = {} THEN b ELSE putchar(g[s \ {Max(s)}], q[Max(s)])]
             g == CHOOSE g : Loop(g)
  <1>1. FoldLeft(putchar, b, q) = g[DOMAIN q]
    BY Zenon DEF FoldLeft, MapThenFoldSet
  <1>2. F \in [1 .. n -> [S -> S]]
    OBVIOUS
  <1>3. \E f : f \in [SUBSET (1 .. n) -> S] /\ FoldsTo(f, b, F, n)
    <2> HIDE DEF F
    <2> QED
      BY <1>2, FoldExists
  <1>4. \E f : Loop(f)
    <2>1. PICK f : f \in [SUBSET (1 .. n) -> S] /\ FoldsTo(f, b, F, n)
      BY <1>3, Zenon
    <2> DEFINE R(s) == IF s = {} THEN b ELSE putchar(f[s \ {Max(s)}], q[Max(s)])
    <2>2. ASSUME NEW s \in SUBSET (1 .. n) PROVE f[s] = R(s)
      <3>1. f[s] = IF s = {} THEN b ELSE F[Max(s)][f[s \ {Max(s)}]]
        <4> HIDE DEF F
        <4> QED
          BY <2>1 DEF FoldsTo
      <3>2. CASE s # {}
        <4>1. Max(s) \in 1 .. n
          BY <3>2, MaxIn
        <4>2. f[s \ {Max(s)}] \in S
          <5>1. s \ {Max(s)} \in SUBSET (1 .. n)
            OBVIOUS
          <5> QED
            BY <2>1, <5>1
        <4>3. F[Max(s)][f[s \ {Max(s)}]] = putchar(f[s \ {Max(s)}], q[Max(s)])
          BY <4>1, <4>2
        <4> HIDE DEF F
        <4> QED
          BY <3>1, <3>2, <4>3, Zenon
      <3>3. CASE s = {}
        BY <3>1, <3>3, Zenon
      <3> QED
        BY <3>2, <3>3
    <2>3. f = [s \in SUBSET (1 .. n) |-> R(s)]
      <3> HIDE DEF R
      <3>1. f = [s \in SUBSET (1 .. n) |-> f[s]]
        BY <2>1
      <3> QED
        BY <2>2, <3>1
    <2>4. Loop(f)
      <3>1. f = [s \in SUBSET (DOMAIN q) |-> R(s)]
        BY <2>3, Zenon
      <3> QED
        BY <3>1, Zenon
    <2> HIDE DEF Loop
    <2> QED
      BY <2>4
  <1>5. Loop(g)
    BY <1>4, Zenon
  <1> HIDE DEF g, F
  <1> DEFINE R(s) == IF s = {} THEN b ELSE putchar(g[s \ {Max(s)}], q[Max(s)])
             h == [k \in 0 .. n |-> g[1 .. k]]
  <1>6. \A s \in SUBSET (1 .. n) : g[s] = R(s)
    <2>1. g = [s \in SUBSET (1 .. n) |-> R(s)]
      BY <1>5, Zenon
    <2> HIDE DEF R
    <2> QED
      BY <2>1, Zenon
  <1>7. h[0] = b
    <2>1. 1 .. 0 = {} /\ {} \in SUBSET (1 .. n) /\ h[0] = g[1 .. 0]
      OBVIOUS
    <2>2. g[{}] = R({})
      <3> HIDE DEF R
      <3> QED
        BY <1>6, <2>1, Zenon
    <2> QED
      BY <2>1, <2>2, Zenon
  <1>8. ASSUME NEW k \in 1 .. n PROVE h[k] = putchar(h[k - 1], q[k])
    <2>0. k - 1 \in 0 .. n /\ k \in 0 .. n /\ k \in 1 .. k
      OBVIOUS
    <2>1. 1 .. k \in SUBSET (1 .. n) /\ 1 .. k # {} /\ h[k - 1] = g[1 .. k - 1] /\ h[k] = g[1 .. k]
      <3>1. 1 .. k \in SUBSET (1 .. n) /\ 1 .. k # {}
        BY StartOf
      <3>2. h[k - 1] = g[1 .. k - 1] /\ h[k] = g[1 .. k]
        BY <2>0, Zenon
      <3> QED
        BY <3>1, <3>2, Zenon
    <2>2. Max(1 .. k) = k /\ (1 .. k) \ {k} = 1 .. k - 1
      BY MaxInterval
    <2>3. g[1 .. k] = R(1 .. k)
      <3> HIDE DEF R
      <3> QED
        BY <1>6, <2>1, Zenon
    <2>4. R(1 .. k) = putchar(g[1 .. k - 1], q[k])
      BY <2>1, <2>2, Zenon
    <2> QED
      BY <2>1, <2>3, <2>4, Zenon
  <1>9. FoldLeft(putchar, b, q) = h[n]
    <2>1. h[n] = g[1 .. n]
      OBVIOUS
    <2> QED
      BY <1>1, <2>1, Zenon
  <1>10. DOMAIN h = 0 .. n
    OBVIOUS
  <1>11. h \in [0 .. n -> S]
    <2> HIDE DEF h
    <2> DEFINE Good == {k \in 0 .. n : h[k] \in S}
    <2>1. 0 \in Good /\ \A k \in 1 .. n : k - 1 \in Good => k \in Good
      BY <1>7, <1>8
    <2>2. \A k \in 0 .. n : k \in Good
      <3> HIDE DEF Good
      <3> QED
        BY <2>1, UpTo
    <2>3. \A k \in 0 .. n : h[k] \in S
      BY <2>2
    <2>4. h = [k \in 0 .. n |-> h[k]]
      BY DEF h
    <2> QED
      BY <2>3, <2>4
  <1> HIDE DEF h
  <1> QED
    BY <1>7, <1>8, <1>9, <1>11, Zenon DEF PrintRun

(* What a text of n rows leaves on the screen. *)
Pushed(con, q, n, t) ==
    /\ t \in Low /\ t.row = Rows + 1 /\ t.col = 1
    /\ \A r \in 1 .. Rows : t.rows[r] = IF r + n - 1 < Rows THEN con.rows[r + n - 1]
                                                          ELSE slice(q, (r + n - 1) - Rows)

LEMMA RowsOf ==
    ASSUME NEW n \in Nat, NEW a \in 0 .. n - 1
    PROVE  /\ a * Cols \in Nat /\ a * Cols + Cols = (a + 1) * Cols
           /\ \A c \in 1 .. Cols : a * Cols + c \in 1 .. n * Cols
  <1>1. Cols \in Nat
    BY ScreenNumbers
  <1>2. PICK d \in Nat : n = (a + 1) + d
    <2>1. n - (a + 1) \in Nat /\ n = (a + 1) + (n - (a + 1))
      OBVIOUS
    <2> QED
      BY <2>1
  <1>3. a * Cols \in Nat /\ d * Cols \in Nat /\ a * Cols + Cols = (a + 1) * Cols
    BY <1>1
  <1>4. n * Cols = (a + 1) * Cols + d * Cols
    BY <1>1, <1>2
  <1> QED
    BY <1>1, <1>3, <1>4

LEMMA PrintRows ==
    ASSUME NEW con \in Low, con.row = Rows, con.col = 1, NEW n \in Nat \ {0},
           NEW q \in Seq(Printed), Len(q) = n * Cols
    PROVE  Pushed(con, q, n, puts_raw(con, q))
  <1> DEFINE N == n * Cols
  <1>1. Rows \in Nat /\ Rows > 1 /\ Cols \in Nat /\ Cols > 2
    BY ScreenNumbers
  <1>2. N \in Nat /\ DOMAIN q = 1 .. N /\ \A k \in 1 .. N : q[k] \in Printed
    BY <1>1
  <1> HIDE DEF N
  <1>3. \A x \in Low : \A k \in 1 .. N : putchar(x, q[k]) \in Low
    BY <1>2, PutLow
  <1>4. PICK h : PrintRun(h, Low, con, q, N)
    BY <1>2, <1>3, PrintLoop
  <1>5. /\ h \in [0 .. N -> Low] /\ h[0] = con /\ FoldLeft(putchar, con, q) = h[N]
        /\ \A k \in 1 .. N : h[k] = putchar(h[k - 1], q[k])
    BY <1>4, Zenon DEF PrintRun
  <1>6. puts_raw(con, q) = h[N]
    BY <1>5, Zenon DEF puts_raw
  <1> DEFINE S == {a \in 0 .. n : a > 0 => Pushed(con, q, a, h[a * Cols])}
  <1>7. 0 \in S
    OBVIOUS
  <1>8. ASSUME NEW a \in 1 .. n, a - 1 \in S PROVE a \in S
    <2> DEFINE e == (a - 1) * Cols
    <2>1. a - 1 \in 0 .. n - 1 /\ (a - 1) + 1 = a /\ n \in Nat
      OBVIOUS
    <2>2. e \in Nat /\ e + Cols = a * Cols /\ \A c \in 1 .. Cols : e + c \in 1 .. N
      BY <2>1, RowsOf DEF N
    <2>3. e \in 0 .. N
      BY <1>1, <1>2, <2>2
    <2>4. h[e] \in Low
      BY <1>5, <2>3
    <2>5. h[e].col = 1 /\ (a = 1 => h[e] = con) /\ (a > 1 => Pushed(con, q, a - 1, h[e]))
      <3>1. CASE a = 1
        <4>1. e = 0
          BY <1>1, <3>1
        <4> QED
          BY <1>5, <3>1, <4>1
      <3>2. CASE a > 1
        <4>1. Pushed(con, q, a - 1, h[e])
          BY <1>8, <3>2
        <4> QED
          BY <3>2, <4>1 DEF Pushed
      <3> QED
        BY <3>1, <3>2
    <2> HIDE DEF e
    <2>6. \A c \in 1 .. Cols : q[e + c] \in Printed /\ h[e + c] = putchar(h[e + c - 1], q[e + c])
      BY <1>2, <1>5, <2>2
    <2> DEFINE t == h[e + Cols]
    <2>7. /\ t \in Low /\ t.row = Rows + 1 /\ t.col = 1
          /\ \A r \in 1 .. Rows - 1 : t.rows[r] = IF h[e].row = Rows THEN h[e].rows[r] ELSE h[e].rows[r + 1]
          /\ \A c \in 1 .. Cols : t.rows[Rows][c] = q[e + c]
      <3>1. RowPut(q, e, h[e], t)
        BY <2>2, <2>4, <2>5, <2>6, OneRow
      <3> QED
        BY <3>1, Zenon DEF RowPut
    <2> HIDE DEF t
    <2>8. t.rows[Rows] = slice(q, a - 1)
      <3>1. t.rows[Rows] \in [1 .. Cols -> Chars]
        BY <1>1, <2>7 DEF Low, Consoles, Row
      <3>2. \A c \in 1 .. Cols : t.rows[Rows][c] = q[(a - 1) * Cols + c]
        BY <2>7 DEF e
      <3> QED
        BY <3>1, <3>2 DEF slice
    <2>9. ASSUME NEW r \in 1 .. Rows
          PROVE  t.rows[r] = IF r + a - 1 < Rows THEN con.rows[r + a - 1] ELSE slice(q, (r + a - 1) - Rows)
      <3>1. CASE r = Rows
        <4>1. ~(r + a - 1 < Rows) /\ (r + a - 1) - Rows = a - 1
          BY <1>1, <3>1
        <4> QED
          BY <2>8, <3>1, <4>1
      <3>2. CASE r # Rows /\ a = 1
        <4>1. r \in 1 .. Rows - 1 /\ r + a - 1 = r /\ r < Rows /\ h[e].row = Rows
          BY <1>1, <2>5, <3>2
        <4> QED
          BY <2>5, <2>7, <3>2, <4>1
      <3>3. CASE r # Rows /\ a > 1
        <4>1. /\ r \in 1 .. Rows - 1 /\ r + 1 \in 1 .. Rows /\ (r + 1) + (a - 1) - 1 = r + a - 1
          BY <1>1, <3>3
        <4>2. h[e].row = Rows + 1 /\ h[e].row # Rows
          BY <1>1, <2>5, <3>3 DEF Pushed
        <4>3. t.rows[r] = h[e].rows[r + 1]
          BY <2>7, <4>1, <4>2
        <4> DEFINE x == r + 1
                   y == x + (a - 1) - 1
        <4>4. x \in 1 .. Rows /\ y = r + a - 1
          BY <4>1
        <4>5. h[e].rows[x] = IF y < Rows THEN con.rows[y] ELSE slice(q, y - Rows)
          <5>1. \A z \in 1 .. Rows :
                   h[e].rows[z] = IF z + (a - 1) - 1 < Rows THEN con.rows[z + (a - 1) - 1]
                                                          ELSE slice(q, (z + (a - 1) - 1) - Rows)
            BY <2>5, <3>3, Zenon DEF Pushed
          <5> HIDE DEF x
          <5> QED
            BY <4>4, <5>1, Zenon
        <4>6. t.rows[r] = IF y < Rows THEN con.rows[y] ELSE slice(q, y - Rows)
          BY <4>3, <4>5, Zenon
        <4> HIDE DEF y
        <4>7. CASE y < Rows
          BY <4>4, <4>6, <4>7
        <4>8. CASE ~(y < Rows)
          BY <4>4, <4>6, <4>8
        <4> QED
          BY <4>7, <4>8, Zenon
      <3> QED
        BY <3>1, <3>2, <3>3
    <2>10. Pushed(con, q, a, t)
      BY <2>7, <2>9, Zenon DEF Pushed
    <2>11. t = h[a * Cols]
      BY <2>2 DEF t
    <2> QED
      BY <2>10, <2>11
  <1>9. n \in S
    <2> HIDE DEF S
    <2>1. n \in Nat /\ n \in 0 .. n
      OBVIOUS
    <2>2. \A a \in 0 .. n : a \in S
      BY <1>7, <1>8, <2>1, UpTo
    <2> QED
      BY <2>1, <2>2
  <1>10. n > 0
    OBVIOUS
  <1> QED
    BY <1>6, <1>9, <1>10 DEF N

-----------------------------------------------------------------------------
(* The input line *)

(* The last n characters of l between the prompt and the cursor. *)
Shown(l, n) == [c \in 1 .. Cols |-> CASE c = 1 -> ">"
                                     [] c \in 2 .. n + 1 -> l[Len(l) - n + c - 1]
                                     [] c = n + 2 -> CURSOR
                                     [] OTHER -> SPACE]

InputText(l, n) ==
    <<">">> \o SubSeq(l, Len(l) - n + 1, Len(l)) \o <<CURSOR>> \o blanks(INPUT_VIEW - n)

LEMMA InputRow ==
    ASSUME NEW l \in Seq(Printed), NEW n \in 0 .. Len(l), n <= INPUT_VIEW
    PROVE  /\ InputText(l, n) \in Seq(Printed) /\ Len(InputText(l, n)) = 1 * Cols
           /\ slice(InputText(l, n), 0) = Shown(l, n)
  <1> DEFINE L == Len(l)
             tail == SubSeq(l, L - n + 1, L)
             u == <<">">> \o tail
             v == u \o <<CURSOR>>
             b == blanks(INPUT_VIEW - n)
             w == v \o b
  <1>1. Cols \in Nat /\ Cols > 2 /\ L \in Nat /\ INPUT_VIEW = Cols - 2 /\ INPUT_VIEW - n \in Nat
    BY ScreenNumbers DEF INPUT_VIEW
  <1>2. CURSOR \in Printed /\ ">" \in Printed /\ SPACE \in Printed
    BY Marks
  <1>3. /\ tail \in Seq(Printed) /\ Len(tail) = n
        /\ \A k \in 1 .. n : tail[k] = l[L - n + k]
    BY <1>1
  <1>4. b \in Seq(Printed) /\ Len(b) = INPUT_VIEW - n /\ \A k \in 1 .. INPUT_VIEW - n : b[k] = SPACE
    BY <1>1, Blanks
  <1> HIDE DEF L, tail, b
  <1>5. /\ u \in Seq(Printed) /\ Len(u) = n + 1 /\ u[1] = ">"
        /\ \A k \in 2 .. n + 1 : u[k] = tail[k - 1]
    BY <1>1, <1>2, <1>3
  <1> HIDE DEF u
  <1>6. /\ v \in Seq(Printed) /\ Len(v) = n + 2 /\ v[n + 2] = CURSOR
        /\ \A k \in 1 .. n + 1 : v[k] = u[k]
    BY <1>1, <1>2, <1>5
  <1> HIDE DEF v
  <1>7. /\ w \in Seq(Printed) /\ Len(w) = Cols
        /\ \A k \in 1 .. n + 2 : w[k] = v[k]
        /\ \A k \in n + 3 .. Cols : w[k] = SPACE
    <2>1. w \in Seq(Printed) /\ Len(w) = Cols
      BY <1>1, <1>4, <1>6
    <2>2. \A k \in 1 .. n + 2 : w[k] = v[k]
      BY <1>1, <1>4, <1>6
    <2>3. ASSUME NEW k \in n + 3 .. Cols PROVE w[k] = SPACE
      <3>1. k - (n + 2) \in 1 .. INPUT_VIEW - n /\ k \in Len(v) + 1 .. Len(v) + Len(b)
        BY <1>1, <1>4, <1>6
      <3>2. w[k] = b[k - (n + 2)]
        BY <1>1, <1>4, <1>6, <3>1
      <3> QED
        BY <1>4, <3>1, <3>2
    <2> QED
      BY <2>1, <2>2, <2>3
  <1> HIDE DEF w
  <1>8. InputText(l, n) = w
    BY Zenon DEF InputText, w, v, u, b, tail, L
  <1>9. ASSUME NEW c \in 1 .. Cols PROVE slice(w, 0)[c] = Shown(l, n)[c]
    <2>1. slice(w, 0)[c] = w[c]
      <3>1. slice(w, 0)[c] = w[0 * Cols + c]
        BY DEF slice
      <3>2. 0 * Cols + c = c
        BY <1>1
      <3> QED
        BY <3>1, <3>2
    <2>2. Shown(l, n)[c] = CASE c = 1 -> ">"
                              [] c \in 2 .. n + 1 -> l[L - n + c - 1]
                              [] c = n + 2 -> CURSOR
                              [] OTHER -> SPACE
      BY Zenon DEF Shown, L
    <2>3. CASE c = 1
      <3>1. w[c] = ">"
        BY <1>1, <1>5, <1>6, <1>7, <2>3
      <3>2. ~(c \in 2 .. n + 1) /\ c # n + 2
        BY <1>1, <2>3
      <3> QED
        BY <2>1, <2>2, <2>3, <3>1, <3>2, Zenon
    <2>4. CASE c \in 2 .. n + 1
      <3>1. w[c] = l[L - n + c - 1]
        <4>1. w[c] = tail[c - 1] /\ c - 1 \in 1 .. n
          BY <1>1, <1>5, <1>6, <1>7, <2>4
        <4>2. tail[c - 1] = l[L - n + (c - 1)]
          BY <1>3, <4>1
        <4>3. L - n + (c - 1) = L - n + c - 1
          BY <1>1, <2>4
        <4> QED
          BY <4>1, <4>2, <4>3
      <3>2. c # 1 /\ c # n + 2
        BY <1>1, <2>4
      <3> QED
        BY <2>1, <2>2, <2>4, <3>1, <3>2, Zenon
    <2>5. CASE c = n + 2
      <3>1. w[c] = CURSOR
        BY <1>1, <1>6, <1>7, <2>5
      <3>2. c # 1 /\ ~(c \in 2 .. n + 1)
        BY <1>1, <2>5
      <3> QED
        BY <2>1, <2>2, <2>5, <3>1, <3>2, Zenon
    <2>6. CASE c \in n + 3 .. Cols
      <3>1. w[c] = SPACE
        BY <1>7, <2>6
      <3>2. c # 1 /\ ~(c \in 2 .. n + 1) /\ c # n + 2
        BY <1>1, <2>6
      <3> QED
        BY <2>1, <2>2, <2>6, <3>1, <3>2, Zenon
    <2>7. c = 1 \/ c \in 2 .. n + 1 \/ c = n + 2 \/ c \in n + 3 .. Cols
      BY <1>1
    <2> QED
      BY <2>3, <2>4, <2>5, <2>6, <2>7
  <1>10. slice(w, 0) = Shown(l, n)
    <2> DEFINE x == slice(w, 0)
               y == Shown(l, n)
    <2>1. DOMAIN x = 1 .. Cols /\ x = [c \in 1 .. Cols |-> x[c]]
      BY DEF slice
    <2>2. DOMAIN y = 1 .. Cols /\ y = [c \in 1 .. Cols |-> y[c]]
      <3> DEFINE g(c) == CASE c = 1 -> ">"
                           [] c \in 2 .. n + 1 -> l[Len(l) - n + c - 1]
                           [] c = n + 2 -> CURSOR
                           [] OTHER -> SPACE
      <3>1. y = [c \in 1 .. Cols |-> g(c)]
        BY Zenon DEF Shown
      <3> HIDE DEF g, y
      <3> QED
        BY <3>1
    <2> HIDE DEF x, y
    <2>3. \A c \in 1 .. Cols : x[c] = y[c]
      BY <1>9 DEF x, y
    <2>4. x = y
      BY <2>1, <2>2, <2>3
    <2> QED
      BY <2>4 DEF x, y
  <1>11. Len(w) = 1 * Cols
    BY <1>1, <1>7
  <1> QED
    BY <1>7, <1>8, <1>10, <1>11, Zenon

(* What drawing the input line leaves on the screen. *)
Drawn(con, l, t) ==
    /\ t \in Consoles /\ t.eat = 0 /\ t.row = Rows /\ t.col = 1
    /\ \A r \in 1 .. Rows - 1 : t.rows[r] = con.rows[r]
    /\ t.rows[Rows] = Shown(l, Min({Len(l), INPUT_VIEW}))

LEMMA AtRow ==
    ASSUME NEW con \in Consoles
    PROVE  /\ at(con, Rows, 1) \in Consoles /\ at(con, Rows, 1).rows = con.rows
           /\ at(con, Rows, 1).row = Rows /\ at(con, Rows, 1).col = 1 /\ at(con, Rows, 1).eat = con.eat
  <1>1. Rows \in 1 .. Rows + 1 /\ 1 \in 1 .. Cols
    BY ScreenNumbers
  <1> QED
    BY <1>1 DEF at, Consoles

LEMMA DrawInput ==
    ASSUME NEW con \in Consoles, con.eat = 0, NEW l \in Seq(Printed)
    PROVE  Drawn(con, l, draw_input(con, l))
  <1> DEFINE n == Min({Len(l), INPUT_VIEW})
             q == InputText(l, n)
             c == at(con, Rows, 1)
             t == puts_raw(c, q)
  <1>1. Rows \in Nat /\ Rows > 1 /\ Cols \in Nat /\ Cols > 2
    BY ScreenNumbers
  <1>2. n \in 0 .. Len(l) /\ n <= INPUT_VIEW
    <2>1. Len(l) \in Nat /\ INPUT_VIEW \in Nat
      BY <1>1 DEF INPUT_VIEW
    <2>2. n = Min({Len(l), INPUT_VIEW})
      OBVIOUS
    <2> HIDE DEF n
    <2> QED
      BY <2>1, <2>2, MinOf
  <1>3. draw_input(con, l) = at(t, Rows, 1)
    BY Zenon DEF draw_input, InputText, INPUT_ROW
  <1> HIDE DEF n
  <1>4. q \in Seq(Printed) /\ Len(q) = 1 * Cols /\ slice(q, 0) = Shown(l, n)
    BY <1>2, InputRow
  <1>5. c \in Low /\ c.row = Rows /\ c.col = 1 /\ c.rows = con.rows
    BY AtRow DEF Low
  <1> HIDE DEF q, c
  <1>6. Pushed(c, q, 1, t)
    <2>1. 1 \in Nat \ {0}
      OBVIOUS
    <2> QED
      BY <1>4, <1>5, <2>1, PrintRows
  <1> HIDE DEF t
  <1>7. t \in Consoles /\ t.eat = 0
    BY <1>6 DEF Pushed, Low
  <1>8. ASSUME NEW r \in 1 .. Rows - 1 PROVE t.rows[r] = con.rows[r]
    <2>1. r \in 1 .. Rows /\ r + 1 - 1 = r /\ r + 1 - 1 < Rows
      BY <1>1
    <2>2. t.rows[r] = c.rows[r + 1 - 1]
      BY <1>6, <2>1, Zenon DEF Pushed
    <2> QED
      BY <1>5, <2>1, <2>2
  <1>9. t.rows[Rows] = Shown(l, n)
    <2>1. Rows \in 1 .. Rows /\ (Rows + 1 - 1) - Rows = 0 /\ ~(Rows + 1 - 1 < Rows)
      BY <1>1
    <2>2. t.rows[Rows] = slice(q, (Rows + 1 - 1) - Rows)
      BY <1>6, <2>1, Zenon DEF Pushed
    <2> QED
      BY <1>4, <2>1, <2>2
  <1> DEFINE d == at(t, Rows, 1)
  <1>10. d \in Consoles /\ d.rows = t.rows /\ d.row = Rows /\ d.col = 1 /\ d.eat = 0
    BY <1>7, AtRow
  <1> HIDE DEF d
  <1>11. Drawn(con, l, d)
    BY <1>8, <1>9, <1>10, Zenon DEF Drawn, n
  <1> QED
    BY <1>3, <1>11 DEF d
-----------------------------------------------------------------------------
(* The log *)

(* What emitting a text computes: h[k] after k characters. *)
EmitRun(h, S, b, q, n) ==
    /\ h \in [0 .. n -> S] /\ h[0] = b /\ FoldLeft(emit, b, q) = h[n]
    /\ \A k \in 1 .. n : h[k] = emit(h[k - 1], q[k])

LEMMA EmitLoop ==
    ASSUME NEW S, NEW b \in S, NEW n \in Nat, NEW q, DOMAIN q = 1 .. n,
           \A x \in S : \A k \in 1 .. n : emit(x, q[k]) \in S
    PROVE  \E h : EmitRun(h, S, b, q, n)
  <1> DEFINE F == [k \in 1 .. n |-> [x \in S |-> emit(x, q[k])]]
             Loop(g) == g = [s \in SUBSET (DOMAIN q) |->
                               IF s = {} THEN b ELSE emit(g[s \ {Max(s)}], q[Max(s)])]
             g == CHOOSE g : Loop(g)
  <1>1. FoldLeft(emit, b, q) = g[DOMAIN q]
    BY Zenon DEF FoldLeft, MapThenFoldSet
  <1>2. F \in [1 .. n -> [S -> S]]
    OBVIOUS
  <1>3. \E f : f \in [SUBSET (1 .. n) -> S] /\ FoldsTo(f, b, F, n)
    <2> HIDE DEF F
    <2> QED
      BY <1>2, FoldExists
  <1>4. \E f : Loop(f)
    <2>1. PICK f : f \in [SUBSET (1 .. n) -> S] /\ FoldsTo(f, b, F, n)
      BY <1>3, Zenon
    <2> DEFINE R(s) == IF s = {} THEN b ELSE emit(f[s \ {Max(s)}], q[Max(s)])
    <2>2. ASSUME NEW s \in SUBSET (1 .. n) PROVE f[s] = R(s)
      <3>1. f[s] = IF s = {} THEN b ELSE F[Max(s)][f[s \ {Max(s)}]]
        <4> HIDE DEF F
        <4> QED
          BY <2>1 DEF FoldsTo
      <3>2. CASE s # {}
        <4>1. Max(s) \in 1 .. n
          BY <3>2, MaxIn
        <4>2. f[s \ {Max(s)}] \in S
          <5>1. s \ {Max(s)} \in SUBSET (1 .. n)
            OBVIOUS
          <5> QED
            BY <2>1, <5>1
        <4>3. F[Max(s)][f[s \ {Max(s)}]] = emit(f[s \ {Max(s)}], q[Max(s)])
          BY <4>1, <4>2
        <4> HIDE DEF F
        <4> QED
          BY <3>1, <3>2, <4>3, Zenon
      <3>3. CASE s = {}
        BY <3>1, <3>3, Zenon
      <3> QED
        BY <3>2, <3>3
    <2>3. f = [s \in SUBSET (1 .. n) |-> R(s)]
      <3> HIDE DEF R
      <3>1. f = [s \in SUBSET (1 .. n) |-> f[s]]
        BY <2>1
      <3> QED
        BY <2>2, <3>1
    <2>4. Loop(f)
      <3>1. f = [s \in SUBSET (DOMAIN q) |-> R(s)]
        BY <2>3, Zenon
      <3> QED
        BY <3>1, Zenon
    <2> HIDE DEF Loop
    <2> QED
      BY <2>4
  <1>5. Loop(g)
    BY <1>4, Zenon
  <1> HIDE DEF g, F
  <1> DEFINE R(s) == IF s = {} THEN b ELSE emit(g[s \ {Max(s)}], q[Max(s)])
             h == [k \in 0 .. n |-> g[1 .. k]]
  <1>6. \A s \in SUBSET (1 .. n) : g[s] = R(s)
    <2>1. g = [s \in SUBSET (1 .. n) |-> R(s)]
      BY <1>5, Zenon
    <2> HIDE DEF R
    <2> QED
      BY <2>1, Zenon
  <1>7. h[0] = b
    <2>1. 1 .. 0 = {} /\ {} \in SUBSET (1 .. n) /\ h[0] = g[1 .. 0]
      OBVIOUS
    <2>2. g[{}] = R({})
      <3> HIDE DEF R
      <3> QED
        BY <1>6, <2>1, Zenon
    <2> QED
      BY <2>1, <2>2, Zenon
  <1>8. ASSUME NEW k \in 1 .. n PROVE h[k] = emit(h[k - 1], q[k])
    <2>0. k - 1 \in 0 .. n /\ k \in 0 .. n /\ k \in 1 .. k
      OBVIOUS
    <2>1. 1 .. k \in SUBSET (1 .. n) /\ 1 .. k # {} /\ h[k - 1] = g[1 .. k - 1] /\ h[k] = g[1 .. k]
      <3>1. 1 .. k \in SUBSET (1 .. n) /\ 1 .. k # {}
        BY StartOf
      <3>2. h[k - 1] = g[1 .. k - 1] /\ h[k] = g[1 .. k]
        BY <2>0, Zenon
      <3> QED
        BY <3>1, <3>2, Zenon
    <2>2. Max(1 .. k) = k /\ (1 .. k) \ {k} = 1 .. k - 1
      BY MaxInterval
    <2>3. g[1 .. k] = R(1 .. k)
      <3> HIDE DEF R
      <3> QED
        BY <1>6, <2>1, Zenon
    <2>4. R(1 .. k) = emit(g[1 .. k - 1], q[k])
      BY <2>1, <2>2, Zenon
    <2> QED
      BY <2>1, <2>3, <2>4, Zenon
  <1>9. FoldLeft(emit, b, q) = h[n]
    <2>1. h[n] = g[1 .. n]
      OBVIOUS
    <2> QED
      BY <1>1, <2>1, Zenon
  <1>10. DOMAIN h = 0 .. n
    OBVIOUS
  <1>11. h \in [0 .. n -> S]
    <2> HIDE DEF h
    <2> DEFINE Good == {k \in 0 .. n : h[k] \in S}
    <2>1. 0 \in Good /\ \A k \in 1 .. n : k - 1 \in Good => k \in Good
      BY <1>7, <1>8
    <2>2. \A k \in 0 .. n : k \in Good
      <3> HIDE DEF Good
      <3> QED
        BY <2>1, UpTo
    <2>3. \A k \in 0 .. n : h[k] \in S
      BY <2>2
    <2>4. h = [k \in 0 .. n |-> h[k]]
      BY DEF h
    <2> QED
      BY <2>3, <2>4
  <1> HIDE DEF h
  <1> QED
    BY <1>7, <1>8, <1>9, <1>11, Zenon DEF EmitRun

LEMMA PrintableType == ASSUME NEW s \in Seq(Chars) PROVE printable(s) \in Seq(Printed)
  <1> DEFINE U == Seq(Printed)
             n == Len(s)
  <1>1. n \in Nat /\ DOMAIN s = 1 .. n /\ <<>> \in U
    OBVIOUS
  <1>2. ASSUME NEW t \in U, NEW k \in 1 .. n PROVE emit(t, s[k]) \in U
    <2> DEFINE x == IF s[k] = "tab" THEN SPACE ELSE s[k]
    <2>1. s[k] \in Chars
      OBVIOUS
    <2>2. CASE s[k] = "ctl"
      BY <2>2 DEF emit
    <2>3. CASE s[k] # "ctl"
      <3>1. x \in Printed
        BY <2>1, <2>3, Marks DEF Printed
      <3>2. emit(t, s[k]) = Append(t, x)
        BY <2>3, Zenon DEF emit
      <3> HIDE DEF x
      <3> QED
        BY <3>1, <3>2
    <2> QED
      BY <2>2, <2>3
  <1> HIDE DEF U, n
  <1>3. PICK h : EmitRun(h, U, <<>>, s, n)
    BY <1>1, <1>2, EmitLoop
  <1>4. h \in [0 .. n -> U] /\ printable(s) = h[n]
    BY <1>3, Zenon DEF EmitRun, printable
  <1>5. n \in 0 .. n
    BY <1>1
  <1> QED
    BY <1>4, <1>5 DEF U

(* The padding fills the last row of the text. *)
RowCount(n) == Max({1, (n + Cols - 1) \div Cols})

LEMMA Padded ==
    ASSUME NEW L \in Nat
    PROVE  /\ RowCount(L) \in Nat \ {0} /\ padding(L) \in Nat
           /\ L + padding(L) = RowCount(L) * Cols
  <1>1. Cols \in Nat /\ Cols > 2 /\ Cols \in Nat \ {0}
    BY ScreenNumbers
  <1>2. PICK k \in Nat : L = Cols * k + (L % Cols)
    BY <1>1, Remainder
  <1> DEFINE r == L % Cols
  <1>3. r \in 0 .. Cols - 1
    BY <1>1, Remainder
  <1>4. L = Cols * k + r /\ Cols * k \in Nat
    BY <1>1, <1>2
  <1>5. padding(L) = IF L = 0 THEN Cols ELSE (Cols - r) % Cols
    BY DEF padding
  <1> HIDE DEF r
  <1> DEFINE x == L + Cols - 1
             d == x \div Cols
  <1>6. x \in Nat
    BY <1>1
  <1>7. RowCount(L) = Max({1, d})
    BY DEF RowCount
  <1>8. CASE r = 0
    <2>1. x = Cols * k + (Cols - 1) /\ Cols - 1 \in 0 .. Cols - 1
      BY <1>1, <1>4, <1>8
    <2>2. d = k
      <3> HIDE DEF x
      <3> QED
        BY <1>1, <1>6, <2>1, QuotientIs
    <2> HIDE DEF d
    <2>3. RowCount(L) = IF 1 < k THEN k ELSE 1
      <3>1. 1 \in Nat
        OBVIOUS
      <3> QED
        BY <1>7, <2>2, <3>1, MaxOf, Zenon
    <2>4. CASE k = 0
      <3>1. L = 0 /\ RowCount(L) = 1 /\ padding(L) = Cols
        BY <1>1, <1>4, <1>5, <1>8, <2>3, <2>4
      <3> QED
        BY <1>1, <3>1
    <2>5. CASE k > 0
      <3>1. L = Cols * k /\ L # 0
        <4>1. Cols * k # 0
          BY <1>1, <2>5
        <4> QED
          BY <1>4, <1>8, <4>1
      <3>2. (Cols - r) % Cols = 0
        <4>1. Cols - r = Cols * 1 + 0 /\ 1 \in Nat /\ 0 \in 0 .. Cols - 1 /\ Cols - r \in Nat
          BY <1>1, <1>8
        <4> DEFINE z == Cols - r
        <4> HIDE DEF z
        <4>2. z \in Nat /\ z = Cols * 1 + 0
          BY <4>1 DEF z
        <4>3. z % Cols = 0
          BY <1>1, <4>1, <4>2, RemainderIs
        <4> QED
          BY <4>3 DEF z
      <3>3. RowCount(L) = k /\ padding(L) = 0
        BY <1>5, <2>3, <2>5, <3>1, <3>2
      <3>4. Cols * k = k * Cols
        BY <1>1
      <3> QED
        BY <1>1, <2>5, <3>1, <3>3, <3>4
    <2> QED
      BY <2>4, <2>5
  <1>9. CASE r > 0
    <2>1. x = Cols * (k + 1) + (r - 1) /\ r - 1 \in 0 .. Cols - 1 /\ k + 1 \in Nat
      <3>1. Cols * (k + 1) = Cols * k + Cols
        BY <1>1
      <3> QED
        BY <1>1, <1>3, <1>4, <1>9, <3>1
    <2>2. d = k + 1
      <3> HIDE DEF x
      <3> QED
        BY <1>1, <1>6, <2>1, QuotientIs
    <2> HIDE DEF d
    <2>3. RowCount(L) = IF 1 < k + 1 THEN k + 1 ELSE 1
      <3>1. 1 \in Nat
        OBVIOUS
      <3> QED
        BY <1>7, <2>1, <2>2, <3>1, MaxOf, Zenon
    <2>4. RowCount(L) = k + 1
      BY <2>3
    <2>5. (Cols - r) % Cols = Cols - r
      <3> DEFINE z == Cols - r
      <3>1. z \in Nat /\ z = Cols * 0 + z /\ z \in 0 .. Cols - 1 /\ 0 \in Nat
        BY <1>1, <1>3, <1>9
      <3> HIDE DEF z
      <3>2. z % Cols = z
        BY <1>1, <3>1, RemainderIs
      <3> QED
        BY <3>2 DEF z
    <2>6. padding(L) = Cols - r
      BY <1>1, <1>3, <1>4, <1>5, <1>9, <2>5
    <2>7. (k + 1) * Cols = Cols * k + Cols
      BY <1>1
    <2> QED
      BY <1>1, <1>3, <1>4, <2>4, <2>6, <2>7
  <1> QED
    BY <1>3, <1>8, <1>9

(* The text of a line of the log, padded, is its rows one after the other.  *)
LogText(s) == printable(s) \o blanks(padding(Len(printable(s))))
LogRows(s) == RowCount(Len(printable(s)))

LEMMA LogTextRows ==
    ASSUME NEW s \in Seq(Chars)
    PROVE  /\ LogText(s) \in Seq(Printed) /\ LogRows(s) \in Nat \ {0} /\ Len(LogText(s)) = LogRows(s) * Cols
           /\ rows_of(s) \in Seq(Row) /\ Len(rows_of(s)) = LogRows(s)
           /\ \A i \in 0 .. LogRows(s) - 1 : rows_of(s)[i + 1] = slice(LogText(s), i)
  <1> DEFINE text == printable(s)
             L == Len(text)
             n == RowCount(L)
             b == blanks(padding(L))
             q == text \o b
             char(k) == IF k <= L THEN text[k] ELSE SPACE
  <1>1. Cols \in Nat /\ Cols > 2
    BY ScreenNumbers
  <1>2. text \in Seq(Printed)
    BY PrintableType
  <1>3. LogText(s) = q /\ LogRows(s) = n
    BY Zenon DEF LogText, LogRows
  <1>4. rows_of(s) = [r \in 1 .. n |-> [c \in 1 .. Cols |-> char((r - 1) * Cols + c)]]
    BY Zenon DEF rows_of, RowCount
  <1> HIDE DEF text
  <1>5. L \in Nat
    BY <1>2
  <1> HIDE DEF L
  <1>6. n \in Nat \ {0} /\ padding(L) \in Nat /\ L + padding(L) = n * Cols
    BY <1>5, Padded
  <1>7. b \in Seq(Printed) /\ Len(b) = padding(L) /\ \A k \in 1 .. padding(L) : b[k] = SPACE
    BY <1>6, Blanks
  <1> HIDE DEF b, n
  <1>8. q \in Seq(Printed) /\ Len(q) = n * Cols
    <2>1. q \in Seq(Printed) /\ Len(q) = Len(text) + Len(b)
      BY <1>2, <1>7, ConcatIs
    <2> QED
      BY <1>6, <1>7, <2>1 DEF L
  <1>9. ASSUME NEW k \in 1 .. n * Cols PROVE q[k] = char(k) /\ char(k) \in Chars
    <2>1. n * Cols \in Nat
      BY <1>1, <1>6
    <2>2. q[k] = char(k)
      <3>1. CASE k <= L
        <4>1. k \in 1 .. Len(text)
          BY <1>5, <2>1, <3>1 DEF L
        <4>2. q[k] = text[k]
          BY <1>2, <1>7, <4>1
        <4> QED
          BY <3>1, <4>2
      <3>2. CASE ~(k <= L)
        <4>1. k - Len(text) \in 1 .. Len(b) /\ k \in Len(text) + 1 .. Len(text) + Len(b)
          BY <1>5, <1>6, <1>7, <2>1, <3>2 DEF L
        <4>2. q[k] = b[k - Len(text)]
          BY <1>2, <1>7, <4>1
        <4>3. b[k - Len(text)] = SPACE
          BY <1>7, <4>1
        <4> QED
          BY <3>2, <4>2, <4>3
      <3> QED
        BY <3>1, <3>2
    <2>3. q[k] \in Printed
      <3> HIDE DEF q
      <3> QED
        BY <1>8
    <2> HIDE DEF char, q
    <2> QED
      BY <2>2, <2>3 DEF Printed
  <1> HIDE DEF q, char
  <1> DEFINE row(r) == [c \in 1 .. Cols |-> char((r - 1) * Cols + c)]
  <1>10. ASSUME NEW i \in 0 .. n - 1 PROVE row(i + 1) \in Row /\ row(i + 1) = slice(q, i)
    <2>1. \A c \in 1 .. Cols : i * Cols + c \in 1 .. n * Cols
      BY <1>6, RowsOf
    <2>2. (i + 1) - 1 = i
      OBVIOUS
    <2>3. row(i + 1) = [c \in 1 .. Cols |-> char(i * Cols + c)]
      BY <2>2
    <2>4. \A c \in 1 .. Cols : char(i * Cols + c) = q[i * Cols + c] /\ char(i * Cols + c) \in Chars
      BY <1>9, <2>1
    <2> HIDE DEF row
    <2>5. row(i + 1) \in Row
      BY <2>3, <2>4 DEF Row
    <2>6. row(i + 1) = slice(q, i)
      BY <2>3, <2>4 DEF slice
    <2> QED
      BY <2>5, <2>6
  <1>11. rows_of(s) = [r \in 1 .. n |-> row(r)]
    BY <1>4, Zenon
  <1> HIDE DEF row
  <1>12. ASSUME NEW r \in 1 .. n PROVE row(r) \in Row
    <2>1. r - 1 \in 0 .. n - 1 /\ (r - 1) + 1 = r
      BY <1>6
    <2> QED
      BY <1>10, <2>1
  <1>13. rows_of(s) \in Seq(Row) /\ Len(rows_of(s)) = n
    <2> DEFINE X == Row
    <2> HIDE DEF X
    <2>1. \A r \in 1 .. n : row(r) \in X
      BY <1>12 DEF X
    <2>2. rows_of(s) \in Seq(X) /\ Len(rows_of(s)) = n
      BY <1>6, <1>11, <2>1
    <2> QED
      BY <2>2 DEF X
  <1>14. \A i \in 0 .. n - 1 : rows_of(s)[i + 1] = slice(q, i)
    <2> SUFFICES ASSUME NEW i \in 0 .. n - 1 PROVE rows_of(s)[i + 1] = slice(q, i)
      OBVIOUS
    <2>1. i + 1 \in 1 .. n
      BY <1>6
    <2> QED
      BY <1>10, <1>11, <2>1
  <1> QED
    BY <1>3, <1>6, <1>8, <1>13, <1>14, Zenon

(* What logging s leaves on the screen. *)
Logged(con, s, l, t) ==
    /\ t \in Consoles /\ t.eat = 0 /\ t.row = Rows /\ t.col = 1
    /\ \A r \in 1 .. Rows - 1 : t.rows[r] = IF r + LogRows(s) < Rows THEN con.rows[r + LogRows(s)]
                                                    ELSE rows_of(s)[(r + LogRows(s)) - Rows + 1]
    /\ t.rows[Rows] = Shown(l, Min({Len(l), INPUT_VIEW}))

LEMMA LogLine ==
    ASSUME NEW con \in Consoles, con.eat = 0, NEW s \in Seq(Chars), NEW l \in Seq(Printed)
    PROVE  Logged(con, s, l, log_line(con, s, l))
  <1> DEFINE n == LogRows(s)
             q == LogText(s)
             R == rows_of(s)
             c == at(con, Rows, 1)
             up == puts_raw(c, q)
             d == newline(up)
             t == draw_input(d, l)
  <1>1. Rows \in Nat /\ Rows > 1 /\ Cols \in Nat /\ Cols > 2
    BY ScreenNumbers
  <1>2. log_line(con, s, l) = t
    BY Zenon DEF log_line, LogText, INPUT_ROW
  <1>3. /\ q \in Seq(Printed) /\ n \in Nat \ {0} /\ Len(q) = n * Cols
        /\ \A i \in 0 .. n - 1 : R[i + 1] = slice(q, i)
    BY LogTextRows, Zenon
  <1>4. c \in Low /\ c.row = Rows /\ c.col = 1 /\ c.rows = con.rows
    BY AtRow DEF Low
  <1> HIDE DEF n, q, c, R
  <1>5. Pushed(c, q, n, up)
    BY <1>3, <1>4, PrintRows
  <1> HIDE DEF up
  <1>6. up \in Consoles /\ up.eat = 0 /\ up.row = Rows + 1
    BY <1>5 DEF Pushed, Low
  <1>7. /\ d \in Consoles /\ d.eat = 0
        /\ \A r \in 1 .. Rows - 1 : d.rows[r] = up.rows[r + 1]
    <2> DEFINE x == scroll(up)
    <2>1. d = at(x, Rows, 1)
      <3>1. ~(up.row < Rows)
        BY <1>1, <1>6
      <3> QED
        BY <3>1, Zenon DEF newline
    <2>2. x \in Consoles /\ x.eat = up.eat /\ \A r \in 1 .. Rows - 1 : x.rows[r] = up.rows[r + 1]
      BY <1>6, Scrolled
    <2> HIDE DEF x, d
    <2>3. d \in Consoles /\ d.rows = x.rows /\ d.eat = x.eat
      BY <2>1, <2>2, AtRow
    <2> QED
      BY <1>6, <2>2, <2>3
  <1> HIDE DEF d
  <1>8. Drawn(d, l, t)
    BY <1>7, DrawInput
  <1> HIDE DEF t
  <1>9. ASSUME NEW r \in 1 .. Rows - 1
        PROVE  t.rows[r] = IF r + n < Rows THEN con.rows[r + n] ELSE R[(r + n) - Rows + 1]
    <2>1. r + 1 \in 1 .. Rows /\ (r + 1) + n - 1 = r + n
      BY <1>1, <1>3
    <2>2. t.rows[r] = up.rows[r + 1]
      BY <1>7, <1>8, Zenon DEF Drawn
    <2> DEFINE x == r + 1
               y == x + n - 1
    <2>3. x \in 1 .. Rows /\ y = r + n
      BY <2>1
    <2>4. up.rows[x] = IF y < Rows THEN c.rows[y] ELSE slice(q, y - Rows)
      <3> HIDE DEF x
      <3> QED
        BY <1>5, <2>3, Zenon DEF Pushed
    <2>5. t.rows[r] = IF y < Rows THEN c.rows[y] ELSE slice(q, y - Rows)
      BY <2>2, <2>4, Zenon
    <2> HIDE DEF y
    <2>6. CASE y < Rows
      BY <1>4, <2>3, <2>5, <2>6
    <2>7. CASE ~(y < Rows)
      <3>1. y - Rows \in 0 .. n - 1
        BY <1>1, <1>3, <2>3, <2>7
      <3>2. R[(y - Rows) + 1] = slice(q, y - Rows)
        BY <1>3, <3>1, Zenon
      <3>3. (y - Rows) + 1 = (r + n) - Rows + 1
        BY <1>1, <1>3, <2>3
      <3> QED
        BY <2>3, <2>5, <2>7, <3>2, <3>3
    <2> QED
      BY <2>6, <2>7, Zenon
  <1>10. Logged(con, s, l, t)
    BY <1>8, <1>9, Zenon DEF Logged, Drawn, n, R
  <1> QED
    BY <1>2, <1>10

(* The history of the log moves up by as many rows. *)
LEMMA Noted ==
    ASSUME logged \in Seq(Row), Len(logged) = Rows - 1, NEW s \in Seq(Chars)
    PROVE  /\ note(s) \in Seq(Row) /\ Len(note(s)) = Rows - 1
           /\ \A r \in 1 .. Rows - 1 : note(s)[r] = IF r + LogRows(s) < Rows THEN logged[r + LogRows(s)]
                                                    ELSE rows_of(s)[(r + LogRows(s)) - Rows + 1]
  <1> DEFINE n == LogRows(s)
             R == rows_of(s)
             X == Row
             g == logged
             u == g \o R
             a == Len(u) - Rows + 2
             z == SubSeq(u, a, Len(u))
  <1>1. Rows \in Nat /\ Rows > 1
    BY ScreenNumbers
  <1>2. n \in Nat \ {0} /\ R \in Seq(X) /\ Len(R) = n
    BY LogTextRows
  <1>3. g \in Seq(X) /\ Len(g) = Rows - 1
    OBVIOUS
  <1>4. note(s) = z
    BY Zenon DEF note
  <1> HIDE DEF n, R, X, g
  <1>5. /\ u \in Seq(X) /\ Len(u) = (Rows - 1) + n
        /\ \A k \in 1 .. Rows - 1 : u[k] = g[k]
        /\ \A k \in 1 .. n : u[(Rows - 1) + k] = R[k]
    <2>1. u \in Seq(X) /\ Len(u) = (Rows - 1) + n
      <3>1. u \in Seq(X) /\ Len(u) = Len(g) + Len(R)
        BY <1>2, <1>3, ConcatIs
      <3> QED
        BY <1>2, <1>3, <3>1
    <2>2. \A k \in 1 .. Rows - 1 : u[k] = g[k]
      BY <1>1, <1>2, <1>3
    <2>3. ASSUME NEW k \in 1 .. n PROVE u[(Rows - 1) + k] = R[k]
      <3> DEFINE j == (Rows - 1) + k
      <3>1. j \in Len(g) + 1 .. Len(g) + Len(R) /\ j - Len(g) = k
        BY <1>1, <1>2, <1>3
      <3> HIDE DEF j
      <3>2. u[j] = R[j - Len(g)]
        BY <1>2, <1>3, <3>1
      <3> QED
        BY <3>1, <3>2 DEF j
    <2> QED
      BY <2>1, <2>2, <2>3
  <1>6. a = n + 1
    BY <1>1, <1>2, <1>5
  <1> HIDE DEF u, a
  <1>7. /\ z \in Seq(X) /\ Len(z) = Rows - 1
        /\ \A r \in 1 .. Rows - 1 : z[r] = u[r + n]
    <2>1. a \in 1 .. Len(u) /\ Len(u) \in Nat /\ Len(u) - a + 1 = Rows - 1
      BY <1>1, <1>2, <1>5, <1>6
    <2>2. z \in Seq(X) /\ Len(z) = Len(u) - a + 1 /\ \A r \in 1 .. Len(u) - a + 1 : z[r] = u[a + r - 1]
      BY <1>5, <2>1
    <2>3. \A r \in 1 .. Rows - 1 : a + r - 1 = r + n
      BY <1>1, <1>2, <1>6
    <2> HIDE DEF z
    <2> QED
      BY <2>1, <2>2, <2>3
  <1> HIDE DEF z
  <1>8. ASSUME NEW r \in 1 .. Rows - 1
        PROVE  z[r] = IF r + n < Rows THEN g[r + n] ELSE R[(r + n) - Rows + 1]
    <2>1. CASE r + n < Rows
      <3>1. r + n \in 1 .. Rows - 1
        BY <1>1, <1>2, <2>1
      <3> QED
        BY <1>5, <1>7, <2>1, <3>1
    <2>2. CASE ~(r + n < Rows)
      <3>1. (r + n) - Rows + 1 \in 1 .. n /\ (Rows - 1) + ((r + n) - Rows + 1) = r + n
        BY <1>1, <1>2, <2>2
      <3> QED
        BY <1>5, <1>7, <2>2, <3>1
    <2> QED
      BY <2>1, <2>2
  <1> QED
    BY <1>4, <1>7, <1>8, Zenon DEF n, R, X, g
-----------------------------------------------------------------------------
(* The session: the rows above are g and the last one shows l. *)

OnScreen(con, g, l) ==
    /\ con \in Consoles /\ con.eat = 0
    /\ \A r \in 1 .. Rows - 1 : con.rows[r] = g[r]
    /\ con.rows[Rows] = Shown(l, Min({Len(l), INPUT_VIEW}))

Log == {g \in Seq(Row) : Len(g) = Rows - 1}

ScreenInv ==
    /\ console \in Consoles /\ console.eat = 0
    /\ input \in Seq(Printed) /\ input_len \in 0 .. Len(input) /\ Len(input) <= MaxInput
    /\ session \in {"chat", "irc"} /\ doing \in {"keys", "send", "left"}
    /\ logged \in Log
    /\ doing # "left" => OnScreen(console, logged, typed)
    /\ doing = "send" => input = sent

LEMMA Redrawn ==
    ASSUME NEW con, NEW g, NEW k, OnScreen(con, g, k), NEW l \in Seq(Printed)
    PROVE  OnScreen(draw_input(con, l), g, l)
  <1>1. con \in Consoles /\ con.eat = 0 /\ \A r \in 1 .. Rows - 1 : con.rows[r] = g[r]
    BY Zenon DEF OnScreen
  <1>2. Drawn(con, l, draw_input(con, l))
    BY <1>1, DrawInput
  <1> QED
    BY <1>1, <1>2, Zenon DEF Drawn, OnScreen

LEMMA LogGrows ==
    ASSUME NEW k, OnScreen(console, logged, k), logged \in Log, NEW s \in Seq(Chars), NEW l \in Seq(Printed)
    PROVE  note(s) \in Log /\ OnScreen(log_line(console, s, l), note(s), l)
  <1> DEFINE n == LogRows(s)
             t == log_line(console, s, l)
             g == note(s)
             R == rows_of(s)
  <1>1. console \in Consoles /\ console.eat = 0 /\ \A r \in 1 .. Rows - 1 : console.rows[r] = logged[r]
    BY Zenon DEF OnScreen
  <1>2. Rows \in Nat /\ Rows > 1 /\ n \in Nat
    BY ScreenNumbers, LogTextRows
  <1>3. Logged(console, s, l, t)
    BY <1>1, LogLine
  <1>4. logged \in Seq(Row) /\ Len(logged) = Rows - 1
    BY Zenon DEF Log
  <1>5. /\ g \in Seq(Row) /\ Len(g) = Rows - 1
        /\ \A r \in 1 .. Rows - 1 : g[r] = IF r + n < Rows THEN logged[r + n] ELSE R[(r + n) - Rows + 1]
    BY <1>4, Noted, Zenon
  <1>6. /\ t \in Consoles /\ t.eat = 0 /\ t.rows[Rows] = Shown(l, Min({Len(l), INPUT_VIEW}))
        /\ \A r \in 1 .. Rows - 1 : t.rows[r] = IF r + n < Rows THEN console.rows[r + n] ELSE R[(r + n) - Rows + 1]
    BY <1>3, Zenon DEF Logged
  <1> HIDE DEF n, t, g, R
  <1>7. ASSUME NEW r \in 1 .. Rows - 1 PROVE t.rows[r] = g[r]
    <2>1. CASE r + n < Rows
      <3>1. r + n \in 1 .. Rows - 1
        BY <1>2, <2>1
      <3> QED
        BY <1>1, <1>5, <1>6, <2>1, <3>1, Zenon
    <2>2. CASE ~(r + n < Rows)
      BY <1>5, <1>6, <2>2, Zenon
    <2> QED
      BY <2>1, <2>2
  <1>8. g \in Log /\ OnScreen(t, g, l)
    BY <1>5, <1>6, <1>7, Zenon DEF Log, OnScreen
  <1> QED
    BY <1>8 DEF t, g

LEMMA TypedText ==
    ASSUME ScreenInv
    PROVE  /\ typed \in Seq(Printed) /\ Len(typed) = input_len /\ Len(typed) <= MaxInput
           /\ \A k \in 1 .. input_len : typed[k] = input[k]
  <1>1. input \in Seq(Printed) /\ input_len \in 0 .. Len(input) /\ Len(input) <= MaxInput
    BY Zenon DEF ScreenInv
  <1> QED
    BY <1>1, ScreenNumbers DEF typed

LEMMA KeyTyped == ASSUME ScreenInv, NEW ch \in Typed, key_typed(ch) PROVE ScreenInv'
  <1>1. /\ doing = "keys" /\ input_len < MaxInput
        /\ input' = Append(typed, ch) /\ input_len' = input_len + 1
        /\ console' = draw_input(console, input')
        /\ session' = session /\ doing' = doing /\ sent' = sent /\ logged' = logged
    BY Zenon DEF key_typed
  <1>2. OnScreen(console, logged, typed) /\ input_len \in Nat
    BY <1>1 DEF ScreenInv
  <1>3. typed \in Seq(Printed) /\ Len(typed) = input_len /\ ch \in Printed
    BY TypedText, ScreenNumbers
  <1>4. input' \in Seq(Printed) /\ Len(input') = input_len + 1 /\ Len(input') <= MaxInput
    <2> DEFINE x == typed
    <2>1. x \in Seq(Printed) /\ Len(x) = input_len /\ input' = Append(x, ch)
      BY <1>1, <1>3
    <2> HIDE DEF x
    <2> QED
      BY <1>1, <1>2, <1>3, <2>1, ScreenNumbers
  <1>5. input_len' \in 0 .. Len(input') /\ Len(input') <= MaxInput
    BY <1>1, <1>2, <1>4
  <1>6. typed' = input'
    <2>1. typed' = SubSeq(input', 1, input_len')
      BY DEF typed
    <2>2. input_len' = Len(input')
      BY <1>1, <1>4
    <2> QED
      BY <1>4, <2>1, <2>2
  <1>7. OnScreen(console', logged, input')
    BY <1>1, <1>2, <1>4, Redrawn
  <1>8. OnScreen(console', logged', typed') /\ console' \in Consoles /\ console'.eat = 0
    BY <1>1, <1>6, <1>7, Zenon DEF OnScreen
  <1>9. doing' # "send" /\ doing' \in {"keys", "send", "left"} /\ session' \in {"chat", "irc"} /\ logged' \in Log
    BY <1>1 DEF ScreenInv
  <1> QED
    BY <1>4, <1>5, <1>8, <1>9, Zenon DEF ScreenInv

LEMMA KeyBackspace == ASSUME ScreenInv, key_backspace PROVE ScreenInv'
  <1> DEFINE l == SubSeq(input, 1, input_len')
  <1>1. /\ doing = "keys" /\ input_len > 0 /\ input_len' = input_len - 1
        /\ console' = draw_input(console, l)
        /\ input' = input /\ session' = session /\ doing' = doing /\ sent' = sent /\ logged' = logged
    BY Zenon DEF key_backspace
  <1>2. OnScreen(console, logged, typed)
    BY <1>1 DEF ScreenInv
  <1>3. /\ input \in Seq(Printed) /\ input_len \in 0 .. Len(input) /\ Len(input) <= MaxInput
        /\ session \in {"chat", "irc"} /\ logged \in Log
    BY Zenon DEF ScreenInv
  <1>4. input_len' \in 0 .. Len(input) /\ l \in Seq(Printed)
    BY <1>1, <1>3
  <1>5. typed' = l
    BY <1>1, Zenon DEF typed
  <1> HIDE DEF l
  <1>6. OnScreen(console', logged, l)
    BY <1>1, <1>2, <1>4, Redrawn
  <1>7. OnScreen(console', logged', typed') /\ console' \in Consoles /\ console'.eat = 0
    BY <1>1, <1>5, <1>6, Zenon DEF OnScreen
  <1>8. doing' # "send" /\ doing' \in {"keys", "send", "left"}
    BY <1>1
  <1> QED
    BY <1>1, <1>3, <1>4, <1>7, <1>8, Zenon DEF ScreenInv

LEMMA NothingTyped ==
    ASSUME NEW s \in Seq(Printed)
    PROVE  <<>> \in Seq(Printed) /\ SubSeq(s, 1, 0) = <<>> /\ 0 \in 0 .. Len(s)
  OBVIOUS

LEMMA ClearInput ==
    ASSUME ScreenInv, doing # "left", clear_input, logged' = logged
    PROVE  /\ OnScreen(console', logged', typed') /\ console' \in Consoles /\ console'.eat = 0
           /\ input' \in Seq(Printed) /\ input_len' \in 0 .. Len(input') /\ Len(input') <= MaxInput
           /\ input' = typed
  <1>1. input_len' = 0 /\ input' = typed /\ console' = draw_input(console, <<>>)
    BY Zenon DEF clear_input
  <1>2. OnScreen(console, logged, typed)
    BY Zenon DEF ScreenInv
  <1>3. input' \in Seq(Printed) /\ Len(input') <= MaxInput
    BY <1>1, TypedText
  <1>4. <<>> \in Seq(Printed) /\ SubSeq(input', 1, 0) = <<>> /\ 0 \in 0 .. Len(input')
    BY <1>3, NothingTyped
  <1>5. typed' = <<>>
    BY <1>1, <1>4, Zenon DEF typed
  <1>6. OnScreen(console', logged, <<>>)
    BY <1>1, <1>2, <1>4, Redrawn
  <1>7. OnScreen(console', logged', typed') /\ console' \in Consoles /\ console'.eat = 0
    BY <1>5, <1>6, Zenon DEF OnScreen
  <1> QED
    BY <1>1, <1>3, <1>4, <1>7, Zenon

LEMMA KeyEnter == ASSUME ScreenInv, key_enter PROVE ScreenInv'
  <1>1. /\ doing = "keys" /\ doing' = "send" /\ sent' = typed
        /\ session' = session /\ logged' = logged
    BY Zenon DEF key_enter
  <1>2. session' \in {"chat", "irc"} /\ logged' \in Log /\ doing' \in {"keys", "send", "left"} /\ doing # "left"
    BY <1>1 DEF ScreenInv
  <1>3. /\ OnScreen(console', logged', typed') /\ console' \in Consoles /\ console'.eat = 0
        /\ input' \in Seq(Printed) /\ input_len' \in 0 .. Len(input') /\ Len(input') <= MaxInput
        /\ input' = typed
    <2>1. CASE input' = typed /\ UNCHANGED <<console, input_len>>
      <3>1. console' = console /\ input_len' = input_len /\ input' = typed
        BY <2>1
      <3>2. typed \in Seq(Printed) /\ Len(typed) = input_len /\ Len(typed) <= MaxInput /\ input_len \in Nat
        BY TypedText
      <3>3. typed' = typed
        <4> DEFINE x == typed
        <4>1. typed' = SubSeq(x, 1, input_len)
          BY <3>1, Zenon DEF typed
        <4>2. x \in Seq(Printed) /\ Len(x) = input_len
          BY <3>2
        <4> HIDE DEF x
        <4>3. SubSeq(x, 1, input_len) = x
          BY <4>2
        <4> QED
          BY <4>1, <4>3 DEF x
      <3>4. OnScreen(console, logged, typed) /\ console \in Consoles /\ console.eat = 0
        BY <1>2, Zenon DEF ScreenInv
      <3>5. OnScreen(console', logged', typed') /\ console' \in Consoles /\ console'.eat = 0
        BY <1>1, <3>1, <3>3, <3>4, Zenon
      <3>6. input_len' \in 0 .. Len(input')
        BY <3>1, <3>2
      <3> QED
        BY <3>1, <3>2, <3>5, <3>6, Zenon
    <2>2. CASE clear_input
      BY <1>1, <1>2, <2>2, ClearInput
    <2> QED
      BY <2>1, <2>2, Zenon DEF key_enter
  <1> QED
    BY <1>1, <1>2, <1>3, Zenon DEF ScreenInv

LEMMA KeyEnterLocal == ASSUME ScreenInv, key_enter_local PROVE ScreenInv'
  <1>1. doing = "keys" /\ doing' = doing /\ session' = session /\ logged' = logged /\ clear_input
    BY Zenon DEF key_enter_local
  <1>2. /\ session' \in {"chat", "irc"} /\ logged' \in Log /\ doing' \in {"keys", "send", "left"}
        /\ doing # "left" /\ doing' # "send"
    BY <1>1 DEF ScreenInv
  <1>3. /\ OnScreen(console', logged', typed') /\ console' \in Consoles /\ console'.eat = 0
        /\ input' \in Seq(Printed) /\ input_len' \in 0 .. Len(input') /\ Len(input') <= MaxInput
    BY <1>1, <1>2, ClearInput
  <1> QED
    BY <1>2, <1>3, Zenon DEF ScreenInv

LEMMA Show == ASSUME ScreenInv, NEW s \in Texts, show(s) PROVE ScreenInv'
  <1>1. /\ doing \in {"keys", "send"} /\ console' = log_line(console, s, typed) /\ logged' = note(s)
        /\ input' = input /\ input_len' = input_len /\ session' = session /\ doing' = doing /\ sent' = sent
    BY Zenon DEF show
  <1>2. doing # "left"
    BY <1>1
  <1>3. /\ OnScreen(console, logged, typed) /\ logged \in Log
        /\ input \in Seq(Printed) /\ input_len \in 0 .. Len(input) /\ Len(input) <= MaxInput
        /\ session \in {"chat", "irc"} /\ doing \in {"keys", "send", "left"}
        /\ doing = "send" => input = sent
    BY <1>2, Zenon DEF ScreenInv
  <1>4. typed \in Seq(Printed) /\ s \in Seq(Chars)
    BY TypedText, ScreenNumbers
  <1>5. note(s) \in Log /\ OnScreen(log_line(console, s, typed), note(s), typed)
    BY <1>3, <1>4, LogGrows
  <1>6. typed' = typed
    BY <1>1, Zenon DEF typed
  <1>7. OnScreen(console', logged', typed') /\ console' \in Consoles /\ console'.eat = 0 /\ logged' \in Log
    BY <1>1, <1>5, <1>6, Zenon DEF OnScreen
  <1> QED
    BY <1>1, <1>3, <1>7, Zenon DEF ScreenInv

LEMMA Echo == ASSUME ScreenInv, echo PROVE ScreenInv'
  <1> DEFINE prefix == IF session = "irc" THEN Prefix ELSE <<>>
             s == prefix \o sent
  <1>1. /\ doing = "send" /\ doing' = "keys" /\ input_len' = 0
        /\ console' = log_line(console, prefix \o input, <<>>)
        /\ logged' = note(s)
        /\ input' = input /\ session' = session
    BY Zenon DEF echo
  <1>2. doing # "left" /\ doing' # "send" /\ doing' \in {"keys", "send", "left"}
    BY <1>1
  <1>3. /\ OnScreen(console, logged, typed) /\ logged \in Log /\ input = sent
        /\ input \in Seq(Printed) /\ Len(input) <= MaxInput /\ session \in {"chat", "irc"}
    BY <1>1, <1>2, Zenon DEF ScreenInv
  <1>4. console' = log_line(console, s, <<>>)
    BY <1>1, <1>3, Zenon
  <1>5. s \in Seq(Chars)
    <2>1. Printed \subseteq Chars
      BY DEF Printed
    <2>2. sent \in Seq(Chars)
      BY <1>3, <2>1, SeqWider
    <2>3. Prefix \in Seq(Chars) /\ <<>> \in Seq(Chars)
      BY ScreenNumbers
    <2>4. prefix \in Seq(Chars)
      BY <2>3, Zenon
    <2> HIDE DEF prefix
    <2> QED
      BY <2>2, <2>4
  <1> HIDE DEF s
  <1>6. <<>> \in Seq(Printed) /\ SubSeq(input', 1, 0) = <<>> /\ 0 \in 0 .. Len(input')
    BY <1>1, <1>3, NothingTyped
  <1>7. typed' = <<>>
    BY <1>1, <1>6, Zenon DEF typed
  <1>8. note(s) \in Log /\ OnScreen(log_line(console, s, <<>>), note(s), <<>>)
    BY <1>3, <1>5, <1>6, LogGrows
  <1>9. OnScreen(console', logged', typed') /\ console' \in Consoles /\ console'.eat = 0 /\ logged' \in Log
    BY <1>1, <1>4, <1>7, <1>8, Zenon DEF OnScreen
  <1> QED
    BY <1>1, <1>2, <1>3, <1>6, <1>9, Zenon DEF ScreenInv

LEMMA NoEcho == ASSUME ScreenInv, no_echo PROVE ScreenInv'
  <1>1. /\ doing = "send" /\ doing' = "keys" /\ console' = console /\ input' = input
        /\ input_len' = input_len /\ session' = session /\ logged' = logged
    BY Zenon DEF no_echo
  <1>2. doing # "left" /\ doing' # "send" /\ doing' \in {"keys", "send", "left"}
    BY <1>1
  <1>3. typed' = typed
    BY <1>1, Zenon DEF typed
  <1> QED
    BY <1>1, <1>2, <1>3, Zenon DEF ScreenInv

LEMMA Leave == ASSUME ScreenInv, leave PROVE ScreenInv'
  <1> DEFINE c == at(console, Rows, 1)
             d == newline(c)
  <1>1. /\ doing' = "left" /\ console' = d /\ input' = input
        /\ input_len' = input_len /\ session' = session /\ logged' = logged
    BY Zenon DEF leave, INPUT_ROW
  <1>2. console \in Consoles /\ console.eat = 0
    BY Zenon DEF ScreenInv
  <1>3. c \in Consoles /\ c.row = Rows /\ c.eat = 0
    BY <1>2, AtRow
  <1> HIDE DEF c
  <1>4. d \in Consoles /\ d.eat = 0
    <2> DEFINE x == scroll(c)
    <2>1. d = at(x, Rows, 1)
      <3>1. ~(c.row < Rows)
        BY <1>3, ScreenNumbers
      <3> QED
        BY <3>1, Zenon DEF newline
    <2>2. x \in Consoles /\ x.eat = 0
      BY <1>3, Scrolled
    <2> HIDE DEF x, d
    <2> QED
      BY <2>1, <2>2, AtRow
  <1> HIDE DEF d
  <1>5. doing' # "send" /\ doing' \in {"keys", "send", "left"}
    BY <1>1
  <1> QED
    BY <1>1, <1>4, <1>5, Zenon DEF ScreenInv

LEMMA ScreenStep == ScreenInv /\ (ScreenNext \/ UNCHANGED screen) => ScreenInv'
  <1> SUFFICES ASSUME ScreenInv, ScreenNext \/ UNCHANGED screen PROVE ScreenInv'
    OBVIOUS
  <1>1. CASE UNCHANGED screen
    <2>1. /\ console' = console /\ input' = input /\ input_len' = input_len /\ session' = session
          /\ doing' = doing /\ sent' = sent /\ logged' = logged
      BY <1>1 DEF screen
    <2>2. typed' = typed
      BY <2>1, Zenon DEF typed
    <2> QED
      BY <2>1, <2>2, Zenon DEF ScreenInv
  <1> QED
    BY <1>1, KeyTyped, KeyBackspace, KeyEnter, KeyEnterLocal, Show, Echo, NoEcho, Leave, Zenon DEF ScreenNext

(* The first line of the log takes one row. *)
LEMMA FirstLine == LogRows(<<"*">>) = 1 /\ <<"*">> \in Seq(Chars)
  <1> DEFINE s == <<"*">>
             U == Seq(Printed)
  <1>1. s \in Seq(Chars) /\ Len(s) = 1 /\ s[1] = "*" /\ DOMAIN s = 1 .. 1
    BY Marks
  <1> HIDE DEF s
  <1>2. emit(<<>>, "*") = Append(<<>>, "*")
    BY DEF emit
  <1>3. \A t \in U : emit(t, "*") = Append(t, "*")
    BY DEF emit
  <1>4. "*" \in Printed /\ <<>> \in U
    BY Marks DEF Printed
  <1>5. \A t \in U : \A k \in 1 .. 1 : emit(t, s[k]) \in U
    <2>1. \A t \in U : Append(t, "*") \in U
      BY <1>4
    <2>2. \A k \in 1 .. 1 : s[k] = "*"
      BY <1>1
    <2> QED
      BY <1>3, <2>1, <2>2, Zenon
  <1> HIDE DEF U
  <1>6. PICK h : EmitRun(h, U, <<>>, s, 1)
    <2>1. 1 \in Nat
      OBVIOUS
    <2> QED
      BY <1>1, <1>4, <1>5, <2>1, EmitLoop
  <1>7. printable(s) = h[1] /\ h[0] = <<>> /\ \A k \in 1 .. 1 : h[k] = emit(h[k - 1], s[k])
    BY <1>6, Zenon DEF EmitRun, printable
  <1>8. h[1] = emit(<<>>, "*")
    <2>1. 1 \in 1 .. 1 /\ 1 - 1 = 0
      OBVIOUS
    <2> QED
      BY <1>1, <1>7, <2>1
  <1>9. Len(printable(s)) = 1
    <2>1. printable(s) = Append(<<>>, "*")
      BY <1>2, <1>7, <1>8, Zenon
    <2> QED
      BY <2>1
  <1>10. RowCount(1) = 1
    <2>1. Cols \in Nat \ {0} /\ Cols > 2 /\ 1 \in Nat /\ 1 + Cols - 1 = Cols /\ 0 \in 0 .. Cols - 1
      BY ScreenNumbers
    <2>2. Cols \div Cols = 1
      <3>1. Cols = Cols * 1 + 0 /\ Cols \in Nat
        BY <2>1
      <3> QED
        BY <2>1, <3>1, QuotientIs
    <2>3. Max({1, 1}) = 1
      <3>1. Max({1, 1}) = IF 1 < 1 THEN 1 ELSE 1
        BY <2>1, MaxOf
      <3> QED
        BY <3>1
    <2> QED
      BY <2>1, <2>2, <2>3, Zenon DEF RowCount
  <1> QED
    BY <1>1, <1>9, <1>10, Zenon DEF LogRows, s

LEMMA ScreenBegins == ScreenInit => ScreenInv
  <1> SUFFICES ASSUME ScreenInit PROVE ScreenInv
    OBVIOUS
  <1> DEFINE s == <<"*">>
             t == log_line(cleared, s, <<>>)
             R == rows_of(s)
             b == blanks(Cols)
  <1>1. /\ session \in {"chat", "irc"} /\ doing = "keys" /\ input = <<>> /\ input_len = 0 /\ sent = <<>>
        /\ console = t
        /\ logged = [r \in 1 .. Rows - 1 |-> IF r = Rows - 1 THEN R[1] ELSE b]
    BY Zenon DEF ScreenInit
  <1>2. Rows \in Nat /\ Rows > 1 /\ MaxInput \in Nat
    BY ScreenNumbers
  <1>3. <<>> \in Seq(Printed) /\ Len(<<>>) = 0 /\ 0 \in 0 .. Len(<<>>) /\ SubSeq(<<>>, 1, 0) = <<>>
    OBVIOUS
  <1>4. b \in Row
    BY BlankRow
  <1>5. s \in Seq(Chars) /\ LogRows(s) = 1
    BY FirstLine
  <1>6. cleared \in Consoles /\ cleared.eat = 0 /\ \A r \in 1 .. Rows : cleared.rows[r] = b
    <2>1. 1 \in 1 .. Rows + 1 /\ 1 \in 1 .. Cols /\ 0 \in 0 .. 2
      BY ScreenNumbers
    <2>2. cleared = [rows |-> [r \in 1 .. Rows |-> b], row |-> 1, col |-> 1, eat |-> 0]
      BY Zenon DEF cleared
    <2> HIDE DEF b
    <2> QED
      BY <1>4, <2>1, <2>2 DEF Consoles
  <1> HIDE DEF b, s
  <1>7. Logged(cleared, s, <<>>, t)
    BY <1>3, <1>5, <1>6, LogLine
  <1> HIDE DEF t
  <1>8. R \in Seq(Row) /\ Len(R) = 1
    BY <1>5, LogTextRows
  <1>9. R[1] \in Row
    <2> DEFINE X == Row
    <2> HIDE DEF X, R
    <2>1. R \in Seq(X) /\ Len(R) = 1
      BY <1>8 DEF X
    <2>2. R[1] \in X
      BY <2>1
    <2> QED
      BY <2>2 DEF X
  <1>10. logged \in Log
    <2> DEFINE X == Row
               x == R[1]
    <2> HIDE DEF X, x
    <2>1. x \in X /\ b \in X /\ logged = [r \in 1 .. Rows - 1 |-> IF r = Rows - 1 THEN x ELSE b]
      BY <1>1, <1>4, <1>9 DEF X, x
    <2>2. logged \in Seq(X) /\ Len(logged) = Rows - 1
      BY <1>2, <2>1
    <2> QED
      BY <2>2 DEF X, Log
  <1> HIDE DEF R
  <1>11. ASSUME NEW r \in 1 .. Rows - 1 PROVE t.rows[r] = logged[r]
    <2>1. t.rows[r] = IF r + 1 < Rows THEN cleared.rows[r + 1] ELSE R[(r + 1) - Rows + 1]
      BY <1>5, <1>7, Zenon DEF Logged, R
    <2>2. CASE r + 1 < Rows
      <3>1. r + 1 \in 1 .. Rows /\ r # Rows - 1
        BY <1>2, <2>2
      <3> QED
        BY <1>1, <1>6, <2>1, <2>2, <3>1
    <2>3. CASE ~(r + 1 < Rows)
      <3>1. r = Rows - 1 /\ (r + 1) - Rows + 1 = 1
        BY <1>2, <2>3
      <3> QED
        BY <1>1, <2>1, <2>3, <3>1
    <2> QED
      BY <2>2, <2>3
  <1>12. typed = <<>>
    BY <1>1, <1>3, Zenon DEF typed
  <1>13. OnScreen(console, logged, typed) /\ console \in Consoles /\ console.eat = 0
    BY <1>1, <1>7, <1>11, <1>12, Zenon DEF OnScreen, Logged
  <1>14. Len(<<>>) <= MaxInput
    BY <1>2, <1>3
  <1>15. doing \in {"keys", "send", "left"} /\ doing # "send"
    BY <1>1
  <1> QED
    BY <1>1, <1>3, <1>10, <1>13, <1>14, <1>15, Zenon DEF ScreenInv

LEMMA ScreenTyped == ScreenInv => ScreenTypeOK
  <1> SUFFICES ASSUME ScreenInv PROVE ScreenTypeOK
    OBVIOUS
  <1> DEFINE p == console.rows
  <1>1. /\ console.row \in 1 .. Rows + 1 /\ console.col \in 1 .. Cols /\ console.eat \in 0 .. 2
        /\ p \in [1 .. Rows -> Row]
    BY DEF ScreenInv, Consoles
  <1>2. Rows \in Nat /\ Cols \in Nat
    BY ScreenNumbers
  <1> HIDE DEF p
  <1>3. Len(p) = Rows
    <2> DEFINE X == Row
    <2> HIDE DEF X
    <2>1. p \in [1 .. Rows -> X]
      BY <1>1 DEF X
    <2> QED
      BY <1>2, <2>1
  <1>4. ASSUME NEW r \in 1 .. Rows PROVE Len(p[r]) = Cols
    <2>1. p[r] \in [1 .. Cols -> Chars]
      BY <1>1 DEF Row
    <2> QED
      BY <1>2, <2>1
  <1>5. Len(logged) = Rows - 1
    BY Zenon DEF ScreenInv, Log
  <1> QED
    BY <1>1, <1>3, <1>4, <1>5, Zenon DEF ScreenInv, ScreenTypeOK, p

LEMMA LogOnScreen == ScreenInv => LogIntact
  <1> SUFFICES ASSUME ScreenInv, doing # "left" PROVE SubSeq(console.rows, 1, Rows - 1) = logged
    BY Zenon DEF LogIntact
  <1> DEFINE X == Row
             p == console.rows
             z == SubSeq(p, 1, Rows - 1)
             g == logged
  <1>1. p \in [1 .. Rows -> X]
    BY DEF ScreenInv, Consoles
  <1>2. \A r \in 1 .. Rows - 1 : p[r] = g[r]
    BY Zenon DEF ScreenInv, OnScreen
  <1>3. g \in Seq(X) /\ Len(g) = Rows - 1
    BY Zenon DEF ScreenInv, Log
  <1>4. Rows \in Nat /\ Rows > 1
    BY ScreenNumbers
  <1> HIDE DEF X, p, g
  <1>5. p \in Seq(X) /\ Len(p) = Rows
    BY <1>1, <1>4
  <1>6. z \in Seq(X) /\ Len(z) = Rows - 1 /\ \A r \in 1 .. Rows - 1 : z[r] = p[r]
    BY <1>4, <1>5
  <1> HIDE DEF z
  <1>7. z = g
    BY <1>2, <1>3, <1>6, SeqEqual
  <1> QED
    BY <1>7 DEF z, g, p

LEMMA InputOnScreen == ScreenInv => InputShown
  <1> SUFFICES ASSUME ScreenInv, doing # "left" PROVE InputShown
    BY Zenon DEF InputShown
  <1> DEFINE n == Min({input_len, Cols - 2})
             old(c) == CASE c = 1 -> ">"
                         [] c \in 2 .. n + 1 -> typed[Len(typed) - n + c - 1]
                         [] c = n + 2 -> CURSOR
                         [] OTHER -> SPACE
             new(c) == CASE c = 1 -> ">"
                         [] c \in 2 .. n + 1 -> input[input_len - n + c - 1]
                         [] c = n + 2 -> CURSOR
                         [] OTHER -> SPACE
  <1>1. Len(typed) = input_len /\ \A k \in 1 .. input_len : typed[k] = input[k]
    BY TypedText
  <1>2. input_len \in Nat /\ Cols \in Nat /\ Cols > 2 /\ Cols - 2 \in Nat
    BY ScreenNumbers DEF ScreenInv
  <1>3. n \in 0 .. input_len /\ n <= Cols - 2 /\ (n = input_len \/ n = Cols - 2)
    <2>1. n = Min({input_len, Cols - 2})
      OBVIOUS
    <2> HIDE DEF n
    <2> QED
      BY <1>2, <2>1, MinOf
  <1>4. console.rows[Rows] = Shown(typed, Min({Len(typed), INPUT_VIEW}))
    BY Zenon DEF ScreenInv, OnScreen
  <1>5. console.rows[Rows] = [c \in 1 .. Cols |-> old(c)]
    <2>1. console.rows[Rows] = Shown(typed, n)
      BY <1>1, <1>4, Zenon DEF INPUT_VIEW
    <2> QED
      BY <2>1, Zenon DEF Shown
  <1>6. n \in 0 .. n /\ (n < Cols - 2 => n = input_len)
    BY <1>2, <1>3
  <1> HIDE DEF n
  <1>7. ASSUME NEW c \in 1 .. Cols PROVE old(c) = new(c)
    <2>1. CASE c \in 2 .. n + 1
      <3>1. input_len - n + c - 1 \in 1 .. input_len
        BY <1>2, <1>3, <2>1
      <3>2. typed[Len(typed) - n + c - 1] = input[input_len - n + c - 1]
        BY <1>1, <3>1, Zenon
      <3> QED
        BY <3>2, Zenon
    <2>2. CASE ~(c \in 2 .. n + 1)
      <3>1. CASE c = 1
        <4>1. c # n + 2
          BY <1>2, <1>3, <3>1
        <4> QED
          BY <2>2, <3>1, <4>1, Zenon
      <3>2. CASE c # 1 /\ c = n + 2
        BY <2>2, <3>2, Zenon
      <3>3. CASE c # 1 /\ c # n + 2
        BY <2>2, <3>3, Zenon
      <3> QED
        BY <3>1, <3>2, <3>3
    <2> QED
      BY <2>1, <2>2
  <1>8. console.rows[Rows] = [c \in 1 .. Cols |-> new(c)]
    <2> HIDE DEF old, new
    <2> QED
      BY <1>5, <1>7
  <1> QED
    BY <1>6, <1>8, Zenon DEF InputShown, n

-----------------------------------------------------------------------------
(* The console *)

ConsoleInv == PingInv /\ DialogueInv /\ ScreenInv

LEMMA ConsoleBegins == ConsoleInit => ConsoleInv
  BY InitPingInv, DialogueBegins, ScreenBegins, Zenon DEF ConsoleInit, ConsoleInv

LEMMA ConsoleStep ==
    ConsoleInv /\ [run_ping \/ run_dialogue \/ run_session]_all => ConsoleInv'
  <1> SUFFICES ASSUME ConsoleInv, [run_ping \/ run_dialogue \/ run_session]_all
               PROVE  ConsoleInv'
    OBVIOUS
  <1>1. [Next]_vars
    BY Zenon DEF run_ping, run_dialogue, run_session, all
  <1>2. DialogueNext \/ UNCHANGED dialogue
    BY Zenon DEF run_ping, run_dialogue, run_session, all
  <1>3. ScreenNext \/ UNCHANGED screen
    BY Zenon DEF run_ping, run_dialogue, run_session, all
  <1> QED
    BY <1>1, <1>2, <1>3, NextPingInv, DialogueStep, ScreenStep, Zenon DEF ConsoleInv

LEMMA AlwaysConsoleInv == ConsoleSpec => []ConsoleInv
  BY ConsoleBegins, ConsoleStep, PTL DEF ConsoleSpec

(* Every variable of the console keeps its type: the words of ping's packet *)
(* stay words, a typed line, the nick and the channel leave room for their  *)
(* NUL (read_line, str_copy), and the print position stays on the screen or *)
(* right below it, whatever is printed (at, emit_end, draw_input).          *)
THEOREM ConsoleTypes == ConsoleSpec => []TypeOK
  <1>1. ConsoleInv => TypeOK
    BY ScreenTyped, Zenon DEF ConsoleInv, TypeOK, PingInv, DialogueInv
  <1> QED
    BY <1>1, AlwaysConsoleInv, PTL

(* Whatever the address, every echo request that icmp_echo_request() sends *)
(* carries an IP and an ICMP checksum that its receiver accepts.           *)
THEOREM PingVerifies == ConsoleSpec => []RequestsVerify
  <1>1. ConsoleInv => RequestsVerify
    BY Zenon DEF ConsoleInv, PingInv
  <1> QED
    BY <1>1, AlwaysConsoleInv, PTL

(* icmp_echo_request() gives up by its count of retries only when it has   *)
(* sent as many requests as it has retries.                                *)
THEOREM PingTriesAll == ConsoleSpec => []AllTried
  <1>1. ConsoleInv => AllTried
    BY DEF ConsoleInv, PingInv, Counted, AllTried
  <1> QED
    BY <1>1, AlwaysConsoleInv, PTL

(* Whatever line the user has typed at the address question, parse_ip()    *)
(* accepts it exactly when it starts with numbers between dots, and reads  *)
(* each of them as it is meant, up to what fits a byte.                    *)
THEOREM DialogueTakesAddresses == ConsoleSpec => []AddressAsTyped
  <1>1. ConsoleInv => AddressAsTyped
    BY AddressTaken, Zenon DEF ConsoleInv, DialogueInv
  <1> QED
    BY <1>1, AlwaysConsoleInv, PTL

(* However the answers were typed, main() of irc.c and of tcp_chat.c dials  *)
(* a port other than 0, registers with one word as the nick and joins a     *)
(* channel of one word.                                                     *)
THEOREM DialogueReady == ConsoleSpec => []ReadyToDial
  <1>1. ConsoleInv => ReadyToDial
    BY SettledReady, Zenon DEF ConsoleInv, DialogueInv
  <1> QED
    BY <1>1, AlwaysConsoleInv, PTL

(* log_line() leaves above the input line exactly what was logged, in       *)
(* order, on a screen of any size and for texts of any length.              *)
THEOREM ScreenKeepsLog == ConsoleSpec => []LogIntact
  <1>1. ConsoleInv => LogIntact
    BY LogOnScreen, Zenon DEF ConsoleInv
  <1> QED
    BY <1>1, AlwaysConsoleInv, PTL

(* draw_input() leaves the prompt, the end of what is being typed and the   *)
(* cursor on the bottom row, and nothing else, after every key and line.    *)
THEOREM ScreenShowsInput == ConsoleSpec => []InputShown
  <1>1. ConsoleInv => InputShown
    BY InputOnScreen, Zenon DEF ConsoleInv
  <1> QED
    BY <1>1, AlwaysConsoleInv, PTL

=============================================================================
