----------------------------- MODULE DataLemmas ----------------------------
(***************************************************************************)
(* Facts about data that the proofs of the components share: induction     *)
(* and recursion, and what they say of the SLIP encoding.                  *)
(*                                                                         *)
(* The induction theorems of the library are about an operator P(_); the   *)
(* one here is about a set, which a proof can define and hand over.  From  *)
(* it follows what a loop over a sequence computes: FoldLeft and           *)
(* FlattenSeq, one element at a time.                                      *)
(***************************************************************************)
EXTENDS SlipCodec, SequenceTheorems, WellFoundedInduction, TLAPS

(* Induction: a set with 0 and every successor has every natural number.   *)
LEMMA SetInduction ==
    ASSUME NEW S, 0 \in S, \A n \in Nat : n \in S => n + 1 \in S
    PROVE  \A n \in Nat : n \in S
  <1> DEFINE T == Nat \ S
             R == OpToRel(<, Nat)
  <1>1. SUFFICES ASSUME T # {} PROVE FALSE
    BY <1>1, Zenon
  <1>2. IsWellFoundedOn(R, Nat)
    BY NatLessThanWellFounded, Zenon
  <1>3. T \subseteq Nat
    OBVIOUS
  <1>4. \E x \in T : \A y \in T : ~ (<<y, x>> \in R)
    <2> HIDE DEF T, R
    <2> QED
      BY <1>1, <1>2, <1>3, WFMin
  <1>5. PICK x \in T : \A y \in T : ~ (<<y, x>> \in R)
    BY <1>4, Zenon
  <1>6. x - 1 \in T
    OBVIOUS
  <1>7. <<x - 1, x>> \in R
    BY <1>6 DEF OpToRel
  <1> QED
    BY <1>5, <1>6, <1>7, Zenon


(* The same up to n. *)
LEMMA UpTo ==
    ASSUME NEW n \in Nat, NEW S, 0 \in S, \A i \in 1 .. n : i - 1 \in S => i \in S
    PROVE  \A i \in 0 .. n : i \in S
  <1> DEFINE T == {i \in Nat : i <= n => i \in S}
  <1>1. 0 \in T
    OBVIOUS
  <1>2. \A i \in Nat : i \in T => i + 1 \in T
    <2>1. SUFFICES ASSUME NEW i \in Nat, i \in T, i + 1 <= n PROVE i + 1 \in S
      OBVIOUS
    <2>2. i + 1 \in 1 .. n /\ (i + 1) - 1 = i /\ i \in S
      BY <2>1
    <2> QED
      BY <2>2
  <1>3. \A i \in Nat : i \in T
    <2> HIDE DEF T
    <2> QED
      BY <1>1, <1>2, SetInduction
  <1> QED
    BY <1>3
-----------------------------------------------------------------------------
(* A loop that applies F[1], F[2], ... to b: h[i] is the value after the    *)
(* i-th turn.                                                               *)
Chain(h, b, F, n) == h[0] = b /\ \A i \in 1 .. n : h[i] = F[i][h[i - 1]]

LEMMA ChainExists ==
    ASSUME NEW S, NEW b \in S, NEW F, NEW n \in Nat, F \in [1 .. n -> [S -> S]]
    PROVE  \E h \in [0 .. n -> S] : Chain(h, b, F, n)
  <1> DEFINE Has(k) == \E h \in [0 .. k -> S] : Chain(h, b, F, k)
             Good == {k \in 0 .. n : Has(k)}
  <1>1. Has(0)
    <2> DEFINE h == [i \in 0 .. 0 |-> b]
    <2>1. h \in [0 .. 0 -> S] /\ Chain(h, b, F, 0)
      BY DEF Chain
    <2> QED
      BY <2>1
  <1>2. ASSUME NEW k \in 1 .. n, Has(k - 1)
        PROVE  Has(k)
    <2>1. PICK h \in [0 .. k - 1 -> S] : Chain(h, b, F, k - 1)
      BY <1>2
    <2> DEFINE g == [i \in 0 .. k |-> IF i = k THEN F[k][h[k - 1]] ELSE h[i]]
    <2>2. h[k - 1] \in S /\ F[k] \in [S -> S]
      BY <2>1
    <2>3. g \in [0 .. k -> S]
      BY <2>1, <2>2
    <2>4. g[0] = b
      BY <2>1 DEF Chain
    <2>5. ASSUME NEW i \in 1 .. k
          PROVE  g[i] = F[i][g[i - 1]]
      <3>1. CASE i = k
        BY <3>1
      <3>2. CASE i # k
        <4>1. i \in 1 .. k - 1 /\ i - 1 \in 0 .. k - 1 /\ i \in 0 .. k - 1
          BY <3>2
        <4>2. g[i] = h[i] /\ g[i - 1] = h[i - 1]
          BY <4>1
        <4> QED
          BY <4>1, <4>2, <2>1 DEF Chain
      <3> QED
        BY <3>1, <3>2
    <2>6. Chain(g, b, F, k)
      <3> HIDE DEF g
      <3> QED
        BY <2>4, <2>5 DEF Chain
    <2> QED
      BY <2>3, <2>6
  <1> HIDE DEF Has
  <1>3. 0 \in Good /\ \A k \in 1 .. n : k - 1 \in Good => k \in Good
    BY <1>1, <1>2
  <1>4. n \in Good
    <2> HIDE DEF Good
    <2>1. \A i \in 0 .. n : i \in Good
      BY <1>3, UpTo
    <2> QED
      BY <2>1
  <1>5. Has(n)
    BY <1>4
  <1> QED
    BY <1>5 DEF Has

(* There is only one. *)
LEMMA ChainUnique ==
    ASSUME NEW b, NEW F, NEW n \in Nat, NEW g, NEW h, Chain(g, b, F, n), Chain(h, b, F, n)
    PROVE  \A i \in 0 .. n : g[i] = h[i]
  <1> DEFINE S == {i \in 0 .. n : g[i] = h[i]}
  <1>1. 0 \in S
    BY DEF Chain
  <1>2. \A i \in 1 .. n : i - 1 \in S => i \in S
    BY DEF Chain
  <1>3. \A i \in 0 .. n : i \in S
    <2> HIDE DEF S
    <2> QED
      BY <1>1, <1>2, UpTo
  <1> QED
    BY <1>3
-----------------------------------------------------------------------------
(* FoldLeft, which is defined by recursion over sets of positions *)

LEMMA MaxLast ==
    ASSUME NEW n \in Nat, NEW s \in SUBSET (1 .. n + 1), n + 1 \in s
    PROVE  Max(s) = n + 1
  <1>1. n + 1 \in s /\ \A y \in s : n + 1 >= y
    OBVIOUS
  <1>2. \A x \in s : (\A y \in s : x >= y) => x = n + 1
    BY <1>1
  <1> QED
    BY <1>1, <1>2 DEF Max

LEMMA MaxInterval ==
    ASSUME NEW i \in Nat \ {0}
    PROVE  Max(1 .. i) = i /\ (1 .. i) \ {i} = 1 .. i - 1
  <1>1. i - 1 \in Nat /\ 1 .. i \in SUBSET (1 .. (i - 1) + 1) /\ (i - 1) + 1 \in 1 .. i /\ (i - 1) + 1 = i
    OBVIOUS
  <1>2. Max(1 .. i) = (i - 1) + 1
    BY <1>1, MaxLast
  <1> QED
    BY <1>1, <1>2

(* A set of positions that is not empty has a greatest one. *)
LEMMA MaxIn ==
    ASSUME NEW n \in Nat, NEW s \in SUBSET (1 .. n), s # {}
    PROVE  Max(s) \in s
  <1> DEFINE Has(k) == \A t \in SUBSET (1 .. k) : t # {} => \E x \in t : \A y \in t : x >= y
             S == {k \in 0 .. n : Has(k)}
  <1>1. Has(0)
    <2>1. 1 .. 0 = {}
      OBVIOUS
    <2>2. \A t \in SUBSET {} : t = {}
      OBVIOUS
    <2> QED
      BY <2>1, <2>2, Zenon
  <1>2. ASSUME NEW k \in 1 .. n, Has(k - 1) PROVE Has(k)
    <2> SUFFICES ASSUME NEW t \in SUBSET (1 .. k), t # {} PROVE \E x \in t : \A y \in t : x >= y
      OBVIOUS
    <2>1. CASE k \in t
      BY <2>1
    <2>2. CASE k \notin t
      <3>1. t \in SUBSET (1 .. k - 1)
        BY <2>2
      <3> QED
        BY <1>2, <3>1
    <2> QED
      BY <2>1, <2>2
  <1> HIDE DEF Has
  <1>3. 0 \in S /\ \A k \in 1 .. n : k - 1 \in S => k \in S
    BY <1>1, <1>2
  <1>4. n \in S
    <2> HIDE DEF S
    <2> QED
      BY <1>3, UpTo
  <1>5. \E x \in s : \A y \in s : x >= y
    BY <1>4 DEF Has
  <1> QED
    BY <1>5 DEF Max

(* The equation that defines FoldLeft, with F[i] for the i-th step. *)
FoldsTo(g, b, F, n) ==
    g = [s \in SUBSET (1 .. n) |-> IF s = {} THEN b ELSE F[Max(s)][g[s \ {Max(s)}]]]

(* The equation has a solution, so FoldLeft satisfies it. *)
LEMMA FoldExists ==
    ASSUME NEW S, NEW b \in S, NEW F, NEW n \in Nat, F \in [1 .. n -> [S -> S]]
    PROVE  \E g \in [SUBSET (1 .. n) -> S] : FoldsTo(g, b, F, n)
  <1> DEFINE Has(k) == \E g \in [SUBSET (1 .. k) -> S] : FoldsTo(g, b, F, k)
             Good == {k \in Nat : k <= n => Has(k)}
  <1>1. Has(0)
    <2> DEFINE g == [s \in SUBSET (1 .. 0) |-> b]
    <2>1. 1 .. 0 = {}
      OBVIOUS
    <2>2. g \in [SUBSET (1 .. 0) -> S]
      OBVIOUS
    <2>3. FoldsTo(g, b, F, 0)
      BY <2>1 DEF FoldsTo
    <2> QED
      BY <2>2, <2>3
  <1>2. ASSUME NEW k \in Nat, Has(k), k + 1 <= n
        PROVE  Has(k + 1)
    <2>2. PICK h \in [SUBSET (1 .. k) -> S] : FoldsTo(h, b, F, k)
      BY <1>2
    <2> DEFINE g == [s \in SUBSET (1 .. k + 1) |->
                       IF k + 1 \in s THEN F[k + 1][h[s \ {k + 1}]] ELSE h[s]]
    <2>3. \A s \in SUBSET (1 .. k + 1) : k + 1 \notin s => s \in SUBSET (1 .. k)
      OBVIOUS
    <2>4. \A s \in SUBSET (1 .. k + 1) : s \ {k + 1} \in SUBSET (1 .. k)
      OBVIOUS
    <2>5. g \in [SUBSET (1 .. k + 1) -> S]
      BY <1>2, <2>2, <2>3, <2>4
    <2>6. ASSUME NEW s \in SUBSET (1 .. k + 1)
          PROVE  g[s] = IF s = {} THEN b ELSE F[Max(s)][g[s \ {Max(s)}]]
      <3>1. CASE k + 1 \in s
        <4>1. Max(s) = k + 1
          BY <3>1, MaxLast
        <4>2. s \ {k + 1} \in SUBSET (1 .. k + 1) /\ k + 1 \notin s \ {k + 1}
          OBVIOUS
        <4>3. g[s \ {k + 1}] = h[s \ {k + 1}]
          BY <4>2
        <4> QED
          BY <3>1, <4>1, <4>3
      <3>2. CASE k + 1 \notin s /\ s # {}
        <4>1. s \in SUBSET (1 .. k) /\ g[s] = h[s]
          BY <3>2, <2>3
        <4>2. h[s] = F[Max(s)][h[s \ {Max(s)}]]
          BY <4>1, <3>2, <2>2 DEF FoldsTo
        <4>3. s \ {Max(s)} \in SUBSET (1 .. k + 1) /\ k + 1 \notin s \ {Max(s)}
          BY <3>2
        <4>4. g[s \ {Max(s)}] = h[s \ {Max(s)}]
          BY <4>3
        <4> QED
          BY <4>1, <4>2, <4>4, <3>2
      <3>3. CASE s = {}
        <4>1. g[s] = h[s] /\ s \in SUBSET (1 .. k)
          BY <3>3
        <4>2. h[s] = b
          BY <4>1, <3>3, <2>2 DEF FoldsTo
        <4> QED
          BY <4>1, <4>2, <3>3
      <3> QED
        BY <3>1, <3>2, <3>3
    <2>7. FoldsTo(g, b, F, k + 1)
      <3> HIDE DEF g
      <3>1. g = [s \in SUBSET (1 .. k + 1) |-> g[s]]
        BY <2>5
      <3> QED
        BY <3>1, <2>6 DEF FoldsTo
    <2> QED
      BY <2>5, <2>7
  <1> HIDE DEF Has
  <1>3. 0 \in Good /\ \A k \in Nat : k \in Good => k + 1 \in Good
    BY <1>1, <1>2
  <1>4. n \in Good
    <2> HIDE DEF Good
    <2> QED
      BY <1>3, SetInduction
  <1>5. Has(n)
    BY <1>4
  <1> QED
    BY <1>5 DEF Has

(* What a solution does to the first i elements. *)
LEMMA FoldSteps ==
    ASSUME NEW b, NEW F, NEW n \in Nat, NEW g, FoldsTo(g, b, F, n)
    PROVE  /\ g[1 .. 0] = b
           /\ \A i \in 1 .. n : g[1 .. i] = F[i][g[1 .. i - 1]]
  <1>1. g[1 .. 0] = b
    <2>1. 1 .. 0 = {} /\ 1 .. 0 \in SUBSET (1 .. n)
      OBVIOUS
    <2> QED
      BY <2>1 DEF FoldsTo
  <1>2. ASSUME NEW i \in 1 .. n
        PROVE  g[1 .. i] = F[i][g[1 .. i - 1]]
    <2>1. 1 .. i \in SUBSET (1 .. n) /\ 1 .. i # {}
      OBVIOUS
    <2>2. Max(1 .. i) = i
      <3>1. i - 1 \in Nat /\ 1 .. i \in SUBSET (1 .. (i - 1) + 1) /\ (i - 1) + 1 \in 1 .. i /\ (i - 1) + 1 = i
        OBVIOUS
      <3> HIDE DEF Max
      <3>2. Max(1 .. i) = (i - 1) + 1
        BY <3>1, MaxLast
      <3> QED
        BY <3>1, <3>2
    <2>3. (1 .. i) \ {i} = 1 .. i - 1
      OBVIOUS
    <2> QED
      BY <2>1, <2>2, <2>3 DEF FoldsTo
  <1> QED
    BY <1>1, <1>2
(* Sequences that grow by one. *)
LEMMA Grown ==
    ASSUME NEW T, NEW s \in Seq(T), NEW x \in T
    PROVE  /\ Append(s, x) \in Seq(T) /\ Len(Append(s, x)) = Len(s) + 1
           /\ DOMAIN s = 1 .. Len(s) /\ Len(s) \in Nat
           /\ DOMAIN Append(s, x) = 1 .. Len(s) + 1
           /\ Append(s, x)[Len(s) + 1] = x
           /\ \A k \in 1 .. Len(s) : Append(s, x)[k] = s[k]
           /\ Append(s, x) # <<>>
  OBVIOUS
-----------------------------------------------------------------------------
(* FlattenSeq *)

(* The equation that defines FlattenSeq, and the loop that computes it. *)
Flattened(f, s) == f = [i \in 1 .. Len(s) |-> IF i = 1 THEN s[i] ELSE f[i - 1] \o s[i]]

Joins(T, s) == [i \in 1 .. Len(s) |-> [x \in Seq(T) |-> x \o s[i]]]

LEMMA JoinsType ==
    ASSUME NEW T, NEW s \in Seq(Seq(T))
    PROVE  Joins(T, s) \in [1 .. Len(s) -> [Seq(T) -> Seq(T)]]
  BY DEF Joins

LEMMA FlattenIsChain ==
    ASSUME NEW T, NEW s \in Seq(Seq(T)),
           NEW h \in [0 .. Len(s) -> Seq(T)], Chain(h, <<>>, Joins(T, s), Len(s))
    PROVE  FlattenSeq(s) = h[Len(s)]
  <1> DEFINE n == Len(s)
  <1>1. n \in Nat /\ (n = 0 => s = <<>>) /\ \A i \in 1 .. n : s[i] \in Seq(T)
    OBVIOUS
  <1> HIDE DEF n
  <1>2. h[0] = <<>> /\ \A i \in 1 .. n : h[i - 1] \in Seq(T) /\ h[i] = h[i - 1] \o s[i]
    <2>1. h[0] = <<>>
      BY DEF Chain
    <2>2. ASSUME NEW i \in 1 .. n PROVE h[i - 1] \in Seq(T) /\ h[i] = h[i - 1] \o s[i]
      <3>1. h[i] = Joins(T, s)[i][h[i - 1]]
        BY DEF Chain, n
      <3>2. i - 1 \in 0 .. n
        BY <1>1
      <3>3. h[i - 1] \in Seq(T)
        BY <3>2 DEF n
      <3> QED
        BY <3>1, <3>3 DEF Joins, n
    <2> QED
      BY <2>1, <2>2
  <1>3. CASE n = 0
    BY <1>1, <1>2, <1>3 DEF FlattenSeq, n
  <1>4. CASE n # 0
    <2> DEFINE f == CHOOSE f : Flattened(f, s)
               g == [i \in 1 .. n |-> h[i]]
    <2>1. FlattenSeq(s) = f[n]
      BY <1>4, Zenon DEF FlattenSeq, Flattened, n
    <2>2. ASSUME NEW i \in 1 .. n
          PROVE  g[i] = IF i = 1 THEN s[i] ELSE g[i - 1] \o s[i]
      <3>1. CASE i = 1
        <4>1. h[1] = h[1 - 1] \o s[1] /\ s[1] \in Seq(T)
          BY <1>1, <1>2, <3>1
        <4>a. h[1 - 1] = <<>>
          BY <1>2
        <4>2. h[1] = <<>> \o s[1]
          BY <4>1, <4>a, Zenon
        <4>3. <<>> \o s[1] = s[1]
          BY <4>1, ConcatEmptySeq
        <4> QED
          BY <4>2, <4>3, <3>1
      <3>2. CASE i # 1
        <4>1. i - 1 \in 1 .. n
          BY <3>2, <1>1
        <4> QED
          BY <3>2, <4>1, <1>2
      <3> QED
        BY <3>1, <3>2
    <2>3. Flattened(g, s)
      <3>1. g = [i \in 1 .. n |-> g[i]]
        OBVIOUS
      <3> HIDE DEF g
      <3> QED
        BY <2>2, <3>1 DEF Flattened, n
    <2>4. Flattened(f, s)
      <3> HIDE DEF g
      <3> QED
        BY <2>3, Zenon
    <2> HIDE DEF f
    <2> DEFINE S == {i \in 0 .. n : i > 0 => f[i] = h[i]}
    <2>5. 0 \in S
      BY <1>1
    <2>6. \A i \in 1 .. n : i - 1 \in S => i \in S
      <3> SUFFICES ASSUME NEW i \in 1 .. n, i - 1 \in S PROVE f[i] = h[i]
        BY <1>1
      <3>1. f[i] = IF i = 1 THEN s[i] ELSE f[i - 1] \o s[i]
        BY <2>4 DEF Flattened, n
      <3>2. g[i] = IF i = 1 THEN s[i] ELSE g[i - 1] \o s[i]
        BY <2>2
      <3>3. i # 1 => f[i - 1] = g[i - 1]
        BY <1>1
      <3> HIDE DEF S
      <3>4. f[i] = g[i]
        <4> HIDE DEF g
        <4> QED
          BY <3>1, <3>2, <3>3
      <3> QED
        BY <3>4
    <2>7. \A i \in 0 .. n : i \in S
      <3> HIDE DEF S
      <3> QED
        BY <2>5, <2>6, <1>1, UpTo
    <2> QED
      BY <2>1, <2>7, <1>1, <1>4 DEF n
  <1> QED
    BY <1>3, <1>4

(* Nothing is nothing, and what comes last is last. *)
LEMMA FlattenEmpty == FlattenSeq(<<>>) = <<>>
  BY DEF FlattenSeq

LEMMA FlattenType ==
    ASSUME NEW T, NEW s \in Seq(Seq(T))
    PROVE  FlattenSeq(s) \in Seq(T)
  <1>1. <<>> \in Seq(T) /\ Len(s) \in Nat
    OBVIOUS
  <1>2. Joins(T, s) \in [1 .. Len(s) -> [Seq(T) -> Seq(T)]]
    BY JoinsType
  <1>3. PICK h \in [0 .. Len(s) -> Seq(T)] : Chain(h, <<>>, Joins(T, s), Len(s))
    BY <1>1, <1>2, ChainExists
  <1>4. FlattenSeq(s) = h[Len(s)]
    BY <1>3, FlattenIsChain
  <1> QED
    BY <1>3, <1>4

LEMMA FlattenAppend ==
    ASSUME NEW T, NEW s \in Seq(Seq(T)), NEW x \in Seq(T)
    PROVE  FlattenSeq(Append(s, x)) = FlattenSeq(s) \o x
  <1> DEFINE t == Append(s, x)
             n == Len(s)
  <1>1. <<>> \in Seq(T) /\ n \in Nat /\ t \in Seq(Seq(T)) /\ Len(t) = n + 1
    OBVIOUS
  <1>2. \A i \in 1 .. n : t[i] = s[i]
    OBVIOUS
  <1>3. t[n + 1] = x
    OBVIOUS
  <1> HIDE DEF t, n
  <1>a. Joins(T, s) \in [1 .. n -> [Seq(T) -> Seq(T)]]
    BY JoinsType DEF n
  <1>b. Joins(T, t) \in [1 .. Len(t) -> [Seq(T) -> Seq(T)]]
    BY <1>1, JoinsType
  <1>4. PICK h : h \in [0 .. n -> Seq(T)] /\ Chain(h, <<>>, Joins(T, s), n)
    BY <1>1, <1>a, ChainExists
  <1>5. PICK g : g \in [0 .. Len(t) -> Seq(T)] /\ Chain(g, <<>>, Joins(T, t), Len(t))
    <2>1. Len(t) \in Nat
      BY <1>1
    <2> QED
      BY <1>1, <2>1, <1>b, ChainExists
  <1>6. FlattenSeq(s) = h[n] /\ FlattenSeq(t) = g[n + 1]
    BY <1>1, <1>4, <1>5, FlattenIsChain DEF n
  <1>7. g[n] = h[n]
    <2>1. Chain(g, <<>>, Joins(T, t), n)
      BY <1>1, <1>5 DEF Chain
    <2>2. ASSUME NEW i \in 1 .. n PROVE Joins(T, t)[i] = Joins(T, s)[i]
      <3>1. i \in 1 .. Len(t) /\ i \in 1 .. Len(s) /\ t[i] = s[i]
        BY <1>1, <1>2 DEF n
      <3> QED
        BY <3>1 DEF Joins
    <2>3. Chain(g, <<>>, Joins(T, s), n)
      <3>1. \A i \in 1 .. n : g[i] = Joins(T, s)[i][g[i - 1]]
        BY <2>1, <2>2 DEF Chain
      <3> QED
        BY <2>1, <3>1 DEF Chain
    <2>4. \A i \in 0 .. n : g[i] = h[i]
      BY <1>1, <1>4, <2>3, ChainUnique
    <2> QED
      BY <1>1, <2>4
  <1>8. g[n + 1] = g[n] \o x
    <2>1. n + 1 \in 1 .. Len(t) /\ (n + 1) - 1 = n /\ g[n] \in Seq(T)
      BY <1>1, <1>5
    <2>2. g[n + 1] = Joins(T, t)[n + 1][g[n]]
      BY <1>5, <2>1 DEF Chain
    <2> QED
      BY <2>1, <2>2, <1>3 DEF Joins
  <1> QED
    BY <1>6, <1>7, <1>8 DEF t

LEMMA AppendToConcat ==
    ASSUME NEW T, NEW s \in Seq(T), NEW q \in Seq(T), NEW y \in T
    PROVE  s \o Append(q, y) = Append(s \o q, y)
  OBVIOUS

LEMMA ConcatAssociates ==
    ASSUME NEW T, NEW a \in Seq(T), NEW b \in Seq(T), NEW c \in Seq(T)
    PROVE  a \o (b \o c) = (a \o b) \o c
  BY SMTT(30)

LEMMA FlattenCons ==
    ASSUME NEW T, NEW x \in Seq(T), NEW s \in Seq(Seq(T))
    PROVE  FlattenSeq(<<x>> \o s) = x \o FlattenSeq(s)
  <1> DEFINE n == Len(s)
             q(k) == SubSeq(s, 1, k)
             Good(k) == FlattenSeq(<<x>> \o q(k)) = x \o FlattenSeq(q(k))
             S == {k \in 0 .. n : Good(k)}
  <1>1. n \in Nat /\ \A k \in 0 .. n : q(k) \in Seq(Seq(T))
    OBVIOUS
  <1>2. <<x>> \in Seq(Seq(T))
    OBVIOUS
  <1>3. Good(0)
    <2>1. q(0) = <<>>
      OBVIOUS
    <2>2. <<x>> \o <<>> = Append(<<>>, x) /\ <<>> \in Seq(Seq(T)) /\ <<>> \in Seq(T)
      OBVIOUS
    <2>3. FlattenSeq(Append(<<>>, x)) = FlattenSeq(<<>>) \o x
      BY <2>2, FlattenAppend
    <2>4. <<>> \o x = x /\ x \o <<>> = x
      OBVIOUS
    <2> HIDE DEF q
    <2> QED
      BY <2>1, <2>2, <2>3, <2>4, FlattenEmpty, Zenon
  <1>4. ASSUME NEW k \in 1 .. n, Good(k - 1) PROVE Good(k)
    <2> DEFINE r == q(k - 1)
               y == s[k]
    <2>1. r \in Seq(Seq(T)) /\ y \in Seq(T) /\ q(k) = Append(r, y)
      OBVIOUS
    <2>2. FlattenSeq(<<x>> \o r) = x \o FlattenSeq(r)
      BY <1>4
    <2> HIDE DEF q, r, y
    <2>a. <<x>> \o Append(r, y) = Append(<<x>> \o r, y)
      <3> DEFINE U == Seq(T)
                 o == <<x>>
      <3>1. r \in Seq(U) /\ y \in U /\ o \in Seq(U)
        BY <1>2, <2>1
      <3> HIDE DEF U, o
      <3>2. o \o Append(r, y) = Append(o \o r, y)
        BY <3>1, AppendToConcat
      <3> QED
        BY <3>2 DEF o
    <2>b. <<x>> \o r \in Seq(Seq(T))
      BY <1>2, <2>1
    <2>3. <<x>> \o Append(r, y) = Append(<<x>> \o r, y) /\ <<x>> \o r \in Seq(Seq(T))
      BY <2>a, <2>b
    <2>4. FlattenSeq(Append(<<x>> \o r, y)) = FlattenSeq(<<x>> \o r) \o y
      BY <2>1, <2>3, FlattenAppend
    <2>5. FlattenSeq(Append(r, y)) = FlattenSeq(r) \o y /\ FlattenSeq(r) \in Seq(T)
      BY <2>1, FlattenAppend, FlattenType
    <2>6. x \o (FlattenSeq(r) \o y) = (x \o FlattenSeq(r)) \o y
      <3> DEFINE z == FlattenSeq(r)
      <3>1. z \in Seq(T) /\ y \in Seq(T)
        BY <2>1, <2>5
      <3> HIDE DEF z
      <3>2. x \o (z \o y) = (x \o z) \o y
        BY <3>1, ConcatAssociates, SMTT(30)
      <3> QED
        BY <3>2 DEF z
    <2> QED
      BY <2>1, <2>2, <2>3, <2>4, <2>5, <2>6, Zenon
  <1>5. q(n) = s
    OBVIOUS
  <1> HIDE DEF Good, n
  <1>6. 0 \in S /\ \A k \in 1 .. n : k - 1 \in S => k \in S
    BY <1>1, <1>3, <1>4
  <1>7. n \in S
    <2> HIDE DEF S
    <2>1. \A i \in 0 .. n : i \in S
      BY <1>1, <1>6, UpTo
    <2> QED
      BY <1>1, <2>1
  <1>8. Good(n)
    BY <1>7
  <1> HIDE DEF q
  <1> QED
    BY <1>5, <1>8, Zenon DEF Good
-----------------------------------------------------------------------------
(* The encoding *)

LEMMA EscapeCodes ==
    /\ DOMAIN escapes = {END, ESC, ZER}
    /\ escapes[END] = ESC_END /\ escapes[ESC] = ESC_ESC /\ escapes[ZER] = ESC_ZER
    /\ escape_codes = {ESC_END, ESC_ESC, ESC_ZER}
    /\ unescape(ESC_END) = END /\ unescape(ESC_ESC) = ESC /\ unescape(ESC_ZER) = ZER
  <1>1. /\ DOMAIN escapes = {END, ESC, ZER}
        /\ escapes[END] = ESC_END /\ escapes[ESC] = ESC_ESC /\ escapes[ZER] = ESC_ZER
    BY DEF escapes, END, ESC, ZER, ESC_END, ESC_ESC, ESC_ZER
  <1>2. escape_codes = {ESC_END, ESC_ESC, ESC_ZER}
    BY <1>1 DEF escape_codes
  <1>3. /\ ESC_END # ESC_ESC /\ ESC_END # ESC_ZER /\ ESC_ESC # ESC_ZER
    BY DEF ESC_END, ESC_ESC, ESC_ZER
  <1>4. unescape(ESC_END) = END
    BY <1>1, <1>3 DEF unescape
  <1>5. unescape(ESC_ESC) = ESC
    BY <1>1, <1>3 DEF unescape
  <1>6. unescape(ESC_ZER) = ZER
    BY <1>1, <1>3 DEF unescape
  <1> QED
    BY <1>1, <1>2, <1>4, <1>5, <1>6

LEMMA StuffType == ASSUME NEW b \in Bytes PROVE stuff(b) \in Seq(Bytes)
  <1>1. ESC \in Bytes /\ ESC_END \in Bytes /\ ESC_ESC \in Bytes /\ ESC_ZER \in Bytes
    BY DEF Bytes
  <1>2. b \in DOMAIN escapes => escapes[b] \in Bytes
    BY <1>1, EscapeCodes
  <1> QED
    BY <1>1, <1>2 DEF stuff

Stuffed(packet) == [i \in 1 .. Len(packet) |-> stuff(packet[i])]

LEMMA StuffedType ==
    ASSUME NEW packet \in Seq(Bytes)
    PROVE  /\ Stuffed(packet) \in Seq(Seq(Bytes)) /\ Len(Stuffed(packet)) = Len(packet)
           /\ FlattenSeq(Stuffed(packet)) \in Seq(Bytes)
  <1>1. \A i \in 1 .. Len(packet) : stuff(packet[i]) \in Seq(Bytes)
    BY StuffType
  <1>2. Stuffed(packet) \in Seq(Seq(Bytes)) /\ Len(Stuffed(packet)) = Len(packet)
    BY <1>1 DEF Stuffed
  <1> QED
    BY <1>2, FlattenType

LEMMA FrameType ==
    ASSUME NEW packet \in Seq(Bytes) PROVE frame_of(packet) \in Seq(Bytes)
  <1>1. <<END>> \in Seq(Bytes)
    BY DEF Bytes
  <1>2. FlattenSeq(Stuffed(packet)) \in Seq(Bytes)
    BY StuffedType
  <1>3. \A x, y, z \in Seq(Bytes) : (x \o y) \o z \in Seq(Bytes)
    OBVIOUS
  <1> QED
    BY <1>1, <1>2, <1>3, Zenon DEF frame_of, Stuffed

LEMMA Prefixed ==
    ASSUME NEW T, NEW x \in T, NEW r \in Seq(T)
    PROVE  /\ <<x>> \o r \in Seq(T) /\ <<x>> \o r # <<>>
           /\ Head(<<x>> \o r) = x /\ Tail(<<x>> \o r) = r
  OBVIOUS

LEMMA PrefixedTwo ==
    ASSUME NEW T, NEW x \in T, NEW y \in T, NEW r \in Seq(T)
    PROVE  <<x, y>> \o r = <<x>> \o (<<y>> \o r)
  <1>1. <<x>> \in Seq(T) /\ <<y>> \in Seq(T)
    OBVIOUS
  <1>2. <<x>> \o <<y>> = <<x, y>>
    <2> DEFINE u == <<x>> \o <<y>>
               v == <<x, y>>
    <2>1. u \in Seq(T) /\ Len(u) = 2 /\ u[1] = x /\ u[2] = y
      BY <1>1
    <2>2. v \in Seq(T) /\ Len(v) = 2 /\ v[1] = x /\ v[2] = y
      OBVIOUS
    <2> HIDE DEF u, v
    <2>3. u = v
      BY <2>1, <2>2, SeqEqual
    <2> QED
      BY <2>3 DEF u, v
  <1>3. <<x>> \o (<<y>> \o r) = (<<x>> \o <<y>>) \o r
    <2> DEFINE a == <<x>>
               b == <<y>>
    <2>1. a \in Seq(T) /\ b \in Seq(T)
      BY <1>1
    <2> HIDE DEF a, b
    <2>2. a \o (b \o r) = (a \o b) \o r
      BY <2>1, ConcatAssociates, SMTT(30)
    <2> QED
      BY <2>2 DEF a, b
  <1> QED
    BY <1>2, <1>3

(* What is left of a sequence after its first n elements. *)
From(t, n) == SubSeq(t, n + 1, Len(t))

LEMMA FromType ==
    ASSUME NEW T, NEW t \in Seq(T), NEW n \in 0 .. Len(t)
    PROVE  From(t, n) \in Seq(T) /\ From(t, 0) = t /\ From(t, Len(t)) = <<>>
  BY DEF From

LEMMA FromCons ==
    ASSUME NEW T, NEW t \in Seq(T), NEW n \in Nat, n < Len(t)
    PROVE  From(t, n) = <<t[n + 1]>> \o From(t, n + 1)
  <1> DEFINE u == From(t, n)
             r == From(t, n + 1)
             x == t[n + 1]
             v == <<x>> \o r
  <1>1. Len(t) \in Nat /\ x \in T /\ u \in Seq(T) /\ r \in Seq(T)
    BY DEF From
  <1>2. Len(u) = Len(t) - n /\ \A i \in 1 .. Len(t) - n : u[i] = t[n + i]
    BY DEF From
  <1>3. Len(r) = Len(t) - (n + 1) /\ \A i \in 1 .. Len(t) - (n + 1) : r[i] = t[(n + 1) + i]
    BY DEF From
  <1> HIDE DEF u, r
  <1>4. v \in Seq(T) /\ Len(v) = 1 + Len(r) /\ v[1] = x /\ \A i \in 1 .. Len(r) : v[i + 1] = r[i]
    BY <1>1
  <1> HIDE DEF v
  <1>5. Len(u) = Len(v)
    BY <1>1, <1>2, <1>3, <1>4
  <1>6. \A i \in 1 .. Len(u) : u[i] = v[i]
    <2> TAKE i \in 1 .. Len(u)
    <2>1. CASE i = 1
      BY <1>1, <1>2, <1>4, <2>1
    <2>2. CASE i # 1
      <3>1. i - 1 \in 1 .. Len(r) /\ (i - 1) + 1 = i /\ (n + 1) + (i - 1) = n + i
        BY <1>1, <1>2, <1>3, <2>2
      <3>2. v[(i - 1) + 1] = r[i - 1]
        BY <1>4, <3>1
      <3>3. r[i - 1] = t[(n + 1) + (i - 1)]
        BY <1>3, <3>1
      <3>4. u[i] = t[n + i]
        BY <1>2
      <3> QED
        BY <3>1, <3>2, <3>3, <3>4
    <2> QED
      BY <2>1, <2>2
  <1>7. u = v
    BY <1>1, <1>4, <1>5, <1>6, SeqEqual
  <1> QED
    BY <1>7 DEF u, v, r

LEMMA FromAppend ==
    ASSUME NEW T, NEW t \in Seq(T), NEW x \in T, NEW n \in 0 .. Len(t)
    PROVE  From(Append(t, x), n) = Append(From(t, n), x)
  <1> DEFINE a == Append(t, x)
             u == From(a, n)
             r == From(t, n)
             v == Append(r, x)
  <1>1. Len(t) \in Nat /\ a \in Seq(T) /\ Len(a) = Len(t) + 1 /\ a[Len(t) + 1] = x
        /\ \A i \in 1 .. Len(t) : a[i] = t[i]
    OBVIOUS
  <1> HIDE DEF a
  <1>2. u \in Seq(T) /\ Len(u) = Len(t) + 1 - n /\ \A i \in 1 .. Len(t) + 1 - n : u[i] = a[n + i]
    BY <1>1 DEF From
  <1>3. r \in Seq(T) /\ Len(r) = Len(t) - n /\ \A i \in 1 .. Len(t) - n : r[i] = t[n + i]
    BY DEF From
  <1> HIDE DEF u, r
  <1>4. v \in Seq(T) /\ Len(v) = Len(r) + 1 /\ v[Len(r) + 1] = x /\ \A i \in 1 .. Len(r) : v[i] = r[i]
    BY <1>3
  <1> HIDE DEF v
  <1>5. \A i \in 1 .. Len(u) : u[i] = v[i]
    <2> TAKE i \in 1 .. Len(u)
    <2>1. CASE i = Len(u)
      BY <1>1, <1>2, <1>3, <1>4, <2>1
    <2>2. CASE i # Len(u)
      <3>1. i \in 1 .. Len(t) - n /\ n + i \in 1 .. Len(t)
        BY <1>1, <1>2, <2>2
      <3> QED
        BY <1>1, <1>2, <1>3, <1>4, <3>1
    <2> QED
      BY <2>1, <2>2
  <1>6. u = v
    <2>1. Len(u) = Len(v)
      BY <1>1, <1>2, <1>3, <1>4
    <2> QED
      BY <1>2, <1>4, <1>5, <2>1, SeqEqual
  <1> QED
    BY <1>6 DEF u, v, a, r

(* ... and of the encoding of a packet after its first k bytes. *)
Enc(p, k) == FlattenSeq(From(Stuffed(p), k)) \o <<END>>

LEMMA EncType ==
    ASSUME NEW p \in Seq(Bytes), NEW k \in 0 .. Len(p)
    PROVE  FlattenSeq(From(Stuffed(p), k)) \in Seq(Bytes) /\ Enc(p, k) \in Seq(Bytes)
  <1>1. <<END>> \in Seq(Bytes)
    BY DEF Bytes
  <1>2. \A x, y \in Seq(Bytes) : x \o y \in Seq(Bytes)
    OBVIOUS
  <1>3. Stuffed(p) \in Seq(Seq(Bytes)) /\ Len(Stuffed(p)) = Len(p)
    BY StuffedType
  <1>4. From(Stuffed(p), k) \in Seq(Seq(Bytes))
    <2> DEFINE U == Seq(Bytes)
               t == Stuffed(p)
    <2>1. t \in Seq(U) /\ k \in 0 .. Len(t)
      BY <1>3
    <2> HIDE DEF U, t
    <2>2. From(t, k) \in Seq(U)
      BY <2>1, FromType
    <2> QED
      BY <2>2 DEF U, t
  <1>5. FlattenSeq(From(Stuffed(p), k)) \in Seq(Bytes)
    BY <1>4, FlattenType
  <1> QED
    BY <1>1, <1>2, <1>5, Zenon DEF Enc

LEMMA EncEnd ==
    ASSUME NEW p \in Seq(Bytes)
    PROVE  Enc(p, Len(p)) = <<END>>
  <1>1. From(Stuffed(p), Len(p)) = <<>>
    <2>1. Stuffed(p) \in Seq(Seq(Bytes)) /\ Len(Stuffed(p)) = Len(p)
      BY StuffedType
    <2> QED
      BY <2>1, FromType
  <1>2. <<>> \o <<END>> = <<END>>
    OBVIOUS
  <1> QED
    BY <1>1, <1>2, FlattenEmpty, Zenon DEF Enc

LEMMA EncCons ==
    ASSUME NEW p \in Seq(Bytes), NEW k \in Nat, k < Len(p)
    PROVE  Enc(p, k) = stuff(p[k + 1]) \o Enc(p, k + 1)
  <1> DEFINE t == Stuffed(p)
             x == stuff(p[k + 1])
             s == From(t, k + 1)
             F == FlattenSeq(s)
  <1>1. t \in Seq(Seq(Bytes)) /\ Len(t) = Len(p) /\ k + 1 \in 0 .. Len(p) /\ t[k + 1] = x
    <2>1. k + 1 \in 0 .. Len(p) /\ k + 1 \in 1 .. Len(p)
      OBVIOUS
    <2>2. t[k + 1] = x
      BY <2>1 DEF Stuffed
    <2>3. t \in Seq(Seq(Bytes)) /\ Len(t) = Len(p)
      BY StuffedType
    <2> QED
      BY <2>1, <2>2, <2>3, Zenon
  <1>2. x \in Seq(Bytes) /\ F \in Seq(Bytes) /\ s \in Seq(Seq(Bytes))
    <2>1. x \in Seq(Bytes)
      BY StuffType
    <2>2. F \in Seq(Bytes)
      BY <1>1, EncType
    <2>3. s \in Seq(Seq(Bytes))
      <3> DEFINE U == Seq(Bytes)
      <3>1. t \in Seq(U)
        BY <1>1
      <3> HIDE DEF t, U
      <3>2. s \in Seq(U)
        BY <1>1, <3>1, FromType
      <3> QED
        BY <3>2 DEF U
    <2> QED
      BY <2>1, <2>2, <2>3
  <1>3. From(t, k) = <<x>> \o s
    <2> DEFINE U == Seq(Bytes)
    <2>1. t \in Seq(U)
      BY <1>1
    <2> HIDE DEF t, U, x
    <2>2. From(t, k) = <<t[k + 1]>> \o From(t, k + 1)
      BY <1>1, <2>1, FromCons
    <2> QED
      BY <1>1, <2>2
  <1>4. FlattenSeq(<<x>> \o s) = x \o F
    <2> HIDE DEF x, s
    <2> QED
      BY <1>2, FlattenCons DEF F
  <1>5. <<END>> \in Seq(Bytes)
    BY DEF Bytes
  <1>6. (x \o F) \o <<END>> = x \o (F \o <<END>>)
    <2> HIDE DEF x, F
    <2> QED
      BY <1>2, <1>5, ConcatAssociates, SMTT(30)
  <1> QED
    BY <1>3, <1>4, <1>6, Zenon DEF Enc

LEMMA FrameIsEnc ==
    ASSUME NEW p \in Seq(Bytes)
    PROVE  frame_of(p) = <<END>> \o Enc(p, 0)
  <1>1. <<END>> \in Seq(Bytes) /\ 0 \in 0 .. Len(p)
    BY DEF Bytes
  <1>2. From(Stuffed(p), 0) = Stuffed(p)
    BY StuffedType, FromType
  <1> DEFINE F == FlattenSeq(From(Stuffed(p), 0))
  <1>3. F \in Seq(Bytes)
    BY <1>1, EncType
  <1>4. (<<END>> \o F) \o <<END>> = <<END>> \o (F \o <<END>>)
    <2> HIDE DEF F
    <2> QED
      BY <1>1, <1>3, ConcatAssociates
  <1> QED
    BY <1>2, <1>4, Zenon DEF Enc, frame_of, Stuffed
-----------------------------------------------------------------------------
(* Division *)

LEMMA Remainder ==
    ASSUME NEW W \in Nat \ {0}, NEW x \in Nat
    PROVE  x % W \in 0 .. W - 1 /\ \E k \in Nat : x = W * k + (x % W)
  <1>1. x % W \in 0 .. W - 1 /\ x = W * (x \div W) + (x % W)
    BY SMT
  <1>2. x \div W \in Nat
    BY SMT
  <1> QED
    BY <1>1, <1>2

LEMMA RemainderIs ==
    ASSUME NEW W \in Nat \ {0}, NEW x \in Nat, NEW k \in Nat, NEW r \in 0 .. W - 1, x = W * k + r
    PROVE  x % W = r
  <1>1. PICK j \in Nat : x = W * j + (x % W)
    BY Remainder
  <1>2. x % W \in 0 .. W - 1
    BY Remainder
  <1> DEFINE t == x % W
  <1> HIDE DEF t
  <1>3. t \in 0 .. W - 1 /\ W * j + t = W * k + r
    BY <1>1, <1>2 DEF t
  <1>4. CASE j < k
    <2>1. PICK d \in Nat : d > 0 /\ k = j + d
      <3>1. k - j \in Nat /\ k - j > 0 /\ k = j + (k - j)
        BY <1>4
      <3> QED
        BY <3>1
    <2>2. W * k = W * j + W * d /\ W * d >= W
      BY <2>1
    <2> QED
      BY <1>3, <2>2
  <1>5. CASE j > k
    <2>1. PICK d \in Nat : d > 0 /\ j = k + d
      <3>1. j - k \in Nat /\ j - k > 0 /\ j = k + (j - k)
        BY <1>5
      <3> QED
        BY <3>1
    <2>2. W * j = W * k + W * d /\ W * d >= W
      BY <2>1
    <2> QED
      BY <1>3, <2>2
  <1>6. CASE j = k
    BY <1>3, <1>6 DEF t
  <1> QED
    BY <1>4, <1>5, <1>6

LEMMA QuotientIs ==
    ASSUME NEW W \in Nat \ {0}, NEW x \in Nat, NEW k \in Nat, NEW r \in 0 .. W - 1, x = W * k + r
    PROVE  x \div W = k
  <1> DEFINE j == x \div W
  <1>1. j \in Nat /\ x = W * j + (x % W) /\ x % W = r
    <2>1. x \div W \in Nat /\ x = W * (x \div W) + (x % W)
      BY SMT
    <2>2. x % W = r
      BY RemainderIs
    <2> QED
      BY <2>1, <2>2
  <1> HIDE DEF j
  <1>2. W * j + r = W * k + r
    BY <1>1
  <1>3. CASE j < k
    <2>1. PICK d \in Nat : d > 0 /\ k = j + d
      <3>1. k - j \in Nat /\ k - j > 0 /\ k = j + (k - j)
        BY <1>1, <1>3
      <3> QED
        BY <3>1
    <2>2. W * k = W * j + W * d /\ W * d >= W
      BY <1>1, <2>1
    <2> QED
      BY <1>1, <1>2, <2>2
  <1>4. CASE j > k
    <2>1. PICK d \in Nat : d > 0 /\ j = k + d
      <3>1. j - k \in Nat /\ j - k > 0 /\ j = k + (j - k)
        BY <1>1, <1>4
      <3> QED
        BY <3>1
    <2>2. W * j = W * k + W * d /\ W * d >= W
      BY <2>1
    <2> QED
      BY <1>1, <1>2, <2>2
  <1>5. CASE j = k
    BY <1>5 DEF j
  <1> QED
    BY <1>1, <1>3, <1>4, <1>5

(* A byte of a word is that of the number the word was cut from. *)
LEMMA ByteOfWord ==
    ASSUME NEW W \in Nat \ {0}, NEW B \in Nat \ {0}, W % B = 0, NEW x \in Nat
    PROVE  (x % W) % B = x % B
  <1>1. PICK k \in Nat : x = W * k + (x % W)
    BY Remainder
  <1>2. PICK j \in Nat : W = B * j + (W % B)
    BY Remainder
  <1> DEFINE y == x % W
  <1>3. y \in Nat
    BY Remainder
  <1> HIDE DEF y
  <1>4. PICK i \in Nat : y = B * i + (y % B)
    BY <1>3, Remainder
  <1>5. y % B \in 0 .. B - 1
    BY <1>3, Remainder
  <1> DEFINE t == y % B
  <1> HIDE DEF t
  <1>6. x = W * k + y /\ W = B * j /\ y = B * i + t /\ t \in 0 .. B - 1
    BY <1>1, <1>2, <1>4, <1>5 DEF y, t
  <1>7. x = B * (j * k + i) + t /\ j * k + i \in Nat
    <2>1. (B * j) * k = B * (j * k) /\ j * k \in Nat
      BY SMT
    <2>2. B * (j * k + i) = B * (j * k) + B * i
      BY <2>1
    <2> QED
      BY <1>6, <2>1, <2>2
  <1>8. x % B = t
    BY <1>6, <1>7, RemainderIs
  <1> QED
    BY <1>8 DEF t, y

(* A digit more, before or after the number is cut to a word. *)
LEMMA DigitOfWord ==
    ASSUME NEW W \in Nat \ {0}, NEW x \in Nat, NEW b \in Nat, NEW d \in Nat
    PROVE  ((x % W) * b + d) % W = (x * b + d) % W
  <1> DEFINE y == x % W
             z == y * b + d
  <1>1. PICK k \in Nat : x = W * k + y
    BY Remainder
  <1>2. y \in Nat
    BY Remainder
  <1> HIDE DEF y
  <1>3. z \in Nat
    BY <1>2
  <1> HIDE DEF z
  <1>4. PICK i \in Nat : z = W * i + (z % W)
    BY <1>3, Remainder
  <1>5. z % W \in 0 .. W - 1
    BY <1>3, Remainder
  <1> DEFINE t == z % W
  <1> HIDE DEF t
  <1>6. x = W * k + y /\ z = y * b + d /\ z = W * i + t /\ t \in 0 .. W - 1
    BY <1>1, <1>4, <1>5 DEF z, t
  <1>7. x * b + d = W * (k * b + i) + t /\ k * b + i \in Nat
    <2>1. (W * k) * b = W * (k * b) /\ k * b \in Nat
      BY SMT
    <2>2. x * b = (W * k) * b + y * b
      BY <1>2, <1>6
    <2>3. W * (k * b + i) = W * (k * b) + W * i
      BY <2>1
    <2> QED
      BY <1>2, <1>6, <2>1, <2>2, <2>3
  <1>8. x * b + d \in Nat
    BY SMT
  <1>9. (x * b + d) % W = t
    BY <1>6, <1>7, <1>8, RemainderIs
  <1> QED
    BY <1>9 DEF t, z, y

LEMMA DigitMore == ASSUME NEW x \in Nat, NEW b \in Nat, NEW d \in Nat PROVE x * b + d \in Nat
  BY SMT
-----------------------------------------------------------------------------
(* Greatest and least numbers *)

LEMMA StartOf ==
    ASSUME NEW n \in Nat, NEW k \in 1 .. n
    PROVE  1 .. k \in SUBSET (1 .. n) /\ 1 .. k # {}
  OBVIOUS

(* The longest start whose positions are all in A. *)
Starts(n, A) == {i \in 0 .. n : \A k \in 1 .. i : k \in A}

LEMMA LongestStart ==
    ASSUME NEW n \in Nat, NEW A, NEW m, m = Max(Starts(n, A))
    PROVE  m \in 0 .. n /\ (\A k \in 1 .. m : k \in A) /\ (m < n => m + 1 \notin A)
  <1> DEFINE S == Starts(n, A)
             Has(j) == \A T \in SUBSET (0 .. j) : T # {} => \E x \in T : \A y \in T : x >= y
             Good == {j \in 0 .. n : Has(j)}
  <1>1. Has(0)
    <2> SUFFICES ASSUME NEW T \in SUBSET (0 .. 0), T # {} PROVE \E x \in T : \A y \in T : x >= y
      OBVIOUS
    <2>1. PICK x \in T : TRUE
      OBVIOUS
    <2>2. \A y \in T : y = 0
      OBVIOUS
    <2> QED
      BY <2>1, <2>2
  <1>2. ASSUME NEW j \in 1 .. n, Has(j - 1) PROVE Has(j)
    <2> SUFFICES ASSUME NEW T \in SUBSET (0 .. j), T # {} PROVE \E x \in T : \A y \in T : x >= y
      OBVIOUS
    <2>1. CASE j \in T
      BY <2>1
    <2>2. CASE j \notin T
      <3>1. T \in SUBSET (0 .. j - 1)
        BY <2>2
      <3> QED
        BY <1>2, <3>1
    <2> QED
      BY <2>1, <2>2
  <1> HIDE DEF Has
  <1>3. 0 \in Good /\ \A j \in 1 .. n : j - 1 \in Good => j \in Good
    BY <1>1, <1>2
  <1>4. n \in Good
    <2> HIDE DEF Good
    <2> QED
      BY <1>3, UpTo
  <1>5. S \in SUBSET (0 .. n) /\ 0 \in S
    BY DEF Starts
  <1>6. \E x \in S : \A y \in S : x >= y
    <2> HIDE DEF S
    <2> QED
      BY <1>4, <1>5 DEF Has
  <1>7. m \in S /\ \A y \in S : m >= y
    <2>1. m = Max(S)
      OBVIOUS
    <2> HIDE DEF S
    <2> QED
      BY <1>6, <2>1 DEF Max
  <1>8. m \in 0 .. n /\ (\A k \in 1 .. m : k \in A)
    BY <1>7 DEF Starts
  <1>9. m < n => m + 1 \notin A
    <2> SUFFICES ASSUME m < n, m + 1 \in A PROVE FALSE
      OBVIOUS
    <2>1. m + 1 \in S
      BY <1>8 DEF Starts
    <2> QED
      BY <1>7, <1>8, <2>1
  <1> QED
    BY <1>8, <1>9

LEMMA MinOf ==
    ASSUME NEW a \in Nat, NEW b \in Nat, NEW n, n = Min({a, b})
    PROVE  n \in 0 .. a /\ n <= b /\ (n = a \/ n = b)
  <1> DEFINE P == {a, b}
  <1>1. \E x \in P : \A y \in P : x <= y
    OBVIOUS
  <1>2. n = Min(P)
    OBVIOUS
  <1> HIDE DEF P
  <1>3. n \in P /\ \A y \in P : n <= y
    BY <1>1, <1>2 DEF Min
  <1> QED
    BY <1>3 DEF P

LEMMA MaxOf ==
    ASSUME NEW a \in Nat, NEW b \in Nat
    PROVE  Max({a, b}) = IF a < b THEN b ELSE a
  <1> DEFINE P == {a, b}
             m == IF a < b THEN b ELSE a
  <1>1. m \in P /\ \A y \in P : m >= y
    OBVIOUS
  <1>2. P \subseteq Nat
    OBVIOUS
  <1> HIDE DEF P, m
  <1>3. \A x \in P : (\A y \in P : x >= y) => x = m
    BY <1>1, <1>2
  <1>4. Max(P) = m
    BY <1>1, <1>3 DEF Max
  <1> QED
    BY <1>4 DEF P, m
-----------------------------------------------------------------------------
(* Sequences *)

LEMMA SeqWider == ASSUME NEW S, NEW T, S \subseteq T, NEW s \in Seq(S) PROVE s \in Seq(T)
  <1>1. Len(s) \in Nat /\ s \in [1 .. Len(s) -> T]
    OBVIOUS
  <1> QED
    BY <1>1

LEMMA ConcatIs ==
    ASSUME NEW T, NEW s \in Seq(T), NEW t \in Seq(T)
    PROVE  s \o t \in Seq(T) /\ Len(s \o t) = Len(s) + Len(t)
  OBVIOUS

LEMMA SubSeqIs ==
    ASSUME NEW T, NEW s \in Seq(T), NEW a \in 0 .. Len(s), NEW n \in 0 .. Len(s) - a
    PROVE  /\ SubSeq(s, a + 1, a + n) \in Seq(T) /\ Len(SubSeq(s, a + 1, a + n)) = n
           /\ \A k \in 1 .. n : SubSeq(s, a + 1, a + n)[k] = s[a + k]
  <1>1. a + 1 \in Nat /\ a + n \in Nat /\ (a + n) - (a + 1) + 1 = n /\ a + n <= Len(s)
    OBVIOUS
  <1>2. \A k \in 1 .. n : a + 1 + k - 1 = a + k /\ a + k \in 1 .. Len(s)
    OBVIOUS
  <1>3. SubSeq(s, a + 1, a + n) = [k \in 1 .. n |-> s[a + k]]
    BY <1>1, <1>2
  <1>4. [k \in 1 .. n |-> s[a + k]] \in Seq(T)
    BY <1>2
  <1> QED
    BY <1>3, <1>4

LEMMA SubSeqSome ==
    ASSUME NEW T, NEW s \in Seq(T), NEW u \in 1 .. Len(s), NEW v \in u .. Len(s)
    PROVE  SubSeq(s, u, v) # <<>>
  <1>1. Len(SubSeq(s, u, v)) = v - u + 1 /\ v - u + 1 > 0
    OBVIOUS
  <1> QED
    BY <1>1
=============================================================================
