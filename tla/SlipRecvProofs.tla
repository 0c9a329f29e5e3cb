--------------------------- MODULE SlipRecvProofs --------------------------
(***************************************************************************)
(* Proofs about module SlipRecv, for every set of packets, every size of   *)
(* the buffer, all timeouts and any number of frames and stalls.           *)
(***************************************************************************)
EXTENDS SlipRecv, DataLemmas

-----------------------------------------------------------------------------
(* The line *)

(* All frames of the packets s after the first n. *)
Framed(s) == [j \in 1 .. Len(s) |-> frame_of(s[j])]
Frames(s, n) == FlattenSeq(From(Framed(s), n))

LEMMA PacketBytes == ASSUME NEW q \in Packets PROVE q \in Seq(Bytes) /\ Len(q) \in Nat /\ Len(q) > 0
  BY FramesAssumption

LEMMA FramedType ==
    ASSUME NEW s \in Seq(Packets)
    PROVE  Framed(s) \in Seq(Seq(Bytes)) /\ Len(Framed(s)) = Len(s)
  <1>1. \A j \in 1 .. Len(s) : frame_of(s[j]) \in Seq(Bytes)
    BY PacketBytes, FrameType
  <1> QED
    BY <1>1 DEF Framed

LEMMA FramesType ==
    ASSUME NEW s \in Seq(Packets), NEW n \in 0 .. Len(s)
    PROVE  From(Framed(s), n) \in Seq(Seq(Bytes)) /\ Frames(s, n) \in Seq(Bytes)
  <1> DEFINE U == Seq(Bytes)
             t == Framed(s)
  <1>1. t \in Seq(U) /\ n \in 0 .. Len(t)
    BY FramedType
  <1> HIDE DEF U, t
  <1>2. From(t, n) \in Seq(U)
    BY <1>1, FromType
  <1>3. From(Framed(s), n) \in Seq(Seq(Bytes))
    BY <1>2 DEF U, t
  <1> QED
    BY <1>3, FlattenType DEF Frames

LEMMA FramesEnd ==
    ASSUME NEW s \in Seq(Packets) PROVE Frames(s, Len(s)) = <<>>
  <1>1. Framed(s) \in Seq(Seq(Bytes)) /\ Len(Framed(s)) = Len(s)
    BY FramedType
  <1>2. From(Framed(s), Len(s)) = <<>>
    BY <1>1, FromType
  <1> QED
    BY <1>2, FlattenEmpty DEF Frames

LEMMA FramesCons ==
    ASSUME NEW s \in Seq(Packets), NEW n \in Nat, n < Len(s)
    PROVE  Frames(s, n) = frame_of(s[n + 1]) \o Frames(s, n + 1)
  <1> DEFINE U == Seq(Bytes)
             t == Framed(s)
             x == frame_of(s[n + 1])
             r == From(t, n + 1)
  <1>1. t \in Seq(U) /\ Len(t) = Len(s) /\ t[n + 1] = x /\ n + 1 \in 0 .. Len(s)
    BY FramedType DEF Framed
  <1>2. x \in Seq(Bytes)
    BY PacketBytes, FrameType
  <1>3. r \in Seq(Seq(Bytes))
    BY <1>1, FramesType
  <1>4. From(t, n) = <<x>> \o r
    <2> HIDE DEF U, t, x
    <2>1. From(t, n) = <<t[n + 1]>> \o From(t, n + 1)
      BY <1>1, FromCons
    <2> QED
      BY <1>1, <2>1
  <1> HIDE DEF x, r
  <1>5. FlattenSeq(<<x>> \o r) = x \o FlattenSeq(r)
    BY <1>2, <1>3, FlattenCons
  <1> QED
    BY <1>4, <1>5, Zenon DEF Frames, x, r

LEMMA FramesAppend ==
    ASSUME NEW s \in Seq(Packets), NEW q \in Packets, NEW n \in 0 .. Len(s)
    PROVE  Frames(Append(s, q), n) = Frames(s, n) \o frame_of(q)
  <1> DEFINE U == Seq(Bytes)
             t == Framed(s)
             x == frame_of(q)
             r == From(t, n)
  <1>1. t \in Seq(U) /\ Len(t) = Len(s)
    BY FramedType
  <1>2. x \in U
    BY PacketBytes, FrameType
  <1>3. r \in Seq(U)
    BY FramesType
  <1>4. Framed(Append(s, q)) = Append(t, x)
    <2>1. Len(Append(s, q)) = Len(s) + 1 /\ Append(s, q) \in Seq(Packets)
      OBVIOUS
    <2> DEFINE a == Framed(Append(s, q))
               b == Append(t, x)
    <2>2. a \in Seq(U) /\ Len(a) = Len(s) + 1
      BY <2>1, FramedType
    <2>3. b \in Seq(U) /\ Len(b) = Len(s) + 1 /\ b[Len(s) + 1] = x /\ \A i \in 1 .. Len(s) : b[i] = t[i]
      <3> HIDE DEF t, U, x
      <3> QED
        BY <1>1, <1>2
    <2>4. \A i \in 1 .. Len(s) + 1 : a[i] = b[i]
      <3> TAKE i \in 1 .. Len(s) + 1
      <3>1. a[i] = frame_of(Append(s, q)[i])
        BY <2>1 DEF Framed
      <3>2. CASE i = Len(s) + 1
        BY <2>3, <3>1, <3>2
      <3>3. CASE i # Len(s) + 1
        <4>1. i \in 1 .. Len(s) /\ Append(s, q)[i] = s[i]
          BY <3>3
        <4>2. t[i] = frame_of(s[i])
          BY <4>1 DEF Framed
        <4> HIDE DEF a, b, t
        <4> QED
          BY <2>3, <3>1, <4>1, <4>2
      <3> QED
        BY <3>2, <3>3
    <2> HIDE DEF a, b, U
    <2>5. a = b
      BY <2>2, <2>3, <2>4, SeqEqual
    <2> QED
      BY <2>5 DEF a, b
  <1>5. From(Append(t, x), n) = Append(r, x)
    <2> HIDE DEF U, t, x
    <2> QED
      BY <1>1, <1>2, FromAppend
  <1>6. FlattenSeq(Append(r, x)) = FlattenSeq(r) \o x
    <2>1. r \in Seq(Seq(Bytes)) /\ x \in Seq(Bytes)
      BY <1>2, <1>3
    <2> HIDE DEF r, x
    <2> QED
      BY <2>1, FlattenAppend
  <1> QED
    BY <1>4, <1>5, <1>6, Zenon DEF Frames

(* A place on the line: n frames have begun to arrive, the last of them is  *)
(* not complete (inside), and k bytes of its packet are through, and the    *)
(* ESC of the next one (e).                                                 *)
Place(l, s) ==
    /\ l \in [n : Nat, inside : BOOLEAN, k : Nat, e : BOOLEAN]
    /\ l.n <= Len(s)
    /\ l.inside => l.n > 0 /\ l.k <= Len(s[l.n])
    /\ ~l.inside => l.k = 0 /\ ~l.e
    /\ l.e => l.k < Len(s[l.n]) /\ s[l.n][l.k + 1] \in DOMAIN escapes

(* What is left of the frame the place is in. *)
Rest(q, k, e) == IF e THEN <<escapes[q[k + 1]]>> \o Enc(q, k + 1) ELSE Enc(q, k)

Ahead(l, s) == IF l.inside THEN Rest(s[l.n], l.k, l.e) \o Frames(s, l.n) ELSE Frames(s, l.n)

At(n, inside, k, e) == [n |-> n, inside |-> inside, k |-> k, e |-> e]

(* b is the next byte at l, and m the place after it. *)
Follows(l, b, m, s) ==
    \/ ~l.inside /\ l.n < Len(s) /\ b = END /\ m = At(l.n + 1, TRUE, 0, FALSE)
    \/ l.inside /\ ~l.e /\ l.k = Len(s[l.n]) /\ b = END /\ m = At(l.n, FALSE, 0, FALSE)
    \/ /\ l.inside /\ ~l.e /\ l.k < Len(s[l.n]) /\ s[l.n][l.k + 1] \notin DOMAIN escapes
       /\ b = s[l.n][l.k + 1] /\ m = At(l.n, TRUE, l.k + 1, FALSE)
    \/ /\ l.inside /\ ~l.e /\ l.k < Len(s[l.n]) /\ s[l.n][l.k + 1] \in DOMAIN escapes
       /\ b = ESC /\ m = At(l.n, TRUE, l.k, TRUE)
    \/ /\ l.inside /\ l.e /\ l.k < Len(s[l.n]) /\ s[l.n][l.k + 1] \in DOMAIN escapes
       /\ b = escapes[s[l.n][l.k + 1]] /\ m = At(l.n, TRUE, l.k + 1, FALSE)

LEMMA RestType ==
    ASSUME NEW q \in Seq(Bytes), NEW k \in 0 .. Len(q), NEW e \in BOOLEAN,
           e => k < Len(q) /\ q[k + 1] \in DOMAIN escapes
    PROVE  Rest(q, k, e) \in Seq(Bytes) /\ Rest(q, k, e) # <<>>
  <1>1. CASE e
    <2>1. k + 1 \in 0 .. Len(q)
      BY <1>1
    <2>2. escapes[q[k + 1]] \in Bytes
      BY <1>1, EscapeCodes DEF Bytes
    <2>3. Enc(q, k + 1) \in Seq(Bytes)
      BY <2>1, EncType
    <2> QED
      BY <1>1, <2>2, <2>3, Prefixed DEF Rest
  <1>2. CASE ~e
    <2>1. Enc(q, k) \in Seq(Bytes) /\ FlattenSeq(From(Stuffed(q), k)) \in Seq(Bytes)
      BY EncType
    <2>2. \A x \in Seq(Bytes) : x \o <<END>> # <<>>
      OBVIOUS
    <2>3. Enc(q, k) # <<>>
      BY <2>1, <2>2, Zenon DEF Enc
    <2> QED
      BY <1>2, <2>1, <2>3, Zenon DEF Rest
  <1> QED
    BY <1>1, <1>2

(* One byte of a frame: x leads from k, e to i, g. *)
OneByte(q, k, e, x, i, g) ==
    \/ /\ ~e /\ q[k + 1] \notin DOMAIN escapes
       /\ x = q[k + 1] /\ i = k + 1 /\ ~g
    \/ ~e /\ q[k + 1] \in DOMAIN escapes /\ x = ESC /\ i = k /\ g
    \/ e /\ x = escapes[q[k + 1]] /\ i = k + 1 /\ ~g

LEMMA RestCons ==
    ASSUME NEW q \in Seq(Bytes), NEW k \in Nat, k < Len(q), NEW x \in Bytes, NEW i \in Nat,
           NEW e \in BOOLEAN, NEW g \in BOOLEAN, OneByte(q, k, e, x, i, g)
    PROVE  Rest(q, k, e) = <<x>> \o Rest(q, i, g)
  <1> DEFINE r == Enc(q, k + 1)
             y == escapes[q[k + 1]]
  <1>a. \A a, b \in Bytes : \A t \in Seq(Bytes) : <<a, b>> \o t = <<a>> \o (<<b>> \o t)
    BY PrefixedTwo
  <1>1. r \in Seq(Bytes) /\ Enc(q, k) = stuff(q[k + 1]) \o r
    BY EncType, EncCons
  <1>2. CASE ~e /\ q[k + 1] \notin DOMAIN escapes /\ x = q[k + 1] /\ i = k + 1 /\ ~g
    <2>1. stuff(q[k + 1]) = <<x>>
      BY <1>2, Zenon DEF stuff
    <2> QED
      BY <1>1, <1>2, <2>1, Zenon DEF Rest
  <1>3. CASE ~e /\ q[k + 1] \in DOMAIN escapes /\ x = ESC /\ i = k /\ g
    <2>1. stuff(q[k + 1]) = <<x, y>>
      BY <1>3, Zenon DEF stuff
    <2>2. y \in Bytes
      BY <1>3, EscapeCodes DEF Bytes
    <2>3. <<x, y>> \o r = <<x>> \o (<<y>> \o r)
      <3> HIDE DEF r, y
      <3> QED
        BY <1>1, <1>a, <2>2, Zenon
    <2> QED
      BY <1>1, <1>3, <2>1, <2>3, Zenon DEF Rest
  <1>4. CASE e /\ x = y /\ i = k + 1 /\ ~g
    BY <1>4, Zenon DEF Rest
  <1> QED
    BY <1>2, <1>3, <1>4 DEF OneByte

LEMMA NextByte ==
    ASSUME NEW s \in Seq(Packets), NEW l, Place(l, s), Ahead(l, s) # <<>>
    PROVE  \E m : /\ Place(m, s) /\ Follows(l, Head(Ahead(l, s)), m, s)
                  /\ Tail(Ahead(l, s)) = Ahead(m, s)
  <1> DEFINE w == Ahead(l, s)
             q == s[l.n]
             k == l.k
             F == Frames(s, l.n)
  <1>1. l.n \in 0 .. Len(s) /\ k \in Nat /\ l.e \in BOOLEAN /\ l.inside \in BOOLEAN /\ Len(s) \in Nat
    BY DEF Place
  <1>2. F \in Seq(Bytes)
    BY <1>1, FramesType
  <1>3. END \in Bytes /\ ESC \in Bytes
    BY DEF Bytes
  <1>4. ASSUME NEW x \in Bytes, NEW r \in Seq(Bytes), w = <<x>> \o r
        PROVE  Head(w) = x /\ Tail(w) = r
    <2> HIDE DEF w
    <2> QED
      BY <1>4, Prefixed
  <1>5. CASE ~l.inside
    <2>1. w = F
      BY <1>5 DEF Ahead
    <2>2. l.n < Len(s)
      BY <1>1, <2>1, FramesEnd
    <2> DEFINE u == s[l.n + 1]
               m == At(l.n + 1, TRUE, 0, FALSE)
               G == Frames(s, l.n + 1)
               E == Enc(u, 0)
    <2>3. u \in Seq(Bytes) /\ Len(u) \in Nat /\ l.n + 1 \in 0 .. Len(s)
      BY <1>1, <2>2, PacketBytes
    <2>4. G \in Seq(Bytes) /\ E \in Seq(Bytes)
      BY <2>3, FramesType, EncType
    <2>5. F = (<<END>> \o E) \o G
      <3>1. F = frame_of(u) \o G
        <4> DEFINE n == l.n
        <4>1. n \in Nat /\ n < Len(s)
          BY <1>1, <2>2
        <4> HIDE DEF n
        <4>2. Frames(s, n) = frame_of(s[n + 1]) \o Frames(s, n + 1)
          BY <4>1, FramesCons
        <4> QED
          BY <4>2 DEF n
      <3>2. frame_of(u) = <<END>> \o E
        BY <2>3, FrameIsEnc
      <3> QED
        BY <3>1, <3>2, Zenon
    <2>6. (<<END>> \o E) \o G = <<END>> \o (E \o G) /\ E \o G \in Seq(Bytes)
      <3>1. <<END>> \in Seq(Bytes)
        BY <1>3
      <3> HIDE DEF E, G
      <3> QED
        BY <2>4, <3>1, ConcatAssociates
    <2>7. Head(w) = END /\ Tail(w) = E \o G
      BY <1>3, <1>4, <2>1, <2>5, <2>6
    <2>8. m.n = l.n + 1 /\ m.inside = TRUE /\ m.k = 0 /\ m.e = FALSE
      BY DEF At
    <2>9. Place(m, s)
      BY <1>1, <2>2, <2>3, <2>8 DEF Place, At
    <2>10. Ahead(m, s) = E \o G
      BY <2>8, Zenon DEF Ahead, Rest
    <2>11. Follows(l, Head(w), m, s)
      BY <1>5, <2>2, <2>7 DEF Follows
    <2> QED
      BY <2>7, <2>9, <2>10, <2>11
  <1>6. CASE l.inside
    <2>1. w = Rest(q, k, l.e) \o F
      BY <1>6, Zenon DEF Ahead
    <2>2. q \in Seq(Bytes) /\ Len(q) \in Nat /\ k \in 0 .. Len(q)
      BY <1>1, <1>6, PacketBytes DEF Place
    <2>3. CASE k = Len(q)
      <3> DEFINE m == At(l.n, FALSE, 0, FALSE)
      <3>1. ~l.e
        BY <2>2, <2>3 DEF Place
      <3>2. Rest(q, k, l.e) = <<END>>
        BY <2>2, <2>3, <3>1, EncEnd, Zenon DEF Rest
      <3>3. Head(w) = END /\ Tail(w) = F
        BY <1>2, <1>3, <1>4, <2>1, <3>2
      <3>4. m.n = l.n /\ m.inside = FALSE /\ m.k = 0 /\ m.e = FALSE
        BY DEF At
      <3>5. Place(m, s)
        BY <1>1, <3>4 DEF Place, At
      <3>6. Ahead(m, s) = F
        BY <3>4, Zenon DEF Ahead
      <3>7. Follows(l, Head(w), m, s)
        BY <1>6, <2>3, <3>1, <3>3 DEF Follows
      <3> QED
        BY <3>3, <3>5, <3>6, <3>7
    <2>4. CASE k < Len(q)
      <3>1. q[k + 1] \in Bytes
        BY <2>2, <2>4
      <3>2. l.e => q[k + 1] \in DOMAIN escapes
        BY DEF Place
      <3>3. q[k + 1] \in DOMAIN escapes => escapes[q[k + 1]] \in Bytes
        BY EscapeCodes DEF Bytes
      <3>4. ASSUME NEW x \in Bytes, NEW i \in Nat, NEW g \in BOOLEAN,
                   \/ /\ ~l.e /\ q[k + 1] \notin DOMAIN escapes
                      /\ x = q[k + 1] /\ i = k + 1 /\ ~g
                   \/ ~l.e /\ q[k + 1] \in DOMAIN escapes /\ x = ESC /\ i = k /\ g
                   \/ l.e /\ x = escapes[q[k + 1]] /\ i = k + 1 /\ ~g
            PROVE  LET m == At(l.n, TRUE, i, g)
                   IN  Place(m, s) /\ Follows(l, Head(w), m, s) /\ Tail(w) = Ahead(m, s)
        <4> DEFINE m == At(l.n, TRUE, i, g)
                   R == Rest(q, i, g)
        <4> SUFFICES Place(m, s) /\ Follows(l, Head(w), m, s) /\ Tail(w) = Ahead(m, s)
          OBVIOUS
        <4>1. m.n = l.n /\ m.inside = TRUE /\ m.k = i /\ m.e = g
          BY DEF At
        <4>2. i \in 0 .. Len(q) /\ (g => i < Len(q) /\ q[i + 1] \in DOMAIN escapes)
          BY <2>2, <2>4, <3>4
        <4>3. R \in Seq(Bytes)
          BY <2>2, <4>2, RestType
        <4>4. Rest(q, k, l.e) = <<x>> \o R
          <5> DEFINE e == l.e
          <5>1. k \in Nat /\ k < Len(q) /\ q \in Seq(Bytes) /\ e \in BOOLEAN
            BY <1>1, <2>2, <2>4
          <5>2. OneByte(q, k, e, x, i, g)
            BY <3>4 DEF OneByte
          <5> HIDE DEF q, k, e
          <5>3. Rest(q, k, e) = <<x>> \o Rest(q, i, g)
            BY <5>1, <5>2, RestCons
          <5> QED
            BY <5>3 DEF e
        <4>5. w = <<x>> \o (R \o F) /\ R \o F \in Seq(Bytes)
          <5>1. <<x>> \in Seq(Bytes)
            OBVIOUS
          <5>2. w = (<<x>> \o R) \o F
            BY <2>1, <4>4, Zenon
          <5> HIDE DEF w, R, F
          <5>3. (<<x>> \o R) \o F = <<x>> \o (R \o F)
            <6> DEFINE o == <<x>>
            <6>1. o \in Seq(Bytes)
              BY <5>1
            <6> HIDE DEF o
            <6>2. (o \o R) \o F = o \o (R \o F)
              BY <1>2, <4>3, <6>1, ConcatAssociates, SMTT(30)
            <6> QED
              BY <6>2 DEF o
          <5> QED
            BY <1>2, <4>3, <5>2, <5>3
        <4>6. Head(w) = x /\ Tail(w) = R \o F
          BY <1>4, <4>5
        <4>7. Place(m, s)
          BY <1>1, <1>6, <4>1, <4>2 DEF Place, At
        <4>8. Ahead(m, s) = R \o F
          BY <4>1, Zenon DEF Ahead
        <4>9. Follows(l, x, m, s)
          BY <1>6, <2>4, <3>2, <3>4 DEF Follows
        <4> QED
          BY <4>6, <4>7, <4>8, <4>9
      <3>5. \E x \in Bytes, i \in Nat, g \in BOOLEAN :
                   \/ /\ ~l.e /\ q[k + 1] \notin DOMAIN escapes
                      /\ x = q[k + 1] /\ i = k + 1 /\ ~g
                   \/ ~l.e /\ q[k + 1] \in DOMAIN escapes /\ x = ESC /\ i = k /\ g
                   \/ l.e /\ x = escapes[q[k + 1]] /\ i = k + 1 /\ ~g
        <4>1. k \in Nat /\ k + 1 \in Nat /\ TRUE \in BOOLEAN /\ FALSE \in BOOLEAN
          BY <1>1
        <4>2. CASE l.e
          BY <3>2, <3>3, <4>1, <4>2, Zenon
        <4>3. CASE ~l.e /\ q[k + 1] \in DOMAIN escapes
          BY <1>3, <4>1, <4>3, Zenon
        <4>4. CASE ~l.e /\ q[k + 1] \notin DOMAIN escapes
          BY <3>1, <4>1, <4>4, Zenon
        <4> QED
          BY <4>2, <4>3, <4>4, Zenon
      <3> QED
        BY <3>4, <3>5
    <2> QED
      BY <2>2, <2>3, <2>4
  <1> QED
    BY <1>1, <1>5, <1>6

LEMMA ByteKinds ==
    ASSUME NEW s \in Seq(Packets), NEW l, NEW b, NEW m, Place(l, s), Follows(l, b, m, s)
    PROVE  /\ b = END => \/ ~l.inside /\ m = At(l.n + 1, TRUE, 0, FALSE)
                         \/ /\ l.inside /\ ~l.e /\ l.k = Len(s[l.n]) /\ l.k > 0
                            /\ m = At(l.n, FALSE, 0, FALSE)
           /\ b = ESC => l.inside /\ ~l.e /\ m = At(l.n, TRUE, l.k, TRUE)
           /\ b \notin {END, ESC} =>
                 /\ l.inside /\ l.k < Len(s[l.n]) /\ m = At(l.n, TRUE, l.k + 1, FALSE)
                 /\ l.e => b \in escape_codes /\ unescape(b) = s[l.n][l.k + 1]
                 /\ ~l.e => b = s[l.n][l.k + 1]
  <1>1. \A x \in DOMAIN escapes : escapes[x] # ESC /\ escapes[x] # END
    BY EscapeCodes DEF END, ESC, ESC_END, ESC_ESC, ESC_ZER
  <1>2. ESC \in DOMAIN escapes /\ END \in DOMAIN escapes /\ END # ESC
    BY EscapeCodes DEF END, ESC
  <1>3. \A x \in DOMAIN escapes : escapes[x] \in escape_codes /\ unescape(escapes[x]) = x
    BY EscapeCodes
  <1>4. l.inside => Len(s[l.n]) > 0
    BY PacketBytes DEF Place
  <1> QED
    BY <1>1, <1>2, <1>3, <1>4 DEF Follows

LEMMA AtParts ==
    ASSUME NEW n, NEW i, NEW k, NEW e
    PROVE  At(n, i, k, e).n = n /\ At(n, i, k, e).inside = i /\ At(n, i, k, e).k = k /\ At(n, i, k, e).e = e
  BY DEF At
-----------------------------------------------------------------------------
(* The inductive invariant *)

Line(l) == Place(l, sent) /\ wire = Ahead(l, sent)

(* The buffer holds the first k bytes of a packet, or as many as it can. *)
Copied(buf, q, k) ==
    /\ Len(buf) = IF k <= BufLen THEN k ELSE BufLen
    /\ \A i \in 1 .. Len(buf) : buf[i] = q[i]

(* In the second loop c is the byte before the place on the line, whatever  *)
(* the line did in between, and nothing is lost between stalls.             *)
Reading(l) ==
    /\ l.e <=> c = ESC
    /\ c = END <=> ~l.inside \/ (l.k = 0 /\ ~l.e)
    /\ pc = "esc" => l.e
    /\ p = <<>> <=> ~l.inside \/ l.k = 0
    /\ ~stalled => (l.e => pc = "esc") /\ (l.inside => Copied(p, sent[l.n], l.k))

(* f[i] is the frame that the packet got[i] came in: an earlier one than    *)
(* the one at the place.                                                    *)
Before(g, l) == g <= l.n /\ (l.inside => g < l.n)

Returned(f, l) ==
    /\ f \in [DOMAIN got -> DOMAIN sent]
    /\ \A i, j \in DOMAIN got : i < j => f[i] < f[j]
    /\ \A i \in DOMAIN got \ hurt : got[i] = truncate(sent[f[i]])
    /\ \A i \in DOMAIN got : Before(f[i], l)

Hunting == pc = "hunt" => c # END /\ p = <<>> /\ ~stalled /\ to > 0

InLine ==
    \E l : /\ Line(l) /\ (pc \in {"body", "esc"} => Reading(l))
           /\ \E f : Returned(f, l)

RecvInv == TypeOK /\ Hunting /\ InLine

LEMMA Numbers == BufLen \in Nat /\ BufLen > 0 /\ MaxFrames \in Nat /\ MaxStalls \in Nat /\ Ticks \subseteq Nat
                 /\ \A t \in Ticks : t > 0
  BY BufAssumption, FramesAssumption

LEMMA Stored ==
    ASSUME NEW b \in Bytes, p \in Seq(Bytes), Len(p) <= BufLen, store(b)
    PROVE  /\ p' \in Seq(Bytes) /\ Len(p') <= BufLen /\ p' # <<>>
           /\ \A q, k : k \in Nat /\ Copied(p, q, k) /\ b = q[k + 1] => Copied(p', q, k + 1)
  <1>1. CASE Len(p) < BufLen
    <2>1. p' = Append(p, b)
      BY <1>1 DEF store
    <2>2. /\ p' \in Seq(Bytes) /\ Len(p') = Len(p) + 1 /\ p'[Len(p) + 1] = b /\ Len(p) \in Nat
          /\ \A i \in 1 .. Len(p) : p'[i] = p[i]
      BY <2>1
    <2>3. ASSUME NEW q, NEW k, k \in Nat, Copied(p, q, k), b = q[k + 1] PROVE Copied(p', q, k + 1)
      <3>1. Len(p) = k /\ \A i \in 1 .. Len(p) : p[i] = q[i]
        BY <1>1, <2>2, <2>3, Numbers DEF Copied
      <3>2. Len(p') = IF k + 1 <= BufLen THEN k + 1 ELSE BufLen
        BY <1>1, <2>2, <3>1, Numbers
      <3>3. \A i \in 1 .. Len(p') : p'[i] = q[i]
        BY <2>2, <2>3, <3>1
      <3> QED
        BY <3>2, <3>3 DEF Copied
    <2>4. p' # <<>> /\ Len(p') <= BufLen
      BY <1>1, <2>2, Numbers
    <2> QED
      BY <2>2, <2>3, <2>4
  <1>2. CASE ~(Len(p) < BufLen)
    <2>1. p' = p
      BY <1>2 DEF store
    <2>2. Len(p) \in Nat /\ Len(p) = BufLen
      BY <1>2, Numbers
    <2>3. p # <<>>
      BY <2>2, Numbers
    <2>4. ASSUME NEW q, NEW k, k \in Nat, Copied(p, q, k), b = q[k + 1] PROVE Copied(p', q, k + 1)
      BY <2>1, <2>2, <2>4, Numbers DEF Copied
    <2> QED
      BY <2>1, <2>3, <2>4
  <1> QED
    BY <1>1, <1>2

LEMMA CopiedAll ==
    ASSUME NEW buf \in Seq(Bytes), NEW q \in Seq(Bytes), Copied(buf, q, Len(q))
    PROVE  buf = truncate(q)
  <1> DEFINE n == IF Len(q) <= BufLen THEN Len(q) ELSE BufLen
             t == SubSeq(q, 1, n)
  <1>1. Min({BufLen, Len(q)}) = n
    <2> DEFINE S == {BufLen, Len(q)}
    <2>1. n \in S /\ \A y \in S : n <= y
      BY Numbers
    <2>2. \A x \in S : (\A y \in S : x <= y) => x = n
      BY Numbers
    <2> HIDE DEF n, S
    <2> QED
      BY <2>1, <2>2 DEF Min, S
  <1>2. n \in Nat /\ n <= Len(q)
    BY Numbers
  <1>3. t \in Seq(Bytes) /\ Len(t) = n /\ \A i \in 1 .. n : t[i] = q[i]
    BY <1>2
  <1>4. Len(buf) = n /\ \A i \in 1 .. Len(buf) : buf[i] = q[i]
    BY DEF Copied
  <1> HIDE DEF t, n
  <1>5. buf = t
    BY <1>3, <1>4, SeqEqual
  <1> QED
    BY <1>1, <1>5 DEF truncate, t

LEMMA RecvInit == ASSUME Init PROVE RecvInv
  <1>1. ZER \in Bytes /\ Len(<<>>) = 0 /\ <<>> \in Seq(Bytes) /\ <<>> \in Seq(Packets)
        /\ <<>> \in Seq(Seq(Bytes)) /\ DOMAIN <<>> = {}
    BY DEF Bytes
  <1>2. TypeOK
    <2>1. \E t \in Ticks \cup {0} : to \in 0 .. t
      BY DEF Init
    <2>2. Len(p) <= BufLen /\ Len(sent) <= MaxFrames /\ stalls \in 0 .. MaxStalls
      BY <1>1, Numbers DEF Init
    <2>3. /\ c \in Bytes /\ p \in Seq(Bytes) /\ wire \in Seq(Bytes) /\ sent \in Seq(Packets)
          /\ got \in Seq(Seq(Bytes)) /\ pc = "away" /\ stalled = FALSE /\ hurt = {}
      BY <1>1, Zenon DEF Init
    <2> QED
      BY <2>1, <2>2, <2>3 DEF TypeOK
  <1>3. Hunting
    BY DEF Init, Hunting
  <1>4. InLine
    <2> DEFINE l == At(0, FALSE, 0, FALSE)
    <2>1. l.n = 0 /\ l.inside = FALSE /\ l.k = 0 /\ l.e = FALSE
      BY DEF At
    <2>2. Place(l, <<>>)
      BY <1>1, <2>1 DEF Place, At
    <2>3. Ahead(l, <<>>) = <<>>
      <3>1. Frames(<<>>, 0) = <<>>
        BY <1>1, FramesEnd
      <3> QED
        BY <2>1, <3>1, Zenon DEF Ahead
    <2>4. Line(l) /\ pc = "away"
      BY <2>2, <2>3, Zenon DEF Line, Init
    <2> DEFINE f == [i \in {} |-> 1]
    <2>5. Returned(f, l)
      BY <1>1 DEF Returned, Init
    <2> HIDE DEF l, f
    <2> QED
      BY <2>4, <2>5 DEF InLine
  <1> QED
    BY <1>2, <1>3, <1>4 DEF RecvInv

LEMMA SendKeeps ==
    ASSUME RecvInv, NEW packet \in Packets, host_send(packet) PROVE RecvInv'
  <1>1. /\ sent' = Append(sent, packet) /\ wire' = wire \o frame_of(packet) /\ Len(sent) < MaxFrames
        /\ UNCHANGED <<pc, c, to, p, got, stalls, stalled, hurt>>
    BY DEF host_send, line
  <1>2. sent \in Seq(Packets) /\ wire \in Seq(Bytes) /\ Len(sent) \in Nat
    BY DEF RecvInv, TypeOK
  <1>3. /\ sent' \in Seq(Packets) /\ Len(sent') = Len(sent) + 1
        /\ \A i \in 1 .. Len(sent) : sent'[i] = sent[i]
    BY <1>1, <1>2
  <1>4. frame_of(packet) \in Seq(Bytes)
    BY PacketBytes, FrameType
  <1>5. TypeOK'
    <2>1. wire' \in Seq(Bytes)
      BY <1>1, <1>2, <1>4
    <2>2. Len(sent') <= MaxFrames
      BY <1>1, <1>2, <1>3, Numbers
    <2> QED
      BY <1>1, <1>3, <2>1, <2>2 DEF RecvInv, TypeOK
  <1>6. Hunting'
    BY <1>1 DEF RecvInv, Hunting
  <1>7. PICK l, f : Line(l) /\ (pc \in {"body", "esc"} => Reading(l)) /\ Returned(f, l)
    BY DEF RecvInv, InLine
  <1>8. l.n \in 0 .. Len(sent) /\ l.k \in Nat /\ l.e \in BOOLEAN /\ l.inside \in BOOLEAN
        /\ (l.inside => l.n \in 1 .. Len(sent))
    BY <1>2, <1>7 DEF Line, Place
  <1>9. l.inside => sent'[l.n] = sent[l.n]
    BY <1>3, <1>8
  <1>10. Line(l)'
    <2>1. Place(l, sent')
      BY <1>2, <1>3, <1>7, <1>8, <1>9 DEF Line, Place
    <2>2. Frames(sent', l.n) = Frames(sent, l.n) \o frame_of(packet)
      BY <1>1, <1>2, <1>8, FramesAppend
    <2>3. Frames(sent, l.n) \in Seq(Bytes)
      BY <1>2, <1>8, FramesType
    <2>4. Ahead(l, sent') = Ahead(l, sent) \o frame_of(packet)
      <3>1. CASE ~l.inside
        BY <2>2, <3>1, Zenon DEF Ahead
      <3>2. CASE l.inside
        <4> DEFINE R == Rest(sent[l.n], l.k, l.e)
                   F == Frames(sent, l.n)
                   G == frame_of(packet)
        <4>1. R \in Seq(Bytes)
          <5>1. sent[l.n] \in Seq(Bytes) /\ Len(sent[l.n]) \in Nat
            BY <1>2, <1>8, <3>2, PacketBytes
          <5>2. l.k \in 0 .. Len(sent[l.n]) /\ (l.e => l.k < Len(sent[l.n]) /\ sent[l.n][l.k + 1] \in DOMAIN escapes)
            BY <1>7, <1>8, <3>2, <5>1 DEF Line, Place
          <5> QED
            BY <1>8, <5>1, <5>2, RestType
        <4>2. Ahead(l, sent) = R \o F
          BY <3>2, Zenon DEF Ahead
        <4>3. Ahead(l, sent') = R \o (F \o G)
          BY <1>9, <2>2, <3>2, Zenon DEF Ahead
        <4>4. R \o (F \o G) = (R \o F) \o G
          <5> HIDE DEF R, F, G
          <5>1. R \in Seq(Bytes) /\ F \in Seq(Bytes) /\ G \in Seq(Bytes)
            BY <1>4, <2>3, <4>1 DEF F, G
          <5> QED
            BY <5>1, ConcatAssociates
        <4> QED
          BY <4>2, <4>3, <4>4, Zenon
      <3> QED
        BY <1>8, <3>1, <3>2
    <2>5. wire' = Ahead(l, sent')
      BY <1>1, <1>7, <2>4, Zenon DEF Line
    <2> QED
      BY <2>1, <2>5 DEF Line
  <1>11. pc' \in {"body", "esc"} => Reading(l)'
    BY <1>1, <1>7, <1>8, <1>9 DEF Reading
  <1>12. Returned(f, l)'
    <2>1. \A i \in DOMAIN got : f[i] \in 1 .. Len(sent)
      BY <1>2, <1>7 DEF Returned
    <2>2. f \in [DOMAIN got -> DOMAIN sent']
      BY <1>2, <1>3, <1>7, <2>1 DEF Returned
    <2>3. \A i \in DOMAIN got \ hurt : got[i] = truncate(sent'[f[i]])
      BY <1>3, <1>7, <2>1 DEF Returned
    <2> QED
      BY <1>1, <1>7, <2>2, <2>3 DEF Returned
  <1>13. InLine'
    BY <1>10, <1>11, <1>12 DEF InLine
  <1> QED
    BY <1>5, <1>6, <1>13 DEF RecvInv

(* The place moves on over frames that have not been returned. *)
LEMMA Onward ==
    ASSUME NEW s \in Seq(Packets), NEW l, NEW b, NEW m, NEW g \in Nat,
           Place(l, s), Follows(l, b, m, s), Before(g, l)
    PROVE  Before(g, m)
  <1>1. l.n \in Nat
    BY DEF Place
  <1>2. \/ ~l.inside /\ m = At(l.n + 1, TRUE, 0, FALSE)
        \/ m = At(l.n, FALSE, 0, FALSE)
        \/ l.inside /\ m.n = l.n /\ m.inside
    BY DEF Follows, At
  <1>3. CASE ~l.inside /\ m = At(l.n + 1, TRUE, 0, FALSE)
    BY <1>1, <1>3 DEF Before, At
  <1>4. CASE m = At(l.n, FALSE, 0, FALSE)
    BY <1>1, <1>4 DEF Before, At
  <1> QED
    BY <1>1, <1>2, <1>3, <1>4 DEF Before

LEMMA ReturnedOnward ==
    ASSUME TypeOK, NEW f, NEW l, NEW m, NEW b, Place(l, sent), Follows(l, b, m, sent),
           Returned(f, l)
    PROVE  Returned(f, m)
  <1>1. sent \in Seq(Packets) /\ \A i \in DOMAIN got : f[i] \in Nat
    BY DEF TypeOK, Returned
  <1>2. \A i \in DOMAIN got : Before(f[i], m)
    BY <1>1, Onward DEF Returned
  <1> QED
    BY <1>2 DEF Returned

(* The next byte of the line, taken by rs232_get() or lost. *)
LEMMA Taken ==
    ASSUME TypeOK, NEW l, Line(l), wire # <<>>, wire' = Tail(wire), sent' = sent
    PROVE  /\ Head(wire) \in Bytes /\ wire' \in Seq(Bytes)
           /\ \E m : /\ Follows(l, Head(wire), m, sent) /\ Place(m, sent) /\ Line(m)'
                    /\ \A f : Returned(f, l) => Returned(f, m)
  <1>1. wire \in Seq(Bytes) /\ sent \in Seq(Packets)
    BY DEF TypeOK
  <1>2. PICK m : Place(m, sent) /\ Follows(l, Head(wire), m, sent) /\ Tail(wire) = Ahead(m, sent)
    BY <1>1, NextByte DEF Line
  <1>3. Line(m)'
    BY <1>2 DEF Line
  <1>4. \A f : Returned(f, l) => Returned(f, m)
    BY <1>2, ReturnedOnward DEF Line
  <1>5. Head(wire) \in Bytes /\ wire' \in Seq(Bytes)
    BY <1>1
  <1> QED
    BY <1>2, <1>3, <1>4, <1>5

LEMMA SameReturned ==
    ASSUME NEW f, NEW l, Returned(f, l), UNCHANGED <<sent, got, hurt>> PROVE Returned(f, l)'
  BY DEF Returned

LEMMA LoseKeeps ==
    ASSUME RecvInv, lose_byte PROVE RecvInv'
  <1>1. /\ UNCHANGED <<pc, c, to, p, sent, got, stalls, stalled, hurt>> /\ pc = "away"
        /\ wire # <<>> /\ wire' = Tail(wire)
    BY DEF lose_byte, line
  <1>2. PICK l, f : Line(l) /\ Returned(f, l)
    BY DEF RecvInv, InLine
  <1>3. TypeOK
    BY DEF RecvInv
  <1>4. PICK m : Line(m)' /\ Returned(f, m) /\ wire' \in Seq(Bytes)
    BY <1>1, <1>2, <1>3, Taken
  <1>5. Returned(f, m)'
    BY <1>1, <1>4, SameReturned
  <1>6. InLine'
    BY <1>1, <1>4, <1>5 DEF InLine
  <1>7. TypeOK' /\ Hunting'
    BY <1>1, <1>3, <1>4 DEF TypeOK, Hunting
  <1> QED
    BY <1>6, <1>7 DEF RecvInv

LEMMA CallKeeps ==
    ASSUME RecvInv, NEW t \in Ticks, recv_packet(t) PROVE RecvInv'
  <1>1. /\ UNCHANGED <<wire, sent, got, stalls, hurt>> /\ pc' = "hunt" /\ c' = ZER /\ to' = t
        /\ p' = <<>> /\ stalled' = FALSE
    BY DEF recv_packet
  <1>2. ZER \in Bytes /\ ZER # END /\ <<>> \in Seq(Bytes) /\ Len(<<>>) = 0 /\ t \in 0 .. t /\ t > 0
    BY Numbers DEF Bytes, ZER, END
  <1>3. TypeOK'
    <2>1. \E u \in Ticks \cup {0} : to' \in 0 .. u
      BY <1>1, <1>2
    <2>2. p' \in Seq(Bytes) /\ Len(p') <= BufLen /\ c' \in Bytes
      BY <1>1, <1>2, Numbers
    <2> QED
      BY <1>1, <2>1, <2>2 DEF RecvInv, TypeOK
  <1>4. Hunting'
    BY <1>1, <1>2 DEF Hunting
  <1>5. PICK l, f : Line(l) /\ Returned(f, l)
    BY DEF RecvInv, InLine
  <1>6. InLine'
    BY <1>1, <1>5, SameReturned DEF InLine, Line
  <1> QED
    BY <1>3, <1>4, <1>6 DEF RecvInv

(* rs232_get(): the next byte, silence between two frames, or a stall.      *)
LEMMA Get ==
    ASSUME TypeOK, NEW l, NEW f, Line(l), Returned(f, l), rs232_get, sent' = sent
    PROVE  /\ c' \in Bytes /\ wire' \in Seq(Bytes) /\ stalls' \in 0 .. MaxStalls /\ stalled' \in BOOLEAN
           /\ \E m : /\ Line(m)' /\ Returned(f, m)
                    /\ \/ Follows(l, c', m, sent) /\ stalled' = stalled
                       \/ m = l /\ c' = c /\ ~l.inside /\ stalled' = stalled
                       \/ m = l /\ c' = c /\ (stalled' <=> stalled \/ (pc # "hunt" /\ c # END))
  <1>1. CASE wire # <<>> /\ c' = Head(wire) /\ wire' = Tail(wire) /\ UNCHANGED <<stalls, stalled>>
    <2>1. PICK m : /\ Follows(l, Head(wire), m, sent) /\ Line(m)' /\ Returned(f, m)
                   /\ Head(wire) \in Bytes /\ wire' \in Seq(Bytes)
      BY <1>1, Taken
    <2> QED
      BY <1>1, <2>1 DEF TypeOK
  <1>2. CASE wire = <<>> /\ UNCHANGED <<c, wire, stalls, stalled>>
    <2>1. ~l.inside
      <3> SUFFICES ASSUME l.inside PROVE FALSE
        OBVIOUS
      <3> DEFINE q == sent[l.n]
      <3>1. sent \in Seq(Packets) /\ l.n \in 1 .. Len(sent) /\ l.n \in 0 .. Len(sent)
        BY DEF TypeOK, Line, Place
      <3>2. q \in Seq(Bytes) /\ Len(q) \in Nat
        BY <3>1, PacketBytes
      <3>3. l.k \in 0 .. Len(q) /\ l.e \in BOOLEAN /\ (l.e => l.k < Len(q) /\ q[l.k + 1] \in DOMAIN escapes)
        BY <3>2 DEF Line, Place
      <3> DEFINE R == Rest(q, l.k, l.e)
                 F == Frames(sent, l.n)
      <3>4. R \in Seq(Bytes) /\ R # <<>>
        BY <3>2, <3>3, RestType
      <3>5. F \in Seq(Bytes)
        BY <3>1, FramesType
      <3>6. wire = R \o F
        BY Zenon DEF Line, Ahead
      <3> HIDE DEF R, F
      <3> QED
        BY <1>2, <3>4, <3>5, <3>6
    <2>2. Line(l)'
      BY <1>2 DEF Line
    <2> QED
      BY <1>2, <2>1, <2>2 DEF TypeOK
  <1>3. CASE /\ wire # <<>> /\ stalls < MaxStalls /\ stalls' = stalls + 1
             /\ stalled' = (stalled \/ (pc # "hunt" /\ c # END)) /\ UNCHANGED <<c, wire>>
    <2>1. Line(l)'
      BY <1>3 DEF Line
    <2>2. c' \in Bytes /\ wire' \in Seq(Bytes) /\ stalls' \in 0 .. MaxStalls
      BY <1>3, Numbers DEF TypeOK
    <2>3. stalled' \in BOOLEAN /\ (stalled' <=> stalled \/ (pc # "hunt" /\ c # END))
      BY <1>3, Zenon
    <2> QED
      BY <1>3, <2>1, <2>2, <2>3
  <1> QED
    BY <1>1, <1>2, <1>3 DEF rs232_get

(* Reading starts, or goes on, at a border. *)
LEMMA Fresh ==
    ASSUME NEW m, ~m.e, ~m.inside \/ m.k = 0, c' = END, p' = <<>>, pc' = "body"
    PROVE  Reading(m)'
  <1>1. END # ESC /\ Len(<<>>) = 0
    BY DEF END, ESC
  <1>2. ASSUME NEW q PROVE Copied(<<>>, q, 0)
    BY <1>1, Numbers DEF Copied
  <1>3. m.inside => Copied(p', sent'[m.n], m.k)
    BY <1>2
  <1> QED
    BY <1>1, <1>3, Zenon DEF Reading

LEMMA HuntKeeps ==
    ASSUME RecvInv, hunt PROVE RecvInv'
  <1>1. /\ UNCHANGED <<p, sent, got, hurt>> /\ pc = "hunt" /\ to' = to - 1
        /\ TypeOK /\ c # END /\ p = <<>> /\ ~stalled /\ to > 0
    BY DEF hunt, tick, RecvInv, Hunting
  <1>2. to' >= 0 /\ \E t \in Ticks \cup {0} : to' \in 0 .. t
    BY <1>1, Numbers DEF TypeOK
  <1>3. PICK l, f : Line(l) /\ Returned(f, l)
    BY DEF RecvInv, InLine
  <1>4. CASE to' = 0 /\ pc' = "away" /\ UNCHANGED <<c, wire, stalls, stalled>>
    <2>1. TypeOK' /\ Hunting'
      BY <1>1, <1>2, <1>4 DEF TypeOK, Hunting
    <2>2. InLine'
      BY <1>1, <1>3, <1>4, SameReturned DEF InLine, Line
    <2> QED
      BY <2>1, <2>2 DEF RecvInv
  <1>5. CASE to' > 0 /\ rs232_get /\ pc' = IF c' = END THEN "body" ELSE "hunt"
    <2>1. PICK m : /\ c' \in Bytes /\ wire' \in Seq(Bytes) /\ stalls' \in 0 .. MaxStalls
                   /\ stalled' \in BOOLEAN /\ Line(m)' /\ Returned(f, m)
                   /\ \/ Follows(l, c', m, sent) /\ stalled' = stalled
                      \/ m = l /\ c' = c /\ ~l.inside /\ stalled' = stalled
                      \/ m = l /\ c' = c /\ (stalled' <=> stalled \/ (pc # "hunt" /\ c # END))
      BY <1>1, <1>3, <1>5, Get
    <2>2. TypeOK'
      BY <1>1, <1>2, <1>5, <2>1 DEF TypeOK
    <2>3. Hunting'
      <3>1. ~stalled'
        BY <1>1, <2>1
      <3> QED
        BY <1>1, <1>5, <3>1 DEF Hunting
    <2>4. pc' \in {"body", "esc"} => Reading(m)'
      <3> SUFFICES ASSUME c' = END PROVE Reading(m)'
        BY <1>5
      <3>1. Follows(l, c', m, sent) /\ Place(l, sent) /\ sent \in Seq(Packets)
        BY <1>1, <1>3, <2>1 DEF Line, TypeOK
      <3>2. ~m.e /\ (~m.inside \/ m.k = 0)
        BY <3>1, ByteKinds DEF At
      <3> QED
        BY <1>1, <1>5, <3>2, Fresh
    <2>5. InLine'
      BY <1>1, <2>1, <2>4, SameReturned DEF InLine
    <2> QED
      BY <2>2, <2>3, <2>5 DEF RecvInv
  <1> QED
    BY <1>4, <1>5 DEF hunt

(* The byte of the packet at l is read and stored, or something is stored in *)
(* its place after a stall.                                                  *)
LEMMA StoredOn ==
    ASSUME TypeOK, NEW l, NEW m, NEW b \in Bytes, Place(l, sent), l.inside, store(b), pc' = "body", sent' = sent,
           m = At(l.n, TRUE, l.k + 1, FALSE), c' \notin {END, ESC},
           ~stalled' => Copied(p, sent[l.n], l.k) /\ b = sent[l.n][l.k + 1]
    PROVE  p' \in Seq(Bytes) /\ Len(p') <= BufLen /\ Reading(m)'
  <1>1. m.n = l.n /\ m.inside = TRUE /\ m.k = l.k + 1 /\ m.e = FALSE
    BY DEF At
  <1>2. l.k \in Nat
    BY DEF Place
  <1>3. /\ p' \in Seq(Bytes) /\ Len(p') <= BufLen /\ p' # <<>>
        /\ \A q, k : k \in Nat /\ Copied(p, q, k) /\ b = q[k + 1] => Copied(p', q, k + 1)
    BY Stored DEF TypeOK
  <1>4. ~stalled' => Copied(p', sent'[m.n], m.k)
    BY <1>1, <1>2, <1>3
  <1>5. m.k # 0
    <2>1. l.k + 1 # 0
      BY <1>2
    <2> QED
      BY <1>1, <2>1, Zenon
  <1>6. Reading(m)'
    BY <1>1, <1>3, <1>4, <1>5 DEF Reading
  <1> QED
    BY <1>3, <1>6

(* A packet is returned: the frame it came in has just ended. *)
LEMMA ReturnedOne ==
    ASSUME TypeOK, NEW l, NEW m, NEW f, Line(l), Reading(l), Returned(f, l), l.inside, ~l.e,
           l.k = Len(sent[l.n]), m = At(l.n, FALSE, 0, FALSE),
           sent' = sent, got' = Append(got, p), stalled' = stalled,
           hurt' = IF stalled THEN hurt \cup {Len(got')} ELSE hurt
    PROVE  /\ got' \in Seq(Seq(Bytes)) /\ hurt' \subseteq DOMAIN got'
           /\ \E g : Returned(g, m)'
  <1> DEFINE N == Len(got) + 1
             U == Seq(Bytes)
             h == [i \in 1 .. N |-> IF i = N THEN l.n ELSE f[i]]
  <1>0. PICK g : g = h
    OBVIOUS
  <1>1. got \in Seq(U) /\ p \in U /\ hurt \subseteq DOMAIN got /\ sent \in Seq(Packets)
    BY DEF TypeOK
  <1>2. /\ Len(got) \in Nat /\ DOMAIN got = 1 .. Len(got) /\ got' \in Seq(U) /\ Len(got') = N
        /\ DOMAIN got' = 1 .. N /\ got'[N] = p /\ \A i \in 1 .. Len(got) : got'[i] = got[i]
    <2> HIDE DEF U
    <2> QED
      BY <1>1
  <1>3. m.n = l.n /\ m.inside = FALSE
    BY DEF At
  <1>4. l.n \in 1 .. Len(sent) /\ l.n \in Nat /\ DOMAIN sent = 1 .. Len(sent)
    BY <1>1 DEF Line, Place
  <1>5. \A i \in 1 .. Len(got) : f[i] \in 1 .. Len(sent) /\ f[i] < l.n
    BY <1>2, <1>4 DEF Returned, Before
  <1>6. \A i \in 1 .. N : i # N => i \in 1 .. Len(got) /\ g[i] = f[i]
    BY <1>0, <1>2
  <1>7. g[N] = l.n /\ N \in 1 .. N /\ N \notin 1 .. Len(got)
    BY <1>0, <1>2
  <1>8. g \in [DOMAIN got' -> DOMAIN sent']
    BY <1>0, <1>2, <1>4, <1>5
  <1> HIDE DEF h
  <1>9. \A i, j \in DOMAIN got' : i < j => g[i] < g[j]
    <2> SUFFICES ASSUME NEW i \in 1 .. N, NEW j \in 1 .. N, i < j PROVE g[i] < g[j]
      BY <1>2
    <2>1. i \in 1 .. Len(got) /\ g[i] = f[i]
      BY <1>2, <1>6
    <2>2. CASE j = N
      BY <1>5, <1>7, <2>1, <2>2
    <2>3. CASE j # N
      BY <1>2, <1>6, <2>1, <2>3 DEF Returned
    <2> QED
      BY <2>2, <2>3
  <1>10. \A i \in DOMAIN got' : Before(g[i], m)
    <2> SUFFICES ASSUME NEW i \in 1 .. N PROVE g[i] <= l.n
      BY <1>2, <1>3 DEF Before
    <2>1. CASE i = N
      BY <1>4, <1>7, <2>1
    <2>2. CASE i # N
      BY <1>4, <1>5, <1>6, <2>2
    <2> QED
      BY <2>1, <2>2
  <1>11. hurt \subseteq hurt' /\ hurt' \subseteq DOMAIN got' /\ (stalled => N \in hurt')
    BY <1>1, <1>2
  <1>12. \A i \in DOMAIN got' \ hurt' : got'[i] = truncate(sent'[g[i]])
    <2> SUFFICES ASSUME NEW i \in 1 .. N, i \notin hurt' PROVE got'[i] = truncate(sent[g[i]])
      BY <1>2
    <2>1. CASE i = N
      <3>1. ~stalled
        BY <1>11, <2>1
      <3>2. Copied(p, sent[l.n], Len(sent[l.n]))
        BY <3>1 DEF Reading
      <3>3. sent[l.n] \in Seq(Bytes)
        BY <1>1, <1>4, PacketBytes
      <3>4. p = truncate(sent[l.n])
        BY <1>1, <3>2, <3>3, CopiedAll
      <3> QED
        BY <1>2, <1>7, <2>1, <3>4
    <2>2. CASE i # N
      <3>1. i \in 1 .. Len(got) /\ g[i] = f[i] /\ i \notin hurt
        BY <1>6, <1>11, <2>2
      <3> QED
        BY <1>2, <3>1 DEF Returned
    <2> QED
      BY <2>1, <2>2
  <1>13. Returned(g, m)'
    BY <1>8, <1>9, <1>10, <1>12 DEF Returned
  <1> QED
    BY <1>2, <1>11, <1>13

(* What a step of the second loop leaves alone. *)
LEMMA ReadTypes ==
    ASSUME TypeOK, c' \in Bytes, wire' \in Seq(Bytes), stalls' \in 0 .. MaxStalls, stalled' \in BOOLEAN,
           UNCHANGED <<to, sent>>, pc' \in {"away", "body", "esc"},
           p' \in Seq(Bytes), Len(p') <= BufLen, got' \in Seq(Seq(Bytes)), hurt' \subseteq DOMAIN got'
    PROVE  TypeOK' /\ Hunting'
  BY DEF TypeOK, Hunting

LEMMA BodyKeeps ==
    ASSUME RecvInv, body PROVE RecvInv'
  <1>1. UNCHANGED <<to, sent>> /\ pc = "body" /\ rs232_get /\ TypeOK
    BY DEF body, RecvInv
  <1>2. PICK l, f : Line(l) /\ Reading(l) /\ Returned(f, l)
    BY <1>1 DEF RecvInv, InLine
  <1>3. PICK m : /\ c' \in Bytes /\ wire' \in Seq(Bytes) /\ stalls' \in 0 .. MaxStalls
                 /\ stalled' \in BOOLEAN /\ Line(m)' /\ Returned(f, m)
                 /\ \/ Follows(l, c', m, sent) /\ stalled' = stalled
                    \/ m = l /\ c' = c /\ ~l.inside /\ stalled' = stalled
                    \/ m = l /\ c' = c /\ (stalled' <=> stalled \/ (pc # "hunt" /\ c # END))
    BY <1>1, <1>2, Get
  <1>4. /\ Place(l, sent) /\ sent \in Seq(Packets) /\ p \in Seq(Bytes) /\ Len(p) <= BufLen
        /\ got \in Seq(Seq(Bytes)) /\ hurt \subseteq DOMAIN got /\ stalled \in BOOLEAN
    BY <1>1, <1>2 DEF Line, TypeOK
  <1>5. /\ l.inside \in BOOLEAN /\ l.e \in BOOLEAN /\ l.k \in Nat /\ END # ESC
        /\ (~l.inside => l.k = 0 /\ ~l.e)
    BY <1>4 DEF Place, END, ESC
  <1>6. /\ l.e <=> c = ESC
        /\ c = END <=> ~l.inside \/ (l.k = 0 /\ ~l.e)
        /\ p = <<>> <=> ~l.inside \/ l.k = 0
        /\ ~stalled => ~l.e /\ (l.inside => Copied(p, sent[l.n], l.k))
    BY <1>1, <1>2, <1>5 DEF Reading
  <1>7. CASE /\ c' = END /\ complete /\ pc' = "away" /\ got' = Append(got, p)
             /\ hurt' = IF stalled THEN hurt \cup {Len(got')} ELSE hurt
             /\ UNCHANGED p
    <2>1. l.inside /\ l.k # 0
      BY <1>5, <1>6, <1>7 DEF complete
    <2>2. Follows(l, END, m, sent) /\ stalled' = stalled
      BY <1>3, <1>6, <1>7, <2>1
    <2>3. ~l.e /\ l.k = Len(sent[l.n]) /\ m = At(l.n, FALSE, 0, FALSE)
      BY <1>4, <2>1, <2>2, ByteKinds
    <2>4. /\ got' \in Seq(Seq(Bytes)) /\ hurt' \subseteq DOMAIN got'
          /\ \E g : Returned(g, m)'
      BY <1>1, <1>2, <1>7, <2>1, <2>2, <2>3, ReturnedOne
    <2>5. TypeOK' /\ Hunting'
      BY <1>1, <1>3, <1>4, <1>7, <2>4, ReadTypes
    <2>6. InLine'
      BY <1>3, <1>7, <2>4 DEF InLine
    <2> QED
      BY <2>5, <2>6 DEF RecvInv
  <1>8. CASE c' = END /\ ~complete /\ UNCHANGED <<pc, p, got, hurt>>
    <2>1. p' = <<>> /\ pc' = "body" /\ (~l.inside \/ l.k = 0)
      BY <1>1, <1>6, <1>8 DEF complete
    <2>2. ~m.e /\ (~m.inside \/ m.k = 0)
      <3>1. CASE Follows(l, END, m, sent)
        BY <1>4, <3>1, ByteKinds DEF At
      <3>2. CASE m = l /\ c' = c
        BY <1>5, <1>6, <1>8, <2>1, <3>2
      <3> QED
        BY <1>3, <1>8, <3>1, <3>2
    <2>3. Reading(m)'
      BY <1>8, <2>1, <2>2, Fresh
    <2>4. Returned(f, m)'
      BY <1>1, <1>3, <1>8, SameReturned
    <2>5. TypeOK' /\ Hunting'
      BY <1>1, <1>3, <1>4, <1>8, <2>1, ReadTypes
    <2>6. InLine'
      BY <1>3, <2>3, <2>4 DEF InLine
    <2> QED
      BY <2>5, <2>6 DEF RecvInv
  <1>9. CASE c' = ESC /\ pc' = "esc" /\ UNCHANGED <<p, got, hurt>>
    <2>1. Reading(m)'
      <3>1. CASE Follows(l, ESC, m, sent) /\ stalled' = stalled
        <4>1. l.inside /\ ~l.e /\ m = At(l.n, TRUE, l.k, TRUE)
          BY <1>4, <3>1, ByteKinds, ZenonT(30)
        <4>2. m.n = l.n /\ m.inside = TRUE /\ m.k = l.k /\ m.e = TRUE
          BY <4>1 DEF At
        <4> QED
          BY <1>1, <1>5, <1>6, <1>9, <3>1, <4>1, <4>2 DEF Reading
      <3>2. CASE m = l /\ c' = c /\ (stalled' \/ ~l.inside)
        <4>1. l.e /\ l.inside
          BY <1>5, <1>6, <1>9, <3>2
        <4> QED
          BY <1>1, <1>5, <1>6, <1>9, <3>2, <4>1 DEF Reading
      <3> QED
        BY <1>1, <1>3, <1>5, <1>9, <3>1, <3>2
    <2>2. Returned(f, m)'
      BY <1>1, <1>3, <1>9, SameReturned
    <2>3. TypeOK' /\ Hunting'
      BY <1>1, <1>3, <1>4, <1>9, ReadTypes
    <2>4. InLine'
      BY <1>3, <2>1, <2>2 DEF InLine
    <2> QED
      BY <2>3, <2>4 DEF RecvInv
  <1>10. CASE c' \notin {END, ESC} /\ store(c') /\ UNCHANGED <<pc, got, hurt>>
    <2>1. p' \in Seq(Bytes) /\ Len(p') <= BufLen /\ p' # <<>>
      BY <1>3, <1>4, <1>10, Stored
    <2>2. Reading(m)'
      <3>1. CASE Follows(l, c', m, sent) /\ stalled' = stalled
        <4>1. \A b : Follows(l, b, m, sent) /\ b \notin {END, ESC} =>
                  l.inside /\ m = At(l.n, TRUE, l.k + 1, FALSE) /\ (~l.e => b = sent[l.n][l.k + 1])
          BY <1>4, ByteKinds, ZenonT(40)
        <4>2. l.inside /\ m = At(l.n, TRUE, l.k + 1, FALSE) /\ (~l.e => c' = sent[l.n][l.k + 1])
          BY <1>10, <3>1, <4>1, Zenon
        <4>3. ~stalled' => Copied(p, sent[l.n], l.k) /\ c' = sent[l.n][l.k + 1]
          BY <1>6, <3>1, <4>2
        <4> QED
          BY <1>1, <1>3, <1>4, <1>10, <4>2, <4>3, StoredOn
      <3>2. CASE m = l /\ c' = c /\ (stalled' \/ ~l.inside)
        <4>1. l.inside /\ ~l.e /\ l.k # 0
          BY <1>5, <1>6, <1>10, <3>2
        <4> QED
          BY <1>1, <1>5, <1>6, <1>10, <2>1, <3>2, <4>1 DEF Reading
      <3> QED
        BY <1>1, <1>3, <1>10, <3>1, <3>2
    <2>3. Returned(f, m)'
      BY <1>1, <1>3, <1>10, SameReturned
    <2>4. TypeOK' /\ Hunting'
      BY <1>1, <1>3, <1>4, <1>10, <2>1, ReadTypes
    <2>5. InLine'
      BY <1>3, <2>2, <2>3 DEF InLine
    <2> QED
      BY <2>4, <2>5 DEF RecvInv
  <1> QED
    BY <1>7, <1>8, <1>9, <1>10 DEF body

LEMMA EscKeeps ==
    ASSUME RecvInv, esc PROVE RecvInv'
  <1>1. /\ UNCHANGED <<to, sent, got, hurt>> /\ pc = "esc" /\ rs232_get /\ TypeOK /\ pc' = "body"
        /\ IF c' \in escape_codes THEN store(unescape(c')) ELSE UNCHANGED p
    BY DEF esc, RecvInv
  <1>2. PICK l, f : Line(l) /\ Reading(l) /\ Returned(f, l)
    BY <1>1 DEF RecvInv, InLine
  <1>3. PICK m : /\ c' \in Bytes /\ wire' \in Seq(Bytes) /\ stalls' \in 0 .. MaxStalls
                 /\ stalled' \in BOOLEAN /\ Line(m)' /\ Returned(f, m)
                 /\ \/ Follows(l, c', m, sent) /\ stalled' = stalled
                    \/ m = l /\ c' = c /\ ~l.inside /\ stalled' = stalled
                    \/ m = l /\ c' = c /\ (stalled' <=> stalled \/ (pc # "hunt" /\ c # END))
    BY <1>1, <1>2, Get
  <1>4. /\ Place(l, sent) /\ sent \in Seq(Packets) /\ p \in Seq(Bytes) /\ Len(p) <= BufLen
        /\ got \in Seq(Seq(Bytes)) /\ hurt \subseteq DOMAIN got
    BY <1>1, <1>2 DEF Line, TypeOK
  <1>5. ESC # END /\ ESC \notin escape_codes
    BY EscapeCodes DEF END, ESC, ESC_END, ESC_ESC, ESC_ZER
  <1>6. l.e /\ l.inside /\ c = ESC
    BY <1>1, <1>2, <1>4 DEF Reading, Place
  <1>7. Returned(f, m)'
    BY <1>1, <1>3, SameReturned
  <1>8. CASE Follows(l, c', m, sent) /\ stalled' = stalled
    <2>1. /\ c' \notin {END, ESC} /\ m = At(l.n, TRUE, l.k + 1, FALSE)
          /\ c' \in escape_codes /\ unescape(c') = sent[l.n][l.k + 1]
      BY <1>4, <1>6, <1>8, ByteKinds
    <2>2. unescape(c') \in Bytes
      BY <2>1, EscapeCodes DEF Bytes
    <2>3. ~stalled' => Copied(p, sent[l.n], l.k)
      BY <1>2, <1>6, <1>8 DEF Reading
    <2>4. p' \in Seq(Bytes) /\ Len(p') <= BufLen /\ Reading(m)'
      BY <1>1, <1>4, <1>6, <2>1, <2>2, <2>3, StoredOn
    <2>5. TypeOK' /\ Hunting'
      BY <1>1, <1>3, <1>4, <2>4, ReadTypes
    <2>6. InLine'
      BY <1>3, <1>7, <2>4 DEF InLine
    <2> QED
      BY <2>5, <2>6 DEF RecvInv
  <1>9. CASE m = l /\ c' = c /\ stalled'
    <2>1. p' = p
      BY <1>1, <1>5, <1>6, <1>9
    <2>2. Reading(m)'
      BY <1>1, <1>2, <1>5, <1>6, <1>9, <2>1 DEF Reading
    <2>3. TypeOK' /\ Hunting'
      BY <1>1, <1>3, <1>4, <2>1, ReadTypes
    <2>4. InLine'
      BY <1>3, <1>7, <2>2 DEF InLine
    <2> QED
      BY <2>3, <2>4 DEF RecvInv
  <1> QED
    BY <1>1, <1>3, <1>5, <1>6, <1>8, <1>9

LEMMA RecvStep == ASSUME RecvInv, [Next]_vars PROVE RecvInv'
  <1>1. CASE UNCHANGED vars
    <2>1. UNCHANGED <<pc, c, to, p, wire, sent, got, stalls, stalled, hurt>>
      BY <1>1 DEF vars, line
    <2>2. TypeOK' /\ Hunting'
      BY <2>1 DEF RecvInv, TypeOK, Hunting
    <2>3. PICK l, f : Line(l) /\ (pc \in {"body", "esc"} => Reading(l)) /\ Returned(f, l)
      BY DEF RecvInv, InLine
    <2>4. Line(l)' /\ (pc' \in {"body", "esc"} => Reading(l)') /\ Returned(f, l)'
      BY <2>1, <2>3 DEF Line, Reading, Returned
    <2> QED
      BY <2>2, <2>4 DEF RecvInv, InLine
  <1> QED
    BY <1>1, SendKeeps, LoseKeeps, CallKeeps, HuntKeeps, BodyKeeps, EscKeeps DEF Next

LEMMA RecvInvariant == Spec => []RecvInv
  BY RecvInit, RecvStep, PTL DEF Spec
-----------------------------------------------------------------------------
(* The theorems *)

(* slip.c: whatever lands on the line and however it stalls, recv_packet    *)
(* never writes past the end of the caller's packet buffer and its timeout  *)
(* counter never wraps.                                                     *)
THEOREM SlipTypes == Spec => []TypeOK
  <1>1. RecvInv => TypeOK
    BY DEF RecvInv
  <1> QED
    BY <1>1, RecvInvariant, PTL

(* slip.c, fed by slip-tun.c: what recv_packet returns are packets that     *)
(* were sent, in their order and none twice, each whole or cut at the end   *)
(* of the buffer unless the line stalled while it was read, whatever bytes  *)
(* were lost while the program was away.                                    *)
THEOREM SlipReturnsSent == Spec => []ReturnsSentPackets
  <1>1. RecvInv => ReturnsSentPackets
    BY DEF RecvInv, InLine, Returned, ReturnsSentPackets
  <1> QED
    BY <1>1, RecvInvariant, PTL
=============================================================================
