----------------------------- MODULE ChatProofs -----------------------------
(***************************************************************************)
(* Proofs about module Chat, for every text, window, screen width and size *)
(* of the input line.                                                      *)
(***************************************************************************)
EXTENDS Chat, SessionProofs, FiniteSetTheorems

(* The log while a segment is being shown: l is the argument of             *)
(* logline_char(), s everything received so far.                            *)
Logs == [logline : Seq(Nat), emitted : BOOLEAN, rows : Seq(Seq(Nat))]

seen(s) == [k \in DOMAIN s |-> visible(s[k])]

(* The characters are numbered up to m. *)
UpToHere(l, s, m) ==
    /\ \A k \in DOMAIN s : s[k] <= m
    /\ \A r \in DOMAIN l.rows : \A k \in DOMAIN l.rows[r] : l.rows[r][k] <= m
    /\ \A k \in DOMAIN l.logline : l.logline[k] <= m

Fits(l) == Len(l.logline) < Cols /\ \A r \in DOMAIN l.rows : Len(l.rows[r]) <= Cols

AllShown(l, s) == FlattenSeq(l.rows) \o l.logline = FlattenSeq(seen(s))

OneLineEach(l, s) ==
    \A k \in DOMAIN s : line_ends(s, k) =>
        /\ \A r \in DOMAIN l.rows :
              l.rows[r] # <<>> => s[k] < Head(l.rows[r]) \/ s[k] > Last(l.rows[r])
        /\ l.logline # <<>> => s[k] < Head(l.logline)

(* What emitted is for: the line that goes on has nothing to show yet. *)
Blank(s) == \E j \in 0 .. Len(s) : nothing_between(s, j, Len(s) + 1)

EmittedRight(l, s) == (l.emitted \/ l.logline # <<>>) <=> ~Blank(s)

blank_rows(l) == {r \in DOMAIN l.rows : l.rows[r] = <<>>}
empty_lines(s) == {k \in DOMAIN s : empty_line(s, k)}
BlanksRight(l, s) == Cardinality(blank_rows(l)) = Cardinality(empty_lines(s))

Shows(l, s, m) ==
    /\ l \in Logs /\ s \in Seq(Nat) /\ m \in Nat
    /\ UpToHere(l, s, m) /\ Fits(l) /\ AllShown(l, s) /\ OneLineEach(l, s)
    /\ EmittedRight(l, s) /\ BlanksRight(l, s)
-----------------------------------------------------------------------------
(* One character *)

LEMMA CharType ==
    ASSUME NEW l \in Logs, NEW i \in Nat PROVE logline_char(l, i) \in Logs
  <1>1. l.logline \in Seq(Nat) /\ l.emitted \in BOOLEAN /\ l.rows \in Seq(Seq(Nat))
    BY DEF Logs
  <1>2. ASSUME NEW x \in Logs PROVE logline_flush(x) \in Logs
    BY DEF logline_flush, Logs
  <1>3. newline(l) \in Logs
    BY <1>2 DEF newline, Logs
  <1>4. [l EXCEPT !.logline = Append(@, i)] \in Logs
    <2>1. Append(l.logline, i) \in Seq(Nat)
      BY <1>1
    <2> QED
      BY <2>1 DEF Logs
  <1> QED
    BY <1>2, <1>3, <1>4, Zenon DEF logline_char

LEMMA FlushShows ==
    ASSUME NEW l, NEW s, NEW m, l \in Logs, s \in Seq(Nat), m \in Nat, UpToHere(l, s, m),
           Len(l.logline) <= Cols, \A r \in DOMAIN l.rows : Len(l.rows[r]) <= Cols,
           AllShown(l, s), OneLineEach(l, s)
    PROVE  /\ UpToHere(logline_flush(l), s, m) /\ Fits(logline_flush(l))
           /\ AllShown(logline_flush(l), s) /\ OneLineEach(logline_flush(l), s)
  <1> DEFINE f == logline_flush(l)
             n == Len(l.rows)
  <1>1. l.logline \in Seq(Nat) /\ l.rows \in Seq(Seq(Nat)) /\ n \in Nat
    BY DEF Logs
  <1>2. /\ f.logline = <<>> /\ f.rows = Append(l.rows, l.logline)
        /\ DOMAIN f.rows = 1 .. n + 1 /\ DOMAIN l.rows = 1 .. n
        /\ f.rows[n + 1] = l.logline /\ \A r \in 1 .. n : f.rows[r] = l.rows[r]
    BY <1>1 DEF logline_flush
  <1> HIDE DEF f, n
  <1>3. UpToHere(f, s, m)
    <2>1. ASSUME NEW r \in DOMAIN f.rows, NEW k \in DOMAIN f.rows[r] PROVE f.rows[r][k] <= m
      <3>1. CASE r = n + 1
        BY <1>2, <2>1, <3>1 DEF UpToHere
      <3>2. CASE r # n + 1
        <4>1. r \in 1 .. n
          BY <1>1, <1>2, <2>1, <3>2
        <4> QED
          BY <1>2, <2>1, <4>1 DEF UpToHere
      <3> QED
        BY <3>1, <3>2
    <2>2. DOMAIN f.logline = {}
      BY <1>2
    <2>3. \A k \in DOMAIN s : s[k] <= m
      BY DEF UpToHere
    <2> QED
      BY <2>1, <2>2, <2>3, Zenon DEF UpToHere
  <1>4. Fits(f)
    <2>1. ASSUME NEW r \in DOMAIN f.rows PROVE Len(f.rows[r]) <= Cols
      <3>1. CASE r = n + 1
        BY <1>2, <3>1
      <3>2. CASE r # n + 1
        BY <1>1, <1>2, <2>1, <3>2
      <3> QED
        BY <3>1, <3>2
    <2>2. Len(f.logline) < Cols
      BY <1>2, ChatAssumption
    <2> QED
      BY <2>1, <2>2, Zenon DEF Fits
  <1>5. AllShown(f, s)
    <2>1. FlattenSeq(f.rows) = FlattenSeq(l.rows) \o l.logline
      BY <1>1, <1>2, FlattenAppend
    <2>2. FlattenSeq(l.rows) \in Seq(Nat)
      BY <1>1, FlattenType
    <2>3. FlattenSeq(f.rows) \o <<>> = FlattenSeq(f.rows)
      BY <1>1, <2>1, <2>2, ConcatProperties, ConcatEmptySeq
    <2> QED
      BY <1>2, <2>1, <2>3, Zenon DEF AllShown
  <1>6. OneLineEach(f, s)
    <2>1. ASSUME NEW k \in DOMAIN s, line_ends(s, k), NEW r \in DOMAIN f.rows, f.rows[r] # <<>>
          PROVE  s[k] < Head(f.rows[r]) \/ s[k] > Last(f.rows[r])
      <3>1. CASE r = n + 1
        BY <1>2, <2>1, <3>1 DEF OneLineEach
      <3>2. CASE r # n + 1
        <4>1. r \in 1 .. n
          BY <1>1, <1>2, <2>1, <3>2
        <4> QED
          BY <1>2, <2>1, <4>1 DEF OneLineEach
      <3> QED
        BY <3>1, <3>2
    <2> QED
      BY <1>2, <2>1 DEF OneLineEach
  <1> QED
    BY <1>3, <1>4, <1>5, <1>6 DEF f

(* s grows by one character *)

LEMMA VisibleType == ASSUME NEW i \in Nat PROVE visible(i) \in Seq(Nat)
  BY DEF visible

LEMMA SeenGrows ==
    ASSUME NEW s, NEW i, s \in Seq(Nat), i \in Nat
    PROVE  /\ FlattenSeq(seen(s)) \in Seq(Nat)
           /\ FlattenSeq(seen(Append(s, i))) = FlattenSeq(seen(s)) \o visible(i)
  <1> DEFINE n == Len(s)
             v == visible(i)
  <1>0. v \in Seq(Nat)
    BY VisibleType
  <1>1. n \in Nat /\ DOMAIN s = 1 .. n /\ \A k \in 1 .. n : s[k] \in Nat
    OBVIOUS
  <1>2. DOMAIN Append(s, i) = 1 .. n + 1 /\ Append(s, i)[n + 1] = i
        /\ \A k \in 1 .. n : Append(s, i)[k] = s[k]
    OBVIOUS
  <1> HIDE DEF n, v
  <1>3. seen(s) = [k \in 1 .. n |-> visible(s[k])] /\ \A k \in 1 .. n : visible(s[k]) \in Seq(Nat)
    BY <1>1, VisibleType DEF seen
  <1>4. seen(s) \in Seq(Seq(Nat)) /\ Len(seen(s)) = n
    BY <1>1, <1>3, IsASeq, LenProperties
  <1>5. seen(Append(s, i)) = [k \in 1 .. n + 1 |-> IF k = n + 1 THEN v ELSE visible(s[k])]
    <2>1. ASSUME NEW k \in 1 .. n + 1
          PROVE  visible(Append(s, i)[k]) = IF k = n + 1 THEN v ELSE visible(s[k])
      <3>1. k = n + 1 \/ k \in 1 .. n
        BY <1>1
      <3> QED
        BY <3>1, <1>1, <1>2 DEF v
    <2> QED
      BY <1>2, <2>1 DEF seen
  <1>6. Append(seen(s), v) = [k \in 1 .. n + 1 |-> IF k = n + 1 THEN v ELSE visible(s[k])]
    BY <1>0, <1>1, <1>3, <1>4
  <1>7. FlattenSeq(Append(seen(s), v)) = FlattenSeq(seen(s)) \o v
    BY <1>0, <1>4, FlattenAppend
  <1>8. FlattenSeq(seen(s)) \in Seq(Nat)
    BY <1>4, FlattenType
  <1> QED
    BY <1>5, <1>6, <1>7, <1>8 DEF v

LEMMA BetweenSame ==
    ASSUME NEW s, NEW i, s \in Seq(Nat), i \in Nat, NEW k \in 0 .. Len(s) + 1, NEW j \in 0 .. k - 1
    PROVE  nothing_between(Append(s, i), j, k) <=> nothing_between(s, j, k)
  <1>1. j > 0 => Append(s, i)[j] = s[j]
    OBVIOUS
  <1>2. \A m \in j + 1 .. k - 1 : Append(s, i)[m] = s[m]
    OBVIOUS
  <1> QED
    BY <1>1, <1>2 DEF nothing_between, line_ends

LEMMA BlankGrows ==
    ASSUME NEW s, NEW i, s \in Seq(Nat), i \in Nat
    PROVE  Blank(Append(s, i)) <=> text[i] = "newline" \/ (text[i] = "control" /\ Blank(s))
  <1> DEFINE n == Len(s)
             t == Append(s, i)
  <1>1. n \in Nat /\ Len(t) = n + 1 /\ t[n + 1] = i /\ \A k \in 1 .. n : t[k] = s[k]
    OBVIOUS
  <1> HIDE DEF t
  <1>2. ASSUME NEW j \in 0 .. n
        PROVE  nothing_between(t, j, n + 2) <=> nothing_between(s, j, n + 1) /\ text[i] = "control"
    <2>1. nothing_between(t, j, n + 1) <=> nothing_between(s, j, n + 1)
      BY <1>1, BetweenSame DEF t
    <2>2. \A m \in j + 1 .. (n + 2) - 1 : m \in j + 1 .. (n + 1) - 1 \/ m = n + 1
      BY <1>1
    <2>3. n + 1 \in j + 1 .. (n + 2) - 1 /\ \A m \in j + 1 .. (n + 1) - 1 : m \in j + 1 .. (n + 2) - 1
      BY <1>1
    <2>4. nothing_between(t, j, n + 2) <=>
             nothing_between(t, j, n + 1) /\ ~printable(t[n + 1]) /\ ~line_ends(t, n + 1)
      BY <2>2, <2>3 DEF nothing_between
    <2>5. ~printable(t[n + 1]) /\ ~line_ends(t, n + 1) <=> text[i] = "control"
      BY <1>1 DEF printable, line_ends
    <2> QED
      BY <2>1, <2>4, <2>5
  <1>3. nothing_between(t, n + 1, n + 2) <=> text[i] = "newline"
    <2>1. (n + 1) + 1 .. (n + 2) - 1 = {} /\ n + 1 > 0
      BY <1>1
    <2> QED
      BY <1>1, <2>1 DEF nothing_between, line_ends
  <1>4. Blank(t) <=> \E j \in 0 .. n + 1 : nothing_between(t, j, n + 2)
    BY <1>1 DEF Blank
  <1>5. \A j \in 0 .. n + 1 : j \in 0 .. n \/ j = n + 1
    BY <1>1
  <1>6. n + 1 \in 0 .. n + 1 /\ \A j \in 0 .. n : j \in 0 .. n + 1
    BY <1>1
  <1>7. Blank(s) <=> \E j \in 0 .. n : nothing_between(s, j, n + 1)
    BY DEF Blank
  <1>8. Blank(t) <=> \/ nothing_between(t, n + 1, n + 2)
                    \/ \E j \in 0 .. n : nothing_between(t, j, n + 2)
    BY <1>4, <1>5, <1>6
  <1> QED
    BY <1>2, <1>3, <1>7, <1>8 DEF t

LEMMA EmptyLinesGrow ==
    ASSUME NEW s, NEW i, s \in Seq(Nat), i \in Nat
    PROVE  /\ IsFiniteSet(empty_lines(s)) /\ Len(s) + 1 \notin empty_lines(s)
           /\ empty_lines(Append(s, i)) =
                 IF text[i] = "newline" /\ Blank(s)
                   THEN empty_lines(s) \cup {Len(s) + 1} ELSE empty_lines(s)
  <1> DEFINE n == Len(s)
             t == Append(s, i)
  <1>1. /\ n \in Nat /\ DOMAIN s = 1 .. n /\ DOMAIN t = 1 .. n + 1
        /\ t[n + 1] = i /\ \A k \in 1 .. n : t[k] = s[k]
    OBVIOUS
  <1> HIDE DEF t, n
  <1>2. IsFiniteSet(empty_lines(s)) /\ n + 1 \notin empty_lines(s)
    <2>1. IsFiniteSet(1 .. n)
      BY <1>1, FS_Interval
    <2>2. empty_lines(s) \in SUBSET (1 .. n)
      BY <1>1 DEF empty_lines
    <2>3. n + 1 \notin 1 .. n
      BY <1>1
    <2>4. IsFiniteSet(empty_lines(s))
      BY <2>1, <2>2, FS_Subset
    <2> QED
      BY <2>2, <2>3, <2>4
  <1>3. ASSUME NEW k \in 1 .. n PROVE empty_line(t, k) <=> empty_line(s, k)
    <2>1. \A j \in 0 .. k - 1 : nothing_between(t, j, k) <=> nothing_between(s, j, k)
      <3>1. k \in 0 .. Len(s) + 1
        BY <1>1 DEF n
      <3> QED
        BY <3>1, BetweenSame DEF t
    <2> QED
      BY <1>1, <2>1 DEF empty_line, line_ends
  <1>4. empty_line(t, n + 1) <=> text[i] = "newline" /\ Blank(s)
    <2>1. \A j \in 0 .. n : nothing_between(t, j, n + 1) <=> nothing_between(s, j, n + 1)
      <3>1. n + 1 \in 0 .. Len(s) + 1 /\ (n + 1) - 1 = n
        BY <1>1 DEF n
      <3> QED
        BY <3>1, BetweenSame DEF t
    <2>2. (n + 1) - 1 = n
      BY <1>1
    <2> QED
      BY <1>1, <2>1, <2>2 DEF empty_line, line_ends, Blank, n
  <1>5. \A k : k \in 1 .. n + 1 <=> k \in 1 .. n \/ k = n + 1
    BY <1>1
  <1> QED
    BY <1>1, <1>2, <1>3, <1>4, <1>5, Zenon DEF empty_lines, n, t

LEMMA FlushBlanks ==
    ASSUME NEW l, l \in Logs
    PROVE  /\ IsFiniteSet(blank_rows(l)) /\ Len(l.rows) + 1 \notin blank_rows(l)
           /\ blank_rows(logline_flush(l)) =
                 IF l.logline = <<>> THEN blank_rows(l) \cup {Len(l.rows) + 1} ELSE blank_rows(l)
  <1> DEFINE f == logline_flush(l)
             n == Len(l.rows)
  <1>1. l.logline \in Seq(Nat) /\ l.rows \in Seq(Seq(Nat)) /\ n \in Nat
    BY DEF Logs
  <1>2. /\ DOMAIN f.rows = 1 .. n + 1 /\ DOMAIN l.rows = 1 .. n
        /\ f.rows[n + 1] = l.logline /\ \A r \in 1 .. n : f.rows[r] = l.rows[r]
    BY <1>1 DEF logline_flush
  <1> HIDE DEF f, n
  <1>3. IsFiniteSet(blank_rows(l)) /\ n + 1 \notin blank_rows(l)
    <2>1. IsFiniteSet(1 .. n)
      BY <1>1, FS_Interval
    <2>2. blank_rows(l) \in SUBSET (1 .. n)
      BY <1>2 DEF blank_rows
    <2>3. n + 1 \notin 1 .. n
      BY <1>1
    <2>4. IsFiniteSet(blank_rows(l))
      BY <2>1, <2>2, FS_Subset
    <2> QED
      BY <2>2, <2>3, <2>4
  <1>4. \A k : k \in 1 .. n + 1 <=> k \in 1 .. n \/ k = n + 1
    BY <1>1
  <1> QED
    BY <1>2, <1>3, <1>4, Zenon DEF blank_rows, f, n

(* The log is the same, s grows by a character that cannot be in it yet. *)
LEMMA Extend ==
    ASSUME NEW l, NEW s, NEW m, NEW i, l \in Logs, s \in Seq(Nat), m \in Nat, i \in Nat, i > m,
           UpToHere(l, s, m), OneLineEach(l, s), text[i] = "newline" => l.logline = <<>>
    PROVE  UpToHere(l, Append(s, i), i) /\ OneLineEach(l, Append(s, i))
  <1> DEFINE n == Len(s)
             t == Append(s, i)
  <1>1. /\ n \in Nat /\ DOMAIN s = 1 .. n /\ DOMAIN t = 1 .. n + 1
        /\ t[n + 1] = i /\ \A k \in 1 .. n : t[k] = s[k] /\ s[k] \in Nat
    OBVIOUS
  <1>2. \A k \in DOMAIN t : k \in 1 .. n \/ k = n + 1
    BY <1>1
  <1> HIDE DEF t, n
  <1>3. l.logline \in Seq(Nat) /\ l.rows \in Seq(Seq(Nat))
    BY DEF Logs
  <1>4. ASSUME NEW r \in DOMAIN l.rows
        PROVE  l.rows[r] \in Seq(Nat) /\ \A k \in DOMAIN l.rows[r] : l.rows[r][k] \in Nat /\ l.rows[r][k] < i
    <2>1. l.rows[r] \in Seq(Nat)
      BY <1>3
    <2>2. \A k \in DOMAIN l.rows[r] : l.rows[r][k] \in Nat /\ l.rows[r][k] <= m
      BY <2>1 DEF UpToHere
    <2> QED
      BY <2>1, <2>2
  <1>5. UpToHere(l, t, i)
    <2>1. \A k \in DOMAIN t : t[k] <= i
      <3>1. \A k \in 1 .. n : s[k] <= m
        BY <1>1 DEF UpToHere
      <3> QED
        BY <1>1, <1>2, <3>1
    <2>2. \A k \in DOMAIN l.logline : l.logline[k] <= i
      <3>1. \A k \in DOMAIN l.logline : l.logline[k] \in Nat /\ l.logline[k] <= m
        BY <1>3 DEF UpToHere
      <3> QED
        BY <3>1
    <2>3. \A r \in DOMAIN l.rows : \A k \in DOMAIN l.rows[r] : l.rows[r][k] <= i
      BY <1>4
    <2> QED
      BY <2>1, <2>2, <2>3, Zenon DEF UpToHere
  <1>6. OneLineEach(l, t)
    <2>1. ASSUME NEW k \in DOMAIN t, line_ends(t, k)
          PROVE  /\ \A r \in DOMAIN l.rows :
                        l.rows[r] # <<>> => t[k] < Head(l.rows[r]) \/ t[k] > Last(l.rows[r])
                 /\ l.logline # <<>> => t[k] < Head(l.logline)
      <3>1. CASE k = n + 1
        <4>1. l.logline = <<>> /\ t[k] = i
          BY <1>1, <2>1, <3>1 DEF line_ends
        <4>2. ASSUME NEW r \in DOMAIN l.rows, l.rows[r] # <<>> PROVE i > Last(l.rows[r])
          <5>1. l.rows[r] \in Seq(Nat) /\ Len(l.rows[r]) \in DOMAIN l.rows[r]
            BY <1>4, <4>2
          <5> QED
            BY <1>4, <5>1 DEF Last
        <4> QED
          BY <4>1, <4>2
      <3>2. CASE k \in 1 .. n
        BY <1>1, <2>1, <3>2 DEF OneLineEach, line_ends
      <3> QED
        BY <1>2, <3>1, <3>2
    <2> QED
      BY <2>1, Zenon DEF OneLineEach
  <1> QED
    BY <1>5, <1>6 DEF t

LEMMA Reassociate ==
    ASSUME NEW a \in Seq(Nat), NEW b \in Seq(Nat), NEW c \in Seq(Nat)
    PROVE  a \o (b \o c) = (a \o b) \o c
  BY SMTT(30)

(* The log grows by the character, too. *)
LEMMA ExtendLog ==
    ASSUME NEW l, NEW s, NEW m, NEW i, l \in Logs, s \in Seq(Nat), m \in Nat, i \in Nat, i > m,
           UpToHere(l, s, m), AllShown(l, s), OneLineEach(l, s), printable(i),
           NEW f, f = [l EXCEPT !.logline = Append(@, i)]
    PROVE  /\ f \in Logs /\ f.rows = l.rows /\ f.emitted = l.emitted /\ f.logline = Append(l.logline, i)
           /\ UpToHere(f, Append(s, i), i) /\ OneLineEach(f, Append(s, i))
           /\ AllShown(f, Append(s, i))
  <1> DEFINE n == Len(s)
             t == Append(s, i)
             q == Len(l.logline)
  <1>1. l.logline \in Seq(Nat) /\ l.rows \in Seq(Seq(Nat)) /\ Append(l.logline, i) \in Seq(Nat)
    BY DEF Logs
  <1>2. /\ f \in Logs /\ f.rows = l.rows /\ f.emitted = l.emitted /\ f.logline = Append(l.logline, i)
    BY <1>1 DEF Logs
  <1>3. text[i] # "newline"
    BY DEF printable
  <1>4. UpToHere(l, t, i) /\ OneLineEach(l, t)
    BY <1>3, Extend
  <1>5. /\ q \in Nat /\ DOMAIN l.logline = 1 .. q /\ DOMAIN f.logline = 1 .. q + 1
        /\ f.logline[q + 1] = i /\ \A k \in 1 .. q : f.logline[k] = l.logline[k]
    BY <1>1, <1>2
  <1>6. UpToHere(f, t, i)
    <2>1. ASSUME NEW k \in DOMAIN f.logline PROVE f.logline[k] <= i
      <3>1. k \in 1 .. q \/ k = q + 1
        BY <1>5
      <3> QED
        BY <1>4, <1>5, <3>1 DEF UpToHere
    <2> QED
      BY <1>2, <1>4, <2>1, Zenon DEF UpToHere
  <1>7. OneLineEach(f, t)
    <2>1. ASSUME NEW k \in DOMAIN t, line_ends(t, k) PROVE t[k] < Head(f.logline)
      <3>1. CASE l.logline # <<>>
        <4>1. Head(f.logline) = Head(l.logline)
          BY <1>1, <1>2, <3>1
        <4> QED
          BY <1>4, <2>1, <3>1, <4>1 DEF OneLineEach
      <3>2. CASE l.logline = <<>>
        <4>1. Head(f.logline) = i
          BY <1>2, <3>2
        <4>2. k # n + 1
          BY <1>3, <2>1 DEF line_ends
        <4>3. k \in DOMAIN s /\ t[k] = s[k] /\ s[k] \in Nat
          BY <4>2
        <4> QED
          BY <4>1, <4>3 DEF UpToHere
      <3> QED
        BY <3>1, <3>2
    <2> QED
      BY <1>2, <1>4, <2>1, Zenon DEF OneLineEach
  <1>8. AllShown(f, t)
    <2>1. FlattenSeq(l.rows) \in Seq(Nat)
      BY <1>1, FlattenType
    <2>2. FlattenSeq(seen(t)) = FlattenSeq(seen(s)) \o <<i>>
      BY SeenGrows DEF visible
    <2>3. Append(l.logline, i) = l.logline \o <<i>>
      BY <1>1, AppendIsConcat
    <2>4. FlattenSeq(l.rows) \o (l.logline \o <<i>>) = (FlattenSeq(l.rows) \o l.logline) \o <<i>>
      <3>1. <<i>> \in Seq(Nat)
        OBVIOUS
      <3> QED
        BY <1>1, <2>1, <3>1, Reassociate, ZenonT(30)
    <2> QED
      BY <1>2, <2>2, <2>3, <2>4, Zenon DEF AllShown
  <1> QED
    BY <1>2, <1>6, <1>7, <1>8

LEMMA CharShows ==
    ASSUME NEW l, NEW s, NEW m, NEW i, Shows(l, s, m), i \in Nat, i > m
    PROVE  Shows(logline_char(l, i), Append(s, i), i)
  <1> DEFINE t == Append(s, i)
             e == logline_char(l, i)
  <1>1. /\ l \in Logs /\ s \in Seq(Nat) /\ m \in Nat /\ UpToHere(l, s, m) /\ Fits(l)
        /\ AllShown(l, s) /\ OneLineEach(l, s) /\ EmittedRight(l, s) /\ BlanksRight(l, s)
    BY DEF Shows
  <1>2. e \in Logs /\ t \in Seq(Nat)
    BY <1>1, CharType
  <1>3. l.logline \in Seq(Nat) /\ l.rows \in Seq(Seq(Nat)) /\ l.emitted \in BOOLEAN
    BY <1>1 DEF Logs
  <1>4. /\ IsFiniteSet(empty_lines(s)) /\ Len(s) + 1 \notin empty_lines(s)
        /\ empty_lines(t) = IF text[i] = "newline" /\ Blank(s)
                              THEN empty_lines(s) \cup {Len(s) + 1} ELSE empty_lines(s)
    BY <1>1, EmptyLinesGrow
  <1>5. Blank(t) <=> text[i] = "newline" \/ (text[i] = "control" /\ Blank(s))
    BY <1>1, BlankGrows
  <1>6. Len(l.logline) <= Cols /\ \A r \in DOMAIN l.rows : Len(l.rows[r]) <= Cols
    BY <1>1, <1>3, ChatAssumption DEF Fits
  <1>7. /\ IsFiniteSet(blank_rows(l)) /\ Len(l.rows) + 1 \notin blank_rows(l)
        /\ blank_rows(logline_flush(l)) =
              IF l.logline = <<>> THEN blank_rows(l) \cup {Len(l.rows) + 1} ELSE blank_rows(l)
    BY <1>1, FlushBlanks
  <1>8. ~printable(i) => FlattenSeq(seen(t)) = FlattenSeq(seen(s))
    <2>1. FlattenSeq(seen(s)) \in Seq(Nat) /\ FlattenSeq(seen(t)) = FlattenSeq(seen(s)) \o visible(i)
      BY <1>1, SeenGrows
    <2>2. FlattenSeq(seen(s)) \o <<>> = FlattenSeq(seen(s))
      BY <2>1, ConcatEmptySeq
    <2> QED
      BY <2>1, <2>2 DEF visible
  <1>9. CASE text[i] = "newline"
    <2>1. e = newline(l) /\ ~printable(i)
      BY <1>9, Zenon DEF logline_char, printable
    <2>2. CASE l.logline # <<>> \/ ~l.emitted
      <3> DEFINE f == logline_flush(l)
      <3>1. f \in Logs /\ f.logline = <<>>
        BY <1>3 DEF logline_flush, Logs
      <3>2. UpToHere(f, s, m) /\ Fits(f) /\ AllShown(f, s) /\ OneLineEach(f, s)
        BY <1>1, <1>6, FlushShows
      <3>3. UpToHere(f, t, i) /\ OneLineEach(f, t)
        BY <1>1, <3>1, <3>2, Extend
      <3>4. e = [f EXCEPT !.emitted = FALSE]
        BY <2>1, <2>2, Zenon DEF newline
      <3> HIDE DEF f
      <3>5. e.logline = f.logline /\ e.rows = f.rows /\ e.emitted = FALSE
        BY <3>1, <3>4 DEF Logs
      <3>6. UpToHere(e, t, i) /\ OneLineEach(e, t) /\ Fits(e)
        BY <3>2, <3>3, <3>5, Zenon DEF UpToHere, OneLineEach, Fits
      <3>7. AllShown(e, t)
        BY <1>8, <2>1, <3>2, <3>5, Zenon DEF AllShown
      <3>8. EmittedRight(e, t)
        BY <1>5, <1>9, <3>1, <3>5, Zenon DEF EmittedRight
      <3>9. BlanksRight(e, t)
        <4>1. blank_rows(e) = blank_rows(f)
          BY <3>5 DEF blank_rows
        <4>2. CASE l.logline = <<>>
          <5>1. Blank(s)
            BY <1>1, <2>2, <4>2 DEF EmittedRight
          <5>2. blank_rows(f) = blank_rows(l) \cup {Len(l.rows) + 1}
            BY <1>7, <4>2 DEF f
          <5>3. empty_lines(t) = empty_lines(s) \cup {Len(s) + 1}
            BY <1>4, <1>9, <5>1
          <5>4. Cardinality(blank_rows(l) \cup {Len(l.rows) + 1}) = Cardinality(blank_rows(l)) + 1
            BY <1>7, FS_AddElement
          <5>5. Cardinality(empty_lines(s) \cup {Len(s) + 1}) = Cardinality(empty_lines(s)) + 1
            BY <1>4, FS_AddElement
          <5> QED
            BY <1>1, <4>1, <5>2, <5>3, <5>4, <5>5, Zenon DEF BlanksRight
        <4>3. CASE l.logline # <<>>
          <5>1. ~Blank(s)
            BY <1>1, <4>3 DEF EmittedRight
          <5>2. blank_rows(f) = blank_rows(l) /\ empty_lines(t) = empty_lines(s)
            BY <1>4, <1>7, <4>3, <5>1 DEF f
          <5> QED
            BY <1>1, <4>1, <5>2, Zenon DEF BlanksRight
        <4> QED
          BY <4>2, <4>3
      <3> QED
        BY <1>2, <3>6, <3>7, <3>8, <3>9, Zenon DEF Shows
    <2>3. CASE ~(l.logline # <<>> \/ ~l.emitted)
      <3>1. e = [l EXCEPT !.emitted = FALSE]
        BY <2>1, <2>3, Zenon DEF newline
      <3>2. e.logline = l.logline /\ e.rows = l.rows /\ e.emitted = FALSE
        BY <1>1, <3>1 DEF Logs
      <3>3. UpToHere(l, t, i) /\ OneLineEach(l, t)
        BY <1>1, <2>3, Extend
      <3>4. UpToHere(e, t, i) /\ OneLineEach(e, t) /\ Fits(e)
        BY <1>1, <3>2, <3>3, Zenon DEF UpToHere, OneLineEach, Fits
      <3>5. AllShown(e, t)
        BY <1>1, <1>8, <2>1, <3>2, Zenon DEF AllShown
      <3>6. EmittedRight(e, t)
        BY <1>5, <1>9, <2>3, <3>2, Zenon DEF EmittedRight
      <3>7. BlanksRight(e, t)
        <4>1. ~Blank(s)
          BY <1>1, <2>3 DEF EmittedRight
        <4>2. blank_rows(e) = blank_rows(l) /\ empty_lines(t) = empty_lines(s)
          BY <1>4, <3>2, <4>1 DEF blank_rows
        <4> QED
          BY <1>1, <4>2, Zenon DEF BlanksRight
      <3> QED
        BY <1>2, <3>4, <3>5, <3>6, <3>7, Zenon DEF Shows
    <2> QED
      BY <2>2, <2>3
  <1>10. CASE text[i] = "control"
    <2>1. text[i] # "newline" /\ ~printable(i)
      BY <1>10 DEF printable
    <2>2. e = l
      BY <1>10, <2>1, Zenon DEF logline_char
    <2>3. UpToHere(l, t, i) /\ OneLineEach(l, t)
      BY <1>1, <2>1, Extend
    <2>4. AllShown(l, t) /\ EmittedRight(l, t) /\ BlanksRight(l, t)
      BY <1>1, <1>4, <1>5, <1>8, <1>10, <2>1, Zenon DEF AllShown, EmittedRight, BlanksRight
    <2> QED
      BY <1>1, <1>2, <2>2, <2>3, <2>4, Zenon DEF Shows
  <1>11. CASE printable(i)
    <2> DEFINE f == [l EXCEPT !.logline = Append(@, i)]
    <2>1. text[i] # "newline" /\ text[i] # "control"
      BY <1>11 DEF printable
    <2>2. /\ f \in Logs /\ f.rows = l.rows /\ f.emitted = l.emitted /\ f.logline = Append(l.logline, i)
          /\ UpToHere(f, t, i) /\ OneLineEach(f, t) /\ AllShown(f, t)
      BY <1>1, <1>11, ExtendLog
    <2>3. f.logline # <<>> /\ Len(f.logline) = Len(l.logline) + 1 /\ Len(l.logline) \in Nat
      <3>1. /\ Append(l.logline, i) # <<>> /\ Len(Append(l.logline, i)) = Len(l.logline) + 1
            /\ Len(l.logline) \in Nat
        <4>1. \A x \in Seq(Nat) : /\ Append(x, i) # <<>> /\ Len(Append(x, i)) = Len(x) + 1
                                 /\ Len(x) \in Nat
          BY Grown
        <4> QED
          BY <1>3, <4>1, Zenon
      <3> HIDE DEF f
      <3> QED
        BY <2>2, <3>1, Zenon
    <2>4. e = IF Len(f.logline) = Cols THEN logline_flush(f) ELSE f
      BY <1>11, <2>1, Zenon DEF logline_char
    <2>5. ~Blank(t) /\ empty_lines(t) = empty_lines(s)
      BY <1>4, <1>5, <2>1
    <2>6. blank_rows(f) = blank_rows(l)
      BY <2>2 DEF blank_rows
    <2> HIDE DEF f
    <2>7. CASE Len(f.logline) = Cols
      <3>1. e = logline_flush(f)
        BY <2>4, <2>7
      <3>2. UpToHere(e, t, i) /\ Fits(e) /\ AllShown(e, t) /\ OneLineEach(e, t)
        <4>1. Len(f.logline) <= Cols /\ \A r \in DOMAIN f.rows : Len(f.rows[r]) <= Cols
          BY <1>6, <2>2, <2>7, ChatAssumption
        <4> QED
          BY <1>2, <2>2, <3>1, <4>1, FlushShows
      <3>3. blank_rows(e) = blank_rows(f)
        BY <2>2, <2>3, <3>1, FlushBlanks
      <3>4. e.emitted
        BY <3>1 DEF logline_flush
      <3>5. EmittedRight(e, t) /\ BlanksRight(e, t)
        BY <1>1, <2>5, <2>6, <3>3, <3>4, Zenon DEF EmittedRight, BlanksRight
      <3> QED
        BY <1>2, <3>2, <3>5, Zenon DEF Shows
    <2>8. CASE Len(f.logline) # Cols
      <3>1. e = f
        BY <2>4, <2>8
      <3>2. Len(f.logline) < Cols
        BY <1>1, <2>3, <2>8, ChatAssumption DEF Fits
      <3>3. Fits(f)
        BY <1>6, <2>2, <3>2, Zenon DEF Fits
      <3>4. EmittedRight(f, t) /\ BlanksRight(f, t)
        BY <1>1, <2>3, <2>5, <2>6, Zenon DEF EmittedRight, BlanksRight
      <3> QED
        BY <1>2, <2>2, <3>1, <3>3, <3>4, Zenon DEF Shows
    <2> QED
      BY <2>7, <2>8
  <1> QED
    BY <1>9, <1>10, <1>11 DEF printable
-----------------------------------------------------------------------------
(* A segment *)

(* What the loop over a segment computes: h[k] after k characters.          *)
LEMMA LogLoop ==
    ASSUME NEW b \in Logs, NEW p \in Nat, NEW n \in Nat
    PROVE  \E h : /\ h[0] = b
                  /\ \A k \in 1 .. n : h[k] = logline_char(h[k - 1], p + k)
                  /\ FoldLeft(logline_char, b, [k \in 1 .. n |-> p + k]) = h[n]
  <1> DEFINE q == [k \in 1 .. n |-> p + k]
             F == [k \in 1 .. n |-> [l \in Logs |-> logline_char(l, p + k)]]
             Loop(g) == g = [S \in SUBSET (1 .. n) |->
                               IF S = {} THEN b ELSE logline_char(g[S \ {Max(S)}], q[Max(S)])]
             g == CHOOSE g : Loop(g)
  <1>1. FoldLeft(logline_char, b, q) = g[1 .. n]
    BY Zenon DEF FoldLeft, MapThenFoldSet
  <1>2. F \in [1 .. n -> [Logs -> Logs]]
    BY CharType
  <1>3. \E f : Loop(f)
    <2>1. PICK f : f \in [SUBSET (1 .. n) -> Logs] /\ FoldsTo(f, b, F, n)
      <3> HIDE DEF F
      <3> QED
        BY <1>2, FoldExists
    <2>2. ASSUME NEW S \in SUBSET (1 .. n)
          PROVE  f[S] = IF S = {} THEN b ELSE logline_char(f[S \ {Max(S)}], q[Max(S)])
      <3>1. f[S] = IF S = {} THEN b ELSE F[Max(S)][f[S \ {Max(S)}]]
        <4> HIDE DEF F
        <4> QED
          BY <2>1 DEF FoldsTo
      <3>2. CASE S # {}
        <4>1. Max(S) \in 1 .. n
          BY <3>2, MaxIn
        <4>2. S \ {Max(S)} \in SUBSET (1 .. n)
          OBVIOUS
        <4>3. f[S \ {Max(S)}] \in Logs
          BY <2>1, <4>2
        <4> QED
          BY <3>1, <3>2, <4>1, <4>3
      <3> QED
        BY <3>1, <3>2
    <2>3. f = [S \in SUBSET (1 .. n) |-> f[S]]
      BY <2>1
    <2>4. Loop(f)
      <3> DEFINE R(S) == IF S = {} THEN b ELSE logline_char(f[S \ {Max(S)}], q[Max(S)])
      <3>1. \A S \in SUBSET (1 .. n) : f[S] = R(S)
        BY <2>2, Zenon
      <3>2. f = [S \in SUBSET (1 .. n) |-> R(S)]
        <4> HIDE DEF R
        <4> QED
          BY <2>3, <3>1
      <3> QED
        BY <3>2, Zenon
    <2> HIDE DEF Loop
    <2> QED
      BY <2>4
  <1>4. Loop(g)
    BY <1>3
  <1> HIDE DEF g, F
  <1> DEFINE h == [k \in 0 .. n |-> g[1 .. k]]
  <1>5. h[0] = b
    <2>1. 1 .. 0 = {} /\ {} \in SUBSET (1 .. n)
      OBVIOUS
    <2>2. g[{}] = b
      BY <1>4, <2>1
    <2> QED
      BY <2>1, <2>2
  <1>6. ASSUME NEW k \in 1 .. n PROVE h[k] = logline_char(h[k - 1], p + k)
    <2>1. 1 .. k \in SUBSET (1 .. n) /\ 1 .. k # {} /\ k - 1 \in 0 .. n /\ k \in 0 .. n
      OBVIOUS
    <2>2. Max(1 .. k) = k /\ (1 .. k) \ {k} = 1 .. k - 1
      BY MaxInterval
    <2>3. g[1 .. k] = logline_char(g[1 .. k - 1], q[k])
      <3>1. g[1 .. k] = logline_char(g[(1 .. k) \ {Max(1 .. k)}], q[Max(1 .. k)])
        <4> HIDE DEF q
        <4> QED
          BY <1>4, <2>1
      <3> QED
        BY <2>2, <3>1
    <2> QED
      BY <2>1, <2>3
  <1>7. h[n] = g[1 .. n]
    OBVIOUS
  <1> HIDE DEF h
  <1> QED
    BY <1>1, <1>5, <1>6, <1>7

LEMMA ShowsLater ==
    ASSUME NEW l, NEW s, NEW m, NEW n, Shows(l, s, m), n \in Nat, n >= m
    PROVE  Shows(l, s, n)
  <1>1. /\ l \in Logs /\ s \in Seq(Nat) /\ m \in Nat /\ UpToHere(l, s, m) /\ Fits(l)
        /\ AllShown(l, s) /\ OneLineEach(l, s) /\ EmittedRight(l, s) /\ BlanksRight(l, s)
    BY DEF Shows
  <1>2. l.logline \in Seq(Nat) /\ l.rows \in Seq(Seq(Nat))
    BY <1>1 DEF Logs
  <1>3. UpToHere(l, s, n)
    <2>1. \A x \in Nat : x <= m => x <= n
      BY <1>1
    <2>2. \A k \in DOMAIN s : s[k] \in Nat
      BY <1>1
    <2>3. \A k \in DOMAIN l.logline : l.logline[k] \in Nat
      BY <1>2
    <2>4. \A r \in DOMAIN l.rows : \A k \in DOMAIN l.rows[r] : l.rows[r][k] \in Nat
      BY <1>2
    <2> QED
      BY <1>1, <2>1, <2>2, <2>3, <2>4, Zenon DEF UpToHere
  <1> QED
    BY <1>1, <1>3, Zenon DEF Shows

Numbers(p, n) == [k \in 1 .. n |-> p + k]

LEMMA NumbersGrow ==
    ASSUME NEW s, s \in Seq(Nat), NEW p \in Nat, NEW k \in Nat \ {0}
    PROVE  s \o Numbers(p, k) = Append(s \o Numbers(p, k - 1), p + k)
  <1>1. Numbers(p, k) \in Seq(Nat) /\ Numbers(p, k - 1) \in Seq(Nat)
    BY DEF Numbers
  <1>2. Numbers(p, k) = Append(Numbers(p, k - 1), p + k)
    BY DEF Numbers
  <1> DEFINE q == Numbers(p, k - 1)
  <1>3. q \in Seq(Nat) /\ p + k \in Nat
    BY <1>1
  <1> HIDE DEF q
  <1>4. s \o Append(q, p + k) = Append(s \o q, p + k)
    BY <1>3
  <1> QED
    BY <1>2, <1>4 DEF q

(* Everything in the segment is on the screen or in the unfinished row.     *)
LEMMA SegmentShows ==
    ASSUME NEW b, NEW s, NEW m, Shows(b, s, m), NEW p \in Nat, NEW n \in Nat, p >= m
    PROVE  Shows(FoldLeft(logline_char, b, Numbers(p, n)), s \o Numbers(p, n), p + n)
  <1>1. b \in Logs /\ s \in Seq(Nat) /\ m \in Nat
    BY DEF Shows
  <1>2. PICK h : /\ h[0] = b
                 /\ \A k \in 1 .. n : h[k] = logline_char(h[k - 1], p + k)
                 /\ FoldLeft(logline_char, b, [k \in 1 .. n |-> p + k]) = h[n]
    BY <1>1, LogLoop, ZenonT(30)
  <1> DEFINE Good(k) == Shows(h[k], s \o Numbers(p, k), p + k)
             S == {k \in 0 .. n : Good(k)}
  <1>3. Good(0)
    <2>1. Numbers(p, 0) = <<>>
      BY DEF Numbers
    <2>2. s \o <<>> = s
      BY <1>1, ConcatEmptySeq
    <2>3. Shows(b, s, p)
      BY <1>1, ShowsLater
    <2>4. p + 0 = p
      OBVIOUS
    <2> QED
      BY <1>2, <2>1, <2>2, <2>3, <2>4, Zenon
  <1>4. ASSUME NEW k \in 1 .. n, Good(k - 1) PROVE Good(k)
    <2>1. p + k \in Nat /\ p + k > p + (k - 1) /\ k \in Nat \ {0}
      OBVIOUS
    <2>2. h[k] = logline_char(h[k - 1], p + k)
      BY <1>2, Zenon
    <2>3. Shows(logline_char(h[k - 1], p + k), Append(s \o Numbers(p, k - 1), p + k), p + k)
      BY <1>4, <2>1, CharShows
    <2>4. s \o Numbers(p, k) = Append(s \o Numbers(p, k - 1), p + k)
      BY <1>1, <2>1, NumbersGrow
    <2> QED
      BY <2>2, <2>3, <2>4, Zenon
  <1> HIDE DEF Good
  <1>5. 0 \in S /\ \A k \in 1 .. n : k - 1 \in S => k \in S
    BY <1>3, <1>4
  <1>6. n \in S
    <2> HIDE DEF S
    <2> QED
      BY <1>5, UpTo
  <1>7. Good(n)
    BY <1>6
  <1> QED
    BY <1>2, <1>7, Zenon DEF Good, Numbers

(* And on the screen at the end of the segment.                             *)
LEMMA LeftoverShows ==
    ASSUME NEW l, NEW s, NEW m, Shows(l, s, m)
    PROVE  Shows(leftover(l), s, m) /\ leftover(l).logline = <<>>
  <1>1. /\ l \in Logs /\ s \in Seq(Nat) /\ m \in Nat /\ UpToHere(l, s, m) /\ Fits(l)
        /\ AllShown(l, s) /\ OneLineEach(l, s) /\ EmittedRight(l, s) /\ BlanksRight(l, s)
    BY DEF Shows
  <1>2. l.logline \in Seq(Nat) /\ l.rows \in Seq(Seq(Nat)) /\ l.emitted \in BOOLEAN
    BY <1>1 DEF Logs
  <1>3. CASE l.logline = <<>>
    BY <1>3, Zenon DEF leftover
  <1>4. CASE l.logline # <<>>
    <2> DEFINE e == logline_flush(l)
    <2>1. leftover(l) = e
      BY <1>4, Zenon DEF leftover
    <2>2. e \in Logs /\ e.logline = <<>> /\ e.emitted
      BY <1>2 DEF logline_flush, Logs
    <2>3. UpToHere(e, s, m) /\ Fits(e) /\ AllShown(e, s) /\ OneLineEach(e, s)
      <3>1. Len(l.logline) <= Cols /\ \A r \in DOMAIN l.rows : Len(l.rows[r]) <= Cols
        BY <1>1, <1>2, ChatAssumption DEF Fits
      <3> QED
        BY <1>1, <3>1, FlushShows
    <2>4. blank_rows(e) = blank_rows(l)
      BY <1>1, <1>4, FlushBlanks
    <2> HIDE DEF e
    <2>5. EmittedRight(e, s) /\ BlanksRight(e, s)
      BY <1>1, <1>4, <2>2, <2>4, Zenon DEF EmittedRight, BlanksRight
    <2> QED
      BY <1>1, <2>1, <2>2, <2>3, <2>5, Zenon DEF Shows
  <1> QED
    BY <1>3, <1>4
-----------------------------------------------------------------------------
(* The program *)

log == [logline |-> logline, emitted |-> logline_emitted, rows |-> rows]

OnScreen == logline = <<>> /\ Shows(log, rcvd, got)

(* The inductive invariant: between two segments nothing is left in         *)
(* logline, and the rows show exactly what was received.                    *)
ChatInv ==
    /\ SessionInv
    /\ mode \in {"key", "poll", "recv", "drain", "wait", "end"}
    /\ input_len \in 0 .. MaxInput
    /\ OnScreen

LEMMA SameText ==
    ASSUME text' = text, Shows(log', rcvd', got'), logline' = <<>>
    PROVE  OnScreen'
  <1>1. seen(rcvd)' = seen(rcvd')
    BY DEF seen, visible, printable
  <1>2. AllShown(log', rcvd') => AllShown(log, rcvd)'
    BY <1>1 DEF AllShown
  <1>3. UpToHere(log', rcvd', got') => UpToHere(log, rcvd, got)'
    BY DEF UpToHere
  <1>4. Fits(log') => Fits(log)'
    BY DEF Fits
  <1>5. OneLineEach(log', rcvd') => OneLineEach(log, rcvd)'
    BY DEF OneLineEach, line_ends
  <1>6. Blank(rcvd') <=> Blank(rcvd)'
    BY DEF Blank, nothing_between, line_ends, printable
  <1>7. EmittedRight(log', rcvd') => EmittedRight(log, rcvd)'
    BY <1>6 DEF EmittedRight
  <1>8. empty_lines(rcvd') = empty_lines(rcvd)'
    BY DEF empty_lines, empty_line, nothing_between, line_ends, printable
  <1>9. BlanksRight(log', rcvd') => BlanksRight(log, rcvd)'
    BY <1>8 DEF BlanksRight, blank_rows
  <1> QED
    BY <1>2, <1>3, <1>4, <1>5, <1>7, <1>9 DEF Shows, OnScreen, Logs

LEMMA ShowDataShows ==
    ASSUME OnScreen, NEW s, show_data(s), s.pos \in Nat, s.len \in Nat, s.pos >= got,
           got' = s.pos + s.len, text' = text
    PROVE  OnScreen'
  <1> DEFINE l == leftover(logged(s))
             q == Numbers(s.pos, s.len)
  <1>1. Shows(log, rcvd, got)
    BY DEF OnScreen
  <1>2. logged(s) = FoldLeft(logline_char, log, q)
    BY Zenon DEF logged, log, Numbers
  <1>3. Shows(logged(s), rcvd \o q, s.pos + s.len)
    <2>1. Shows(FoldLeft(logline_char, log, q), rcvd \o q, s.pos + s.len)
      BY <1>1, SegmentShows
    <2> QED
      BY <1>2, <2>1, Zenon
  <1>4. Shows(l, rcvd \o q, s.pos + s.len) /\ l.logline = <<>>
    BY <1>3, LeftoverShows
  <1>5. l = [logline |-> l.logline, emitted |-> l.emitted, rows |-> l.rows]
    <2>1. l \in Logs
      BY <1>4, Zenon DEF Shows
    <2> HIDE DEF l
    <2> QED
      BY <2>1 DEF Logs
  <1>6. /\ logline' = l.logline /\ logline_emitted' = l.emitted /\ rows' = l.rows
        /\ rcvd' = rcvd \o q
    BY Zenon DEF show_data, Numbers
  <1> HIDE DEF l, q
  <1>7. log' = l
    BY <1>5, <1>6, Zenon DEF log
  <1>8. Shows(log', rcvd', got') /\ logline' = <<>>
    BY <1>4, <1>6, <1>7, Zenon
  <1> QED
    BY <1>8, SameText

LEMMA DisplayKept ==
    ASSUME OnScreen, UNCHANGED display, got' \in Nat, got' >= got, text' = text
    PROVE  OnScreen'
  <1>1. Shows(log, rcvd, got')
    BY ShowsLater DEF OnScreen
  <1>2. log' = log /\ rcvd' = rcvd /\ logline' = <<>>
    BY DEF OnScreen, display, log
  <1>3. Shows(log', rcvd', got')
    BY <1>1, <1>2, Zenon
  <1> QED
    BY <1>2, <1>3, SameText

LEMMA InitShows ==
    ASSUME Init PROVE OnScreen
  <1>1. logline = <<>> /\ logline_emitted = FALSE /\ rows = <<>> /\ rcvd = <<>> /\ got = 0
    BY DEF Init, SessionInit
  <1>2. log \in Logs /\ rcvd \in Seq(Nat) /\ log.logline = <<>> /\ log.rows = <<>> /\ ~log.emitted
    <2>1. <<>> \in Seq(Nat) /\ <<>> \in Seq(Seq(Nat)) /\ FALSE \in BOOLEAN
      OBVIOUS
    <2>2. log = [logline |-> <<>>, emitted |-> FALSE, rows |-> <<>>]
      BY <1>1 DEF log
    <2> QED
      BY <1>1, <2>1, <2>2 DEF Logs
  <1>3. UpToHere(log, rcvd, got) /\ Fits(log) /\ OneLineEach(log, rcvd)
    BY <1>1, <1>2, ChatAssumption DEF UpToHere, Fits, OneLineEach
  <1>4. AllShown(log, rcvd)
    <2>1. seen(rcvd) = <<>>
      BY <1>1 DEF seen
    <2>2. <<>> \o <<>> = <<>>
      OBVIOUS
    <2> QED
      BY <1>2, <2>1, <2>2, FlattenEmpty, Zenon DEF AllShown
  <1>5. Blank(rcvd)
    BY <1>1 DEF Blank, nothing_between
  <1>6. blank_rows(log) = {} /\ empty_lines(rcvd) = {}
    BY <1>1, <1>2 DEF blank_rows, empty_lines
  <1> QED
    BY <1>1, <1>2, <1>3, <1>4, <1>5, <1>6, Zenon
    DEF OnScreen, Shows, EmittedRight, BlanksRight

Modes == {"key", "poll", "recv", "drain", "wait", "end"}

(* A step that shows nothing. *)
LEMMA NothingShown ==
    ASSUME ChatInv, SessionInv', UNCHANGED display, got' >= got, text' = text,
           mode' \in Modes, input_len' \in 0 .. MaxInput
    PROVE  ChatInv'
  <1>1. got' \in Nat
    <2>1. Len(text') \in Nat /\ got' \in 0 .. nxt' /\ nxt' \in 0 .. Len(text')
      BY TextLength DEF SessionInv, SessionTypeOK
    <2> QED
      BY <2>1
  <1>2. OnScreen'
    BY <1>1, DisplayKept DEF ChatInv
  <1> QED
    BY <1>2 DEF ChatInv, Modes

LEMMA KeyKeeps ==
    ASSUME ChatInv, Keyboard PROVE ChatInv'
  <1>1. got \in Nat /\ SessionInv /\ input_len \in 0 .. MaxInput /\ MaxInput \in Nat
    BY ChatAssumption, TextLength DEF ChatInv, SessionInv, SessionTypeOK
  <1>2. CASE key_none \/ key_char \/ key_delete \/ key_quit
    <2>1. /\ UNCHANGED <<connection, got, offered, drains, framed, window_open, display>>
          /\ mode' \in {"poll", "end"}
      BY <1>2 DEF key_none, key_char, key_delete, key_quit
    <2>2. input_len' \in 0 .. MaxInput
      BY <1>1, <1>2 DEF key_none, key_char, key_delete, key_quit, room
    <2>3. SessionInv'
      <3>1. silent /\ UNCHANGED <<got, window_open>> /\ drains' \in 0 .. Drains /\ framed' \in BOOLEAN
        BY <1>1, <2>1 DEF silent, SessionInv, SessionTypeOK
      <3> QED
        BY <1>1, <2>1, <3>1, QuietKeeps
    <2>4. got' >= got /\ text' = text /\ UNCHANGED display /\ mode' \in Modes
      BY <1>1, <2>1 DEF connection, Modes
    <2> QED
      BY <2>2, <2>3, <2>4, NothingShown
  <1>3. CASE send_input
    <2>1. SessionInv'
      BY <1>1, <1>3, SendBeginKeeps DEF send_input
    <2>2. /\ got' >= got /\ text' = text /\ UNCHANGED display /\ mode' \in Modes
          /\ input_len' \in 0 .. MaxInput
      BY <1>1, <1>3 DEF send_input, send_begin, transmit, Modes
    <2> QED
      BY <2>1, <2>2, NothingShown
  <1> QED
    BY <1>2, <1>3 DEF Keyboard

(* A segment with new text is shown. *)
LEMMA DataKeeps ==
    ASSUME ChatInv, SessionInv', NEW s \in segments, new_data(s), show_data(s),
           UNCHANGED input_len, mode' \in Modes
    PROVE  ChatInv'
  <1>1. /\ s.len > 0 /\ s.pos >= got /\ got' = s.pos + s.len /\ text' = text
        /\ s.pos \in Nat /\ s.len \in Nat
    <2>1. drains' \in 0 .. Drains /\ window_open' \in BOOLEAN /\ SessionTypeOK /\ WithinWindow
      BY DEF ChatInv, SessionInv, SessionTypeOK
    <2> QED
      BY <2>1, NewDataKeeps
  <1>2. OnScreen'
    BY <1>1, ShowDataShows DEF ChatInv
  <1> QED
    BY <1>2 DEF ChatInv, Modes

LEMMA NetworkKeeps ==
    ASSUME ChatInv, Network PROVE ChatInv'
  <1>1. /\ got \in Nat /\ SessionInv /\ SessionTypeOK /\ input_len \in 0 .. MaxInput
        /\ MaxInput \in Nat /\ mode \in Modes
    BY ChatAssumption, TextLength DEF ChatInv, SessionInv, SessionTypeOK, Modes
  <1>2. CASE net_open
    <2>1. SessionInv'
      BY <1>1, <1>2, PollOpenKeeps DEF net_open
    <2>2. /\ got' >= got /\ text' = text /\ UNCHANGED display /\ mode' \in Modes
          /\ input_len' \in 0 .. MaxInput
      BY <1>1, <1>2 DEF net_open, poll_open, transmit, silent, connection, Modes
    <2> QED
      BY <2>1, <2>2, NothingShown
  <1>3. CASE net_again \/ net_reset \/ \E s \in segments : net_nodata(s)
    <2>1. SessionInv'
      BY <1>1, <1>3, PollQuietKeeps DEF net_again, net_reset, net_nodata
    <2>2. /\ got' >= got /\ text' = text /\ UNCHANGED display /\ mode' \in Modes
          /\ input_len' \in 0 .. MaxInput
      BY <1>1, <1>3 DEF net_again, net_reset, net_nodata, poll_again, poll_reset, poll_nodata,
                        timed_out, was_reset, no_data, silent, connection, Modes
    <2> QED
      BY <2>1, <2>2, NothingShown
  <1>4. ASSUME NEW s \in segments, net_data(s) PROVE ChatInv'
    <2>1. SessionInv'
      BY <1>1, <1>4, PollDataKeeps DEF net_data
    <2>2. new_data(s) /\ show_data(s) /\ UNCHANGED input_len /\ mode' \in Modes
      BY <1>4 DEF net_data, poll_data, Modes
    <2> QED
      BY <2>1, <2>2, DataKeeps
  <1>5. ASSUME NEW s \in segments, drain_data(s), show_data(s), UNCHANGED input_len PROVE ChatInv'
    <2>1. SessionInv'
      BY <1>1, <1>5, DrainDataKeeps
    <2>2. new_data(s) /\ mode' \in Modes
      BY <1>1, <1>5 DEF drain_data, drained
    <2> QED
      BY <1>5, <2>1, <2>2, DataKeeps
  <1>6. CASE (drain_nodata \/ send_line) /\ UNCHANGED <<display, input_len>>
    <2>1. SessionInv'
      BY <1>1, <1>6, DrainNodataKeeps, SendLineKeeps
    <2>2. /\ got' >= got /\ text' = text /\ UNCHANGED display /\ mode' \in Modes
          /\ input_len' \in 0 .. MaxInput
      BY <1>1, <1>6 DEF drain_nodata, drained, send_line, timed_out, was_reset, no_data, silent,
                        transmit, connection, Modes
    <2> QED
      BY <2>1, <2>2, NothingShown
  <1>7. CASE send_input_end
    <2>1. SessionInv'
      BY <1>1, <1>7, SendEndKeeps DEF send_input_end
    <2>2. got' >= got /\ text' = text
      <3>1. ASSUME NEW s \in segments, new_data(s) PROVE got' >= got /\ text' = text
        <4>1. drains' \in 0 .. Drains /\ window_open' \in BOOLEAN /\ SessionTypeOK /\ WithinWindow
          BY <1>1, <2>1 DEF SessionInv, SessionTypeOK
        <4> QED
          BY <1>1, <3>1, <4>1, NewDataKeeps
      <3> QED
        BY <1>1, <1>7, <3>1 DEF send_input_end, send_end, send_ok, send_failed, timed_out,
                                was_reset, no_data, silent, connection
    <2>3. UNCHANGED display /\ mode' \in Modes /\ input_len' \in 0 .. MaxInput
      BY <1>1, <1>7 DEF send_input_end, send_end, send_ok, send_failed, Modes
    <2> QED
      BY <2>1, <2>2, <2>3, NothingShown
  <1> QED
    BY <1>2, <1>3, <1>4, <1>5, <1>6, <1>7 DEF Network, send_input_drain

LEMMA ChatStep ==
    ASSUME ChatInv, [Next]_vars PROVE ChatInv'
  <1>1. got \in Nat /\ SessionInv /\ input_len \in 0 .. MaxInput /\ mode \in Modes
    BY ChatAssumption, TextLength DEF ChatInv, SessionInv, SessionTypeOK, Modes
  <1>2. CASE Server /\ UNCHANGED <<display, input_len>>
    <2>1. SessionInv'
      BY <1>1, <1>2, ServerKeeps
    <2>2. /\ got' >= got /\ text' = text /\ UNCHANGED display /\ mode' \in Modes
          /\ input_len' \in 0 .. MaxInput
      BY <1>1, <1>2 DEF Server, peer_send, peer_close, program
    <2> QED
      BY <2>1, <2>2, NothingShown
  <1>3. CASE UNCHANGED vars
    <2>1. UNCHANGED <<connection, program, got, offered, display, input_len>>
      BY <1>3 DEF vars, session
    <2>2. SessionInv'
      BY <1>1, <2>1 DEF SessionInv, SessionTypeOK, WithinWindow, WindowKnown, connection, program
    <2>3. /\ got' >= got /\ text' = text /\ UNCHANGED display /\ mode' \in Modes
          /\ input_len' \in 0 .. MaxInput
      BY <1>1, <2>1 DEF connection, program
    <2> QED
      BY <2>2, <2>3, NothingShown
  <1>4. CASE Frames
    <2>1. SessionInv' /\ silent /\ UNCHANGED <<got, mode>>
      BY <1>1, <1>4, FrameKeeps DEF Frames
    <2>2. /\ got' >= got /\ text' = text /\ UNCHANGED display /\ mode' \in Modes
          /\ input_len' \in 0 .. MaxInput
      BY <1>1, <1>4, <2>1 DEF Frames, silent, connection
    <2> QED
      BY <2>1, <2>2, NothingShown
  <1> QED
    BY <1>2, <1>3, <1>4, KeyKeeps, NetworkKeeps DEF Next
-----------------------------------------------------------------------------
(* The theorems *)

LEMMA ChatInvariant == Spec => []ChatInv
  <1>1. Init => ChatInv
    <2>1. ASSUME Init PROVE ChatInv
      <3>1. SessionInv
        BY <2>1, SessionInitInv DEF Init
      <3>2. input_len \in 0 .. MaxInput /\ mode = "key"
        BY <2>1, ChatAssumption DEF Init
      <3> QED
        BY <2>1, <3>1, <3>2, InitShows DEF ChatInv
    <2> QED
      BY <2>1
  <1>2. ChatInv /\ [Next]_vars => ChatInv'
    BY ChatStep
  <1> QED
    BY <1>1, <1>2, PTL DEF Spec

(* Every variable of tcp_chat.c keeps its type: the input line never        *)
(* outgrows MAX_INPUT, no row is wider than the screen, and we never        *)
(* acknowledge what the server has not sent.                                *)
THEOREM ChatTypes == Spec => []TypeOK
  <1>1. ChatInv => TypeOK
    <2> SUFFICES ASSUME ChatInv PROVE TypeOK
      OBVIOUS
    <2>1. Shows(log, rcvd, got)
      BY DEF ChatInv, OnScreen
    <2>2. Fits(log) /\ log \in Logs
      BY <2>1, Zenon DEF Shows
    <2>3. log.logline = logline /\ log.rows = rows /\ log.emitted = logline_emitted
      BY DEF log
    <2>4. /\ Len(logline) < Cols /\ logline_emitted \in BOOLEAN
          /\ \A r \in DOMAIN rows : Len(rows[r]) <= Cols
      <3> HIDE DEF log
      <3> QED
        BY <2>2, <2>3 DEF Fits, Logs
    <2> QED
      BY <2>4 DEF TypeOK, ChatInv, SessionInv
  <1> QED
    BY <1>1, ChatInvariant, PTL

(* window_open says whether the last segment we sent offered a window, so   *)
(* that poll_net() re-opens exactly the windows that an ACK or a send has   *)
(* closed.                                                                  *)
THEOREM ChatWindowTracked == Spec => []WindowTracked
  <1>1. ChatInv => WindowTracked
    BY DEF ChatInv, SessionInv, WindowKnown, WindowTracked
  <1> QED
    BY <1>1, ChatInvariant, PTL

(* However the server's text is cut into segments, what show_data() was     *)
(* given is on the screen when it returns, once and in order.               *)
THEOREM ChatNothingHidden == Spec => []NothingHidden
  <1>1. ChatInv => NothingHidden
    <2> SUFFICES ASSUME ChatInv PROVE NothingHidden
      OBVIOUS
    <2>1. Shows(log, rcvd, got) /\ logline = <<>>
      BY DEF ChatInv, OnScreen
    <2>2. AllShown(log, rcvd) /\ log \in Logs
      BY <2>1, Zenon DEF Shows
    <2>3. log.logline = <<>> /\ log.rows = rows
      BY <2>1 DEF log
    <2> HIDE DEF log
    <2>4. FlattenSeq(rows) \in Seq(Nat)
      <3>1. rows \in Seq(Seq(Nat))
        BY <2>2, <2>3 DEF Logs
      <3> QED
        BY <3>1, FlattenType
    <2>5. FlattenSeq(rows) \o <<>> = FlattenSeq(rows)
      BY <2>4, ConcatEmptySeq
    <2> QED
      BY <2>2, <2>3, <2>5, Zenon DEF AllShown, NothingHidden, seen
  <1> QED
    BY <1>1, ChatInvariant, PTL

(* logline_emitted does what it is for: lines never share a row, and the    *)
(* blank rows are the empty lines, also when a line fills the width or is   *)
(* cut between two segments.                                                *)
THEOREM ChatLinesKept == Spec => []LinesKept
  <1>1. ChatInv => LinesKept
    <2> SUFFICES ASSUME ChatInv PROVE LinesKept
      OBVIOUS
    <2>1. Shows(log, rcvd, got)
      BY DEF ChatInv, OnScreen
    <2>2. OneLineEach(log, rcvd) /\ BlanksRight(log, rcvd)
      BY <2>1, Zenon DEF Shows
    <2>3. log.rows = rows
      BY DEF log
    <2> HIDE DEF log
    <2>4. \A r \in DOMAIN rows : \A k \in DOMAIN rcvd :
              rows[r] # <<>> /\ line_ends(rcvd, k)
                => rcvd[k] < Head(rows[r]) \/ rcvd[k] > Last(rows[r])
      BY <2>2, <2>3, Zenon DEF OneLineEach
    <2>5. Cardinality({r \in DOMAIN rows : rows[r] = <<>>})
            = Cardinality({k \in DOMAIN rcvd : empty_line(rcvd, k)})
      BY <2>2, <2>3, Zenon DEF BlanksRight, blank_rows, empty_lines
    <2> QED
      BY <2>4, <2>5, Zenon DEF LinesKept
  <1> QED
    BY <1>1, ChatInvariant, PTL

(* A FIN that overtakes lost text costs at most one window of it: the       *)
(* server cannot have sent more than one window beyond what we have.        *)
THEOREM ChatHangup == Spec => HangupLosesOneWindow
  <1> DEFINE P == mode = "recv" /\ mode' = "end" /\ peer # "gone" => Len(text) - got <= RxWindow
  <1>1. ChatInv /\ [Next]_vars => [P]_vars
    <2> SUFFICES ASSUME ChatInv, Next, mode = "recv", mode' = "end", peer # "gone"
                 PROVE  Len(text) - got <= RxWindow
      OBVIOUS
    <2>1. SessionTypeOK /\ WithinWindow
      BY DEF ChatInv, SessionInv
    <2>2. \E s \in segments : net_nodata(s)
      BY DEF Next, Keyboard, Network, Frames, frame_begins, frame_ends, Server,
             key_none, key_char, key_delete, key_quit, send_input,
             send_begin, net_open, poll_open, net_again, poll_again, net_reset, poll_reset,
             was_reset, net_data, poll_data, send_input_drain, drain_data, drain_nodata, drained,
             send_line, send_input_end, send_end, send_ok, send_failed, peer_send, peer_close, program
    <2>3. PICK s \in segments : s.fin
      BY <2>2 DEF net_nodata, poll_nodata, hung_up
    <2>4. s.pos + s.len = Len(text) /\ s.pos + s.len <= nxt
      BY <2>1, <2>3, SegmentSent
    <2>5. nxt <= got + RxWindow /\ got \in Nat /\ nxt \in Nat /\ Len(text) \in Nat /\ RxWindow \in Nat
      BY <2>1, TextLength, SessionAssumption DEF SessionTypeOK, WithinWindow
    <2>6. Len(text) <= nxt
      BY <2>4
    <2> QED
      BY <2>5, <2>6
  <1> QED
    BY <1>1, ChatInvariant, PTL DEF Spec, HangupLosesOneWindow
=============================================================================
