-------------------------- MODULE TcpServerProofs --------------------------
(***************************************************************************)
(* Proofs about TcpServer: for every length of the stream and of the       *)
(* segments, every window and every size of the counters that TcpAssumption *)
(* admits, in whatever order, overlap and number the segments arrive.      *)
(*                                                                         *)
(* The theorems assume NoWrap, that the numbers of the connection do not   *)
(* pass zero: without it CutToWindow cuts segments that are in the window, *)
(* and StreamDelivered does not hold.                                      *)
(*                                                                         *)
(* The lemmas follow tcp_input from the inside out: what the arithmetic    *)
(* of numbers comes to in places of the stream; the segments and the queue; *)
(* the pcb, with an announcement, tcp_receive, the callbacks, tcp_process; *)
(* and last the peer and the network.                                      *)
(***************************************************************************)
EXTENDS TcpServer, TLAPS, WellFoundedInduction

(***************************************************************************)
(* The sizes of windows and numbers, as TcpAssumption has them.            *)
(***************************************************************************)
LEMMA Sizes ==
  /\ SeqSpace \in Nat /\ U16 \in Nat /\ TCP_WND \in Nat /\ N \in Nat
  /\ ISN \in 0 .. SeqSpace - 1
  /\ TCP_WND >= 4 /\ N >= 1 /\ U16 > 2 * TCP_WND /\ SeqSpace >= 2 * U16
  /\ Half \in Nat /\ 2 * Half <= SeqSpace /\ SeqSpace <= 2 * Half + 1
  /\ Half > N + TCP_WND + 2
BY TcpAssumption DEF Half

(***************************************************************************)
(* The remainder of a number by the number, or by twice, it is within.     *)
(***************************************************************************)
LEMMA Modulo ==
  ASSUME NEW S \in Nat \ {0}, NEW a \in Int, -S <= a, a < 2 * S
  PROVE  a % S = IF a < 0 THEN a + S ELSE IF a < S THEN a ELSE a - S
<1>1. ASSUME NEW k \in Int, NEW d \in 0 .. S - 1, a = d + k * S
      PROVE  a % S = d
  BY <1>1
<1>2. CASE a < 0
  BY <1>2, <1>1, a = (a + S) + (-1) * S
<1>3. CASE 0 <= a /\ a < S
  BY <1>3, <1>1, a = a + 0 * S
<1>4. CASE S <= a
  BY <1>4, <1>1, a = (a - S) + 1 * S
<1> QED
  BY <1>2, <1>3, <1>4

(***************************************************************************)
(* The same for the numbers of the sequence space.                         *)
(***************************************************************************)
LEMMA ModuloSpace ==
  ASSUME NEW a \in Int, -SeqSpace <= a, a < 2 * SeqSpace
  PROVE  a % SeqSpace = IF a < 0 THEN a + SeqSpace
                        ELSE IF a < SeqSpace THEN a ELSE a - SeqSpace
<1>1. PICK S \in Nat \ {0} : S = SeqSpace
  BY Sizes
<1>2. a % S = IF a < 0 THEN a + S ELSE IF a < S THEN a ELSE a - S
  BY <1>1, Modulo
<1> QED
  BY <1>1, <1>2

(***************************************************************************)
(* Numbers that are less than half of the number space apart compare as    *)
(* they are.                                                               *)
(***************************************************************************)
LEMMA Compared ==
  ASSUME NEW a \in Int, NEW b \in Int, a - b < Half, b - a < Half
  PROVE  /\ TCP_SEQ_LT(a, b) <=> a < b
         /\ TCP_SEQ_GEQ(a, b) <=> b <= a
         /\ TCP_SEQ_GT(a, b) <=> b < a
         /\ b <= a => Diff(a, b) = a - b
<1>1. ASSUME NEW x \in Int, NEW y \in Int, x - y < Half, y - x < Half
      PROVE  Diff(x, y) = IF y <= x THEN x - y ELSE x - y + SeqSpace
  <2>1. PICK d \in Int : d = x - y
    OBVIOUS
  <2>2. d % SeqSpace = IF d < 0 THEN d + SeqSpace ELSE d
    BY <1>1, <2>1, ModuloSpace, Sizes
  <2> QED
    BY <2>1, <2>2, <1>1 DEF Diff
<1>2. Diff(a, b) = IF b <= a THEN a - b ELSE a - b + SeqSpace
  BY <1>1
<1>3. Diff(b, a) = IF a <= b THEN b - a ELSE b - a + SeqSpace
  BY <1>1
<1>4. /\ Diff(a, b) >= Half <=> a < b
      /\ Diff(b, a) >= Half <=> b < a
  BY <1>2, <1>3, Sizes
<1>5. Diff(a, b) < Half <=> b <= a
  BY <1>2, Sizes
<1> QED
  BY <1>2, <1>4, <1>5 DEF TCP_SEQ_LT, TCP_SEQ_GEQ, TCP_SEQ_GT

-----------------------------------------------------------------------------
(***************************************************************************)
(* The places of the stream, from the first byte to the end of the last    *)
(* window, and the number in front of the first byte's.                    *)
(***************************************************************************)
Top == N + TCP_WND + 2
Base == Num(1) - 1

\* The numbers from the SYN to the end of the last window do not pass zero, or
\* the first byte has number zero.  Enqueue compares the end of a segment with
\* that of the window by size (CutToWindow), which is right only then.
NoWrap == ISN + Top < SeqSpace \/ ISN = SeqSpace - 1

(***************************************************************************)
(* The first places of the stream have the numbers behind Base, which      *)
(* Index takes back to them.                                               *)
(***************************************************************************)
LEMMA Places ==
  ASSUME NoWrap
  PROVE  /\ Base \in Int /\ Base >= -1 /\ Base + Top < SeqSpace
         /\ Top \in Nat /\ Top < Half
         /\ \A i \in 1 .. Top : Num(i) = Base + i /\ Index(Base + i) = i
<1>1. Top \in Nat /\ Top < Half
  BY Sizes DEF Top
<1>2. Base = IF ISN = SeqSpace - 1 THEN -1 ELSE ISN
  <2>1. PICK m \in Int : m = ISN + 1
    BY Sizes
  <2>2. m % SeqSpace = IF m < SeqSpace THEN m ELSE m - SeqSpace
    BY <2>1, ModuloSpace, Sizes
  <2>3. Num(1) = m % SeqSpace
    BY <2>1 DEF Num
  <2> QED
    BY <2>1, <2>2, <2>3, Sizes DEF Base
<1>3. Base \in Int /\ Base >= -1 /\ Base + Top < SeqSpace
  BY <1>1, <1>2, Sizes DEF NoWrap
<1>4. ASSUME NEW i \in 1 .. Top
      PROVE  Num(i) = Base + i /\ Index(Base + i) = i
  <2>1. PICK m \in Int : m = ISN + i
    BY Sizes
  <2>2. m % SeqSpace = IF m < SeqSpace THEN m ELSE m - SeqSpace
    BY <1>1, <2>1, ModuloSpace, Sizes
  <2>3. Num(i) = Base + i
    BY <1>1, <1>2, <2>1, <2>2, Sizes DEF Num, NoWrap
  <2>4. PICK d \in Int : d = (Base + i) - ISN
    BY <1>3, Sizes
  <2>5. d % SeqSpace = IF d < 0 THEN d + SeqSpace ELSE d
    BY <1>1, <1>2, <2>4, ModuloSpace, Sizes
  <2>6. Index(Base + i) = i
    BY <1>1, <1>2, <2>4, <2>5, Sizes DEF Index, Diff, NoWrap
  <2> QED
    BY <2>3, <2>6
<1> QED
  BY <1>1, <1>3, <1>4

(***************************************************************************)
(* Numbers of the stream need not be reduced, and compare as they are.     *)
(***************************************************************************)
LEMMA Reduced ==
  ASSUME NEW a \in Int, 0 <= a, a < SeqSpace
  PROVE  a % SeqSpace = a
BY ModuloSpace, Sizes

(***************************************************************************)
(* A length within a u16_t is not reduced.                                 *)
(***************************************************************************)
LEMMA ReducedLength ==
  ASSUME NEW a \in Int, 0 <= a, a < U16
  PROVE  a % U16 = a
<1>1. PICK S \in Nat \ {0} : S = U16
  BY Sizes
<1>2. a % S = a
  BY <1>1, Modulo
<1> QED
  BY <1>1, <1>2

Segments ==
  [syn : BOOLEAN, fin : BOOLEAN, rst : BOOLEAN, ack : Nat, seq : Numbers, data : Seq(Nat),
   len : Nat]

\* The places of the first byte of s, and behind its last.
A(s) == s.seq - Base
Z(s) == A(s) + s.len

\* s is a piece of the stream that the peer has sent.
Piece(s) ==
  /\ s \in Segments /\ ~ s.syn /\ ~ s.rst /\ s.len = Len(s.data)
  /\ A(s) >= 1 /\ Z(s) <= N + 1 /\ Z(s) + Flag(s.fin) <= sent + 1
  /\ s.len = 0 => s.fin
  /\ s.fin => Z(s) = N + 1
  /\ \A k \in 1 .. s.len : s.data[k] = A(s) + k - 1

\* What the lemmas ask of the numbers and of the peer.
Numbered ==
  /\ NoWrap /\ server \in {"seq", "data"} /\ sent \in 0 .. N + 1 /\ limit \in Nat
  /\ {una, reply.ack, reply.wnd, pcb.right_edge} \subseteq Nat

(***************************************************************************)
(* Where a piece begins and ends, by place and by number.                  *)
(***************************************************************************)
LEMMA PieceIs ==
  ASSUME Numbered, NEW s, Piece(s)
  PROVE  /\ A(s) \in 1 .. N + 1 /\ Z(s) \in 1 .. N + 1 /\ A(s) <= Z(s) /\ s.len \in Nat
         /\ Z(s) = A(s) + s.len /\ s.fin \in BOOLEAN /\ Base \in Int /\ s.seq \in Nat
         /\ s.seq = Base + A(s) /\ End(s) = Base + Z(s)
         /\ TCP_TCPLEN(s) = s.len + Flag(s.fin) /\ TCP_TCPLEN(s) \in 1 .. N + 2
         /\ ~ s.fin => A(s) < Z(s)
<1>1. s.seq \in Nat /\ s.len \in Nat /\ s.fin \in BOOLEAN /\ s.len = Len(s.data)
  BY DEF Piece, Segments, Numbers
<1>2. Base \in Int /\ Base >= -1 /\ Base + Top < SeqSpace /\ N \in Nat
      /\ Top \in Nat /\ N + 2 <= Top
  BY Places, Sizes DEF Numbered, Top
<1>3. s.seq - Base >= 1 /\ s.seq - Base + s.len <= N + 1 /\ (s.len = 0 => s.fin)
  BY DEF Piece, A, Z
<1>4. End(s) = s.seq + s.len
  <2>1. PICK m \in Int : m = s.seq + s.len /\ 0 <= m /\ m < SeqSpace
    BY <1>1, <1>2, <1>3, Sizes
  <2> QED
    BY <2>1, Reduced DEF End
<1>5. TCP_TCPLEN(s) = s.len + Flag(s.fin)
  BY <1>1 DEF TCP_TCPLEN, Flag, Piece
<1>6. PICK a \in Int, l \in Nat : a = A(s) /\ l = s.len /\ a >= 1 /\ a + l <= N + 1
  BY <1>1, <1>2, <1>3 DEF A
<1>7. Flag(s.fin) \in {0, 1} /\ (s.len = 0 => Flag(s.fin) = 1)
  BY <1>1, <1>3 DEF Flag
<1>8. l + Flag(s.fin) \in 1 .. N + 2
  BY <1>2, <1>6, <1>7
<1>9. a \in 1 .. N + 1 /\ a + l \in 1 .. N + 1 /\ a <= a + l /\ (l # 0 => a < a + l)
  BY <1>2, <1>6
<1>10. s.seq = Base + a /\ End(s) = Base + (a + l) /\ Z(s) = a + l
  BY <1>1, <1>2, <1>4, <1>6 DEF A, Z
<1> QED
  BY <1>1, <1>2, <1>3, <1>5, <1>6, <1>8, <1>9, <1>10

(***************************************************************************)
(* A piece cut at its end is a piece.                                      *)
(***************************************************************************)
LEMMA CutIs ==
  ASSUME Numbered, NEW s, Piece(s), ~ s.fin, NEW n \in 1 .. s.len, NEW t, t = Cut(s, n)
  PROVE  Piece(t) /\ A(t) = A(s) /\ Z(t) = A(s) + n /\ ~ t.fin
<1>1. /\ s \in Segments /\ s.data \in Seq(Nat) /\ s.len = Len(s.data) /\ s.len \in Nat
      /\ n \in Nat /\ Smaller(n, Len(s.data)) = n /\ n <= Len(s.data)
  BY DEF Piece, Segments, Smaller
<1>2. /\ SubSeq(s.data, 1, n) \in Seq(Nat) /\ Len(SubSeq(s.data, 1, n)) = n
      /\ \A k \in 1 .. n : SubSeq(s.data, 1, n)[k] = s.data[k]
  BY <1>1
<1>3. t = [s EXCEPT !.len = n, !.data = SubSeq(s.data, 1, n)]
  BY <1>1 DEF Cut
<1>4. /\ t \in Segments /\ t.syn = s.syn /\ t.fin = s.fin /\ t.rst = s.rst
      /\ t.seq = s.seq /\ t.len = n /\ t.data = SubSeq(s.data, 1, n)
  BY <1>1, <1>2, <1>3 DEF Segments
<1>5. A(t) = A(s) /\ Z(t) = A(s) + n
  BY <1>4 DEF A, Z
<1>6. A(s) \in Nat /\ Z(s) \in Nat /\ Z(s) = A(s) + s.len
  BY PieceIs
<1>7. Z(s) <= N + 1 /\ Z(s) <= sent + 1 /\ N \in Nat /\ sent \in Nat
  BY <1>6, Sizes DEF Piece, Flag, Numbered
<1>8. Z(t) <= N + 1 /\ Z(t) + Flag(t.fin) <= sent + 1
  BY <1>1, <1>4, <1>5, <1>6, <1>7 DEF Flag
<1>9. \A k \in 1 .. t.len : t.data[k] = A(t) + k - 1
  BY <1>1, <1>2, <1>4, <1>5 DEF Piece
<1> QED
  BY <1>2, <1>4, <1>5, <1>8, <1>9 DEF Piece

(***************************************************************************)
(* A piece cut at its front is a piece.                                    *)
(***************************************************************************)
LEMMA SkipIs ==
  ASSUME Numbered, NEW s, Piece(s), NEW n \in 0 .. s.len, n < s.len \/ s.fin,
         NEW t, t = Skip(s, n)
  PROVE  Piece(t) /\ A(t) = A(s) + n /\ Z(t) = Z(s) /\ t.fin = s.fin
<1>1. /\ s \in Segments /\ s.data \in Seq(Nat) /\ s.len = Len(s.data) /\ s.len \in Nat
      /\ n \in Nat /\ n <= Len(s.data)
  BY DEF Piece, Segments
<1>2. /\ SubSeq(s.data, n + 1, Len(s.data)) \in Seq(Nat)
      /\ Len(SubSeq(s.data, n + 1, Len(s.data))) = s.len - n
      /\ \A k \in 1 .. s.len - n : SubSeq(s.data, n + 1, Len(s.data))[k] = s.data[k + n]
  BY <1>1
<1>3. /\ A(s) \in 1 .. N + 1 /\ Z(s) \in 1 .. N + 1 /\ Z(s) = A(s) + s.len
      /\ Base \in Int /\ s.seq \in Nat /\ s.seq = Base + A(s)
  BY PieceIs
<1>4. (s.seq + n) % SeqSpace = s.seq + n /\ s.seq + n \in Numbers
  <2>1. /\ Base >= -1 /\ Base + Top < SeqSpace /\ N \in Nat /\ N + 2 <= Top
        /\ Top \in Nat /\ SeqSpace \in Nat
    BY Places, Sizes DEF Numbered, Top
  <2>2. PICK m \in Int : m = s.seq + n /\ 0 <= m /\ m < SeqSpace
    BY <2>1, <1>1, <1>3
  <2> QED
    BY <2>1, <2>2, Reduced DEF Numbers
<1>5. s.len - n \in Nat
  BY <1>1
<1>6. t = [s EXCEPT !.len = s.len - n, !.data = SubSeq(s.data, n + 1, Len(s.data)),
                    !.seq = s.seq + n]
  BY <1>1, <1>4 DEF Skip, Segments
<1>7. /\ t \in Segments /\ t.syn = s.syn /\ t.fin = s.fin /\ t.rst = s.rst
      /\ t.seq = s.seq + n /\ t.len = s.len - n
      /\ t.data = SubSeq(s.data, n + 1, Len(s.data))
  BY <1>1, <1>2, <1>4, <1>5, <1>6 DEF Segments
<1>8. A(t) = A(s) + n /\ Z(t) = Z(s)
  <2>1. PICK a \in Int, b \in Int, l \in Nat, k \in Nat :
          a = A(s) /\ b = Base /\ l = s.len /\ k = n /\ s.seq = b + a /\ Z(s) = a + l
    BY <1>1, <1>3
  <2>2. t.seq = b + a + k /\ t.len = l - k
    BY <1>7, <2>1
  <2>3. A(t) = a + k
    BY <2>1, <2>2 DEF A
  <2> QED
    BY <2>1, <2>2, <2>3 DEF Z
<1>9. A(t) >= 1 /\ (t.len = 0 => t.fin)
  BY <1>1, <1>3, <1>7, <1>8
<1>10. Z(t) <= N + 1 /\ Z(t) + Flag(t.fin) <= sent + 1 /\ (t.fin => Z(t) = N + 1)
  BY <1>7, <1>8 DEF Piece
<1>11. \A k \in 1 .. t.len : t.data[k] = A(t) + k - 1
  <2> SUFFICES ASSUME NEW k \in 1 .. s.len - n
               PROVE  t.data[k] = A(t) + k - 1
    BY <1>7
  <2>1. k + n \in 1 .. s.len /\ k \in Nat
    BY <1>1
  <2>2. s.data[k + n] = A(s) + (k + n) - 1
    BY <2>1 DEF Piece
  <2> QED
    BY <1>1, <1>2, <1>3, <1>7, <1>8, <2>1, <2>2
<1> QED
  BY <1>2, <1>7, <1>8, <1>9, <1>10, <1>11 DEF Piece

-----------------------------------------------------------------------------
\* A queue of pieces that do not overlap, of which the last may have the FIN.
Ordered(q) ==
  /\ q \in Seq(Segments)
  /\ \A i \in 1 .. Len(q) : Piece(q[i])
  /\ \A i, j \in 1 .. Len(q) : i < j => ~ q[i].fin /\ Z(q[i]) <= A(q[j])

\* Nothing in the queue is in front of place x.
From(q, x) == \A i \in 1 .. Len(q) : x <= A(q[i])

(***************************************************************************)
(* The front and the rest of such a queue are queues.                      *)
(***************************************************************************)
LEMMA OrderedParts ==
  ASSUME NEW q, Ordered(q), NEW n \in 0 .. Len(q), NEW p, p = SubSeq(q, 1, n),
         NEW r, r = SubSeq(q, n + 1, Len(q))
  PROVE  /\ Ordered(p) /\ Len(p) = n /\ \A i \in 1 .. n : p[i] = q[i]
         /\ Ordered(r) /\ Len(r) = Len(q) - n
         /\ \A i \in 1 .. Len(q) - n : r[i] = q[n + i]
<1>1. q \in Seq(Segments) /\ Len(q) \in Nat /\ n \in Nat
  BY DEF Ordered
<1>2. p \in Seq(Segments) /\ Len(p) = n /\ \A i \in 1 .. n : p[i] = q[i]
  BY <1>1
<1>3. /\ r \in Seq(Segments) /\ Len(r) = Len(q) - n
      /\ \A i \in 1 .. Len(q) - n : r[i] = q[n + i]
  <2>1. r \in Seq(Segments)
    BY <1>1
  <2>2. Len(r) = Len(q) - n
    BY <1>1
  <2>3. \A i \in 1 .. Len(q) - n : r[i] = q[n + i]
    BY <1>1
  <2> QED
    BY <2>1, <2>2, <2>3
<1>4. Ordered(p)
  BY <1>1, <1>2, SMTT(30) DEF Ordered
<1>5. Ordered(r)
  <2>1. \A i \in 1 .. Len(r) : n + i \in 1 .. Len(q)
    BY <1>1, <1>3
  <2>2. \A i, j \in 1 .. Len(r) : i < j => n + i < n + j
    BY <1>1
  <2> QED
    BY <1>3, <2>1, <2>2 DEF Ordered
<1> QED
  BY <1>2, <1>3, <1>4, <1>5

(***************************************************************************)
(* So are two of them, one behind the other.                               *)
(***************************************************************************)
LEMMA OrderedJoin ==
  ASSUME NEW p, Ordered(p), NEW q, Ordered(q),
         \A i \in 1 .. Len(p), j \in 1 .. Len(q) : ~ p[i].fin /\ Z(p[i]) <= A(q[j])
  PROVE  /\ Ordered(p \o q)
         /\ \A x \in Int : From(p, x) /\ From(q, x) => From(p \o q, x)
<1> DEFINE c == p \o q
<1>1. p \in Seq(Segments) /\ q \in Seq(Segments) /\ Len(p) \in Nat /\ Len(q) \in Nat
  BY DEF Ordered
<1>2. /\ c \in Seq(Segments) /\ Len(c) = Len(p) + Len(q)
      /\ \A i \in 1 .. Len(p) : c[i] = p[i]
      /\ \A i \in Len(p) + 1 .. Len(p) + Len(q) :
           i - Len(p) \in 1 .. Len(q) /\ c[i] = q[i - Len(p)]
  BY <1>1
<1> HIDE DEF c
<1>3. ASSUME NEW i \in 1 .. Len(c), i \notin 1 .. Len(p)
      PROVE  i \in Len(p) + 1 .. Len(p) + Len(q)
  BY <1>1, <1>2, <1>3
<1>4. \A i \in 1 .. Len(c) : Piece(c[i])
  BY <1>2, <1>3 DEF Ordered
<1>5. ASSUME NEW i \in 1 .. Len(c), NEW j \in 1 .. Len(c), i < j
      PROVE  ~ c[i].fin /\ Z(c[i]) <= A(c[j])
  <2>1. CASE j \in 1 .. Len(p)
    <3>1. i \in 1 .. Len(p)
      BY <1>1, <1>5, <2>1
    <3> QED
      BY <1>2, <1>5, <2>1, <3>1 DEF Ordered
  <2>2. CASE i \in 1 .. Len(p) /\ j \notin 1 .. Len(p)
    BY <1>2, <1>3, <2>2
  <2>3. CASE i \notin 1 .. Len(p) /\ j \notin 1 .. Len(p)
    <3>1. i - Len(p) < j - Len(p)
      BY <1>1, <1>2, <1>5
    <3> QED
      BY <1>2, <1>3, <2>3, <3>1 DEF Ordered
  <2> QED
    BY <2>1, <2>2, <2>3
<1>6. ASSUME NEW x \in Int, From(p, x), From(q, x)
      PROVE  From(c, x)
  BY <1>2, <1>3, <1>6 DEF From
<1>7. Ordered(c)
  BY <1>2, <1>4, <1>5 DEF Ordered
<1> QED
  BY <1>6, <1>7 DEF c

(***************************************************************************)
(* A single piece is such a queue.                                         *)
(***************************************************************************)
LEMMA OrderedOne ==
  ASSUME NEW s, Piece(s)
  PROVE  Ordered(<<s>>) /\ Ordered(<< >>)
<1>1. s \in Segments
  BY DEF Piece
<1>2. <<s>> \in Seq(Segments) /\ Len(<<s>>) = 1 /\ <<s>>[1] = s
  BY <1>1
<1>3. \A i \in 1 .. Len(<<s>>) : i = 1
  BY <1>2
<1>4. \A i, j \in 1 .. Len(<<s>>) : ~ (i < j)
  BY <1>2
<1>5. Ordered(<<s>>)
  BY <1>2, <1>3, <1>4 DEF Ordered
<1>6. Ordered(<< >>)
  BY DEF Ordered
<1> QED
  BY <1>5, <1>6

(***************************************************************************)
(* A set of natural numbers that is not empty has a least element.         *)
(***************************************************************************)
LEMMA LeastNatural ==
  ASSUME NEW S, S \subseteq Nat, S # {}
  PROVE  \E z \in S : \A m \in S : z <= m
<1> DEFINE Less == OpToRel(<, Nat)
<1>1. IsWellFoundedOn(Less, Nat)
  BY NatLessThanWellFounded
<1>2. PICK z \in S : \A m \in S : ~ (<<m, z>> \in Less)
  <2> HIDE DEF Less
  <2> QED
    BY <1>1, WFMin
<1>3. ASSUME NEW m \in S, m < z
      PROVE  <<m, z>> \in Less
  <2>1. <<m, z>> \in Nat \X Nat
    OBVIOUS
  <2> QED
    BY <1>3, <2>1 DEF OpToRel
<1>4. \A m \in S : ~ (m < z)
  BY <1>2, <1>3
<1> QED
  BY <1>4

(***************************************************************************)
(* Run exists: the positions up to it are all in I, the one after it is    *)
(* not.                                                                    *)
(***************************************************************************)
LEMMA RunIs ==
  ASSUME NEW q, q \in Seq(Segments), NEW I, I \subseteq 1 .. Len(q), NEW n, n = Run(q, I)
  PROVE  n \in 0 .. Len(q) /\ 1 .. n \subseteq I /\ n + 1 \notin I
<1> DEFINE Out == {k \in Nat : k + 1 \notin I}
<1>1. Len(q) \in Nat /\ Len(q) \in Out
  OBVIOUS
<1>2. PICK k \in Out : \A m \in Out : k <= m
  BY <1>1, LeastNatural
<1>3. k \in 0 .. Len(q)
  BY <1>1, <1>2
<1>4. ASSUME NEW i \in 1 .. k
      PROVE  i \in I
  <2>1. i - 1 \in Nat /\ ~ (k <= i - 1) /\ (i - 1) + 1 = i
    BY <1>3
  <2> QED
    BY <1>2, <2>1
<1>5. \E m \in 0 .. Len(q) : 1 .. m \subseteq I /\ m + 1 \notin I
  BY <1>2, <1>3, <1>4
<1> QED
  BY <1>5 DEF Run

(***************************************************************************)
(* The numbers of pieces compare as their places do.                       *)
(***************************************************************************)
LEMMA PlacesCompare ==
  ASSUME Numbered, NEW a \in 0 .. Top, NEW b \in 0 .. Top
  PROVE  /\ TCP_SEQ_LT(Base + a, Base + b) <=> a < b
         /\ TCP_SEQ_GEQ(Base + a, Base + b) <=> b <= a
         /\ TCP_SEQ_GT(Base + a, Base + b) <=> b < a
         /\ b <= a => Diff(Base + a, Base + b) = a - b
<1>1. Base \in Int /\ Top \in Nat /\ Top < Half /\ Half \in Nat
  BY Places, Sizes DEF Numbered
<1>2. PICK x \in Int, y \in Int : x = Base + a /\ y = Base + b
  BY <1>1
<1>3. x - y < Half /\ y - x < Half /\ (x < y <=> a < b) /\ x - y = a - b
  BY <1>1, <1>2
<1> QED
  BY <1>2, <1>3, Compared

(***************************************************************************)
(* The places of the bytes and of the FIN are places of the window.        *)
(***************************************************************************)
LEMMA PieceTop ==
  ASSUME Numbered
  PROVE  Top \in Nat /\ N \in Nat /\ \A a \in 1 .. N + 2 : a \in 0 .. Top
BY Sizes DEF Top

(***************************************************************************)
(* Such a queue begins with its first segment.                             *)
(***************************************************************************)
LEMMA OrderedFrom ==
  ASSUME Numbered, NEW r, Ordered(r), 1 \in 1 .. Len(r)
  PROVE  From(r, A(r[1]))
<1>1. ASSUME NEW i \in 1 .. Len(r)
      PROVE  A(r[1]) <= A(r[i])
  <2>1. /\ A(r[1]) \in 1 .. N + 1 /\ Z(r[1]) \in 1 .. N + 1 /\ A(r[1]) <= Z(r[1])
        /\ A(r[i]) \in 1 .. N + 1
    BY PieceIs DEF Ordered
  <2>2. CASE i = 1
    BY <2>1, <2>2, PieceTop
  <2>3. CASE i # 1
    <3>1. 1 < i /\ i \in 1 .. Len(r)
      BY <2>3
    <3>2. Z(r[1]) <= A(r[i])
      BY <3>1 DEF Ordered
    <3> QED
      BY <2>1, <3>2, PieceTop
  <2> QED
    BY <2>2, <2>3
<1> QED
  BY <1>1 DEF From

(***************************************************************************)
(* What is dropped from the queue lies in s, and a FIN that was dropped is *)
(* now in s; s cut where the rest begins can go in front of it.            *)
(***************************************************************************)
LEMMA UncoveredIs ==
  ASSUME Numbered, NEW s, Piece(s), ~ s.fin, NEW q, Ordered(q), From(q, A(s)),
         q # << >> => A(s) < A(q[1]) \/ Z(q[1]) <= Z(s),
         NEW u, u = Uncovered(s, q, End(s)), NEW c, c = CutBefore(u.seg, u.rest, End(s))
  PROVE  /\ Piece(c) /\ A(c) = A(s) /\ Ordered(u.rest) /\ From(u.rest, Z(c))
         /\ c.fin => u.rest = << >>
<1> DEFINE I == {i \in 1 .. Len(q) : TCP_SEQ_GEQ(End(s), End(q[i]))}
<1>1. q \in Seq(Segments) /\ Len(q) \in Nat /\ I \subseteq 1 .. Len(q)
  BY DEF Ordered
<1>2. PICK n : n = Run(q, I)
  OBVIOUS
<1>3. n \in 0 .. Len(q) /\ 1 .. n \subseteq I /\ n + 1 \notin I
  BY <1>1, <1>2, RunIs
<1>4. /\ A(s) \in 1 .. N + 1 /\ Z(s) \in 1 .. N + 1 /\ A(s) < Z(s) /\ End(s) = Base + Z(s)
      /\ s.seq = Base + A(s) /\ s.len \in Nat /\ Z(s) = A(s) + s.len
  BY PieceIs
<1>5. \A i \in 1 .. Len(q) :
        /\ Piece(q[i]) /\ A(q[i]) \in 1 .. N + 1 /\ Z(q[i]) \in 1 .. N + 1
        /\ End(q[i]) = Base + Z(q[i]) /\ A(q[i]) <= Z(q[i])
        /\ ~ q[i].fin => A(q[i]) < Z(q[i])
        /\ q[i].seq = Base + A(q[i]) /\ q[i].fin \in BOOLEAN
  BY PieceIs DEF Ordered
<1>6. \A i \in 1 .. Len(q) : i \in I <=> Z(q[i]) <= Z(s)
  <2> SUFFICES ASSUME NEW i \in 1 .. Len(q)
               PROVE  TCP_SEQ_GEQ(End(s), End(q[i])) <=> Z(q[i]) <= Z(s)
    OBVIOUS
  <2>1. Z(s) \in 0 .. Top /\ Z(q[i]) \in 0 .. Top
    BY <1>4, <1>5, PieceTop
  <2>2. End(s) = Base + Z(s) /\ End(q[i]) = Base + Z(q[i])
    BY <1>4, <1>5
  <2> QED
    BY <2>1, <2>2, PlacesCompare
<1> HIDE DEF I
<1>7. /\ u.seg = [s EXCEPT !.fin = s.fin \/ \E i \in 1 .. n : q[i].fin]
      /\ u.rest = SubSeq(q, n + 1, Len(q))
  BY <1>2 DEF Uncovered, I
<1>8. PICK g, r : g = u.seg /\ r = u.rest
  OBVIOUS
<1>9. Ordered(r) /\ Len(r) = Len(q) - n /\ \A i \in 1 .. Len(q) - n : r[i] = q[n + i]
  <2>1. PICK p : p = SubSeq(q, 1, n)
    OBVIOUS
  <2> QED
    <3>1. r = SubSeq(q, n + 1, Len(q)) /\ n \in 0 .. Len(q)
      BY <1>3, <1>7, <1>8
    <3> QED
      BY ONLY <2>1, <3>1, Ordered(q), OrderedParts
<1>10. r # << >> => n + 1 \in 1 .. Len(q) /\ r[1] = q[n + 1] /\ 1 \in 1 .. Len(r)
  <2>1. ASSUME r # << >>
        PROVE  Len(r) # 0
    BY <1>9, <2>1 DEF Ordered
  <2> QED
    BY <1>1, <1>3, <1>9, <2>1
<1>11. PICK f \in BOOLEAN : f = (s.fin \/ \E i \in 1 .. n : q[i].fin)
  OBVIOUS
<1>12. s \in Segments /\ g = [s EXCEPT !.fin = f]
  BY <1>7, <1>8, <1>11 DEF Piece
<1>13. f => r = << >> /\ Z(s) = N + 1 /\ N + 2 <= sent + 1
  <2> SUFFICES ASSUME f
               PROVE  r = << >> /\ Z(s) = N + 1 /\ N + 2 <= sent + 1
    OBVIOUS
  <2>1. PICK i \in 1 .. n : q[i].fin
    BY <1>11
  <2>2. i \in 1 .. Len(q) /\ i \in I
    BY <1>1, <1>3, <2>1
  <2>3. Z(q[i]) = N + 1 /\ Z(q[i]) + 1 <= sent + 1
    BY <1>5, <2>1, <2>2 DEF Piece, Flag
  <2>4. Z(s) = N + 1
    BY <1>4, <1>6, <2>2, <2>3, PieceTop
  <2>5. ~ (i < n + 1 /\ n + 1 \in 1 .. Len(q))
    BY <2>1, <2>2 DEF Ordered
  <2>6. i < n + 1
    BY <1>3, <2>1
  <2> QED
    BY <1>10, <2>3, <2>4, <2>5, <2>6, PieceTop
<1>14. Piece(g) /\ A(g) = A(s) /\ Z(g) = Z(s) /\ g.fin = f /\ g.seq = s.seq /\ g.len = s.len
  <2>1. /\ g \in Segments /\ g.syn = s.syn /\ g.rst = s.rst /\ g.seq = s.seq
        /\ g.len = s.len /\ g.data = s.data /\ g.fin = f
    BY <1>12 DEF Segments
  <2>2. A(g) = A(s) /\ Z(g) = Z(s)
    BY <2>1 DEF A, Z
  <2>3. Z(g) + Flag(g.fin) <= sent + 1
    BY <1>4, <1>13, <2>1, <2>2, PieceTop DEF Piece, Flag, Numbered
  <2> QED
    BY <1>4, <1>13, <2>1, <2>2, <2>3 DEF Piece
<1>15. r # << >> => A(s) < A(r[1]) /\ Z(s) < Z(r[1])
  <2> SUFFICES ASSUME r # << >>
               PROVE  A(s) < A(q[n + 1]) /\ Z(s) < Z(q[n + 1])
    BY <1>10
  <2>1. n + 1 \in 1 .. Len(q) /\ ~ (Z(q[n + 1]) <= Z(s))
    BY <1>3, <1>6, <1>10
  <2>2. CASE n = 0
    BY <2>1, <2>2, <1>4, <1>5
  <2>3. CASE n # 0
    <3>1. n \in 1 .. Len(q) /\ n < n + 1
      BY <1>1, <1>3, <2>3
    <3>2. ~ q[n].fin /\ Z(q[n]) <= A(q[n + 1])
      BY <2>1, <3>1 DEF Ordered
    <3>3. A(s) <= A(q[n]) /\ A(q[n]) < Z(q[n])
      BY <1>5, <3>1, <3>2 DEF From
    <3> QED
      BY <1>4, <1>5, <2>1, <3>1, <3>2, <3>3
  <2> QED
    BY <2>2, <2>3
<1>16. r # << >> =>
         /\ A(r[1]) \in 1 .. N + 1 /\ r[1].seq = Base + A(r[1])
         /\ From(r, A(r[1]))
  BY <1>5, <1>9, <1>10, OrderedFrom
<1>17. CASE r = << >>
  <2>1. c = g
    BY <1>8, <1>17 DEF CutBefore
  <2> QED
    BY <1>8, <1>9, <1>14, <1>17, <2>1 DEF From
<1>18. CASE r # << >> /\ Z(s) <= A(r[1])
  <2>1. ~ TCP_SEQ_GT(End(s), r[1].seq)
    <3>1. Z(s) \in 0 .. Top /\ A(r[1]) \in 0 .. Top /\ ~ (A(r[1]) < Z(s))
      BY <1>4, <1>16, <1>18, PieceTop
    <3> QED
      BY <3>1, <1>4, <1>16, <1>18, PlacesCompare
  <2>2. c = g
    BY <1>8, <2>1 DEF CutBefore
  <2>3. From(r, Z(s))
    <3> SUFFICES ASSUME NEW i \in 1 .. Len(r)
                 PROVE  Z(s) <= A(r[i])
      BY DEF From
    <3>1. A(r[i]) \in 1 .. N + 1
      BY <1>9, PieceIs DEF Ordered
    <3>2. A(r[1]) <= A(r[i])
      BY <1>16, <1>18 DEF From
    <3> QED
      BY <1>4, <1>16, <1>18, <3>1, <3>2, PieceTop
  <2> QED
    BY <1>8, <1>9, <1>13, <1>14, <1>18, <2>2, <2>3
<1>19. CASE r # << >> /\ A(r[1]) < Z(s)
  <2>1. TCP_SEQ_GT(End(s), r[1].seq)
    <3>1. Z(s) \in 0 .. Top /\ A(r[1]) \in 0 .. Top
      BY <1>4, <1>16, <1>19, PieceTop
    <3> QED
      BY <3>1, <1>4, <1>16, <1>19, PlacesCompare
  <2>2. Diff(r[1].seq, g.seq) = A(r[1]) - A(s)
    <3>1. A(s) \in 0 .. Top /\ A(r[1]) \in 0 .. Top /\ A(s) <= A(r[1])
      BY <1>4, <1>15, <1>16, <1>19, PieceTop
    <3> QED
      BY <3>1, <1>4, <1>14, <1>16, <1>19, PlacesCompare
  <2>3. PICK m : m = A(r[1]) - A(s)
    OBVIOUS
  <2>4. m \in 1 .. g.len /\ A(g) + m = A(r[1])
    BY <1>4, <1>14, <1>15, <1>16, <1>19, <2>3
  <2>5. c = Cut(g, m)
    BY <1>8, <1>19, <2>1, <2>2, <2>3 DEF CutBefore
  <2>6. ~ g.fin
    BY <1>13, <1>14, <1>19
  <2>7. Piece(c) /\ A(c) = A(s) /\ Z(c) = A(r[1]) /\ ~ c.fin
    BY <1>14, <2>4, <2>5, <2>6, CutIs
  <2> QED
    BY <1>8, <1>9, <1>16, <1>19, <2>7
<1> QED
  BY <1>4, <1>16, <1>17, <1>18, <1>19

(***************************************************************************)
(* tcp_oos_insert_segment: s and what remains of the queue behind it are   *)
(* ordered.                                                                *)
(***************************************************************************)
LEMMA InsertIs ==
  ASSUME Numbered, NEW s, Piece(s), NEW q, Ordered(q), From(q, A(s)),
         q # << >> => A(s) < A(q[1]) \/ Z(q[1]) <= Z(s),
         NEW v, v = oos_insert_segment(s, q)
  PROVE  Ordered(v) /\ From(v, A(s))
<1>1. A(s) \in 1 .. N + 1 /\ s.fin \in BOOLEAN
  BY PieceIs
<1>2. ASSUME NEW c, Piece(c), A(c) = A(s), NEW r, Ordered(r), From(r, Z(c)),
             c.fin => r = << >>, v = <<c>> \o r
      PROVE  Ordered(v) /\ From(v, A(s))
  <2>1. /\ A(c) \in 1 .. N + 1 /\ Z(c) \in 1 .. N + 1 /\ A(c) <= Z(c)
        /\ \A i \in 1 .. Len(r) : A(r[i]) \in 1 .. N + 1
    BY <1>2, PieceIs DEF Ordered
  <2>2. PICK p : p = <<c>>
    OBVIOUS
  <2>3. Ordered(p) /\ Len(p) = 1 /\ p[1] = c
    BY <1>2, <2>2, OrderedOne
  <2>4. \A i \in 1 .. Len(p), j \in 1 .. Len(r) : ~ p[i].fin /\ Z(p[i]) <= A(r[j])
    <3> SUFFICES ASSUME NEW j \in 1 .. Len(r)
                 PROVE  ~ c.fin /\ Z(c) <= A(r[j])
      BY <2>3
    <3> QED
      BY <1>2 DEF From
  <2>5. From(p, A(s)) /\ From(r, A(s))
    <3>1. \A j \in 1 .. Len(r) : Z(c) <= A(r[j])
      BY <1>2 DEF From
    <3>2. \A j \in 1 .. Len(r) : A(s) <= A(r[j])
      BY <1>2, <2>1, <3>1, PieceTop
    <3>3. \A i \in 1 .. Len(p) : A(s) <= A(p[i])
      BY <1>2, <2>1, <2>3, PieceTop
    <3> QED
      BY <3>2, <3>3 DEF From
  <2>6. Ordered(p) /\ Ordered(r) /\ v = p \o r /\ A(s) \in Int
    BY <1>1, <1>2, <2>2, <2>3, PieceTop
  <2>7. Ordered(p \o r) /\ From(p \o r, A(s))
    BY <2>4, <2>5, <2>6, OrderedJoin
  <2> QED
    BY <2>6, <2>7
<1>3. CASE s.fin
  <2>1. v = <<s>> \o << >> /\ Len(<< >>) = 0
    BY <1>3 DEF oos_insert_segment
  <2>2. PICK r : r = << >>
    OBVIOUS
  <2>3. Ordered(r) /\ From(r, Z(s)) /\ v = <<s>> \o r
    BY <2>1, <2>2, OrderedOne DEF From
  <2> QED
    BY <1>2, <2>2, <2>3
<1>4. CASE ~ s.fin
  <2>1. PICK u, c : u = Uncovered(s, q, End(s)) /\ c = CutBefore(u.seg, u.rest, End(s))
    OBVIOUS
  <2>2. /\ Piece(c) /\ A(c) = A(s) /\ Ordered(u.rest) /\ From(u.rest, Z(c))
        /\ c.fin => u.rest = << >>
    BY <1>4, <2>1, UncoveredIs
  <2>3. v = <<c>> \o u.rest
    BY <1>4, <2>1 DEF oos_insert_segment, InFront
  <2> QED
    BY <1>2, <2>2, <2>3
<1> QED
  BY <1>1, <1>3, <1>4

(***************************************************************************)
(* The segment in front of s is trimmed: what is left does not overlap s.  *)
(***************************************************************************)
LEMMA TrimLastIs ==
  ASSUME Numbered, NEW f, Ordered(f), f # << >>, NEW s, Piece(s),
         \A i \in 1 .. Len(f) : A(f[i]) < A(s) /\ ~ f[i].fin,
         NEW t, t = TrimLast(f, s)
  PROVE  /\ Ordered(t) /\ Len(t) = Len(f)
         /\ \A i \in 1 .. Len(f) : A(t[i]) = A(f[i]) /\ ~ t[i].fin /\ Z(t[i]) <= A(s)
<1>1. f \in Seq(Segments) /\ Len(f) \in Nat /\ Len(f) # 0
  BY DEF Ordered
<1>2. PICK m \in 1 .. Len(f) : m = Len(f)
  BY <1>1
<1>3. Last(f) = f[m]
  BY <1>2 DEF Last
<1>4. \A i \in 1 .. m :
        /\ Piece(f[i]) /\ A(f[i]) \in 1 .. N + 1 /\ Z(f[i]) \in 1 .. N + 1
        /\ End(f[i]) = Base + Z(f[i]) /\ f[i].seq = Base + A(f[i])
        /\ Z(f[i]) = A(f[i]) + f[i].len /\ f[i].len \in Nat
        /\ A(f[i]) < A(s) /\ ~ f[i].fin
  BY <1>2, PieceIs DEF Ordered
<1>5. A(s) \in 1 .. N + 1 /\ s.seq = Base + A(s)
  BY PieceIs
<1>6. \A i \in 1 .. m : i # m => Z(f[i]) <= A(s)
  <2> SUFFICES ASSUME NEW i \in 1 .. m, i # m
               PROVE  Z(f[i]) <= A(s)
    OBVIOUS
  <2>1. i < m /\ i \in 1 .. Len(f)
    BY <1>1, <1>2
  <2>2. Z(f[i]) <= A(f[m])
    BY <1>2, <2>1 DEF Ordered
  <2> QED
    BY <1>2, <1>4, <1>5, <2>2, PieceTop
<1>7. TCP_SEQ_GT(End(f[m]), s.seq) <=> A(s) < Z(f[m])
  <2>1. Z(f[m]) \in 0 .. Top /\ A(s) \in 0 .. Top
    BY <1>2, <1>4, <1>5, PieceTop
  <2> QED
    BY <1>2, <1>4, <1>5, <2>1, PlacesCompare
<1>8. CASE Z(f[m]) <= A(s)
  <2>1. t = f
    BY <1>2, <1>3, <1>4, <1>5, <1>7, <1>8, PieceTop DEF TrimLast
  <2> QED
    BY <1>2, <1>4, <1>6, <1>8, <2>1
<1>9. CASE A(s) < Z(f[m])
  <2>1. Diff(s.seq, f[m].seq) = A(s) - A(f[m])
    <3>1. A(f[m]) \in 0 .. Top /\ A(s) \in 0 .. Top /\ A(f[m]) <= A(s)
      BY <1>2, <1>4, <1>5, PieceTop
    <3> QED
      BY <1>2, <1>4, <1>5, <3>1, PlacesCompare
  <2>2. PICK n, c : n = A(s) - A(f[m]) /\ c = Cut(f[m], n)
    OBVIOUS
  <2>3. n \in 1 .. f[m].len /\ A(f[m]) + n = A(s)
    BY <1>2, <1>4, <1>5, <1>9, <2>2
  <2>4. Piece(c) /\ A(c) = A(f[m]) /\ Z(c) = A(s) /\ ~ c.fin
    BY <1>2, <1>4, <2>2, <2>3, CutIs, SMTT(30)
  <2>5. t = SubSeq(f, 1, m - 1) \o <<c>>
    BY <1>2, <1>3, <1>7, <1>9, <2>1, <2>2 DEF TrimLast, Front
  <2>6. PICK p : p = SubSeq(f, 1, m - 1)
    OBVIOUS
  <2>7. p \in Seq(Segments) /\ Len(p) = m - 1 /\ \A i \in 1 .. m - 1 : p[i] = f[i]
    BY <1>1, <1>2, <2>6
  <2>8. c \in Segments /\ m \in Nat
    BY <1>2, <2>4 DEF Piece
  <2>9. /\ t \in Seq(Segments) /\ Len(t) = m /\ t[m] = c
        /\ \A i \in 1 .. m : i # m => t[i] = f[i]
    BY <1>2, <2>5, <2>6, <2>7, <2>8
  <2>10. \A i \in 1 .. m : Piece(t[i]) /\ A(t[i]) = A(f[i]) /\ ~ t[i].fin /\ Z(t[i]) <= A(s)
    <3> SUFFICES ASSUME NEW i \in 1 .. m
                 PROVE  Piece(t[i]) /\ A(t[i]) = A(f[i]) /\ ~ t[i].fin /\ Z(t[i]) <= A(s)
      OBVIOUS
    <3>1. CASE i = m
      <4>1. A(s) <= A(s)
        BY <1>5
      <4> QED
        BY <2>4, <2>9, <3>1, <4>1
    <3>2. CASE i # m
      BY <1>4, <1>6, <2>9, <3>2
    <3> QED
      BY <3>1, <3>2
  <2>11. ASSUME NEW i \in 1 .. m, NEW j \in 1 .. m, i < j
         PROVE  Z(t[i]) <= A(t[j])
    <3>1. i # m
      BY <1>1, <1>2, <2>11
    <3> QED
      BY <1>2, <2>9, <2>10, <2>11, <3>1 DEF Ordered
  <2>12. Ordered(t)
    BY <2>9, <2>10, <2>11 DEF Ordered
  <2> QED
    BY <1>2, <2>9, <2>10, <2>12
<1> QED
  BY <1>2, <1>4, <1>5, <1>8, <1>9, PieceTop

(***************************************************************************)
(* Wherever s goes, the queue remains ordered, and behind place x if s is. *)
(***************************************************************************)
LEMMA EnqueueIs ==
  ASSUME Numbered, NEW w, Ordered(w.ooseq), NEW x \in 1 .. N + 1, From(w.ooseq, x),
         NEW s, Piece(s), x <= A(s), CutToWindow(s, w) = s, NEW v, v = Enqueue(w, s)
  PROVE  \E p : v = [w EXCEPT !.ooseq = p] /\ Ordered(p) /\ From(p, x)
<1>1. PICK q, I, n : /\ q = w.ooseq /\ n = Run(q, I)
                     /\ I = {i \in 1 .. Len(q) : TCP_SEQ_LT(q[i].seq, s.seq)}
  OBVIOUS
<1>2. q \in Seq(Segments) /\ Len(q) \in Nat /\ I \subseteq 1 .. Len(q) /\ Ordered(q)
  BY <1>1 DEF Ordered
<1>3. n \in 0 .. Len(q) /\ 1 .. n \subseteq I /\ n + 1 \notin I
  BY <1>1, <1>2, RunIs
<1>4. A(s) \in 1 .. N + 1 /\ s.seq = Base + A(s) /\ s.len \in Nat /\ Z(s) = A(s) + s.len
  BY PieceIs
<1>5. \A i \in 1 .. Len(q) :
        /\ Piece(q[i]) /\ A(q[i]) \in 1 .. N + 1 /\ Z(q[i]) \in 1 .. N + 1
        /\ q[i].seq = Base + A(q[i]) /\ Z(q[i]) = A(q[i]) + q[i].len /\ q[i].len \in Nat
  BY <1>2, PieceIs DEF Ordered
<1>6. \A i \in 1 .. Len(q) : i \in I <=> A(q[i]) < A(s)
  <2> SUFFICES ASSUME NEW i \in 1 .. Len(q)
               PROVE  TCP_SEQ_LT(q[i].seq, s.seq) <=> A(q[i]) < A(s)
    BY <1>1
  <2>1. A(q[i]) \in 0 .. Top /\ A(s) \in 0 .. Top
    BY <1>4, <1>5, PieceTop
  <2>2. q[i].seq = Base + A(q[i])
    BY <1>5
  <2> QED
    BY <1>4, <2>1, <2>2, PlacesCompare
<1>7. PICK f, r : f = SubSeq(q, 1, n) /\ r = SubSeq(q, n + 1, Len(q))
  OBVIOUS
<1>8. /\ Ordered(f) /\ Len(f) = n /\ \A i \in 1 .. n : f[i] = q[i]
      /\ Ordered(r) /\ Len(r) = Len(q) - n
      /\ \A i \in 1 .. Len(q) - n : r[i] = q[n + i]
  <2>1. n \in 0 .. Len(q) /\ Ordered(q) /\ f = SubSeq(q, 1, n) /\ r = SubSeq(q, n + 1, Len(q))
    BY <1>2, <1>3, <1>7
  <2> QED
    BY ONLY <2>1, OrderedParts, ZenonT(30)
<1>9. v = [w EXCEPT !.ooseq =
             CASE q = << >> -> <<s>>
               [] r # << >> /\ r[1].seq = s.seq ->
                    IF s.len > r[1].len THEN f \o oos_insert_segment(s, r) ELSE q
               [] r # << >> /\ r[1].seq # s.seq ->
                    (IF n = 0 THEN << >> ELSE TrimLast(f, s)) \o oos_insert_segment(s, r)
               [] OTHER ->
                    IF Last(q).fin THEN q ELSE Append(TrimLast(q, s), CutToWindow(s, w))]
  BY <1>1, <1>7 DEF Enqueue
<1>10. r # << >> => q # << >>
  BY <1>2, <1>3, <1>8
<1>11. \A i \in 1 .. n : i \in 1 .. Len(q) /\ A(f[i]) < A(s)
  BY <1>2, <1>3, <1>6, <1>8
<1>12. From(f, x) /\ From(r, x)
  <2>1. \A i \in 1 .. Len(q) - n : n + i \in 1 .. Len(q)
    BY <1>2, <1>3
  <2> QED
    BY <1>1, <1>8, <1>11, <2>1 DEF From
<1>13. r # << >> => /\ n + 1 \in 1 .. Len(q) /\ r[1] = q[n + 1] /\ 1 \in 1 .. Len(r)
                    /\ A(s) <= A(r[1]) /\ From(r, A(s))
                    /\ \A i \in 1 .. n : ~ f[i].fin /\ Z(f[i]) <= A(r[1])
  <2> SUFFICES ASSUME r # << >>
               PROVE  /\ n + 1 \in 1 .. Len(q) /\ r[1] = q[n + 1] /\ 1 \in 1 .. Len(r)
                      /\ A(s) <= A(r[1]) /\ From(r, A(s))
                      /\ \A i \in 1 .. n : ~ f[i].fin /\ Z(f[i]) <= A(r[1])
    OBVIOUS
  <2>1. Len(r) # 0
    BY <1>8 DEF Ordered
  <2>2. n + 1 \in 1 .. Len(q) /\ r[1] = q[n + 1] /\ 1 \in 1 .. Len(r)
    BY <1>2, <1>3, <1>8, <2>1
  <2>3. A(s) <= A(r[1])
    BY <1>3, <1>4, <1>5, <1>6, <2>2, PieceTop
  <2>4. From(r, A(s))
    <3>1. From(r, A(r[1]))
      BY <1>8, <2>2, OrderedFrom
    <3> SUFFICES ASSUME NEW i \in 1 .. Len(r)
                 PROVE  A(s) <= A(r[i])
      BY DEF From
    <3>2. A(r[i]) \in 1 .. N + 1 /\ A(r[1]) \in 1 .. N + 1 /\ A(r[1]) <= A(r[i])
      BY <1>8, <2>2, <3>1, PieceIs DEF From, Ordered
    <3> QED
      BY <1>4, <2>3, <3>2, PieceTop
  <2>5. \A i \in 1 .. n : i < n + 1
    BY <1>3
  <2> QED
    BY <1>2, <1>8, <1>11, <2>2, <2>3, <2>4, <2>5 DEF Ordered
<1>14. ASSUME NEW g, Ordered(g), From(g, x), NEW p, Ordered(p), From(p, A(s)),
              \A i \in 1 .. Len(g) : ~ g[i].fin /\ Z(g[i]) <= A(s)
       PROVE  Ordered(g \o p) /\ From(g \o p, x)
  <2>1. ASSUME NEW i \in 1 .. Len(g), NEW j \in 1 .. Len(p)
        PROVE  ~ g[i].fin /\ Z(g[i]) <= A(p[j])
    <3>1. A(s) <= A(p[j]) /\ A(p[j]) \in 1 .. N + 1 /\ Z(g[i]) \in 1 .. N + 1
      BY <1>14, PieceIs DEF From, Ordered
    <3>2. Z(g[i]) <= A(s) /\ ~ g[i].fin
      BY <1>14
    <3> QED
      BY <1>4, <3>1, <3>2, PieceTop
  <2>2. From(p, x)
    <3> SUFFICES ASSUME NEW j \in 1 .. Len(p)
                 PROVE  x <= A(p[j])
      BY DEF From
    <3>1. A(s) <= A(p[j]) /\ A(p[j]) \in 1 .. N + 1
      BY <1>14, PieceIs DEF From, Ordered
    <3> QED
      BY <1>4, <3>1, PieceTop
  <2>3. x \in Int
    OBVIOUS
  <2> QED
    BY <1>14, <2>1, <2>2, <2>3, OrderedJoin
<1>15. ASSUME NEW g, Ordered(g), From(g, x),
              \A i \in 1 .. Len(g) : ~ g[i].fin /\ Z(g[i]) <= A(s)
       PROVE  Ordered(Append(g, s)) /\ From(Append(g, s), x)
  <2>1. PICK p : p = <<s>>
    OBVIOUS
  <2>2. Ordered(p) /\ Len(p) = 1 /\ p[1] = s
    BY <2>1, OrderedOne
  <2>3. From(p, A(s))
    BY <1>4, <2>2 DEF From
  <2>4. Append(g, s) = g \o p
    BY <1>15, <2>1 DEF Ordered, Piece
  <2> QED
    BY <1>14, <1>15, <2>2, <2>3, <2>4
<1>16. CASE q = << >>
  <2>1. v = [w EXCEPT !.ooseq = <<s>>]
    BY <1>9, <1>10, <1>16
  <2>2. From(<<s>>, x)
    BY DEF From
  <2> QED
    BY <2>1, <2>2, OrderedOne
<1>17. CASE r # << >> /\ r[1].seq = s.seq
  <2>1. v = [w EXCEPT !.ooseq = IF s.len > r[1].len
                                  THEN f \o oos_insert_segment(s, r) ELSE q]
    BY <1>9, <1>10, <1>17
  <2>2. CASE s.len > r[1].len
    <3>1. A(r[1]) = A(s) /\ Z(r[1]) <= Z(s)
      BY <1>4, <1>5, <1>13, <1>17, <2>2 DEF A
    <3>2. PICK p : p = oos_insert_segment(s, r)
      OBVIOUS
    <3>3. Ordered(p) /\ From(p, A(s))
      BY <1>8, <1>13, <1>17, <3>1, <3>2, InsertIs
    <3>4. Ordered(f \o p) /\ From(f \o p, x)
      BY <1>8, <1>12, <1>13, <1>14, <1>17, <3>1, <3>3
    <3> QED
      BY <2>1, <2>2, <3>2, <3>4
  <2>3. CASE ~ (s.len > r[1].len)
    BY <1>1, <1>2, <2>1, <2>3
  <2> QED
    BY <2>2, <2>3
<1>18. CASE r # << >> /\ r[1].seq # s.seq
  <2>1. v = [w EXCEPT !.ooseq = (IF n = 0 THEN << >> ELSE TrimLast(f, s))
                                  \o oos_insert_segment(s, r)]
    BY <1>9, <1>10, <1>18
  <2>2. A(s) < A(r[1])
    BY <1>4, <1>5, <1>13, <1>18, PieceTop
  <2>3. PICK p, g : /\ p = oos_insert_segment(s, r)
                    /\ g = (IF n = 0 THEN << >> ELSE TrimLast(f, s))
    OBVIOUS
  <2>4. Ordered(p) /\ From(p, A(s))
    BY <1>8, <1>13, <1>18, <2>2, <2>3, InsertIs
  <2>5. /\ Ordered(g) /\ From(g, x)
        /\ \A i \in 1 .. Len(g) : ~ g[i].fin /\ Z(g[i]) <= A(s)
    <3>1. CASE n = 0
      <4>1. g = << >> /\ Len(<< >>) = 0
        BY <2>3, <3>1
      <4>2. Ordered(<< >>)
        BY OrderedOne
      <4> QED
        BY <4>1, <4>2 DEF From
    <3>2. CASE n # 0
      <4>1. f # << >> /\ g = TrimLast(f, s)
        BY <1>3, <1>8, <2>3, <3>2
      <4>2. /\ Ordered(g) /\ Len(g) = n
            /\ \A i \in 1 .. n : A(g[i]) = A(f[i]) /\ ~ g[i].fin /\ Z(g[i]) <= A(s)
        BY <1>8, <1>11, <1>13, <1>18, <4>1, TrimLastIs
      <4> QED
        BY <1>8, <1>12, <4>2 DEF From
    <3> QED
      BY <3>1, <3>2
  <2>6. Ordered(g \o p) /\ From(g \o p, x)
    BY <1>14, <2>4, <2>5
  <2> QED
    BY <2>1, <2>3, <2>6
<1>19. CASE q # << >> /\ r = << >>
  <2>1. n = Len(q) /\ n # 0 /\ f = q
    <3>1. Len(r) = 0 /\ Len(q) # 0
      BY <1>2, <1>19
    <3> QED
      BY <1>2, <1>3, <1>7, <1>8, <3>1
  <2>2. v = [w EXCEPT !.ooseq = IF Last(q).fin THEN q ELSE Append(TrimLast(q, s), s)]
    BY <1>9, <1>19
  <2>3. CASE Last(q).fin
    BY <1>1, <1>2, <2>2, <2>3
  <2>4. CASE ~ Last(q).fin
    <3>1. \A i \in 1 .. Len(q) : A(q[i]) < A(s) /\ ~ q[i].fin
      <4> SUFFICES ASSUME NEW i \in 1 .. Len(q)
                   PROVE  A(q[i]) < A(s) /\ ~ q[i].fin
        OBVIOUS
      <4>1. A(q[i]) < A(s)
        BY <1>11, <2>1
      <4>2. Len(q) \in 1 .. Len(q) /\ (i = Len(q) \/ i < Len(q))
        BY <1>2, <2>1
      <4>3. ~ q[i].fin
        BY <1>2, <2>4, <4>2 DEF Ordered, Last
      <4> QED
        BY <4>1, <4>3
    <3>2. PICK g : g = TrimLast(q, s)
      OBVIOUS
    <3>3. /\ Ordered(g) /\ Len(g) = Len(q)
          /\ \A i \in 1 .. Len(q) : A(g[i]) = A(q[i]) /\ ~ g[i].fin /\ Z(g[i]) <= A(s)
      BY <1>2, <1>19, <3>1, <3>2, TrimLastIs
    <3>4. From(g, x)
      BY <1>1, <3>3 DEF From
    <3> QED
      BY <1>15, <2>2, <2>4, <3>2, <3>3, <3>4
  <2> QED
    BY <2>3, <2>4
<1> QED
  BY <1>16, <1>17, <1>18, <1>19

Held == {None, "SYN", "FIN"}
Replies ==
  {NoReply} \cup [kind : {"SYN", "ACK", "FIN", "RST"}, ack : Numbers, wnd : 0 .. TCP_WND]

\* The fields of the pcb, with the states it passes within one segment.
Pcb ==
  [state : {"LISTEN", "SYN_RCVD", "ESTABLISHED", "CLOSE_WAIT", "LAST_ACK", "FREED"},
   rcv_nxt : Numbers, rcv_wnd : 0 .. TCP_WND, ann_wnd : 0 .. TCP_WND,
   right_edge : Numbers, delay : BOOLEAN, now : BOOLEAN, ooseq : Seq(Segments),
   lastack : 0 .. 2, snd_nxt : 0 .. 2, unsent : Held, unacked : Held, dupacks : 0 .. 3,
   infr : BOOLEAN, recv_data : Seq(Nat), p_len : Nat, got_fin : BOOLEAN, out : Replies,
   delivered : Seq(Nat), chained : Nat, taken : Nat, long : BOOLEAN,
   ending : {None, "closed", "reset_sent", "reset_by_peer"}]

\* What two pcbs may have in common, by the part of the code that changes it.
SameStream(v, w) ==
  /\ v.rcv_nxt = w.rcv_nxt /\ v.rcv_wnd = w.rcv_wnd /\ v.ooseq = w.ooseq
  /\ v.recv_data = w.recv_data /\ v.p_len = w.p_len /\ v.got_fin = w.got_fin
  /\ v.delivered = w.delivered /\ v.chained = w.chained /\ v.taken = w.taken
  /\ v.long = w.long
SameOffer(v, w) ==
  /\ v.ann_wnd = w.ann_wnd /\ v.right_edge = w.right_edge /\ v.out = w.out
SameSend(v, w) ==
  /\ v.lastack = w.lastack /\ v.snd_nxt = w.snd_nxt /\ v.unsent = w.unsent
  /\ v.unacked = w.unacked
SameState(v, w) == v.state = w.state /\ v.ending = w.ending

\* The places that rcv_nxt and the right edge of the window stand for.
R(w) == w.rcv_nxt - Base
E(w) == w.right_edge - Base

\* Bytes from..: the bytes of x are those of the stream behind place n.
BytesBehind(x, n) == \A i \in 1 .. Len(x) : x[i] = n + i

\* An answer acknowledges nothing from place r on and, unless it is a reset,
\* offers nothing from place e on.
Acks(a) == a.ack - Base
Answers(a, r, e) ==
  a.kind # None =>
    Acks(a) \in 1 .. r /\ (a.kind # "RST" => Acks(a) + a.wnd <= e)

\* The peer has been told of nothing from place r on.
Heard(r) == una <= r /\ (reply.kind # None => Acks(reply) <= r)

\* The callbacks have the first bytes of the stream, the next ones are pending.
Stream(w) ==
  /\ BytesBehind(w.delivered, 0) /\ BytesBehind(w.recv_data, Len(w.delivered))
  /\ R(w) = Len(w.delivered) + Len(w.recv_data) + 1 + Flag(w.got_fin)
  /\ Len(w.delivered) + Len(w.recv_data) <= N
  /\ w.got_fin => Len(w.delivered) + Len(w.recv_data) = N
  /\ R(w) <= sent + 1 /\ Heard(R(w))

\* Of d bytes t were counted: the rest is the range of the counter some times over,
\* and is there only if seq_recv_callback was given a long piece (l).
Skipping(d, t, l) ==
  \E k \in Nat : d = t + k * U8 /\ (k > 0 <=> server = "seq" /\ l)

\* What the callbacks have seen, of the bytes they were given.
History(w) ==
  /\ w.chained <= Len(w.delivered) /\ w.taken <= Len(w.delivered)
  /\ w.chained = 0 => Skipping(Len(w.delivered), w.taken, w.long)

\* The window is what is neither pending nor lost.
Lost(w) == IF server = "data" THEN w.chained ELSE 0
Count(w) ==
  /\ w.rcv_wnd + Len(w.recv_data) + Flag(w.got_fin) + Lost(w) = TCP_WND
  /\ History(w)
  /\ w.p_len <= Len(w.recv_data) /\ (w.p_len = 0 => w.recv_data = << >>)

\* What has been offered is not behind place e.
Promised(e) ==
  /\ limit <= e /\ sent + 1 <= e /\ E(pcb) <= e
  /\ reply.kind \notin {None, "RST"} => Acks(reply) + reply.wnd <= e

Offer(w) ==
  /\ E(w) \in 1 .. Top /\ E(w) <= R(w) + w.ann_wnd /\ w.ann_wnd <= w.rcv_wnd
  /\ Answers(w.out, R(w), E(w))
  /\ Promised(E(w))

\* What was acknowledged of the numbers of the server was sent.
Send(w) ==
  /\ w.lastack <= w.snd_nxt
  /\ "SYN" \in {w.unsent, w.unacked} => w.lastack <= 1

\* A pcb that receives.
Flow(w) ==
  /\ w \in Pcb /\ Stream(w) /\ Count(w) /\ Offer(w) /\ Send(w)
  /\ w.state \in {"SYN_RCVD", "ESTABLISHED", "CLOSE_WAIT"} /\ w.ending = None
  /\ w.state = "CLOSE_WAIT" => w.got_fin

(***************************************************************************)
(* Where rcv_nxt is, by what is delivered and pending.                     *)
(***************************************************************************)
LEMMA RIs ==
  ASSUME Numbered, NEW w \in Pcb, Stream(w)
  PROVE  /\ R(w) \in 1 .. N + 2 /\ R(w) \in 0 .. Top /\ w.rcv_nxt = Base + R(w)
         /\ Len(w.delivered) \in 0 .. N /\ Len(w.recv_data) \in 0 .. N
         /\ ~ w.got_fin => R(w) \in 1 .. N + 1
         /\ w.got_fin => R(w) = N + 2
<1>1. /\ w.rcv_nxt \in Nat /\ w.delivered \in Seq(Nat) /\ w.recv_data \in Seq(Nat)
      /\ w.got_fin \in BOOLEAN
  BY DEF Pcb, Numbers
<1>2. PICK d \in Nat, p \in Nat : d = Len(w.delivered) /\ p = Len(w.recv_data)
  BY <1>1
<1>3. /\ R(w) = d + p + 1 + Flag(w.got_fin) /\ (w.got_fin => d + p = N)
      /\ d + p <= N
  BY <1>2 DEF Stream
<1>4. Flag(w.got_fin) = IF w.got_fin THEN 1 ELSE 0
  BY DEF Flag
<1>5. R(w) \in 1 .. N + 2 /\ (~ w.got_fin => R(w) \in 1 .. N + 1) /\ (w.got_fin => R(w) = N + 2)
  <2>1. PICK r \in Int, f \in {0, 1} : r = R(w) /\ f = Flag(w.got_fin) /\ r = d + p + 1 + f
    BY <1>1, <1>3, <1>4
  <2>2. N \in Nat
    BY PieceTop
  <2>3. CASE w.got_fin
    BY <1>3, <1>4, <2>1, <2>2, <2>3
  <2>4. CASE ~ w.got_fin
    BY <1>3, <1>4, <2>1, <2>2, <2>4
  <2> QED
    BY <2>3, <2>4
<1>6. w.rcv_nxt = Base + R(w)
  BY <1>1, Places DEF R, Numbered
<1>7. d \in 0 .. N /\ p \in 0 .. N
  <2>1. N \in Nat
    BY PieceTop
  <2> QED
    BY <1>3, <2>1
<1> QED
  BY <1>2, <1>5, <1>6, <1>7, PieceTop

(***************************************************************************)
(* Where both ends of the window are, and that what was sent is in it.     *)
(***************************************************************************)
LEMMA FlowIs ==
  ASSUME Numbered, NEW w, Flow(w)
  PROVE  /\ w \in Pcb
         /\ R(w) \in 1 .. N + 2 /\ R(w) \in 0 .. Top /\ w.rcv_nxt = Base + R(w)
         /\ E(w) \in 1 .. Top /\ E(w) \in 0 .. Top /\ w.right_edge = Base + E(w)
         /\ w.rcv_wnd \in 0 .. TCP_WND /\ w.ann_wnd \in 0 .. TCP_WND
         /\ w.ann_wnd <= w.rcv_wnd
         /\ R(w) + w.rcv_wnd \in 1 .. Top /\ R(w) + w.ann_wnd \in 1 .. Top
         /\ E(w) <= R(w) + w.ann_wnd /\ E(w) <= R(w) + w.rcv_wnd
         /\ sent + 1 <= E(w)
<1>1. /\ w \in Pcb /\ R(w) \in 1 .. N + 2 /\ R(w) \in 0 .. Top /\ w.rcv_nxt = Base + R(w)
  BY RIs DEF Flow
<1>2. /\ w.rcv_wnd \in 0 .. TCP_WND /\ w.ann_wnd \in 0 .. TCP_WND /\ w.right_edge \in Nat
  BY <1>1 DEF Pcb, Numbers
<1>3. /\ E(w) \in 1 .. Top /\ E(w) <= R(w) + w.ann_wnd /\ w.ann_wnd <= w.rcv_wnd
      /\ sent + 1 <= E(w)
  BY DEF Flow, Offer, Promised
<1>4. w.right_edge = Base + E(w)
  BY <1>2, Places DEF E, Numbered
<1>5. TCP_WND \in Nat /\ Top \in Nat /\ Top = N + TCP_WND + 2 /\ N \in Nat
  BY Sizes DEF Top
<1>6. /\ R(w) + w.rcv_wnd \in 1 .. Top /\ R(w) + w.ann_wnd \in 1 .. Top
      /\ E(w) <= R(w) + w.rcv_wnd
  BY <1>1, <1>2, <1>3, <1>5
<1> QED
  BY <1>1, <1>2, <1>3, <1>4, <1>5, <1>6

(***************************************************************************)
(* What Flow says depends on some of the fields only.                      *)
(***************************************************************************)
LEMMA StreamSame ==
  ASSUME NEW v, NEW w, SameStream(v, w)
  PROVE  R(v) = R(w) /\ (Stream(v) <=> Stream(w)) /\ (Count(v) <=> Count(w))
BY DEF SameStream, R, Stream, Count, History, Lost

(***************************************************************************)
(* The same for what has been offered.                                     *)
(***************************************************************************)
LEMMA OfferSame ==
  ASSUME NEW v, NEW w, R(v) = R(w), v.rcv_wnd = w.rcv_wnd, SameOffer(v, w)
  PROVE  E(v) = E(w) /\ (Offer(v) <=> Offer(w))
BY DEF SameOffer, E, Offer

(***************************************************************************)
(* The same for all of Flow.                                               *)
(***************************************************************************)
LEMMA FlowSame ==
  ASSUME NEW w, Flow(w), NEW v \in Pcb, SameStream(v, w), SameState(v, w), Offer(v), Send(v)
  PROVE  Flow(v) /\ R(v) = R(w)
BY StreamSame DEF Flow, SameStream, SameState

-----------------------------------------------------------------------------
(***************************************************************************)
(* tcp_ack_now and tcp_ack only raise or move a flag.                      *)
(***************************************************************************)
LEMMA AckIs ==
  ASSUME NEW w \in Pcb, NEW v, v = ack_now(w) \/ v = ack(w)
  PROVE  /\ v \in Pcb /\ SameStream(v, w) /\ SameOffer(v, w) /\ SameSend(v, w)
         /\ SameState(v, w)
         /\ Flow(w) => Flow(v)
<1>1. /\ v \in Pcb /\ SameStream(v, w) /\ SameOffer(v, w) /\ SameSend(v, w)
      /\ SameState(v, w)
  <2>1. PICK t \in BOOLEAN, f \in BOOLEAN : t = TRUE /\ f = FALSE
    OBVIOUS
  <2>2. CASE v = [w EXCEPT !.now = t]
    <3>1. v \in Pcb
      BY <2>2 DEF Pcb
    <3>2. SameStream(v, w) /\ SameOffer(v, w)
      BY <2>2 DEF Pcb, SameStream, SameOffer
    <3>3. SameSend(v, w) /\ SameState(v, w)
      BY <2>2 DEF Pcb, SameSend, SameState
    <3> QED
      BY <3>1, <3>2, <3>3
  <2>3. CASE v = [w EXCEPT !.delay = f, !.now = t]
    <3>1. v \in Pcb
      BY <2>3 DEF Pcb
    <3>2. SameStream(v, w) /\ SameOffer(v, w)
      BY <2>3 DEF Pcb, SameStream, SameOffer
    <3>3. SameSend(v, w) /\ SameState(v, w)
      BY <2>3 DEF Pcb, SameSend, SameState
    <3> QED
      BY <3>1, <3>2, <3>3
  <2>4. CASE v = [w EXCEPT !.delay = t]
    <3>1. v \in Pcb
      BY <2>4 DEF Pcb
    <3>2. SameStream(v, w) /\ SameOffer(v, w)
      BY <2>4 DEF Pcb, SameStream, SameOffer
    <3>3. SameSend(v, w) /\ SameState(v, w)
      BY <2>4 DEF Pcb, SameSend, SameState
    <3> QED
      BY <3>1, <3>2, <3>3
  <2> QED
    BY <2>1, <2>2, <2>3, <2>4 DEF ack_now, ack
<1>2. ASSUME Flow(w)
      PROVE  Flow(v)
  <2>1. R(v) = R(w) /\ v.rcv_wnd = w.rcv_wnd
    BY <1>1, StreamSame DEF SameStream
  <2>2. Offer(v)
    BY <1>1, <1>2, <2>1, OfferSame DEF Flow
  <2>3. Send(v)
    BY <1>1, <1>2 DEF Flow, Send, SameSend
  <2> QED
    BY <1>1, <1>2, <2>2, <2>3, FlowSame
<1> QED
  BY <1>1, <1>2

(***************************************************************************)
(* An acknowledgement announces the window and moves its right edge.       *)
(***************************************************************************)
LEMMA AnnounceIs ==
  ASSUME Numbered, NEW w, Flow(w), NEW k \in {"SYN", "ACK", "FIN"}, NEW v, v = Announce(k, w)
  PROVE  /\ Flow(v) /\ SameStream(v, w) /\ SameSend(v, w) /\ SameState(v, w) /\ ~ v.now
         /\ v.infr = w.infr /\ v.dupacks = w.dupacks
<1>1. /\ w \in Pcb /\ w.rcv_nxt \in Numbers /\ w.ann_wnd \in 0 .. TCP_WND
  BY FlowIs DEF Pcb
<1>2. PICK r, a, e : /\ e \in Numbers /\ r = R(w) /\ a = w.ann_wnd /\ e = Base + (r + a)
                     /\ e = (w.rcv_nxt + w.ann_wnd) % SeqSpace
  <2>1. PICK r, a : /\ r = R(w) /\ a = w.ann_wnd
                    /\ r \in 1 .. Top /\ a \in Nat /\ r + a \in 1 .. Top
    BY FlowIs, Sizes
  <2>2. /\ Base \in Int /\ Base >= -1 /\ Base + Top < SeqSpace /\ Top \in Nat
        /\ SeqSpace \in Nat
    BY Places, Sizes DEF Numbered
  <2>3. PICK e \in Int : e = Base + (r + a) /\ 0 <= e /\ e < SeqSpace
    BY <2>1, <2>2
  <2>4. w.rcv_nxt + w.ann_wnd = e
    BY <2>1, <2>2, <2>3, FlowIs
  <2> QED
    BY <2>1, <2>2, <2>3, <2>4, Reduced DEF Numbers
<1>3. v = [w EXCEPT !.delay = FALSE, !.now = FALSE, !.right_edge = e,
                    !.out = [kind |-> k, ack |-> w.rcv_nxt, wnd |-> w.ann_wnd]]
  BY <1>2 DEF Announce, Answer
<1>4. [kind |-> k, ack |-> w.rcv_nxt, wnd |-> w.ann_wnd] \in Replies
  BY <1>1 DEF Replies
<1>5. /\ v \in Pcb /\ SameStream(v, w) /\ SameSend(v, w) /\ SameState(v, w) /\ ~ v.now
      /\ v.infr = w.infr /\ v.dupacks = w.dupacks
      /\ v.right_edge = e /\ v.ann_wnd = a
      /\ v.out = [kind |-> k, ack |-> w.rcv_nxt, wnd |-> w.ann_wnd]
  <2>1. PICK f \in BOOLEAN, o \in Replies :
          f = FALSE /\ o = [kind |-> k, ack |-> w.rcv_nxt, wnd |-> w.ann_wnd]
    BY <1>4, Zenon
  <2>2. v = [w EXCEPT !.delay = f, !.now = f, !.right_edge = e, !.out = o]
    BY <1>3, <2>1, Zenon
  <2>3. e \in Numbers /\ a = w.ann_wnd
    BY <1>2
  <2>4. v \in Pcb
    BY <1>1, <2>2, <2>3 DEF Pcb
  <2>5. /\ v.now = f /\ v.infr = w.infr /\ v.dupacks = w.dupacks
        /\ v.right_edge = e /\ v.ann_wnd = w.ann_wnd /\ v.out = o
    BY <1>1, <2>2, <2>3 DEF Pcb
  <2>6. SameStream(v, w)
    BY <1>1, <2>2 DEF Pcb, SameStream
  <2>7. SameSend(v, w) /\ SameState(v, w)
    BY <1>1, <2>2 DEF Pcb, SameSend, SameState
  <2> QED
    BY <2>1, <2>3, <2>4, <2>5, <2>6, <2>7
<1>6. R(v) = r /\ v.rcv_wnd = w.rcv_wnd /\ R(w) = r
  BY <1>2, <1>5, StreamSame DEF SameStream
<1>7. /\ r \in 1 .. N + 2 /\ a \in 0 .. TCP_WND /\ r + a \in 1 .. Top /\ Base \in Int
      /\ E(w) \in 1 .. Top /\ E(w) <= r + a /\ a <= w.rcv_wnd /\ w.rcv_nxt = Base + r
      /\ N \in Nat /\ TCP_WND \in Nat /\ Top \in Nat
  BY <1>2, FlowIs, Places, Sizes DEF Numbered
<1>8. E(v) = r + a /\ Acks(v.out) = r /\ v.out.wnd = a
  BY <1>2, <1>5, <1>7 DEF E, Acks
<1>9. Promised(E(v))
  <2>1. Promised(E(w)) /\ E(w) <= E(v) /\ E(w) \in Int /\ E(v) \in Int
    BY <1>7, <1>8 DEF Flow, Offer
  <2>2. limit \in Int /\ sent + 1 \in Int /\ E(pcb) \in Int /\ Acks(reply) + reply.wnd \in Int
    BY <1>7 DEF Numbered, E, Acks
  <2> QED
    BY <2>1, <2>2 DEF Promised
<1>10. Offer(v)
  BY <1>5, <1>6, <1>7, <1>8, <1>9 DEF Offer, Answers
<1>11. Send(v)
  BY <1>5 DEF Flow, Send, SameSend
<1> QED
  BY <1>5, <1>10, <1>11, FlowSame

(***************************************************************************)
(* tcp_output sends what there is to be sent.                              *)
(***************************************************************************)
LEMMA OutputIs ==
  ASSUME Numbered, NEW w, Flow(w), NEW v, v = output(w)
  PROVE  /\ Flow(v) /\ SameStream(v, w) /\ SameState(v, w) /\ v.unsent = None /\ ~ v.now
         /\ w.out = NoReply \/ v.out # NoReply
<1>1. w \in Pcb /\ w.unsent \in Held /\ w.now \in BOOLEAN
  BY DEF Flow, Pcb
<1>2. CASE w.unsent # None
  <2>1. PICK k \in {"SYN", "FIN"} : k = w.unsent
    BY <1>1, <1>2 DEF Held
  <2>2. PICK u : u = Announce(k, w)
    OBVIOUS
  <2>3. /\ Flow(u) /\ SameStream(u, w) /\ SameSend(u, w) /\ SameState(u, w) /\ ~ u.now
        /\ u.out # NoReply
    BY <1>1, <2>2, AnnounceIs DEF Announce, Answer, NoReply, None, Pcb
  <2>4. PICK n \in {1, 2} :
          /\ n = IF k = "SYN" THEN 1 ELSE 2
          /\ v = [u EXCEPT !.snd_nxt = n, !.unacked = k, !.unsent = None]
    BY <1>2, <2>1, <2>2 DEF output
  <2>5. u \in Pcb
    BY <2>3 DEF Flow
  <2>6. /\ v \in Pcb /\ SameStream(v, u) /\ SameOffer(v, u) /\ SameState(v, u)
        /\ v.unsent = None /\ v.unacked = k /\ v.now = u.now
        /\ v.snd_nxt = n /\ v.lastack = u.lastack
    <3>1. n \in 0 .. 2 /\ k \in Held /\ None \in Held
      BY <2>1, <2>4 DEF Held
    <3> QED
      <4>1. v \in Pcb
        BY <2>4, <2>5, <3>1 DEF Pcb
      <4>2. SameStream(v, u)
        BY <2>4, <2>5, <3>1 DEF Pcb, SameStream
      <4>3. SameOffer(v, u) /\ SameState(v, u)
        BY <2>4, <2>5, <3>1 DEF Pcb, SameOffer, SameState
      <4>4. /\ v.unsent = None /\ v.unacked = k /\ v.now = u.now
            /\ v.snd_nxt = n /\ v.lastack = u.lastack
        BY <2>4, <2>5, <3>1 DEF Pcb
      <4> QED
        BY <4>1, <4>2, <4>3, <4>4
  <2>7. Offer(v)
    BY <2>3, <2>6, StreamSame, OfferSame DEF Flow, SameStream
  <2>8. Send(v)
    <3>1. w.lastack \in 0 .. 2 /\ u.lastack = w.lastack /\ (k = "SYN" => w.lastack <= 1)
      BY <1>1, <2>1, <2>3 DEF Pcb, Flow, Send, SameSend
    <3> QED
      BY <2>4, <2>6, <3>1 DEF Send, None
  <2>9. Flow(v)
    BY <2>3, <2>6, <2>7, <2>8, FlowSame
  <2> QED
    BY <2>3, <2>6, <2>9 DEF SameStream, SameState, SameOffer
<1>3. CASE w.unsent = None /\ w.now
  <2>1. v = Announce("ACK", w) /\ v.out # NoReply
    BY <1>3 DEF output, send_empty_ack, Announce, Answer, NoReply, None
  <2> QED
    BY <1>3, <2>1, AnnounceIs DEF SameSend
<1>4. CASE w.unsent = None /\ ~ w.now
  BY <1>1, <1>4 DEF output, SameStream, SameState
<1> QED
  BY <1>1, <1>2, <1>3, <1>4

(***************************************************************************)
(* tcp_update_rcv_ann_wnd announces no more than the window there is, and  *)
(* does not move its right edge to the left.                               *)
(***************************************************************************)
LEMMA UpdateIs ==
  ASSUME Numbered, NEW w \in Pcb, R(w) \in 1 .. Top, E(w) \in 1 .. Top,
         E(w) <= R(w) + w.rcv_wnd, NEW v, v = update_rcv_ann_wnd(w)
  PROVE  \E a \in 0 .. w.rcv_wnd : v = [w EXCEPT !.ann_wnd = a] /\ E(w) <= R(w) + a
<1>1. PICK a : /\ v = [w EXCEPT !.ann_wnd = a]
               /\ \/ a = w.rcv_wnd
                  \/ TCP_SEQ_GT(w.rcv_nxt, w.right_edge) /\ a = 0
                  \/ /\ ~ TCP_SEQ_GT(w.rcv_nxt, w.right_edge)
                     /\ a = Diff(w.right_edge, w.rcv_nxt)
  BY DEF update_rcv_ann_wnd
<1>2. PICK r \in 1 .. Top, e \in 1 .. Top, d \in Nat : r = R(w) /\ e = E(w) /\ d = w.rcv_wnd
  BY DEF Pcb
<1>3. r \in 0 .. Top /\ e \in 0 .. Top /\ w.rcv_nxt = Base + r /\ w.right_edge = Base + e
  <2>1. w.rcv_nxt \in Nat /\ w.right_edge \in Nat /\ Base \in Int
    BY Places DEF Pcb, Numbers, Numbered
  <2> QED
    BY <1>2, <2>1 DEF R, E
<1>4. /\ TCP_SEQ_GT(w.rcv_nxt, w.right_edge) <=> e < r
      /\ r <= e => Diff(w.right_edge, w.rcv_nxt) = e - r
  BY <1>3, PlacesCompare
<1>5. e <= r + d
  BY <1>2
<1>6. Top \in Nat
  BY PieceTop
<1>7. \/ a = d
      \/ e < r /\ a = 0
      \/ r <= e /\ a = e - r
  BY <1>1, <1>2, <1>4, <1>6
<1>8. a \in 0 .. d /\ e <= r + a
  BY <1>5, <1>6, <1>7
<1> QED
  BY <1>1, <1>2, <1>8

(***************************************************************************)
(* tcp_recved: the window grows, and is offered if it has grown enough.    *)
(***************************************************************************)
LEMMA RecvedIs ==
  ASSUME Numbered, NEW w, Flow(w), NEW n \in Nat, w.rcv_wnd + n <= TCP_WND,
         NEW v, v = recved(w, n)
  PROVE  \E a \in 0 .. w.rcv_wnd + n, b \in BOOLEAN :
           /\ v = [w EXCEPT !.rcv_wnd = w.rcv_wnd + n, !.ann_wnd = a, !.now = b]
           /\ E(w) <= R(w) + a
<1>1. /\ w \in Pcb /\ w.rcv_wnd \in 0 .. TCP_WND /\ TCP_WND \in Nat /\ U16 \in Nat
      /\ TCP_WND < U16
  BY FlowIs, Sizes
<1>2. PICK d, m : /\ d = w.rcv_wnd + n /\ d \in 0 .. TCP_WND /\ w.rcv_wnd <= d
                  /\ m = [w EXCEPT !.rcv_wnd = d]
  <2>1. w.rcv_wnd + n \in 0 .. TCP_WND /\ w.rcv_wnd <= w.rcv_wnd + n
    BY <1>1
  <2> QED
    BY <2>1
<1>3. d % U16 = d
  BY <1>1, <1>2, ReducedLength
<1>4. Smaller((w.rcv_wnd + n) % U16, TCP_WND) = d
  BY <1>1, <1>2, <1>3 DEF Smaller
<1>5. v = Offered(m)
  BY <1>1, <1>2, <1>4 DEF recved, Pcb
<1>6. /\ m \in Pcb /\ R(m) = R(w) /\ E(m) = E(w) /\ m.rcv_wnd = d
      /\ m.now = w.now /\ w.now \in BOOLEAN
  BY <1>1, <1>2 DEF Pcb, R, E
<1>7. E(w) <= R(w) + d /\ R(w) \in 1 .. Top /\ E(w) \in 1 .. Top
  <2>1. /\ R(w) \in 1 .. N + 2 /\ R(w) \in 0 .. Top /\ E(w) \in 1 .. Top
        /\ E(w) <= R(w) + w.rcv_wnd /\ Top \in Nat /\ N \in Nat
    BY FlowIs, PieceTop
  <2> QED
    BY <1>1, <1>2, <2>1
<1>8. PICK u : u = update_rcv_ann_wnd(m)
  OBVIOUS
<1>9. PICK a \in 0 .. d : u = [m EXCEPT !.ann_wnd = a] /\ E(w) <= R(w) + a
  BY <1>6, <1>7, <1>8, UpdateIs
<1>10. v = u \/ v = [u EXCEPT !.now = TRUE]
  BY <1>5, <1>8 DEF Offered, ack_now
<1>11. PICK b \in BOOLEAN : b = v.now /\ (v = u \/ b = TRUE)
  BY <1>1, <1>2, <1>6, <1>9, <1>10 DEF Pcb
<1>12. v = [w EXCEPT !.rcv_wnd = d, !.ann_wnd = a, !.now = b]
  BY <1>1, <1>2, <1>9, <1>10, <1>11 DEF Pcb
<1> QED
  BY <1>2, <1>9, <1>12

(***************************************************************************)
(* The acknowledgement in a segment changes nothing on the receiving side. *)
(***************************************************************************)
LEMMA AcknowledgedIs ==
  ASSUME NEW w \in Pcb, Send(w), w.unsent = None, NEW s \in Segments,
         NEW v, v = Acknowledged(w, s)
  PROVE  /\ v \in Pcb /\ SameStream(v, w) /\ SameOffer(v, w) /\ SameState(v, w)
         /\ Send(v) /\ v.snd_nxt = w.snd_nxt /\ v.now = w.now
<1>1. s.ack \in Nat /\ w.lastack \in 0 .. 2 /\ w.snd_nxt \in 0 .. 2 /\ w.unacked \in Held
  BY DEF Segments, Pcb
<1>2. None \in Held /\ w.infr \in BOOLEAN /\ w.dupacks \in 0 .. 3
  BY DEF Held, Pcb
<1>3. ASSUME TCP_TCPLEN(s) = 0 /\ w.unacked # None /\ s.ack = w.lastack
      PROVE  \/ v = [w EXCEPT !.dupacks = 3, !.infr = TRUE, !.unsent = w.unacked,
                              !.unacked = None]
             \/ \E d \in 0 .. 3 : v = [w EXCEPT !.dupacks = d]
  <2>1. PICK d \in 0 .. 3 : d = IF w.dupacks < 3 THEN w.dupacks + 1 ELSE w.dupacks
    BY <1>2
  <2>2. s.ack <= w.lastack
    BY <1>1, <1>3
  <2> QED
    BY <1>3, <2>1, <2>2 DEF Acknowledged
<1>4. CASE v = [w EXCEPT !.dupacks = 3, !.infr = TRUE, !.unsent = w.unacked,
                         !.unacked = None]
  <2>1. v \in Pcb /\ SameStream(v, w) /\ SameOffer(v, w) /\ SameState(v, w)
    <3>1. v \in Pcb
      <4>1. PICK f \in BOOLEAN : f = TRUE
        BY Zenon
      <4>2. PICK d \in 0 .. 3, x \in Held, y \in Held : d = 3 /\ x = w.unacked /\ y = None
        BY <1>1, <1>2
      <4>3. v = [w EXCEPT !.dupacks = d, !.infr = f, !.unsent = x, !.unacked = y]
        BY <1>4, <4>1, <4>2, Zenon
      <4> QED
        BY <4>3, ZenonT(30) DEF Pcb
    <3>2. SameStream(v, w)
      BY <1>4 DEF Pcb, SameStream
    <3>3. SameOffer(v, w) /\ SameState(v, w)
      BY <1>4 DEF Pcb, SameOffer, SameState
    <3> QED
      BY <3>1, <3>2, <3>3
  <2>2. /\ v.lastack = w.lastack /\ v.snd_nxt = w.snd_nxt /\ v.unsent = w.unacked
        /\ v.unacked = None /\ v.now = w.now
    BY <1>4 DEF Pcb
  <2> QED
    BY <2>1, <2>2 DEF Send, None
<1>5. CASE \E d \in 0 .. 3 : v = [w EXCEPT !.dupacks = d]
  <2>1. PICK d \in 0 .. 3 : v = [w EXCEPT !.dupacks = d]
    BY <1>5
  <2>2. v \in Pcb
    BY <2>1 DEF Pcb
  <2>3. SameStream(v, w)
    BY <2>1 DEF Pcb, SameStream
  <2>4. SameOffer(v, w) /\ SameState(v, w)
    BY <2>1 DEF Pcb, SameOffer, SameState
  <2>5. /\ v.lastack = w.lastack /\ v.snd_nxt = w.snd_nxt /\ v.unsent = w.unsent
        /\ v.unacked = w.unacked /\ v.now = w.now
    BY <2>1 DEF Pcb
  <2> QED
    BY <2>2, <2>3, <2>4, <2>5 DEF Send
<1>6. CASE /\ s.ack <= w.snd_nxt
           /\ v = [w EXCEPT !.lastack = s.ack, !.dupacks = 0, !.infr = FALSE, !.unacked = None]
  <2>1. s.ack \in 0 .. 2
    BY <1>1, <1>6
  <2>2. v \in Pcb /\ SameStream(v, w) /\ SameOffer(v, w) /\ SameState(v, w)
    <3>1. v \in Pcb
      <4>1. PICK f \in BOOLEAN, d \in 0 .. 3, l \in 0 .. 2, y \in Held :
              v = [w EXCEPT !.lastack = l, !.dupacks = d, !.infr = f, !.unacked = y]
        <5>1. 0 \in 0 .. 3 /\ FALSE \in BOOLEAN
          OBVIOUS
        <5> QED
          BY <1>2, <1>6, <2>1, <5>1, Zenon
      <4> QED
        BY <4>1, ZenonT(30) DEF Pcb
    <3>2. SameStream(v, w)
      BY <1>6 DEF Pcb, SameStream
    <3>3. SameOffer(v, w) /\ SameState(v, w)
      BY <1>6 DEF Pcb, SameOffer, SameState
    <3> QED
      BY <3>1, <3>2, <3>3
  <2>3. /\ v.lastack = s.ack /\ v.snd_nxt = w.snd_nxt /\ v.unsent = None
        /\ v.unacked = None /\ v.now = w.now
    BY <1>6 DEF Pcb
  <2> QED
    BY <1>6, <2>2, <2>3 DEF Send, None
<1>7. CASE v = w
  BY <1>7 DEF SameStream, SameOffer, SameState
<1>8. \/ TCP_TCPLEN(s) = 0 /\ w.unacked # None /\ s.ack = w.lastack
      \/ v = [w EXCEPT !.dupacks = 0]
      \/ /\ s.ack <= w.snd_nxt
         /\ v = [w EXCEPT !.lastack = s.ack, !.dupacks = 0, !.infr = FALSE, !.unacked = None]
      \/ v = w
  BY DEF Acknowledged
<1> QED
  BY <1>3, <1>4, <1>5, <1>6, <1>7, <1>8

(***************************************************************************)
(* Bytes that follow others extend them.                                   *)
(***************************************************************************)
LEMMA JoinBytes ==
  ASSUME NEW x \in Seq(Nat), NEW y \in Seq(Nat), NEW n \in Nat, BytesBehind(x, n),
         \A k \in 1 .. Len(y) : y[k] = n + Len(x) + k
  PROVE  x \o y \in Seq(Nat) /\ Len(x \o y) = Len(x) + Len(y) /\ BytesBehind(x \o y, n)
<1> DEFINE c == x \o y
<1>1. Len(x) \in Nat /\ Len(y) \in Nat
  OBVIOUS
<1>2. /\ c \in Seq(Nat) /\ Len(c) = Len(x) + Len(y)
      /\ \A i \in 1 .. Len(x) : c[i] = x[i]
      /\ \A i \in Len(x) + 1 .. Len(x) + Len(y) :
           i - Len(x) \in 1 .. Len(y) /\ c[i] = y[i - Len(x)]
  BY <1>1
<1> HIDE DEF c
<1>3. ASSUME NEW i \in 1 .. Len(c)
      PROVE  c[i] = n + i
  <2>1. CASE i \in 1 .. Len(x)
    BY <1>2, <2>1 DEF BytesBehind
  <2>2. CASE i \notin 1 .. Len(x)
    <3>1. i \in Len(x) + 1 .. Len(x) + Len(y) /\ i \in Nat
      BY <1>1, <1>2, <2>2
    <3> QED
      BY <1>1, <1>2, <3>1
  <2> QED
    BY <2>1, <2>2
<1> QED
  BY <1>2, <1>3 DEF c, BytesBehind

(***************************************************************************)
(* The number behind a piece that is next, and the window without it.      *)
(***************************************************************************)
LEMMA NextIs ==
  ASSUME Numbered, NEW w, Flow(w), ~ w.got_fin, NEW s, Piece(s), A(s) = R(w),
         NEW n, n = TCP_TCPLEN(s)
  PROVE  /\ n \in 1 .. w.rcv_wnd /\ n = s.len + Flag(s.fin) /\ s.len \in Nat
         /\ R(w) + n = Z(s) + Flag(s.fin) /\ R(w) + n \in 1 .. N + 2 /\ R(w) + n <= sent + 1
         /\ (w.rcv_nxt + n) % SeqSpace = Base + (R(w) + n) /\ Base + (R(w) + n) \in Numbers
         /\ (w.rcv_wnd - n) % U16 = w.rcv_wnd - n /\ w.rcv_wnd - n \in 0 .. TCP_WND
<1>1. /\ n = s.len + Flag(s.fin) /\ n \in 1 .. N + 2 /\ s.len \in Nat
      /\ Z(s) = R(w) + s.len /\ Z(s) \in 1 .. N + 1 /\ Flag(s.fin) \in {0, 1}
  BY PieceIs DEF Flag
<1>2. Z(s) + Flag(s.fin) <= sent + 1
  BY DEF Piece
<1>3. /\ R(w) \in 1 .. N + 2 /\ w.rcv_nxt = Base + R(w) /\ w.rcv_wnd \in 0 .. TCP_WND
      /\ E(w) <= R(w) + w.rcv_wnd /\ sent + 1 <= E(w) /\ E(w) \in 1 .. Top
  BY FlowIs
<1>4. /\ N \in Nat /\ TCP_WND \in Nat /\ U16 \in Nat /\ TCP_WND < U16 /\ sent \in 0 .. N + 1
      /\ Base \in Int /\ Base >= -1 /\ Base + Top < SeqSpace /\ N + 2 <= Top /\ Top \in Nat
      /\ SeqSpace \in Nat
  BY Places, Sizes DEF Numbered, Top
<1>5. PICK r \in 1 .. N + 2, l \in Nat, f \in {0, 1} :
        r = R(w) /\ l = s.len /\ f = Flag(s.fin) /\ n = l + f /\ Z(s) = r + l
  BY <1>1, <1>3
<1>6. r + n = Z(s) + Flag(s.fin) /\ r + n \in 1 .. N + 2 /\ r + n <= sent + 1
  BY <1>1, <1>2, <1>4, <1>5
<1>7. n \in 1 .. w.rcv_wnd /\ w.rcv_wnd - n \in 0 .. TCP_WND
  BY <1>1, <1>3, <1>4, <1>5, <1>6
<1>8. PICK m \in Int, d \in Int : m = Base + (r + n) /\ d = w.rcv_wnd - n
  BY <1>1, <1>3, <1>4
<1>9. m \in Numbers /\ m % SeqSpace = m
  <2>1. 0 <= m /\ m < SeqSpace
    BY <1>1, <1>4, <1>6, <1>8
  <2> QED
    BY <1>4, <2>1, Reduced DEF Numbers
<1>10. d % U16 = d
  BY <1>4, <1>7, <1>8, ReducedLength
<1>11. w.rcv_nxt + n = m
  BY <1>1, <1>3, <1>4, <1>5, <1>8
<1> QED
  BY <1>1, <1>5, <1>6, <1>7, <1>8, <1>9, <1>10, <1>11

(***************************************************************************)
(* A piece that is next enters the stream.                                 *)
(***************************************************************************)
LEMMA TakeIs ==
  ASSUME Numbered, NEW w, Flow(w), ~ w.got_fin, NEW s, Piece(s), A(s) = R(w),
         NEW v, v = Take(w, s)
  PROVE  /\ Flow(v) /\ R(v) = Z(s) + Flag(s.fin) /\ v.ooseq = w.ooseq /\ v.got_fin = s.fin
         /\ SameState(v, w) /\ SameSend(v, w) /\ v.out = w.out
         /\ v.right_edge = w.right_edge
<1>1. PICK n : n = TCP_TCPLEN(s)
  OBVIOUS
<1>2. /\ n \in 1 .. w.rcv_wnd
      /\ R(w) + n = Z(s) + Flag(s.fin) /\ R(w) + n \in 1 .. N + 2
      /\ (w.rcv_nxt + n) % SeqSpace = Base + (R(w) + n) /\ Base + (R(w) + n) \in Numbers
      /\ (w.rcv_wnd - n) % U16 = w.rcv_wnd - n /\ w.rcv_wnd - n \in 0 .. TCP_WND
  BY <1>1, NextIs
<1>3. PICK m \in Numbers, d \in 0 .. TCP_WND :
        m = Base + (R(w) + n) /\ d = w.rcv_wnd - n
  BY <1>2
<1>4. PICK w1 : w1 = [w EXCEPT !.rcv_nxt = m, !.rcv_wnd = d]
  OBVIOUS
<1>5. PICK u : u = update_rcv_ann_wnd(w1)
  OBVIOUS
<1>6. w \in Pcb /\ w.got_fin \in BOOLEAN
      /\ s.fin \in BOOLEAN /\ w.p_len \in Nat
      /\ s.data \in Seq(Nat)
  BY DEF Flow, Pcb, Piece, Segments
<1>7. v = [u EXCEPT !.recv_data = @ \o s.data, !.p_len = IF @ = 0 THEN Len(s.data) ELSE @,
                    !.got_fin = @ \/ s.fin]
  BY <1>1, <1>2, <1>3, <1>4, <1>5, <1>6 DEF Take, Pcb
<1>8. w1 \in Pcb /\ E(w1) = E(w) /\ w1.rcv_wnd = d /\ R(w1) = R(w) + n
  <2>1. w1 \in Pcb /\ E(w1) = E(w) /\ w1.rcv_wnd = d /\ w1.rcv_nxt = m
    BY <1>3, <1>4, <1>6 DEF Pcb, E
  <2>2. Base \in Int /\ R(w) + n \in Int
    BY <1>2, Places DEF Numbered
  <2> QED
    BY <1>3, <2>1, <2>2 DEF R
<1>9. /\ R(w) + n \in 1 .. Top /\ E(w) \in 1 .. Top /\ E(w) <= (R(w) + n) + d
  <2>1. /\ R(w) \in 1 .. N + 2 /\ E(w) \in 1 .. Top /\ E(w) <= R(w) + w.rcv_wnd
        /\ w.rcv_wnd \in 0 .. TCP_WND /\ Top \in Nat /\ N \in Nat /\ N + 2 <= Top
        /\ TCP_WND \in Nat
    BY FlowIs, PieceTop, Sizes DEF Top
  <2> QED
    BY <1>2, <1>3, <2>1
<1>10. PICK a \in 0 .. TCP_WND :
         a <= d /\ u = [w1 EXCEPT !.ann_wnd = a] /\ E(w) <= (R(w) + n) + a
  <2>1. PICK c \in 0 .. d : u = [w1 EXCEPT !.ann_wnd = c] /\ E(w) <= (R(w) + n) + c
    BY <1>5, <1>8, <1>9, UpdateIs
  <2>2. c \in 0 .. TCP_WND /\ c <= d
    BY <1>3, Sizes
  <2> QED
    BY <2>1, <2>2
<1>11. PICK p \in Nat : p = IF w.p_len = 0 THEN Len(s.data) ELSE w.p_len
  BY <1>6
<1>12. u.got_fin = w.got_fin /\ u.p_len = w.p_len /\ u.recv_data = w.recv_data
  BY <1>4, <1>6, <1>10 DEF Pcb
<1>13. (u.got_fin \/ s.fin) = s.fin
  BY <1>6, <1>12
<1>14. v = [w EXCEPT !.rcv_nxt = m, !.rcv_wnd = d, !.ann_wnd = a,
                     !.recv_data = w.recv_data \o s.data, !.p_len = p, !.got_fin = s.fin]
  <2>1. v = [u EXCEPT !.recv_data = w.recv_data \o s.data, !.p_len = p, !.got_fin = s.fin]
    <3>1. v = [u EXCEPT !.recv_data = u.recv_data \o s.data,
                        !.p_len = IF u.p_len = 0 THEN Len(s.data) ELSE u.p_len,
                        !.got_fin = (u.got_fin \/ s.fin)]
      BY <1>7
    <3> QED
      BY <1>11, <1>12, <1>13, <3>1
  <2> QED
    BY <1>4, <1>6, <1>10, <2>1 DEF Pcb
<1>15. m = Base + (Z(s) + Flag(s.fin)) /\ E(w) <= Z(s) + Flag(s.fin) + a
  BY <1>2, <1>3, <1>10
<1>16. /\ a <= d /\ m = Base + (Z(s) + Flag(s.fin)) /\ d = w.rcv_wnd - TCP_TCPLEN(s)
       /\ E(w) <= Z(s) + Flag(s.fin) + a
       /\ p = IF w.p_len = 0 THEN Len(s.data) ELSE w.p_len
       /\ v = [w EXCEPT !.rcv_nxt = m, !.rcv_wnd = d, !.ann_wnd = a,
                        !.recv_data = w.recv_data \o s.data, !.p_len = p, !.got_fin = s.fin]
  BY <1>1, <1>3, <1>10, <1>11, <1>14, <1>15
<1>17. /\ w \in Pcb /\ w.recv_data \in Seq(Nat) /\ s.data \in Seq(Nat) /\ s.len = Len(s.data)
      /\ w.delivered \in Seq(Nat) /\ w.p_len \in Nat /\ w.chained \in Nat /\ w.taken \in Nat
      /\ w.rcv_wnd \in 0 .. TCP_WND /\ w.state # "CLOSE_WAIT" /\ w.got_fin \in BOOLEAN
      /\ s.fin \in BOOLEAN
  BY DEF Flow, Pcb, Piece, Segments
<1>18. PICK D \in Nat, x \in Nat, l \in Nat, g \in {0, 1}, z \in Int :
        /\ D = Len(w.delivered) /\ x = Len(w.recv_data) /\ l = Len(s.data)
        /\ g = Flag(s.fin) /\ z = Z(s)
  <2>1. Flag(s.fin) \in {0, 1}
    BY DEF Flag
  <2>2. Z(s) \in Int
    BY PieceIs
  <2>3. Len(w.delivered) \in Nat /\ Len(w.recv_data) \in Nat /\ Len(s.data) \in Nat
    BY <1>17
  <2> QED
    BY <2>1, <2>2, <2>3
<1>19. /\ TCP_TCPLEN(s) = l + g /\ z = R(w) + l /\ z + g \in 1 .. N + 2 /\ z + g <= sent + 1
      /\ z <= N + 1 /\ (s.fin => z = N + 1)
  <2>1. TCP_TCPLEN(s) = l + g /\ z = R(w) + l /\ z + g \in 1 .. N + 2 /\ z + g <= sent + 1
    BY <1>17, <1>18, NextIs, PieceIs
  <2> QED
    BY <1>18, <2>1 DEF Piece
<1>20. Flag(w.got_fin) = 0 /\ R(w) = D + x + 1 /\ R(w) \in 1 .. N + 1
  <2>1. Flag(w.got_fin) = 0 /\ R(w) = D + x + 1 + Flag(w.got_fin)
    BY <1>18 DEF Flow, Stream, Flag
  <2> QED
    <3>1. R(w) \in 1 .. N + 1
      BY RIs DEF Flow
    <3>2. PICK r \in Int, f \in Int :
            r = R(w) /\ f = Flag(w.got_fin) /\ f = 0 /\ r = D + x + 1 + f
      BY <2>1, <3>1, Sizes
    <3> QED
      BY <2>1, <3>1, <3>2
<1>21. /\ w.recv_data \o s.data \in Seq(Nat) /\ Len(w.recv_data \o s.data) = x + l
      /\ BytesBehind(w.recv_data \o s.data, D)
  <2>1. \A k \in 1 .. Len(s.data) : s.data[k] = D + Len(w.recv_data) + k
    <3>1. \A k \in 1 .. Len(s.data) : s.data[k] = A(s) + k - 1
      BY <1>17 DEF Piece
    <3>2. A(s) = D + x + 1
      BY <1>20
    <3>3. PICK r \in Int : r = A(s) /\ r = D + x + 1
      BY <3>2
    <3>4. \A k \in 1 .. l : s.data[k] = r + k - 1
      BY <1>18, <3>1, <3>3
    <3>5. \A k \in 1 .. l : r + k - 1 = D + x + k
      BY <3>3
    <3> QED
      BY <1>18, <3>4, <3>5
  <2>2. BytesBehind(w.recv_data, D)
    BY <1>18 DEF Flow, Stream
  <2> QED
    BY <1>17, <1>18, <2>1, <2>2, JoinBytes
<1>22. /\ v \in Pcb /\ v.rcv_nxt = m /\ v.rcv_wnd = d /\ v.ann_wnd = a
      /\ v.recv_data = w.recv_data \o s.data /\ v.p_len = p /\ v.got_fin = s.fin
      /\ v.ooseq = w.ooseq /\ v.delivered = w.delivered /\ v.chained = w.chained
      /\ v.taken = w.taken /\ v.long = w.long /\ v.out = w.out
      /\ v.right_edge = w.right_edge /\ SameState(v, w) /\ SameSend(v, w)
  <2>1. PICK b \in Seq(Nat) : b = w.recv_data \o s.data
    BY <1>21
  <2>2. v = [w EXCEPT !.rcv_nxt = m, !.rcv_wnd = d, !.ann_wnd = a,
                      !.recv_data = b, !.p_len = p, !.got_fin = s.fin]
    BY <1>16, <2>1
  <2>3. v \in Pcb
    BY <1>17, <2>2, ZenonT(30) DEF Pcb
  <2>4. /\ v.rcv_nxt = m /\ v.rcv_wnd = d /\ v.ann_wnd = a /\ v.recv_data = b
        /\ v.p_len = p /\ v.got_fin = s.fin
    BY <1>17, <2>2 DEF Pcb
  <2>5. /\ v.ooseq = w.ooseq /\ v.delivered = w.delivered /\ v.chained = w.chained
        /\ v.taken = w.taken /\ v.long = w.long /\ v.out = w.out
        /\ v.right_edge = w.right_edge
    BY <1>17, <2>2 DEF Pcb
  <2>6. SameState(v, w) /\ SameSend(v, w)
    BY <1>17, <2>2 DEF Pcb, SameState, SameSend
  <2> QED
    BY <2>1, <2>3, <2>4, <2>5, <2>6
<1>23. v.got_fin = s.fin /\ Flag(v.got_fin) = g
  BY <1>16, <1>18, <1>22 DEF Flag
<1>24. R(v) = z + g
  <2>1. Base \in Int /\ z + g \in Int
    BY <1>19, Places DEF Numbered
  <2> QED
    BY <1>16, <1>18, <1>22, <2>1 DEF R
<1>25. Stream(v)
  <2>1. D + (x + l) <= N /\ (s.fin => D + (x + l) = N) /\ z + g = D + (x + l) + 1 + g
    <3>1. N \in Nat /\ z = (D + x + 1) + l
      BY <1>19, <1>20, Sizes
    <3>2. z <= N + 1 /\ (s.fin => z = N + 1)
      BY <1>19
    <3> QED
      BY ONLY D \in Nat, x \in Nat, l \in Nat, g \in {0, 1}, z \in Int, <3>1, <3>2
  <2>2. Heard(z + g)
    <3>1. PICK r \in Int : r = R(w) /\ z = r + l
      BY <1>19, <1>20, Sizes
    <3>2. PICK h \in Int, o \in Int : h = Acks(reply) /\ o = una
      BY Places DEF Numbered, Acks
    <3>3. o <= r /\ (reply.kind # None => h <= r)
      BY <3>1, <3>2 DEF Heard, Flow, Stream
    <3> QED
      BY <3>1, <3>2, <3>3 DEF Heard
  <2> QED
    BY <1>18, <1>19, <1>21, <1>22, <1>23, <1>24, <2>1, <2>2 DEF Stream, Flow
<1>26. Count(v)
  <2>1. /\ w.rcv_wnd + x + 0 + Lost(w) = TCP_WND /\ w.p_len <= x
        /\ (w.p_len = 0 => w.recv_data = << >>)
    BY <1>18, <1>20 DEF Flow, Count
  <2>2. Lost(v) = Lost(w) /\ Lost(w) \in Nat
    BY <1>17, <1>22 DEF Lost
  <2>3. d + (x + l) + g + Lost(w) = TCP_WND
    <3>1. PICK o \in Nat, q \in Nat : o = Lost(w) /\ q = w.rcv_wnd /\ q + x + 0 + o = TCP_WND
      BY <1>17, <2>1, <2>2
    <3>2. d = q - (l + g)
      BY <1>16, <1>19, <3>1
    <3>3. TCP_WND \in Nat /\ Lost(v) = o
      BY <2>2, <3>1, Sizes
    <3> QED
      BY ONLY D \in Nat, x \in Nat, l \in Nat, g \in {0, 1}, o \in Nat, q \in Nat,
              d \in 0 .. TCP_WND, <3>1, <3>2, <3>3
  <2>4. p <= x + l
    <3>1. w.p_len \in Nat /\ p = IF w.p_len = 0 THEN l ELSE w.p_len
      BY <1>16, <1>17, <1>18
    <3> QED
      BY <2>1, <3>1
  <2>5. p = 0 => w.recv_data \o s.data = << >>
    BY <1>16, <1>17, <1>18, <2>1
  <2> QED
    BY <1>18, <1>21, <1>22, <1>23, <2>2, <2>3, <2>4, <2>5 DEF Flow, Count, History
<1>27. Offer(v)
  <2>1. E(v) = E(w) /\ E(w) \in Int
    BY <1>22, FlowIs DEF E
  <2>2. R(w) <= z + g /\ R(w) \in Int
    <3>1. PICK r \in Int : r = R(w) /\ z = r + l
      BY <1>19, <1>20, Sizes
    <3> QED
      BY <3>1
  <2>3. Answers(v.out, R(v), E(v))
    BY <1>18, <1>22, <1>24, <2>1, <2>2 DEF Flow, Offer, Answers
  <2> QED
    BY <1>16, <1>18, <1>22, <1>24, <2>1, <2>3 DEF Flow, Offer
<1>28. Send(v)
  BY <1>22 DEF Flow, Send, SameSend
<1>29. Flow(v)
  BY <1>17, <1>22, <1>25, <1>26, <1>27, <1>28 DEF Flow, SameState
<1> QED
  BY <1>18, <1>22, <1>23, <1>24, <1>29

\* A pcb within the loop that empties the queue: what is left of it is not in
\* front of rcv_nxt, and nothing is left behind a FIN.
Waiting(w) ==
  /\ Flow(w) /\ Ordered(w.ooseq) /\ From(w.ooseq, R(w))
  /\ w.got_fin => w.ooseq = << >>

\* What tcp_receive does to the pcb once the text is taken.
Entered(v, w) ==
  /\ SameSend(v, w) /\ v.out = w.out /\ v.right_edge = w.right_edge
  /\ v.state \in {w.state, "CLOSE_WAIT"}

\* A pcb with another queue, and the state t.
With(w, q, t) == [w EXCEPT !.ooseq = q, !.state = t]

(***************************************************************************)
(* A pcb without the first segment of its queue, its state moved on.       *)
(***************************************************************************)
LEMMA QueueIs ==
  ASSUME NEW w, Flow(w), NEW q \in Seq(Segments), NEW t,
         t = w.state \/ (t = "CLOSE_WAIT" /\ w.got_fin),
         NEW v, v = With(w, q, t)
  PROVE  /\ Flow(v) /\ R(v) = R(w) /\ v.got_fin = w.got_fin /\ v.ooseq = q /\ v.state = t
         /\ SameSend(v, w) /\ v.out = w.out /\ v.right_edge = w.right_edge
         /\ v.rcv_nxt = w.rcv_nxt
<1>1. w \in Pcb /\ w.state \in {"SYN_RCVD", "ESTABLISHED", "CLOSE_WAIT"}
  BY DEF Flow
<1>2. /\ v \in Pcb /\ v.ooseq = q /\ v.state = t /\ v.ending = w.ending
      /\ v.rcv_nxt = w.rcv_nxt /\ v.rcv_wnd = w.rcv_wnd /\ v.recv_data = w.recv_data
      /\ v.p_len = w.p_len /\ v.got_fin = w.got_fin /\ v.delivered = w.delivered
      /\ v.chained = w.chained /\ v.taken = w.taken /\ v.long = w.long
      /\ SameOffer(v, w) /\ SameSend(v, w)
  <2>1. t \in {"SYN_RCVD", "ESTABLISHED", "CLOSE_WAIT"}
    BY <1>1
  <2> QED
    BY <1>1, <2>1 DEF Pcb, SameOffer, SameSend, With
<1>3. R(v) = R(w) /\ Stream(v) /\ Count(v) /\ Lost(v) = Lost(w)
  BY <1>2 DEF Flow, R, Stream, Count, History, Lost
<1>4. Offer(v) /\ Send(v)
  BY <1>2, <1>3, OfferSame DEF Flow, Send, SameSend
<1>5. Flow(v)
  BY <1>1, <1>2, <1>3, <1>4 DEF Flow
<1> QED
  BY <1>2, <1>3, <1>5 DEF SameOffer

(***************************************************************************)
(* One turn of the loop takes a segment, or nothing is next.               *)
(***************************************************************************)
LEMMA DequeueFirstIs ==
  ASSUME Numbered, NEW w, Waiting(w), NEW v, v = DequeueFirst(w)
  PROVE  /\ Waiting(v) /\ Entered(v, w)
         /\ \/ v = w /\ From(w.ooseq, R(w) + 1)
            \/ /\ w.ooseq # << >> /\ Len(v.ooseq) = Len(w.ooseq) - 1
               /\ ~ From(w.ooseq, R(w) + 1)
<1>1. PICK q \in Seq(Segments) : q = w.ooseq /\ Ordered(q) /\ From(q, R(w))
  BY DEF Waiting, Ordered
<1>2. /\ w \in Pcb /\ w.rcv_nxt = Base + R(w) /\ R(w) \in 1 .. N + 2 /\ Base \in Int
      /\ Flow(w) /\ N \in Nat
  BY FlowIs, Places, PieceTop DEF Waiting, Numbered
<1>3. CASE q = << >>
  <2>1. v = w /\ From(q, R(w) + 1)
    BY <1>1, <1>3 DEF DequeueFirst, From
  <2> QED
    BY <1>1, <2>1 DEF Entered, SameSend
<1>4. CASE q # << >>
  <2>1. PICK s : s = q[1] /\ Piece(s)
    BY <1>1, <1>4 DEF Ordered
  <2>2. /\ A(s) \in 1 .. N + 1 /\ s.seq = Base + A(s) /\ Z(s) \in Int /\ s.fin \in BOOLEAN
        /\ A(s) <= Z(s) /\ 1 \in 1 .. Len(q) /\ Len(q) \in Nat
    BY <1>1, <1>4, <2>1, PieceIs
  <2>3. CASE s.seq # w.rcv_nxt
    <3>1. v = w
      BY <1>1, <1>4, <2>1, <2>3 DEF DequeueFirst
    <3>2. R(w) + 1 <= A(s)
      BY <1>1, <1>2, <2>1, <2>2, <2>3 DEF From
    <3>3. From(q, R(w) + 1)
      <4>1. From(q, A(s))
        BY <1>1, <2>1, <2>2, OrderedFrom
      <4>2. \A i \in 1 .. Len(q) : A(q[i]) \in Int
        BY <1>1, <1>2, PieceIs DEF Ordered
      <4> QED
        BY <1>2, <2>2, <3>2, <4>1, <4>2 DEF From
    <3> QED
      BY <1>1, <3>1, <3>3 DEF Entered, SameSend
  <2>4. CASE s.seq = w.rcv_nxt
    <3>1. A(s) = R(w) /\ ~ w.got_fin
      BY <1>1, <1>2, <1>4, <2>2, <2>4 DEF Waiting
    <3>2. PICK u : u = Take(w, s)
      OBVIOUS
    <3>3. /\ Flow(u) /\ R(u) = Z(s) + Flag(s.fin) /\ u.ooseq = q /\ u.got_fin = s.fin
          /\ SameState(u, w) /\ SameSend(u, w) /\ u.out = w.out
          /\ u.right_edge = w.right_edge
      BY <1>1, <1>2, <2>1, <3>1, <3>2, TakeIs
    <3>4. PICK r \in Seq(Segments) : r = Tail(q) /\ Len(r) = Len(q) - 1
      <4>1. Tail(q) \in Seq(Segments) /\ Len(Tail(q)) = Len(q) - 1
        BY <1>4
      <4> QED
        BY <4>1
    <3>5. PICK t : t = IF s.fin /\ u.state = "ESTABLISHED" THEN "CLOSE_WAIT" ELSE u.state
      OBVIOUS
    <3>6. v = With(u, r, t)
      BY <1>1, <1>4, <2>1, <2>4, <3>2, <3>3, <3>4, <3>5 DEF DequeueFirst, With
    <3>7. /\ Flow(v) /\ R(v) = R(u) /\ v.got_fin = u.got_fin /\ v.ooseq = r
          /\ v.state = t /\ SameSend(v, u) /\ v.out = u.out /\ v.right_edge = u.right_edge
      <4>1. t = u.state \/ (t = "CLOSE_WAIT" /\ u.got_fin)
        <5>1. CASE s.fin /\ u.state = "ESTABLISHED"
          <6>1. t = "CLOSE_WAIT" /\ u.got_fin
            BY <3>3, <3>5, <5>1
          <6> QED
            BY <6>1
        <5>2. CASE ~ (s.fin /\ u.state = "ESTABLISHED")
          BY <2>2, <3>5, <5>2
        <5> QED
          BY <5>1, <5>2
      <4>2. Flow(u) /\ r \in Seq(Segments)
        BY <3>3
      <4> QED
        BY <3>6, <4>1, <4>2, QueueIs
    <3>8. Ordered(r) /\ From(r, R(v)) /\ (v.got_fin => r = << >>)
      <4>1. /\ Ordered(r)
            /\ \A i \in 1 .. Len(r) : i + 1 \in 1 .. Len(q) /\ r[i] = q[i + 1] /\ 1 < i + 1
        <5>1. r = SubSeq(q, 1 + 1, Len(q)) /\ 1 \in 0 .. Len(q)
          BY <1>1, <2>2, <3>4
        <5>2. Ordered(r)
          BY <1>1, <5>1, OrderedParts
        <5>3. \A i \in 1 .. Len(r) : i + 1 \in 1 .. Len(q) /\ r[i] = q[i + 1] /\ 1 < i + 1
          BY <1>1, <1>4, <2>2, <3>4
        <5> QED
          BY <5>2, <5>3
      <4>2. \A i \in 1 .. Len(r) : ~ s.fin /\ Z(s) <= A(r[i])
        BY <1>1, <2>1, <2>2, <4>1 DEF Ordered
      <4>3. s.fin => r = << >>
        <5>1. Len(r) \in Nat /\ (Len(r) # 0 => 1 \in 1 .. Len(r))
          BY <3>4
        <5> QED
          BY <3>4, <4>2, <5>1
      <4>4. From(r, R(v))
        <5>1. ~ s.fin => R(v) = Z(s)
          BY <2>2, <3>3, <3>7 DEF Flag
        <5> QED
          BY <4>2, <5>1 DEF From
      <4> QED
        BY <3>3, <3>7, <4>1, <4>3, <4>4
    <3>9. Waiting(v)
      BY <3>7, <3>8 DEF Waiting
    <3>10. Entered(v, w)
      BY <3>3, <3>5, <3>7 DEF Entered, SameSend, SameState
    <3>11. ~ From(q, R(w) + 1)
      BY <1>2, <2>1, <2>2, <3>1 DEF From
    <3> QED
      BY <1>1, <1>4, <3>4, <3>7, <3>9, <3>10, <3>11
  <2> QED
    BY <2>3, <2>4
<1> QED
  BY <1>3, <1>4

(***************************************************************************)
(* The function that counts the turns of the loop exists: a least length   *)
(* without one could not be.                                               *)
(***************************************************************************)
LEMMA LoopExists ==
  ASSUME NEW w, NEW n \in Nat
  PROVE  \E f : f = [i \in 0 .. n |-> IF i = 0 THEN w ELSE DequeueFirst(f[i - 1])]
<1> DEFINE Loop(f, k) == f = [i \in 0 .. k |-> IF i = 0 THEN w ELSE DequeueFirst(f[i - 1])]
           Without == {k \in Nat : ~ \E f : Loop(f, k)}
<1>1. Loop([i \in 0 .. 0 |-> w], 0)
  OBVIOUS
<1>2. ASSUME NEW k \in Nat, NEW f, Loop(f, k)
      PROVE  \E g : Loop(g, k + 1)
  <2> DEFINE g == [i \in 0 .. k + 1 |-> IF i = k + 1 THEN DequeueFirst(f[k]) ELSE f[i]]
  <2>1. ASSUME NEW i \in 0 .. k + 1
        PROVE  g[i] = IF i = 0 THEN w ELSE DequeueFirst(g[i - 1])
    <3>1. \A j \in 0 .. k : j \in 0 .. k + 1 /\ j # k + 1
      OBVIOUS
    <3>2. \A j \in 0 .. k : g[j] = f[j]
      BY <3>1
    <3>3. CASE i = k + 1
      <4>1. g[i] = DequeueFirst(f[k]) /\ k \in 0 .. k /\ i - 1 = k /\ i # 0
        BY <3>3
      <4>2. g[k] = f[k]
        BY <3>2, <4>1
      <4> HIDE DEF g
      <4> QED
        BY <4>1, <4>2
    <3>4. CASE i # k + 1
      <4>1. i \in 0 .. k /\ (i # 0 => i - 1 \in 0 .. k)
        BY <3>4
      <4>2. f[i] = IF i = 0 THEN w ELSE DequeueFirst(f[i - 1])
        BY <1>2, <4>1
      <4> HIDE DEF g
      <4> QED
        BY <3>2, <4>1, <4>2
    <3> QED
      BY <3>3, <3>4
  <2>2. g = [i \in 0 .. k + 1 |-> g[i]]
    OBVIOUS
  <2> HIDE DEF g
  <2>3. Loop(g, k + 1)
    BY <2>1, <2>2
  <2> QED
    BY <2>3
<1>3. Without = {}
  <2> SUFFICES ASSUME Without # {}
               PROVE  FALSE
    OBVIOUS
  <2> HIDE DEF Loop
  <2>1. PICK z \in Without : \A m \in Without : z <= m
    BY LeastNatural
  <2>2. z \in Nat /\ z # 0
    BY <1>1, <2>1
  <2>3. z - 1 \in Nat /\ z = (z - 1) + 1 /\ ~ (z <= z - 1)
    BY <2>2
  <2>4. \E f : Loop(f, z - 1)
    BY <2>1, <2>3
  <2>5. \E f : Loop(f, z)
    BY <1>2, <2>3, <2>4
  <2> QED
    BY <2>1, <2>5
<1> QED
  BY <1>3

(***************************************************************************)
(* When the loop ends nothing that is left is next.                        *)
(***************************************************************************)
LEMMA DequeueIs ==
  ASSUME Numbered, NEW w, Waiting(w), NEW v, v = Dequeue(w)
  PROVE  Waiting(v) /\ From(v.ooseq, R(v) + 1) /\ Entered(v, w)
<1>1. PICK n \in Nat : n = Len(w.ooseq) /\ w.ooseq \in Seq(Segments)
  BY DEF Waiting, Ordered
<1> DEFINE after == CHOOSE f : f = [i \in 0 .. n |-> IF i = 0 THEN w
                                                   ELSE DequeueFirst(f[i - 1])]
<1>2. after = [i \in 0 .. n |-> IF i = 0 THEN w ELSE DequeueFirst(after[i - 1])]
  BY LoopExists
<1>3. v = after[n]
  BY <1>1 DEF Dequeue
<1> HIDE DEF after
<1> DEFINE Good(i) == /\ Waiting(after[i]) /\ Entered(after[i], w)
                      /\ \/ From(after[i].ooseq, R(after[i]) + 1)
                         \/ Len(after[i].ooseq) = n - i
           Bad == {i \in 0 .. n : ~ Good(i)}
<1>4. after[0] = w /\ Good(0)
  <2>1. after[0] = w
    BY <1>2
  <2>2. Entered(w, w)
    BY DEF Entered, SameSend
  <2> QED
    BY <1>1, <2>1, <2>2
<1>5. ASSUME NEW k \in Nat, k + 1 \in 0 .. n, Good(k)
      PROVE  Good(k + 1)
  <2>1. PICK u, x : u = after[k] /\ x = after[k + 1] /\ x = DequeueFirst(u)
    BY <1>2, <1>5
  <2>2. /\ Waiting(x) /\ Entered(x, u)
        /\ \/ x = u /\ From(u.ooseq, R(u) + 1)
           \/ /\ u.ooseq # << >> /\ Len(x.ooseq) = Len(u.ooseq) - 1
              /\ ~ From(u.ooseq, R(u) + 1)
    BY <1>5, <2>1, DequeueFirstIs
  <2>3. Entered(x, w)
    BY <1>5, <2>1, <2>2 DEF Entered, SameSend
  <2>4. From(x.ooseq, R(x) + 1) \/ Len(x.ooseq) = n - (k + 1)
    <3>1. CASE x = u
      BY <1>5, <2>1, <2>2, <3>1
    <3>2. CASE x # u
      <4>1. Len(x.ooseq) = Len(u.ooseq) - 1 /\ Len(u.ooseq) = n - k
        BY <1>5, <2>1, <2>2, <3>2
      <4>2. n - k - 1 = n - (k + 1)
        OBVIOUS
      <4> QED
        BY <4>1, <4>2
    <3> QED
      BY <3>1, <3>2
  <2> QED
    BY <2>1, <2>2, <2>3, <2>4
<1>6. Bad = {}
  <2> SUFFICES ASSUME Bad # {}
               PROVE  FALSE
    OBVIOUS
  <2> HIDE DEF Good
  <2>1. Bad \subseteq Nat
    OBVIOUS
  <2>2. PICK z \in Bad : \A m \in Bad : z <= m
    BY <2>1, LeastNatural
  <2>3. z \in 0 .. n /\ ~ Good(z)
    BY <2>2
  <2>4. z # 0
    BY <1>4, <2>3
  <2>5. z - 1 \in 0 .. n /\ z - 1 \in Nat /\ z = (z - 1) + 1 /\ ~ (z <= z - 1)
    BY <2>3, <2>4
  <2>6. Good(z - 1)
    BY <2>2, <2>5
  <2>7. Good((z - 1) + 1)
    BY <1>5, <2>3, <2>5, <2>6
  <2> QED
    BY <2>3, <2>5, <2>7
<1>7. Good(n) /\ n \in 0 .. n
  BY <1>6
<1>8. Len(v.ooseq) = 0 => From(v.ooseq, R(v) + 1)
  BY DEF From
<1> QED
  BY <1>3, <1>7, <1>8

\* A pcb that is open: nothing that is queued is next.
Ready(w) == Waiting(w) /\ From(w.ooseq, R(w) + 1)

(***************************************************************************)
(* What the peer sends is in the window: nothing is cut off at its end.    *)
(***************************************************************************)
LEMMA FittingIs ==
  ASSUME Numbered, NEW w, Flow(w), ~ w.got_fin, NEW s, Piece(s), A(s) = R(w)
  PROVE  Fitting(w, s) = s
<1>1. TCP_TCPLEN(s) \in 1 .. w.rcv_wnd /\ w.rcv_wnd \in 0 .. TCP_WND
  BY NextIs, FlowIs
<1>2. ~ (TCP_TCPLEN(s) > w.rcv_wnd)
  BY <1>1, Sizes
<1> QED
  BY <1>2 DEF Fitting

(***************************************************************************)
(* A piece that goes last is left as it is, for its end does not pass the  *)
(* end of the window: here the numbers must not wrap.                      *)
(***************************************************************************)
LEMMA CutToWindowIs ==
  ASSUME Numbered, NEW w, Flow(w), NEW s, Piece(s)
  PROVE  CutToWindow(s, w) = s
<1>1. PICK a \in Int, n \in Int : a = A(s) /\ n = TCP_TCPLEN(s) /\ a + n <= sent + 1
                                /\ a >= 1 /\ n >= 1 /\ s.seq = Base + a
  <2>1. /\ A(s) \in 1 .. N + 1 /\ TCP_TCPLEN(s) \in 1 .. N + 2 /\ s.len \in Nat
        /\ TCP_TCPLEN(s) = s.len + Flag(s.fin) /\ Z(s) = A(s) + s.len /\ s.seq = Base + A(s)
    BY PieceIs
  <2>2. Z(s) + Flag(s.fin) <= sent + 1
    BY DEF Piece
  <2>3. Flag(s.fin) \in {0, 1} /\ sent \in Nat /\ N \in Nat
    BY PieceTop DEF Flag, Numbered
  <2>4. PICK a \in Int, l \in Int, f \in Int :
          a = A(s) /\ l = s.len /\ f = Flag(s.fin) /\ TCP_TCPLEN(s) = l + f /\ Z(s) = a + l
    BY <2>1, <2>3
  <2>5. a + (l + f) <= sent + 1
    BY <2>2, <2>3, <2>4
  <2>6. a >= 1 /\ l + f >= 1
    BY <2>1, <2>3, <2>4
  <2> QED
    BY <2>1, <2>4, <2>5, <2>6
<1>2. PICK r \in Int, d \in Int, e \in Int :
        /\ r = R(w) /\ d = w.rcv_wnd /\ e = E(w) /\ w.rcv_nxt = Base + r
        /\ r + d >= 1 /\ r + d <= Top /\ e <= r + d /\ sent + 1 <= e
  <2>1. /\ R(w) \in 1 .. N + 2 /\ w.rcv_wnd \in 0 .. TCP_WND /\ E(w) \in 1 .. Top
        /\ w.rcv_nxt = Base + R(w) /\ R(w) + w.rcv_wnd \in 1 .. Top
        /\ E(w) <= R(w) + w.rcv_wnd /\ sent + 1 <= E(w) /\ Top \in Nat
    BY FlowIs, PieceTop
  <2> QED
    BY <2>1
<1>3. /\ Base \in Int /\ Base >= -1 /\ Base + Top < SeqSpace /\ Top \in Nat
      /\ SeqSpace \in Nat /\ sent \in Nat
  BY Places, Sizes DEF Numbered
<1>4. PICK x \in Int, y \in Int : x = Base + (a + n) /\ y = Base + (r + d)
  BY <1>3
<1>5. 0 <= x /\ x <= y /\ y < SeqSpace
  BY <1>1, <1>2, <1>3, <1>4
<1>6. x % SeqSpace = x /\ y % SeqSpace = y
  BY <1>3, <1>5, Reduced
<1>7. s.seq + n = x /\ w.rcv_nxt + d = y
  BY <1>1, <1>2, <1>3, <1>4
<1>8. ~ ((s.seq + TCP_TCPLEN(s)) % SeqSpace > (w.rcv_nxt + w.rcv_wnd) % SeqSpace)
  BY <1>1, <1>2, <1>5, <1>6, <1>7
<1> QED
  BY <1>8 DEF CutToWindow

(***************************************************************************)
(* A segment in sequence is taken, and what is queued behind it.           *)
(***************************************************************************)
LEMMA EnterIs ==
  ASSUME Numbered, NEW w, Flow(w), ~ w.got_fin, NEW c, Piece(c), A(c) = R(w),
         NEW q, Ordered(q), From(q, Z(c)), c.fin => q = << >>, NEW v, v = Enter(w, c, q)
  PROVE  Ready(v) /\ SameSend(v, w) /\ v.state \in {w.state, "CLOSE_WAIT"}
<1>1. PICK t, u, d : /\ t = Take(w, c) /\ u = [t EXCEPT !.ooseq = q] /\ d = Dequeue(u)
                     /\ v = ack(d)
  BY DEF Enter
<1>2. /\ Flow(t) /\ R(t) = Z(c) + Flag(c.fin) /\ t.got_fin = c.fin
      /\ SameState(t, w) /\ SameSend(t, w)
  BY <1>1, TakeIs
<1>3. t \in Pcb /\ q \in Seq(Segments) /\ c.fin \in BOOLEAN /\ Z(c) \in Int
  BY <1>2, PieceIs DEF Flow, Ordered
<1>4. u = With(t, q, t.state)
  BY <1>1, <1>3 DEF With, Pcb
<1>5. /\ Flow(u) /\ R(u) = R(t) /\ u.got_fin = t.got_fin /\ u.ooseq = q /\ u.state = t.state
      /\ SameSend(u, t)
  BY <1>2, <1>3, <1>4, QueueIs
<1>6. Waiting(u)
  <2>1. CASE c.fin
    <3>1. q = << >> /\ From(<< >>, R(u))
      BY <2>1 DEF From
    <3> QED
      BY <1>5, <3>1 DEF Waiting
  <2>2. CASE ~ c.fin
    <3>1. R(u) = Z(c)
      BY <1>2, <1>3, <1>5, <2>2 DEF Flag
    <3> QED
      BY <1>2, <1>5, <2>2, <3>1 DEF Waiting
  <2> QED
    BY <1>3, <2>1, <2>2
<1>7. Waiting(d) /\ From(d.ooseq, R(d) + 1) /\ Entered(d, u)
  BY <1>1, <1>6, DequeueIs
<1>8. /\ Flow(v) /\ SameStream(v, d) /\ SameSend(v, d) /\ SameState(v, d)
  BY <1>1, <1>7, AckIs DEF Waiting, Flow
<1>9. R(v) = R(d) /\ v.ooseq = d.ooseq /\ v.got_fin = d.got_fin
  BY <1>8, StreamSame DEF SameStream
<1>10. Ready(v)
  BY <1>7, <1>8, <1>9 DEF Ready, Waiting
<1>11. SameSend(v, w) /\ v.state \in {w.state, "CLOSE_WAIT"}
  BY <1>2, <1>5, <1>7, <1>8 DEF Entered, SameSend, SameState
<1> QED
  BY <1>10, <1>11

(***************************************************************************)
(* The text that is next, what the queue has of it and what it frees.      *)
(***************************************************************************)
LEMMA InSequenceIs ==
  ASSUME Numbered, NEW w, Ready(w), ~ w.got_fin, NEW s, Piece(s), A(s) = R(w),
         NEW v, v = InSequence(w, s)
  PROVE  Ready(v) /\ SameSend(v, w) /\ v.state \in {w.state, "CLOSE_WAIT"}
<1>1. /\ Flow(w) /\ Ordered(w.ooseq) /\ From(w.ooseq, R(w)) /\ From(w.ooseq, R(w) + 1)
      /\ Ordered(<< >>) /\ s.fin \in BOOLEAN /\ R(w) \in Int /\ Z(s) \in Int
  <2>1. Flow(w) /\ Ordered(w.ooseq) /\ From(w.ooseq, R(w)) /\ From(w.ooseq, R(w) + 1)
    BY DEF Ready, Waiting
  <2>2. R(w) \in 1 .. N + 2 /\ N \in Nat
    BY <2>1, FlowIs, PieceTop
  <2>3. Ordered(<< >>)
    BY OrderedOne
  <2>4. s.fin \in BOOLEAN /\ Z(s) \in 1 .. N + 1
    BY PieceIs
  <2> QED
    BY <2>1, <2>2, <2>3, <2>4
<1>2. CASE s.fin
  <2>1. From(<< >>, Z(s))
    BY DEF From
  <2> QED
    BY <1>1, <1>2, <2>1, EnterIs DEF InSequence
<1>3. CASE ~ s.fin
  <2>1. PICK q, u, c : /\ q = w.ooseq /\ u = Uncovered(s, q, End(s))
                       /\ c = CutBefore(u.seg, u.rest, End(s)) /\ v = Enter(w, c, u.rest)
    BY <1>3 DEF InSequence, EnterInFront
  <2>2. q # << >> => A(s) < A(q[1])
    <3>1. q \in Seq(Segments) /\ (q # << >> => 1 \in 1 .. Len(q))
      BY <1>1, <2>1 DEF Ordered
    <3>2. q # << >> => A(q[1]) \in Int /\ R(w) + 1 <= A(q[1])
      BY <1>1, <2>1, <3>1, PieceIs DEF Ordered, From
    <3> QED
      BY <1>1, <3>2
  <2>3. /\ Piece(c) /\ A(c) = A(s) /\ Ordered(u.rest) /\ From(u.rest, Z(c))
        /\ c.fin => u.rest = << >>
    BY <1>1, <1>3, <2>1, <2>2, UncoveredIs
  <2> QED
    BY <1>1, <2>1, <2>3, EnterIs
<1> QED
  BY <1>1, <1>2, <1>3

(***************************************************************************)
(* A part of s received before is cut off, and s is a piece still.         *)
(***************************************************************************)
LEMMA FirstEdgeIs ==
  ASSUME Numbered, NEW w, Flow(w), ~ w.got_fin, NEW s, Piece(s), NEW v, v = FirstEdge(w, s)
  PROVE  Piece(v)
<1>1. CASE ~ IsOld(w, s)
  BY <1>1 DEF FirstEdge
<1>2. CASE IsOld(w, s)
  <2>1. PICK a \in 1 .. N + 1, r \in 1 .. N + 2, l \in Nat, f \in {0, 1} :
          /\ a = A(s) /\ r = R(w) /\ l = s.len /\ f = Flag(s.fin)
          /\ s.seq = Base + a /\ w.rcv_nxt = Base + r /\ TCP_TCPLEN(s) = l + f
          /\ l + f \in 1 .. N + 2 /\ a + l \in 1 .. N + 1 /\ (l = 0 => f = 1)
          /\ (f = 1 <=> s.fin) /\ s.len \in Nat
    <3>1. /\ A(s) \in 1 .. N + 1 /\ s.len \in Nat /\ s.seq = Base + A(s)
          /\ TCP_TCPLEN(s) = s.len + Flag(s.fin) /\ TCP_TCPLEN(s) \in 1 .. N + 2
          /\ Z(s) \in 1 .. N + 1 /\ Z(s) = A(s) + s.len /\ s.fin \in BOOLEAN
      BY PieceIs
    <3>2. R(w) \in 1 .. N + 2 /\ w.rcv_nxt = Base + R(w)
      BY FlowIs
    <3>3. Flag(s.fin) \in {0, 1} /\ (Flag(s.fin) = 1 <=> s.fin)
      BY <3>1 DEF Flag
    <3>4. s.len = 0 => Flag(s.fin) = 1
      BY <3>1, <3>3
    <3> QED
      BY <3>1, <3>2, <3>3, <3>4
  <2>2. Base \in Int /\ N \in Nat /\ Top \in Nat /\ N + 2 <= Top
    BY Places, Sizes DEF Numbered, Top
  <2>3. PICK b \in 0 .. Top, c \in 0 .. Top, p \in 0 .. Top, i \in 0 .. Top :
          b = a + 1 /\ c = a + l + f - 1 /\ p = r /\ i = a
    BY <2>1, <2>2
  <2>4. s.seq + 1 = Base + b /\ s.seq + TCP_TCPLEN(s) - 1 = Base + c
    BY <2>1, <2>2, <2>3
  <2>5. b <= p /\ p <= c
    <3>1. TCP_SEQ_GEQ(Base + p, Base + b) /\ TCP_SEQ_GEQ(Base + c, Base + p)
      BY <1>2, <2>1, <2>3, <2>4 DEF IsOld, TCP_SEQ_BETWEEN
    <3> QED
      BY <3>1, PlacesCompare
  <2>6. Diff(w.rcv_nxt, s.seq) = r - a
    <3>1. Diff(Base + p, Base + i) = p - i
      BY <2>3, <2>5, <2>2, PlacesCompare
    <3> QED
      BY <2>1, <2>3, <3>1
  <2>7. r - a \in 0 .. s.len /\ (r - a < s.len \/ s.fin)
    BY <2>1, <2>3, <2>5
  <2>8. v = Skip(s, r - a)
    BY <1>2, <2>6 DEF FirstEdge
  <2> QED
    BY <2>7, <2>8, SkipIs
<1> QED
  BY <1>1, <1>2

(***************************************************************************)
(* The text of a segment that begins in the window.                        *)
(***************************************************************************)
LEMMA InWindowIs ==
  ASSUME Numbered, NEW w, Flow(w), NEW s, Piece(s), InWindow(w, s.seq)
  PROVE  R(w) <= A(s)
<1>1. /\ R(w) \in 0 .. Top /\ A(s) \in 0 .. Top /\ s.seq = Base + A(s)
      /\ w.rcv_nxt = Base + R(w)
  BY FlowIs, PieceIs, PieceTop
<1>2. TCP_SEQ_GEQ(Base + A(s), Base + R(w))
  BY <1>1 DEF InWindow, TCP_SEQ_BETWEEN
<1> QED
  BY <1>1, <1>2, PlacesCompare

(***************************************************************************)
(* tcp_receive puts the text of a piece in its place.                      *)
(***************************************************************************)
LEMMA PlaceIs ==
  ASSUME Numbered, NEW w, Ready(w), ~ w.got_fin, NEW s, Piece(s), NEW v, v = Place(w, s)
  PROVE  Ready(v) /\ SameSend(v, w) /\ v.state \in {w.state, "CLOSE_WAIT"}
<1>1. /\ Flow(w) /\ Ordered(w.ooseq) /\ From(w.ooseq, R(w)) /\ From(w.ooseq, R(w) + 1)
      /\ w \in Pcb
  BY DEF Ready, Waiting, Flow
<1>2. PICK u : u = send_empty_ack(w)
  OBVIOUS
<1>3. /\ Flow(u) /\ SameStream(u, w) /\ SameSend(u, w) /\ SameState(u, w)
      /\ R(u) = R(w) /\ u.ooseq = w.ooseq /\ u.got_fin = w.got_fin /\ Ready(u)
  <2>1. Flow(u) /\ SameStream(u, w) /\ SameSend(u, w) /\ SameState(u, w)
    BY <1>1, <1>2, AnnounceIs DEF send_empty_ack
  <2>2. R(u) = R(w) /\ u.ooseq = w.ooseq /\ u.got_fin = w.got_fin
    BY <2>1, StreamSame DEF SameStream
  <2> QED
    BY <1>1, <2>1, <2>2 DEF Ready, Waiting
<1>4. CASE ~ InWindow(w, s.seq)
  BY <1>2, <1>3, <1>4 DEF Place, SameState
<1>5. /\ R(w) \in 1 .. N + 2 /\ A(s) \in 1 .. N + 1 /\ N \in Nat
      /\ s.seq = Base + A(s) /\ w.rcv_nxt = Base + R(w) /\ Base \in Int
  BY <1>1, FlowIs, PieceIs, PieceTop
<1>6. CASE InWindow(w, s.seq) /\ s.seq = w.rcv_nxt
  <2>1. A(s) = R(w)
    BY <1>5, <1>6
  <2>2. v = InSequence(w, s)
    BY <1>1, <1>6, <2>1, FittingIs DEF Place
  <2> QED
    BY <2>1, <2>2, InSequenceIs
<1>7. CASE InWindow(w, s.seq) /\ s.seq # w.rcv_nxt
  <2>1. R(w) <= A(s)
    BY <1>1, <1>7, InWindowIs
  <2>2. PICK x \in 1 .. N + 1 : x = R(w) + 1 /\ x <= A(s)
    BY <1>5, <1>7, <2>1
  <2>3. v = Enqueue(u, s)
    BY <1>2, <1>7 DEF Place
  <2>4. CutToWindow(s, u) = s
    BY <1>3, CutToWindowIs
  <2>5. PICK p : v = [u EXCEPT !.ooseq = p] /\ Ordered(p) /\ From(p, x)
    BY <1>1, <1>3, <2>2, <2>3, <2>4, EnqueueIs
  <2>6. u \in Pcb /\ p \in Seq(Segments)
    BY <1>3, <2>5 DEF Flow, Ordered
  <2>7. v = With(u, p, u.state)
    BY <2>5, <2>6 DEF With, Pcb
  <2>8. /\ Flow(v) /\ R(v) = R(u) /\ v.got_fin = u.got_fin /\ v.ooseq = p
        /\ v.state = u.state /\ SameSend(v, u)
    BY <1>3, <2>6, <2>7, QueueIs
  <2>9. From(p, R(v)) /\ From(p, R(v) + 1)
    <3>1. \A i \in 1 .. Len(p) : A(p[i]) \in Int
      BY <1>5, <2>5, PieceIs DEF Ordered
    <3>2. PICK r \in Int : r = R(w) /\ r = R(v) /\ x = r + 1
      BY <1>3, <1>5, <2>2, <2>8
    <3>3. \A i \in 1 .. Len(p) : r + 1 <= A(p[i]) /\ r <= A(p[i])
      BY <2>5, <3>1, <3>2 DEF From
    <3> QED
      BY <3>2, <3>3 DEF From
  <2>10. Ready(v)
    BY <1>3, <2>5, <2>8, <2>9 DEF Ready, Waiting
  <2> QED
    BY <1>3, <2>8, <2>10 DEF SameSend, SameState
<1> QED
  BY <1>4, <1>6, <1>7

\* An acknowledgement or a probe: a segment without text.
Blank(s) == s \in Segments /\ ~ s.syn /\ ~ s.fin /\ ~ s.rst /\ s.len = 0

\* tcp_process leaves CLOSE_WAIT to the end of what was received.
Settled(w) == w.state = IF w.got_fin THEN "CLOSE_WAIT" ELSE "ESTABLISHED"

(***************************************************************************)
(* A segment without text takes no number.                                 *)
(***************************************************************************)
LEMMA BlankIs ==
  ASSUME NEW s, Blank(s)
  PROVE  TCP_TCPLEN(s) = 0
BY DEF Blank, TCP_TCPLEN, Flag

(***************************************************************************)
(* What is ready stays so if nothing of the stream is changed.             *)
(***************************************************************************)
LEMMA ReadySame ==
  ASSUME NEW w, Ready(w), NEW v, Flow(v), SameStream(v, w)
  PROVE  Ready(v) /\ v.got_fin = w.got_fin /\ R(v) = R(w)
<1>1. R(v) = R(w) /\ v.ooseq = w.ooseq /\ v.got_fin = w.got_fin
  BY StreamSame DEF SameStream
<1> QED
  BY <1>1 DEF Ready, Waiting

(***************************************************************************)
(* tcp_receive, for whatever the peer sends.                               *)
(***************************************************************************)
LEMMA ReceiveTextIs ==
  ASSUME Numbered, NEW w, Ready(w), ~ w.got_fin, w.state = "ESTABLISHED",
         NEW s, Piece(s) \/ Blank(s), NEW v, v = ReceiveText(w, s)
  PROVE  Ready(v) /\ v.state \in {w.state, "CLOSE_WAIT"}
<1>1. w \in Pcb /\ Flow(w)
  BY DEF Ready, Waiting, Flow
<1>2. ASSUME NEW u, u = w \/ u = ack_now(w)
      PROVE  Ready(u) /\ u.state = w.state /\ ~ u.got_fin
  <2>1. CASE u = ack_now(w)
    <3>1. Flow(u) /\ SameStream(u, w) /\ SameState(u, w)
      BY <1>1, <2>1, AckIs
    <3> QED
      BY <3>1, ReadySame DEF SameState
  <2> QED
    BY <1>2, <2>1
<1>3. CASE Blank(s)
  <2>1. v = w \/ v = ack_now(w)
    BY <1>3, BlankIs DEF ReceiveText
  <2> QED
    BY <1>2, <2>1
<1>4. CASE Piece(s)
  <2>1. PICK u, t : u = Duplicate(w, s) /\ t = FirstEdge(w, s)
    OBVIOUS
  <2>2. Ready(u) /\ u.state = w.state /\ ~ u.got_fin
    BY <1>2, <2>1 DEF Duplicate
  <2>3. Piece(t)
    BY <1>1, <1>4, <2>1, FirstEdgeIs
  <2>4. TCP_TCPLEN(s) > 0
    BY <1>4, PieceIs, PieceTop
  <2>5. v = Place(u, t)
    BY <2>1, <2>4 DEF ReceiveText
  <2> QED
    BY <2>2, <2>3, <2>5, PlaceIs
<1> QED
  BY <1>3, <1>4

(***************************************************************************)
(* tcp_receive, with the acknowledgement and the FIN.                      *)
(***************************************************************************)
LEMMA ReceiveIs ==
  ASSUME Numbered, NEW w, Ready(w), ~ w.got_fin, w.state = "ESTABLISHED", w.unsent = None,
         NEW s, Piece(s) \/ Blank(s), NEW v, v = AfterReceive(receive(w, s))
  PROVE  Ready(v) /\ Settled(v)
<1>1. PICK u, x : u = Acknowledged(w, s) /\ x = ReceiveText(u, s) /\ v = AfterReceive(x)
  BY DEF receive
<1>2. w \in Pcb /\ Flow(w) /\ Send(w) /\ s \in Segments
  BY DEF Ready, Waiting, Flow, Piece, Blank
<1>3. u \in Pcb /\ SameStream(u, w) /\ SameOffer(u, w) /\ SameState(u, w) /\ Send(u)
  BY <1>1, <1>2, AcknowledgedIs
<1>4. Flow(u)
  <2>1. R(u) = R(w) /\ u.rcv_wnd = w.rcv_wnd
    BY <1>3, StreamSame DEF SameStream
  <2>2. Offer(u)
    BY <1>2, <1>3, <2>1, OfferSame DEF Flow
  <2> QED
    BY <1>2, <1>3, <2>2, FlowSame
<1>5. Ready(u) /\ ~ u.got_fin /\ u.state = "ESTABLISHED"
  BY <1>3, <1>4, ReadySame DEF SameState
<1>6. Ready(x) /\ x.state \in {"ESTABLISHED", "CLOSE_WAIT"}
  BY <1>1, <1>5, ReceiveTextIs
<1>7. x \in Pcb /\ Flow(x) /\ x.got_fin \in BOOLEAN
  BY <1>6 DEF Ready, Waiting, Flow, Pcb
<1>8. CASE ~ x.got_fin
  <2>1. v = x /\ x.state # "CLOSE_WAIT"
    BY <1>1, <1>7, <1>8 DEF AfterReceive, Flow
  <2> QED
    BY <1>6, <1>8, <2>1 DEF Settled
<1>9. CASE x.got_fin
  <2>1. PICK y : y = ack_now(x) /\ v = [y EXCEPT !.state = "CLOSE_WAIT"]
    BY <1>1, <1>9 DEF AfterReceive
  <2>2. Flow(y) /\ SameStream(y, x)
    BY <1>7, <2>1, AckIs
  <2>3. Ready(y) /\ y.got_fin /\ y \in Pcb
    BY <1>6, <1>9, <2>2, ReadySame DEF Flow
  <2>4. PICK q \in Seq(Segments) : q = y.ooseq
    BY <2>3 DEF Pcb
  <2>5. v = With(y, q, "CLOSE_WAIT")
    BY <2>1, <2>3, <2>4 DEF With, Pcb
  <2>6. Flow(v) /\ R(v) = R(y) /\ v.got_fin = y.got_fin /\ v.ooseq = q
        /\ v.state = "CLOSE_WAIT"
    <3>1. PICK t : t = "CLOSE_WAIT"
      OBVIOUS
    <3>2. t = y.state \/ (t = "CLOSE_WAIT" /\ y.got_fin)
      BY <2>3, <3>1
    <3>3. v = With(y, q, t)
      BY <2>5, <3>1
    <3> QED
      BY <2>2, <3>1, <3>2, <3>3, QueueIs
  <2> QED
    BY <2>3, <2>4, <2>6 DEF Ready, Waiting, Settled
<1> QED
  BY <1>8, <1>9

(***************************************************************************)
(* What the counter of seq_recv_callback makes of a number of bytes.       *)
(***************************************************************************)
LEMMA CountedIs ==
  ASSUME NEW x \in Nat, NEW j \in BOOLEAN, j <=> x >= U8
  PROVE  Counted(x) \in 0 .. x /\ Skipping(x, Counted(x), j)
<1>1. PICK S \in Nat \ {0} : S = U8
  BY TcpAssumption
<1>2. CASE server = "seq"
  <2>1. PICK m \in Nat, k \in Nat : m = x % S /\ k = x \div S /\ m < S /\ x = m + k * S
    <3>1. x = S * (x \div S) + (x % S) /\ x % S \in 0 .. S - 1 /\ x \div S \in Nat
      OBVIOUS
    <3> QED
      BY <3>1
  <2>2. k * S \in Nat /\ (k > 0 => k * S >= S) /\ (k = 0 => k * S = 0)
    BY <2>1
  <2>3. m \in 0 .. x /\ (k > 0 <=> x >= S)
    BY <2>1, <2>2
  <2>4. m = Counted(x)
    BY <1>1, <1>2, <2>1 DEF Counted
  <2> QED
    BY <1>1, <1>2, <2>1, <2>3, <2>4 DEF Skipping
<1>3. CASE server # "seq"
  <2>1. Counted(x) = x /\ x = x + 0 * S
    BY <1>3 DEF Counted
  <2> QED
    BY <1>1, <1>3, <2>1 DEF Skipping
<1> QED
  BY <1>2, <1>3

(***************************************************************************)
(* Of no data nothing is skipped.                                          *)
(***************************************************************************)
LEMMA SkippingNone == Skipping(0, 0, FALSE)
<1>1. U8 \in Nat /\ 0 = 0 + 0 * U8
  BY TcpAssumption
<1> QED
  BY <1>1 DEF Skipping

(***************************************************************************)
(* The callback is given the pending data, and returns to the window no    *)
(* more than it was given.                                                 *)
(***************************************************************************)
LEMMA DeliverIs ==
  ASSUME Numbered, NEW w, Flow(w), NEW v, v = Deliver(w, w.recv_data, w.p_len)
  PROVE  /\ Flow(v) /\ v.ooseq = w.ooseq /\ R(v) = R(w) /\ v.got_fin = w.got_fin
         /\ SameState(v, w) /\ v.recv_data = << >> /\ v.p_len = 0
<1>1. /\ w \in Pcb /\ w.recv_data \in Seq(Nat) /\ w.delivered \in Seq(Nat)
      /\ w.p_len \in Nat /\ w.chained \in Nat /\ w.taken \in Nat /\ w.long \in BOOLEAN
      /\ w.rcv_wnd \in 0 .. TCP_WND
  BY DEF Flow, Pcb
<1>2. PICK D \in Nat, x \in Nat, p \in Nat, o \in Nat, c \in Nat, t \in Nat, f \in {0, 1} :
        /\ D = Len(w.delivered) /\ x = Len(w.recv_data) /\ p = w.p_len /\ o = w.rcv_wnd
        /\ c = w.chained /\ t = w.taken /\ f = Flag(w.got_fin)
  <2>1. Flag(w.got_fin) \in {0, 1}
    BY DEF Flag
  <2>2. Len(w.delivered) \in Nat /\ Len(w.recv_data) \in Nat /\ w.rcv_wnd \in Nat
    BY <1>1, Sizes
  <2> QED
    BY <1>1, <2>1, <2>2
<1>3. /\ o + x + f + Lost(w) = TCP_WND /\ p <= x /\ c <= D /\ t <= D
      /\ (c = 0 => Skipping(D, t, w.long)) /\ D + x <= N
      /\ TCP_WND \in Nat /\ N \in Nat
  BY <1>2, Sizes DEF Flow, Count, History, Stream
<1>4. server \in {"seq", "data"} /\ Lost(w) = IF server = "data" THEN c ELSE 0
  BY <1>2 DEF Numbered, Lost
<1>5. PICK n \in Nat : n = Returned(x, p) /\ n = (IF server = "seq" THEN x ELSE p)
  BY DEF Returned
<1>6. o + n <= TCP_WND /\ n <= x
  BY <1>3, <1>4, <1>5
<1>7. PICK u : u = recved(w, n)
  OBVIOUS
<1>8. PICK a \in 0 .. o + n, b \in BOOLEAN :
        /\ u = [w EXCEPT !.rcv_wnd = o + n, !.ann_wnd = a, !.now = b]
        /\ E(w) <= R(w) + a
  BY <1>2, <1>6, <1>7, RecvedIs, ZenonT(30)
<1>9. PICK d \in 0 .. TCP_WND, e \in 0 .. TCP_WND : d = o + n /\ e = a
  BY <1>3, <1>6
<1>10. PICK k \in Nat : /\ k = Smaller(p, Counted(x)) /\ k <= p
                        /\ p = x => k = Counted(x)
  <2>1. PICK m \in Nat : m = Counted(x) /\ m <= x
    <3>1. PICK b0 \in BOOLEAN : b0 <=> x >= U8
      OBVIOUS
    <3> QED
      BY <3>1, CountedIs
  <2> QED
    BY <1>3, <2>1 DEF Smaller
<1>11. PICK g \in BOOLEAN, j \in BOOLEAN : (g <=> w.long \/ j) /\ (j <=> x >= U8)
  OBVIOUS
<1>12. PICK y \in Seq(Nat) : y = w.delivered \o w.recv_data
  <2>1. w.delivered \o w.recv_data \in Seq(Nat)
    BY <1>1
  <2> QED
    BY <2>1
<1>13. PICK h \in Nat, i \in Nat : h = c + x - p /\ i = t + k
  BY <1>3
<1>14. /\ u = [w EXCEPT !.rcv_wnd = d, !.ann_wnd = e, !.now = b]
       /\ v = [u EXCEPT !.delivered = y, !.chained = h, !.long = g, !.taken = i,
                        !.recv_data = << >>, !.p_len = 0]
  <2>1. /\ u.delivered = w.delivered /\ u.chained = c /\ u.taken = t /\ u.long = w.long
    BY <1>1, <1>2, <1>8 DEF Pcb
  <2>2. v = [u EXCEPT !.delivered = u.delivered \o w.recv_data,
                      !.chained = u.chained + x - p,
                      !.long = (u.long \/ x >= U8),
                      !.taken = u.taken + Smaller(p, Counted(x)),
                      !.recv_data = << >>, !.p_len = 0]
    BY <1>2, <1>5, <1>7 DEF Deliver
  <2>3. v = [u EXCEPT !.delivered = y, !.chained = h, !.long = (u.long \/ x >= U8),
                      !.taken = i, !.recv_data = << >>, !.p_len = 0]
    BY <1>10, <1>12, <1>13, <2>1, <2>2
  <2>4. (u.long \/ x >= U8) = g
    BY <1>1, <1>11, <2>1
  <2>5. v = [u EXCEPT !.delivered = y, !.chained = h, !.long = g,
                      !.taken = i, !.recv_data = << >>, !.p_len = 0]
    BY <2>3, <2>4
  <2> QED
    BY <1>8, <1>9, <2>5
<1>15. /\ v \in Pcb /\ v.rcv_wnd = d /\ v.ann_wnd = e /\ v.delivered = y
       /\ v.chained = h /\ v.taken = i /\ v.long = g /\ v.recv_data = << >> /\ v.p_len = 0
       /\ v.rcv_nxt = w.rcv_nxt /\ v.right_edge = w.right_edge /\ v.ooseq = w.ooseq
       /\ v.got_fin = w.got_fin /\ v.out = w.out /\ SameState(v, w) /\ SameSend(v, w)
  <2>1. u \in Pcb
    BY <1>1, <1>14 DEF Pcb
  <2>2. PICK r \in Seq(Nat), l \in Nat : r = << >> /\ l = 0
    <3>1. << >> \in Seq(Nat) /\ 0 \in Nat
      OBVIOUS
    <3> QED
      BY <3>1
  <2>3. v = [u EXCEPT !.delivered = y, !.chained = h, !.long = g, !.taken = i,
                      !.recv_data = r, !.p_len = l]
    BY <1>14, <2>2
  <2>4. v \in Pcb
    BY <2>1, <2>3, ZenonT(30) DEF Pcb
  <2>5. /\ u.rcv_wnd = d /\ u.ann_wnd = e /\ u.rcv_nxt = w.rcv_nxt
        /\ u.right_edge = w.right_edge /\ u.ooseq = w.ooseq /\ u.got_fin = w.got_fin
        /\ u.out = w.out /\ SameState(u, w) /\ SameSend(u, w)
    <3>1. /\ u.rcv_wnd = d /\ u.ann_wnd = e /\ u.rcv_nxt = w.rcv_nxt
          /\ u.right_edge = w.right_edge /\ u.ooseq = w.ooseq
          /\ u.got_fin = w.got_fin /\ u.out = w.out
      BY <1>1, <1>14 DEF Pcb
    <3>2. SameState(u, w) /\ SameSend(u, w)
      BY <1>1, <1>14 DEF Pcb, SameState, SameSend
    <3> QED
      BY <3>1, <3>2
  <2>6. /\ v.rcv_wnd = u.rcv_wnd /\ v.ann_wnd = u.ann_wnd /\ v.rcv_nxt = u.rcv_nxt
        /\ v.right_edge = u.right_edge /\ v.ooseq = u.ooseq /\ v.got_fin = u.got_fin
        /\ v.out = u.out /\ SameState(v, u) /\ SameSend(v, u)
    <3>1. /\ v.rcv_wnd = u.rcv_wnd /\ v.ann_wnd = u.ann_wnd /\ v.rcv_nxt = u.rcv_nxt
          /\ v.right_edge = u.right_edge /\ v.ooseq = u.ooseq
          /\ v.got_fin = u.got_fin /\ v.out = u.out
      BY <2>1, <2>3 DEF Pcb
    <3>2. SameState(v, u) /\ SameSend(v, u)
      BY <2>1, <2>3 DEF Pcb, SameState, SameSend
    <3> QED
      BY <3>1, <3>2
  <2>7. /\ v.delivered = y /\ v.chained = h /\ v.taken = i /\ v.long = g
        /\ v.recv_data = << >> /\ v.p_len = 0
    <3>1. /\ v.delivered = y /\ v.chained = h /\ v.taken = i /\ v.long = g
          /\ v.recv_data = r /\ v.p_len = l
      BY <2>1, <2>3 DEF Pcb
    <3> QED
      BY <2>2, <3>1
  <2> QED
    BY <2>4, <2>5, <2>6, <2>7 DEF SameState, SameSend
<1>16. R(v) = R(w) /\ E(v) = E(w) /\ Flag(v.got_fin) = f
  BY <1>2, <1>15 DEF R, E
<1>17. Len(y) = D + x /\ BytesBehind(y, 0)
  <2>1. BytesBehind(w.delivered, 0) /\ BytesBehind(w.recv_data, D)
    BY <1>2 DEF Flow, Stream
  <2>2. \A at \in 1 .. Len(w.recv_data) : w.recv_data[at] = 0 + Len(w.delivered) + at
    BY <1>2, <2>1 DEF BytesBehind
  <2> QED
    BY <1>1, <1>2, <1>12, <2>1, <2>2, JoinBytes
<1>18. Stream(v)
  <2>1. /\ R(w) = D + x + 1 + f /\ (w.got_fin => D + x = N) /\ R(w) <= sent + 1
        /\ Heard(R(w))
    BY <1>2 DEF Flow, Stream
  <2>2. PICK z \in Nat : z = D + x
    OBVIOUS
  <2>3. Len(v.recv_data) = 0 /\ BytesBehind(v.recv_data, z) /\ Len(v.delivered) = z
    BY <1>15, <1>17, <2>2 DEF BytesBehind
  <2>4. z + 0 = z
    OBVIOUS
  <2> QED
    BY <1>3, <1>15, <1>16, <1>17, <2>1, <2>2, <2>3, <2>4 DEF Stream
<1>19. History(v)
  <2>1. h <= D + x /\ i <= D + x
    BY <1>3, <1>10, <1>13
  <2>2. ASSUME h = 0
        PROVE  Skipping(D + x, i, g)
    <3>1. c = 0 /\ p = x
      BY <1>3, <1>13, <2>2
    <3>2. Skipping(D, t, w.long)
      BY <1>3, <3>1
    <3>3. Skipping(x, k, j)
      BY <1>10, <1>11, <3>1, CountedIs
    <3>4. PICK q \in Nat : D = t + q * U8 /\ (q > 0 <=> server = "seq" /\ w.long)
      BY <3>2 DEF Skipping
    <3>5. PICK l \in Nat : x = k + l * U8 /\ (l > 0 <=> server = "seq" /\ j)
      BY <3>3 DEF Skipping
    <3>6. PICK z \in Nat : D + x = (t + k) + z * U8 /\ (z > 0 <=> q > 0 \/ l > 0)
      <4>1. PICK S \in Nat, m \in Nat : S = U8 /\ m = q + l
        BY TcpAssumption
      <4>2. (q + l) * S = q * S + l * S /\ q * S \in Nat /\ l * S \in Nat
        OBVIOUS
      <4>3. D = t + q * S /\ x = k + l * S
        BY <3>4, <3>5, <4>1
      <4>4. D + x = (t + k) + m * S
        BY <4>1, <4>2, <4>3
      <4>5. m > 0 <=> q > 0 \/ l > 0
        BY <4>1
      <4> QED
        BY <4>1, <4>4, <4>5
    <3>7. z > 0 <=> server = "seq" /\ g
      BY <1>11, <3>4, <3>5, <3>6
    <3>8. i = t + k
      BY <1>13
    <3> QED
      BY <3>6, <3>7, <3>8 DEF Skipping
  <2> QED
    BY <1>15, <1>17, <2>1, <2>2 DEF History
<1>20. Count(v)
  <2>1. Lost(v) = IF server = "data" THEN h ELSE 0
    BY <1>15 DEF Lost
  <2>2. d + 0 + f + Lost(v) = TCP_WND
    BY <1>3, <1>4, <1>5, <1>9, <1>13, <2>1
  <2> QED
    BY <1>15, <1>16, <1>19, <2>2 DEF Count
<1>21. Offer(v) /\ Send(v)
  BY <1>8, <1>9, <1>15, <1>16 DEF Flow, Offer, Send, SameSend
<1> QED
  BY <1>15, <1>16, <1>18, <1>20, <1>21 DEF Flow, SameState

\* Nothing is left to be sent.
Quiet(w) == ~ w.now /\ w.unsent = None

\* Nothing is left for a callback.
Passed(w) == w.recv_data = << >> /\ w.p_len = 0 /\ ~ w.got_fin

\* What the peer has been told is received, or is now, the callbacks have seen.
Told(w) ==
  /\ Smaller(una - 1, N) <= Len(w.delivered)
  /\ reply.kind # None => Smaller(Acks(reply) - 1, N) <= Len(w.delivered)
  /\ w.out.kind # None =>
       Acks(w.out) \in 1 .. N + 2 /\ Smaller(Acks(w.out) - 1, N) <= Len(w.delivered)

\* The pcb of an open connection, of one that waits for the acknowledgement of
\* its FIN, and a pcb that has been freed.
Open(w) == Ready(w) /\ Passed(w) /\ w.state \in {"SYN_RCVD", "ESTABLISHED"}

Closing(w) ==
  /\ w \in Pcb /\ Passed(w) /\ Send(w) /\ w.state = "LAST_ACK" /\ w.ending = None
  /\ w.ooseq = << >> /\ R(w) = N + 2
  /\ E(w) \in 1 .. Top /\ E(w) <= R(w) + w.ann_wnd
  /\ BytesBehind(w.delivered, 0) /\ Len(w.delivered) = N /\ History(w) /\ Lost(w) = 0
  /\ Told(w)

Ended(w) ==
  /\ w \in Pcb /\ Passed(w) /\ Send(w) /\ Quiet(w) /\ w.state = "FREED" /\ w.ooseq = << >>
  /\ R(w) = 1 /\ w.ending # None
  /\ BytesBehind(w.delivered, 0) /\ Len(w.delivered) <= N /\ History(w)
  /\ w.ending # "reset_by_peer" => Len(w.delivered) = N
  /\ w.ending = "reset_sent" => Lost(w) > 0
  /\ w.ending = "closed" => Lost(w) = 0
  /\ Told(w)

(***************************************************************************)
(* With the last byte delivered the peer can have been told nothing that   *)
(* the callbacks have not seen.                                            *)
(***************************************************************************)
LEMMA ToldAll ==
  ASSUME Numbered, NEW w, Len(w.delivered) = N,
         w.out.kind # None => Acks(w.out) \in 1 .. N + 2
  PROVE  Told(w)
<1>1. ASSUME NEW x \in Int
      PROVE  Smaller(x, N) <= N
  BY PieceTop DEF Smaller
<1>2. /\ una - 1 \in Int /\ Acks(reply) - 1 \in Int
      /\ w.out.kind # None => Acks(w.out) - 1 \in Int
  BY Places DEF Numbered, Acks
<1> QED
  BY <1>1, <1>2 DEF Told

(***************************************************************************)
(* The pcb before a connection, and the one that is set up for the SYN.    *)
(***************************************************************************)
LEMMA FreshIs ==
  ASSUME NoWrap
  PROVE  /\ Fresh(Syn) \in Pcb /\ Idle \in Pcb
         /\ Fresh(Syn) =
              [state |-> "SYN_RCVD", rcv_nxt |-> Base + 1, rcv_wnd |-> TCP_WND,
               ann_wnd |-> TCP_WND, right_edge |-> Base + 1, delay |-> FALSE, now |-> FALSE,
               ooseq |-> << >>, lastack |-> 0, snd_nxt |-> 0, unsent |-> "SYN",
               unacked |-> None, dupacks |-> 0, infr |-> FALSE, recv_data |-> << >>,
               p_len |-> 0, got_fin |-> FALSE, out |-> NoReply, delivered |-> << >>,
               chained |-> 0, taken |-> 0, long |-> FALSE, ending |-> None]
         /\ Idle = [Fresh(Syn) EXCEPT !.state = "LISTEN", !.unsent = None]
         /\ R(Idle) = 1 /\ E(Idle) = 1
<1>1. /\ Base \in Int /\ Base >= -1 /\ Base + Top < SeqSpace /\ Top \in Nat /\ Top >= 1
      /\ SeqSpace \in Nat /\ ISN \in 0 .. SeqSpace - 1 /\ TCP_WND \in Nat
  BY Places, Sizes DEF Top
<1>2. Num(0) = ISN
  <2>1. PICK i \in Int : i = ISN /\ 0 <= i /\ i < SeqSpace
    BY <1>1
  <2>2. ISN + 0 = i
    BY <2>1
  <2> QED
    BY <2>1, <2>2, Reduced DEF Num
<1>3. (Num(0) + 1) % SeqSpace = Base + 1
  BY <1>1, <1>2 DEF Base, Num
<1>4. Syn.seq = Num(0)
  BY DEF Syn, Segment
<1>5. PICK m \in Numbers : m = Base + 1
  BY <1>1 DEF Numbers
<1>6. Fresh(Syn) =
        [state |-> "SYN_RCVD", rcv_nxt |-> m, rcv_wnd |-> TCP_WND,
         ann_wnd |-> TCP_WND, right_edge |-> m, delay |-> FALSE, now |-> FALSE,
         ooseq |-> << >>, lastack |-> 0, snd_nxt |-> 0, unsent |-> "SYN",
         unacked |-> None, dupacks |-> 0, infr |-> FALSE, recv_data |-> << >>,
         p_len |-> 0, got_fin |-> FALSE, out |-> NoReply, delivered |-> << >>,
         chained |-> 0, taken |-> 0, long |-> FALSE, ending |-> None]
  BY <1>3, <1>4, <1>5 DEF Fresh
<1>7. Fresh(Syn) \in Pcb
  <2>1. PICK f \in BOOLEAN : f = FALSE
    BY Zenon
  <2>2. PICK q \in Seq(Segments), d \in Seq(Nat) : q = << >> /\ d = << >>
    <3>1. << >> \in Seq(Segments) /\ << >> \in Seq(Nat)
      OBVIOUS
    <3> QED
      BY <3>1
  <2>3. PICK o \in Replies, h \in Held, g \in Held : o = NoReply /\ h = None /\ g = "SYN"
    <3>1. 0 \in Numbers /\ 0 \in 0 .. TCP_WND
      BY <1>1 DEF Numbers
    <3>2. NoReply \in Replies /\ None \in Held /\ "SYN" \in Held
      BY <3>1 DEF NoReply, Replies, Held
    <3> QED
      BY <3>2
  <2>4. PICK a \in 0 .. TCP_WND, k \in 0 .. 2, l \in 0 .. 3, n \in Nat :
          a = TCP_WND /\ k = 0 /\ l = 0 /\ n = 0
    BY <1>1
  <2>5. Fresh(Syn) =
        [state |-> "SYN_RCVD", rcv_nxt |-> m, rcv_wnd |-> a,
         ann_wnd |-> a, right_edge |-> m, delay |-> f, now |-> f,
         ooseq |-> q, lastack |-> k, snd_nxt |-> k, unsent |-> g,
         unacked |-> h, dupacks |-> l, infr |-> f, recv_data |-> d,
         p_len |-> n, got_fin |-> f, out |-> o, delivered |-> d,
         chained |-> n, taken |-> n, long |-> f, ending |-> None]
    BY <1>6, <2>1, <2>2, <2>3, <2>4
  <2> QED
    BY <2>5 DEF Pcb
<1>8. Idle = [Fresh(Syn) EXCEPT !.state = "LISTEN", !.unsent = None]
  BY DEF Idle, Syn
<1>9. Idle \in Pcb /\ R(Idle) = 1 /\ E(Idle) = 1
  <2>1. PICK h \in Held : h = None
    BY DEF Held
  <2>2. Idle = [Fresh(Syn) EXCEPT !.state = "LISTEN", !.unsent = h]
    BY <1>8, <2>1
  <2>3. Idle \in Pcb /\ Idle.rcv_nxt = Fresh(Syn).rcv_nxt
        /\ Idle.right_edge = Fresh(Syn).right_edge
    BY <1>7, <2>2 DEF Pcb
  <2>4. Fresh(Syn).rcv_nxt = m /\ Fresh(Syn).right_edge = m
    BY <1>6
  <2> QED
    BY <1>1, <1>5, <2>3, <2>4 DEF R, E
<1> QED
  BY <1>5, <1>6, <1>7, <1>8, <1>9

(***************************************************************************)
(* A freed pcb keeps the history of the callbacks.                         *)
(***************************************************************************)
LEMMA FreedIs ==
  ASSUME NoWrap, NEW w \in Pcb, NEW how \in {"closed", "reset_sent", "reset_by_peer"},
         BytesBehind(w.delivered, 0), Len(w.delivered) <= N, History(w), Told(w),
         how # "reset_by_peer" => Len(w.delivered) = N,
         how = "reset_sent" => Lost(w) > 0, how = "closed" => Lost(w) = 0,
         NEW v, v = Freed(w, how)
  PROVE  Ended(v) /\ v.delivered = w.delivered
<1>1. /\ Idle \in Pcb /\ R(Idle) = 1 /\ Idle.recv_data = << >> /\ Idle.p_len = 0
      /\ Idle.got_fin = FALSE /\ Idle.now = FALSE /\ Idle.unsent = None
      /\ Idle.unacked = None /\ Idle.lastack = 0 /\ Idle.snd_nxt = 0 /\ Idle.ooseq = << >>
  <2>1. Idle \in Pcb /\ R(Idle) = 1
    BY FreshIs
  <2>2. /\ Idle.recv_data = << >> /\ Idle.p_len = 0 /\ Idle.unsent = None
        /\ Idle.unacked = None /\ Idle.lastack = 0 /\ Idle.snd_nxt = 0 /\ Idle.ooseq = << >>
    BY DEF Idle, Fresh
  <2>3. Idle.got_fin = FALSE /\ Idle.now = FALSE
    BY DEF Idle, Fresh
  <2> QED
    BY <2>1, <2>2, <2>3
<1>2. v = [Idle EXCEPT !.state = "FREED", !.delivered = w.delivered, !.chained = w.chained,
             !.taken = w.taken, !.long = w.long, !.out = w.out, !.ending = how]
  BY DEF Freed
<1>3. /\ w.delivered \in Seq(Nat) /\ w.chained \in Nat /\ w.taken \in Nat
      /\ w.long \in BOOLEAN /\ w.out \in Replies
  BY DEF Pcb
<1>4. v \in Pcb
  BY <1>1, <1>2, <1>3, ZenonT(30) DEF Pcb
<1>5. /\ v.state = "FREED" /\ v.delivered = w.delivered /\ v.chained = w.chained
      /\ v.taken = w.taken /\ v.long = w.long /\ v.out = w.out /\ v.ending = how
  BY <1>1, <1>2 DEF Pcb
<1>6. /\ v.rcv_nxt = Idle.rcv_nxt /\ v.recv_data = << >> /\ v.p_len = 0 /\ ~ v.got_fin
      /\ ~ v.now /\ v.unsent = None /\ v.unacked = None /\ v.lastack = 0 /\ v.snd_nxt = 0
      /\ v.ooseq = << >>
  BY <1>1, <1>2 DEF Pcb
<1>7. R(v) = 1
  BY <1>1, <1>6 DEF R
<1>8. History(v) /\ Lost(v) = Lost(w) /\ Told(v)
  BY <1>5 DEF History, Lost, Told
<1>9. Passed(v) /\ Quiet(v) /\ Send(v)
  BY <1>6 DEF Passed, Quiet, Send, None
<1>10. how # None
  BY DEF None
<1> QED
  BY <1>4, <1>5, <1>6, <1>7, <1>8, <1>9, <1>10 DEF Ended

(***************************************************************************)
(* The callback for the FIN: the server closes the connection, with a      *)
(* reset if window has been lost.                                          *)
(***************************************************************************)
LEMMA FinCallbackIs ==
  ASSUME Numbered, NEW w, Ready(w), w.recv_data = << >>, w.p_len = 0,
         NEW v, v = fin_callback(w)
  PROVE  /\ ~ w.got_fin => v = w
         /\ w.got_fin /\ Settled(w)
              => \/ Closing(v) /\ E(pcb) <= E(v)
                 \/ Ended(v)
<1>1. CASE ~ w.got_fin
  BY <1>1 DEF fin_callback
<1>2. CASE w.got_fin /\ Settled(w)
  <2>1. /\ Flow(w) /\ w \in Pcb /\ w.ooseq = << >> /\ w.state = "CLOSE_WAIT"
        /\ w.rcv_wnd \in 0 .. TCP_WND /\ w.chained \in Nat /\ w.ann_wnd \in 0 .. TCP_WND
        /\ w.rcv_nxt \in Numbers /\ w.ending = None
    BY <1>2 DEF Ready, Waiting, Flow, Pcb, Settled
  <2>2. /\ R(w) = N + 2 /\ Len(w.delivered) = N /\ BytesBehind(w.delivered, 0)
        /\ History(w)
    <3>1. R(w) = N + 2
      BY <1>2, <2>1, RIs DEF Flow
    <3>2. Len(w.recv_data) = 0 /\ Len(w.delivered) \in Nat
      BY <2>1 DEF Pcb
    <3>3. Len(w.delivered) + 0 = N
      BY <1>2, <2>1, <3>2 DEF Flow, Stream
    <3> QED
      BY <2>1, <3>1, <3>2, <3>3 DEF Flow, Stream, Count
  <2>3. PICK o \in Nat, d \in 0 .. TCP_WND :
          /\ o = Lost(w) /\ d + o = TCP_WND /\ d = w.rcv_wnd + 1
    <3>1. Flag(w.got_fin) = 1 /\ Len(w.recv_data) = 0
      BY <1>2 DEF Flag
    <3>2. w.rcv_wnd + 0 + 1 + Lost(w) = TCP_WND
      BY <2>1, <3>1 DEF Flow, Count
    <3>3. Lost(w) \in Nat
      BY <2>1 DEF Lost
    <3> QED
      BY <2>1, <3>2, <3>3, Sizes
  <2>4. /\ E(w) \in 1 .. Top /\ E(w) <= R(w) + w.ann_wnd /\ E(pcb) <= E(w)
        /\ Answers(w.out, R(w), E(w)) /\ Send(w)
    BY <2>1 DEF Flow, Offer, Promised
  <2>5. PICK f \in BOOLEAN : f = FALSE
    BY Zenon
  <2>6. PICK u : u = [w EXCEPT !.got_fin = f, !.rcv_wnd = d]
    OBVIOUS
  <2>7. v = tcp_close(u)
    <3>1. w.rcv_wnd # TCP_WND /\ (w.rcv_wnd + 1) % U16 = d
      <4>1. d % U16 = d
        BY ReducedLength, Sizes
      <4> QED
        BY <2>1, <2>3, <4>1, Sizes
    <3> QED
      BY <1>2, <2>5, <2>6, <3>1 DEF fin_callback
  <2>8. /\ u \in Pcb /\ ~ u.got_fin /\ u.rcv_wnd = d /\ u.ooseq = << >>
        /\ u.state = "CLOSE_WAIT"
        /\ u.rcv_nxt = w.rcv_nxt /\ u.ann_wnd = w.ann_wnd /\ u.right_edge = w.right_edge
        /\ u.delivered = w.delivered /\ u.chained = w.chained /\ u.taken = w.taken
        /\ u.long = w.long /\ u.out = w.out /\ u.ending = None /\ SameSend(u, w)
        /\ u.recv_data = << >> /\ u.p_len = 0
    <3>1. u \in Pcb /\ u.got_fin = f
      BY <2>1, <2>6, ZenonT(30) DEF Pcb
    <3>2. /\ u.rcv_wnd = d /\ u.ooseq = << >> /\ u.state = "CLOSE_WAIT"
          /\ u.rcv_nxt = w.rcv_nxt /\ u.ann_wnd = w.ann_wnd
          /\ u.right_edge = w.right_edge
      BY <2>1, <2>5, <2>6 DEF Pcb
    <3>3. /\ u.delivered = w.delivered /\ u.chained = w.chained /\ u.taken = w.taken
          /\ u.long = w.long /\ u.out = w.out /\ u.ending = None
          /\ u.recv_data = << >> /\ u.p_len = 0
      BY <2>1, <2>5, <2>6 DEF Pcb
    <3>4. SameSend(u, w)
      BY <2>1, <2>5, <2>6 DEF Pcb, SameSend
    <3> QED
      BY <2>5, <3>1, <3>2, <3>3, <3>4
  <2>9. CASE o = 0
    <3>1. PICK h \in Held : h = "FIN"
      BY DEF Held
    <3>2. v = [u EXCEPT !.unsent = h, !.state = "LAST_ACK"]
      BY <2>3, <2>7, <2>8, <2>9, <3>1, Sizes DEF tcp_close
    <3>3. /\ v \in Pcb /\ ~ v.got_fin /\ v.ooseq = << >> /\ v.state = "LAST_ACK"
          /\ v.rcv_nxt = w.rcv_nxt /\ v.ann_wnd = w.ann_wnd /\ v.right_edge = w.right_edge
          /\ v.delivered = w.delivered /\ v.chained = w.chained /\ v.taken = w.taken
          /\ v.long = w.long /\ v.out = w.out /\ v.ending = None /\ v.unsent = "FIN"
          /\ v.recv_data = << >> /\ v.p_len = 0 /\ v.lastack = w.lastack
          /\ v.snd_nxt = w.snd_nxt /\ v.unacked = w.unacked
      BY <2>8, <3>1, <3>2, ZenonT(30) DEF Pcb, SameSend
    <3>4. R(v) = R(w) /\ E(v) = E(w) /\ History(v) /\ Lost(v) = o /\ Send(v)
      <4>1. R(v) = R(w) /\ E(v) = E(w) /\ Lost(v) = o
        BY <2>3, <3>3 DEF R, E, Lost
      <4>2. History(v)
        BY <2>2, <3>3 DEF History
      <4>3. Send(v)
        BY <2>4, <3>3 DEF Send
      <4> QED
        BY <4>1, <4>2, <4>3
    <3>5. Told(v)
      BY <2>2, <2>4, <3>3, ToldAll DEF Answers
    <3>6. Closing(v)
      BY <2>2, <2>4, <2>9, <3>3, <3>4, <3>5 DEF Closing, Passed
    <3> QED
      BY <1>2, <2>4, <3>4, <3>6
  <2>10. CASE o # 0
    <3>1. PICK x : x = [u EXCEPT !.out = Answer("RST", u)]
      OBVIOUS
    <3>2. v = Freed(x, "reset_sent")
      <4>1. u.rcv_wnd # TCP_WND
        BY <2>3, <2>8, <2>10, Sizes
      <4>2. u.state = "CLOSE_WAIT"
        BY <2>8
      <4> QED
        BY ONLY <2>7, <3>1, <4>1, <4>2 DEF tcp_close
    <3>3. Answer("RST", u) = [kind |-> "RST", ack |-> w.rcv_nxt, wnd |-> w.ann_wnd]
      BY <2>8 DEF Answer
    <3>4. Answer("RST", u) \in Replies /\ Acks(Answer("RST", u)) = R(w)
      BY <2>1, <3>3 DEF Replies, Acks, R
    <3>5. /\ x \in Pcb /\ x.delivered = w.delivered /\ x.chained = w.chained
          /\ x.taken = w.taken /\ x.long = w.long /\ x.out = Answer("RST", u)
      BY <2>8, <3>1, <3>4 DEF Pcb
    <3>6. History(x) /\ Lost(x) = o /\ BytesBehind(x.delivered, 0) /\ Len(x.delivered) = N
      BY <2>2, <2>3, <3>5 DEF History, Lost
    <3>7. Told(x)
      BY <2>2, <3>4, <3>5, <3>6, ToldAll, PieceTop
    <3>8. Ended(v)
      BY <2>10, <3>2, <3>5, <3>6, <3>7, FreedIs, PieceTop DEF Numbered
    <3> QED
      BY <1>2, <3>8
  <2> QED
    BY <2>9, <2>10
<1> QED
  BY <1>1, <1>2

(***************************************************************************)
(* In LAST_ACK the pcb is closing as long as the stream and the state are  *)
(* left alone.                                                             *)
(***************************************************************************)
LEMMA ClosingSame ==
  ASSUME NEW w, Closing(w), NEW v \in Pcb, SameStream(v, w), SameState(v, w),
         v.ann_wnd = w.ann_wnd, E(v) = E(w), Told(v), Send(v)
  PROVE  Closing(v) /\ v.delivered = w.delivered
BY DEF Closing, SameStream, SameState, Passed, R, History, Lost

(***************************************************************************)
(* What is announced in LAST_ACK keeps the pcb closing and its window.     *)
(***************************************************************************)
LEMMA ClosingAnnounceIs ==
  ASSUME Numbered, NEW w, Closing(w), NEW k \in {"SYN", "ACK", "FIN"}, NEW v, v = Announce(k, w)
  PROVE  /\ Closing(v) /\ E(w) <= E(v) /\ SameSend(v, w) /\ ~ v.now
         /\ v.delivered = w.delivered
<1>1. /\ w \in Pcb /\ w.rcv_nxt \in Numbers /\ w.ann_wnd \in 0 .. TCP_WND
      /\ R(w) = N + 2 /\ E(w) \in 1 .. Top /\ E(w) <= R(w) + w.ann_wnd
      /\ Len(w.delivered) = N
  BY DEF Closing, Pcb
<1>2. PICK r \in Int, a \in Int, x \in Int :
        /\ r = R(w) /\ a = w.ann_wnd /\ r + a \in 1 .. Top /\ x = Base + (r + a)
        /\ w.rcv_nxt = Base + r /\ r = N + 2
  <2>1. /\ TCP_WND \in Nat /\ N \in Nat /\ Top = N + TCP_WND + 2 /\ Base \in Int
    BY Places, Sizes DEF Top, Numbered
  <2>2. PICK r \in Int, a \in Int : r = R(w) /\ a = w.ann_wnd /\ r = N + 2
    BY <1>1, <2>1
  <2>3. r + a \in 1 .. Top
    BY <1>1, <2>1, <2>2
  <2>4. w.rcv_nxt = Base + r
    BY <1>1, <2>1, <2>2 DEF R, Numbers
  <2> QED
    BY <2>1, <2>2, <2>3, <2>4
<1>3. x \in Numbers /\ (w.rcv_nxt + w.ann_wnd) % SeqSpace = x
  <2>1. /\ Base \in Int /\ Base >= -1 /\ Base + Top < SeqSpace /\ Top \in Nat
        /\ SeqSpace \in Nat
    BY Places, Sizes DEF Numbered
  <2>2. 0 <= x /\ x < SeqSpace
    BY <1>2, <2>1
  <2>3. w.rcv_nxt + w.ann_wnd = x
    BY <1>2, <2>1
  <2> QED
    BY <2>1, <2>2, <2>3, Reduced DEF Numbers
<1>4. v = [w EXCEPT !.delay = FALSE, !.now = FALSE, !.right_edge = x,
                    !.out = [kind |-> k, ack |-> w.rcv_nxt, wnd |-> w.ann_wnd]]
  BY <1>3 DEF Announce, Answer
<1>5. [kind |-> k, ack |-> w.rcv_nxt, wnd |-> w.ann_wnd] \in Replies
  BY <1>1 DEF Replies
<1>6. /\ v \in Pcb /\ SameStream(v, w) /\ SameSend(v, w) /\ SameState(v, w) /\ ~ v.now
      /\ v.right_edge = x /\ v.ann_wnd = w.ann_wnd /\ v.delivered = w.delivered
      /\ v.out = [kind |-> k, ack |-> w.rcv_nxt, wnd |-> w.ann_wnd]
      /\ v.rcv_nxt = w.rcv_nxt
  <2>1. PICK f \in BOOLEAN, o \in Replies :
          f = FALSE /\ o = [kind |-> k, ack |-> w.rcv_nxt, wnd |-> w.ann_wnd]
    BY <1>5, Zenon
  <2>2. v = [w EXCEPT !.delay = f, !.now = f, !.right_edge = x, !.out = o]
    BY <1>4, <2>1, Zenon
  <2>3. v \in Pcb
    BY <1>1, <1>3, <2>2 DEF Pcb
  <2>4. /\ v.now = f /\ v.right_edge = x /\ v.out = o /\ v.ann_wnd = w.ann_wnd
        /\ v.delivered = w.delivered /\ v.rcv_nxt = w.rcv_nxt
    BY <1>1, <1>3, <2>2 DEF Pcb
  <2>5. SameStream(v, w) /\ SameSend(v, w) /\ SameState(v, w)
    BY <1>1, <2>2 DEF Pcb, SameStream, SameSend, SameState
  <2> QED
    BY <2>1, <2>3, <2>4, <2>5
<1>7. E(v) = r + a /\ E(w) <= E(v) /\ R(v) = R(w)
  <2>1. Base \in Int
    BY Places DEF Numbered
  <2>2. E(v) = r + a
    <3>1. PICK b \in Int, y \in Int : b = Base /\ y = r + a /\ x = b + y
      BY <1>2, <2>1
    <3>2. x - b = y
      BY <3>1
    <3> QED
      BY <1>6, <3>1, <3>2 DEF E
  <2> QED
    BY <1>1, <1>2, <1>6, <2>2 DEF R
<1>8. Told(v)
  <2>1. Acks(v.out) = N + 2
    BY <1>1, <1>6 DEF Acks, R
  <2> QED
    BY <1>1, <1>6, <2>1, PieceTop, ToldAll
<1>9. Send(v)
  BY <1>6 DEF Closing, Send, SameSend
<1>10. Closing(v)
  BY <1>1, <1>2, <1>6, <1>7, <1>8, <1>9
     DEF Closing, SameStream, SameState, Passed, History, Lost
<1> QED
  BY <1>6, <1>7, <1>10

(***************************************************************************)
(* The same for tcp_output, which leaves nothing to be sent.               *)
(***************************************************************************)
LEMMA ClosingOutputIs ==
  ASSUME Numbered, NEW w, Closing(w), NEW v, v = output(w)
  PROVE  Closing(v) /\ Quiet(v) /\ E(w) <= E(v)
<1>1. w \in Pcb /\ w.unsent \in Held /\ w.now \in BOOLEAN /\ E(w) \in Int
  BY DEF Closing, Pcb
<1>2. CASE w.unsent # None
  <2>1. PICK k \in {"SYN", "FIN"} : k = w.unsent
    BY <1>1, <1>2 DEF Held
  <2>2. PICK u : u = Announce(k, w)
    OBVIOUS
  <2>3. Closing(u) /\ E(w) <= E(u) /\ SameSend(u, w) /\ ~ u.now /\ u \in Pcb
    BY <2>2, ClosingAnnounceIs DEF Closing
  <2>4. PICK n \in {1, 2} :
          /\ n = IF k = "SYN" THEN 1 ELSE 2
          /\ v = [u EXCEPT !.snd_nxt = n, !.unacked = k, !.unsent = None]
    BY <1>2, <2>1, <2>2 DEF output
  <2>5. /\ v \in Pcb /\ SameStream(v, u) /\ SameOffer(v, u) /\ SameState(v, u)
        /\ v.unsent = None /\ v.unacked = k /\ v.now = u.now
        /\ v.snd_nxt = n /\ v.lastack = u.lastack /\ v.delivered = u.delivered
    <3>1. n \in 0 .. 2 /\ k \in Held /\ None \in Held
      BY <2>1, <2>4 DEF Held
    <3> QED
      <4>1. v \in Pcb
        BY <2>3, <2>4, <3>1 DEF Pcb
      <4>2. SameStream(v, u)
        BY <2>3, <2>4, <3>1 DEF Pcb, SameStream
      <4>3. SameOffer(v, u) /\ SameState(v, u)
        BY <2>3, <2>4, <3>1 DEF Pcb, SameOffer, SameState
      <4>4. /\ v.unsent = None /\ v.unacked = k /\ v.now = u.now
            /\ v.snd_nxt = n /\ v.lastack = u.lastack /\ v.delivered = u.delivered
        BY <2>3, <2>4, <3>1 DEF Pcb
      <4> QED
        BY <4>1, <4>2, <4>3, <4>4
  <2>6. Send(v)
    <3>1. w.lastack \in 0 .. 2 /\ u.lastack = w.lastack /\ (k = "SYN" => w.lastack <= 1)
      BY <1>1, <2>1, <2>3 DEF Pcb, Closing, Send, SameSend
    <3> QED
      BY <2>4, <2>5, <3>1 DEF Send, None
  <2>7. E(v) = E(u) /\ Told(v)
    BY <2>3, <2>5 DEF E, Told, SameOffer, Closing
  <2>8. Closing(v)
    BY <2>3, <2>5, <2>6, <2>7, ClosingSame DEF SameOffer
  <2> QED
    BY <2>3, <2>5, <2>7, <2>8 DEF Quiet
<1>3. CASE w.unsent = None /\ w.now
  <2>1. v = Announce("ACK", w)
    BY <1>3 DEF output, send_empty_ack
  <2> QED
    BY <1>3, <2>1, ClosingAnnounceIs DEF SameSend, Quiet
<1>4. CASE w.unsent = None /\ ~ w.now
  BY <1>1, <1>4 DEF output, Quiet
<1> QED
  BY <1>1, <1>2, <1>3, <1>4

\* The pcb at the end of a segment.
Outcome(w) ==
  /\ Open(w) \/ Closing(w) \/ Ended(w)
  /\ Quiet(w) /\ Told(w)
  /\ w.state # "FREED" => E(w) \in 1 .. Top /\ E(pcb) <= E(w)

(***************************************************************************)
(* What an open pcb has answered, the callbacks have seen.                 *)
(***************************************************************************)
LEMMA OpenIs ==
  ASSUME Numbered, NEW w, Open(w), Quiet(w)
  PROVE  Outcome(w)
<1>1. /\ Flow(w) /\ w \in Pcb /\ Answers(w.out, R(w), E(w)) /\ E(w) \in 1 .. Top
      /\ E(pcb) <= E(w) /\ Len(w.delivered) \in Nat /\ Len(w.recv_data) = 0
      /\ Flag(w.got_fin) = 0
  BY DEF Open, Ready, Waiting, Flow, Offer, Promised, Passed, Pcb, Flag
<1>2. R(w) = Len(w.delivered) + 0 + 1 + 0 /\ Len(w.delivered) + 0 <= N
  BY <1>1 DEF Flow, Stream
<1>3. PICK d \in Nat : d = Len(w.delivered) /\ R(w) = d + 1 /\ d <= N
  BY <1>1, <1>2
<1>4. Told(w)
  <2>1. ASSUME NEW x \in Int, x <= d + 1
        PROVE  Smaller(x - 1, N) <= d
    BY <1>3, <2>1, PieceTop DEF Smaller
  <2>2. una \in Int /\ una <= d + 1
    BY <1>1, <1>3 DEF Flow, Stream, Heard, Numbered
  <2>3. Acks(reply) \in Int /\ (reply.kind # None => Acks(reply) <= d + 1)
    BY <1>1, <1>3, Places DEF Flow, Stream, Heard, Numbered, Acks
  <2>4. w.out.kind # None => Acks(w.out) \in 1 .. d + 1
    BY <1>1, <1>3 DEF Answers
  <2>5. 1 .. d + 1 \subseteq 1 .. N + 2 /\ N \in Nat
    BY <1>3, PieceTop
  <2> QED
    BY <1>3, <2>1, <2>2, <2>3, <2>4, <2>5 DEF Told
<1> QED
  BY <1>1, <1>4 DEF Outcome

(***************************************************************************)
(* The callbacks, and tcp_output at the end.                               *)
(***************************************************************************)
LEMMA AfterProcessIs ==
  ASSUME Numbered, NEW w, Ready(w), Settled(w) \/ (w.state = "SYN_RCVD" /\ ~ w.got_fin),
         NEW v, v = AfterProcess(w)
  PROVE  Outcome(v)
<1>1. PICK u, x : u = recv_callback(w) /\ x = fin_callback(u) /\ v = AfterCallbacks(x)
  <2>1. w.state # "FREED"
    BY DEF Ready, Waiting, Flow
  <2> QED
    BY <2>1 DEF AfterProcess
<1>2. Ready(u) /\ u.recv_data = << >> /\ u.p_len = 0 /\ SameState(u, w) /\ u.got_fin = w.got_fin
  <2>1. Flow(w) /\ w \in Pcb
    BY DEF Ready, Waiting, Flow
  <2>2. CASE w.recv_data = << >>
    <3>1. u = w /\ w.p_len = 0
      BY <1>1, <2>1, <2>2 DEF recv_callback, Flow, Count, Pcb
    <3> QED
      BY <2>2, <3>1 DEF SameState
  <2>3. CASE w.recv_data # << >>
    <3>1. u = Deliver(w, w.recv_data, w.p_len)
      BY <1>1, <2>3 DEF recv_callback
    <3>2. /\ Flow(u) /\ u.ooseq = w.ooseq /\ R(u) = R(w) /\ u.got_fin = w.got_fin
          /\ SameState(u, w) /\ u.recv_data = << >> /\ u.p_len = 0
      BY <2>1, <3>1, DeliverIs
    <3> QED
      BY <3>2 DEF Ready, Waiting
  <2> QED
    BY <2>2, <2>3
<1>3. u \in Pcb /\ Flow(u) /\ u.got_fin \in BOOLEAN
  BY <1>2 DEF Ready, Waiting, Flow, Pcb
<1>4. CASE ~ u.got_fin
  <2>1. x = u
    BY <1>1, <1>2, <1>4, FinCallbackIs
  <2>2. u.state \in {"SYN_RCVD", "ESTABLISHED"}
    BY <1>2, <1>4 DEF SameState, Settled
  <2>3. v = output(u)
    BY <1>1, <2>1, <2>2 DEF AfterCallbacks
  <2>4. Flow(v) /\ SameStream(v, u) /\ SameState(v, u) /\ v.unsent = None /\ ~ v.now
    BY <1>3, <2>3, OutputIs
  <2>5. Open(v) /\ Quiet(v)
    <3>1. Ready(v) /\ v.got_fin = u.got_fin
      BY <1>2, <2>4, ReadySame
    <3> QED
      BY <1>2, <1>4, <2>2, <2>4, <3>1 DEF Open, Passed, Quiet, SameStream, SameState
  <2> QED
    BY <2>5, OpenIs
<1>5. CASE u.got_fin
  <2>1. Settled(u)
    BY <1>2, <1>5 DEF SameState, Settled
  <2>2. \/ Closing(x) /\ E(pcb) <= E(x)
        \/ Ended(x)
    BY <1>1, <1>2, <1>5, <2>1, FinCallbackIs
  <2>3. CASE Ended(x)
    <3>1. v = x
      BY <1>1, <2>3 DEF AfterCallbacks, Ended
    <3> QED
      BY <2>3, <3>1 DEF Outcome, Ended
  <2>4. CASE Closing(x) /\ E(pcb) <= E(x)
    <3>1. v = output(x)
      BY <1>1, <2>4 DEF AfterCallbacks, Closing
    <3>2. Closing(v) /\ Quiet(v) /\ E(x) <= E(v)
      BY <2>4, <3>1, ClosingOutputIs
    <3>3. E(pcb) \in Int /\ E(x) \in Int /\ E(v) \in Int
      BY <2>4, <3>2, Places, SMTT(30) DEF Closing, Numbered, E
    <3> QED
      BY <2>4, <3>2, <3>3 DEF Outcome, Closing
  <2> QED
    BY <2>2, <2>3, <2>4
<1> QED
  BY <1>3, <1>4, <1>5

\* What may arrive: a SYN, a reset, text, or an acknowledgement.
Known(s) == s.rst \/ (~ s.rst /\ s = Syn) \/ Piece(s) \/ Blank(s)

(***************************************************************************)
(* A segment for an open connection.                                       *)
(***************************************************************************)
LEMMA OpenInputIs ==
  ASSUME Numbered, NEW w, Open(w), Quiet(w), NEW s, Known(s),
         NEW v, v = AfterProcess(process(w, s))
  PROVE  Outcome(v)
<1>1. /\ Ready(w) /\ Flow(w) /\ w \in Pcb /\ ~ w.got_fin /\ w.unsent = None
      /\ w.state \in {"SYN_RCVD", "ESTABLISHED"} /\ Told(w)
  BY OpenIs DEF Open, Quiet, Passed, Ready, Waiting, Flow, Outcome
<1>2. /\ w.ooseq \in Seq(Segments) /\ BytesBehind(w.delivered, 0) /\ History(w)
      /\ Len(w.delivered) \in 0 .. N
  BY <1>1, RIs DEF Pcb, Flow, Stream, Count
<1>3. PICK x : x = process(w, s) /\ v = AfterProcess(x)
  OBVIOUS
<1>4. ASSUME Flow(x), SameStream(x, w), SameState(x, w)
      PROVE  Outcome(v)
  <2>1. Ready(x) /\ x.got_fin = w.got_fin
    BY <1>1, <1>4, ReadySame
  <2>2. Settled(x) \/ (x.state = "SYN_RCVD" /\ ~ x.got_fin)
    BY <1>1, <1>4, <2>1 DEF Settled, SameState
  <2> QED
    BY <1>3, <2>1, <2>2, AfterProcessIs
<1>5. CASE x = w
  BY <1>1, <1>4, <1>5 DEF SameStream, SameState
<1>6. CASE x = Freed(w, "reset_by_peer")
  <2>1. Ended(x)
    BY <1>1, <1>2, <1>6, FreedIs, PieceTop DEF Numbered
  <2>2. v = x
    BY <1>3, <2>1 DEF AfterProcess, Ended
  <2> QED
    BY <2>1, <2>2 DEF Outcome, Ended
<1>7. CASE s.rst
  BY <1>3, <1>5, <1>6, <1>7 DEF process
<1>8. CASE ~ s.rst /\ s = Syn
  <2>1. s.syn
    BY <1>8 DEF Syn, Segment
  <2>2. x = w \/ x = ack_now(w) \/ x = rexmit(w)
    BY <1>3, <1>8, <2>1 DEF process
  <2>3. CASE x = ack_now(w)
    BY <1>1, <1>4, <2>3, AckIs
  <2>4. CASE x = rexmit(w) /\ x # w
    <3>1. PICK k \in Held, h \in Held :
            k = w.unacked /\ h = None /\ x = [w EXCEPT !.unsent = k, !.unacked = h]
      <4>1. w.unacked \in Held /\ None \in Held
        BY <1>1 DEF Pcb, Held
      <4> QED
        BY <2>4, <4>1 DEF rexmit
    <3>2. /\ x \in Pcb /\ SameStream(x, w) /\ SameState(x, w) /\ SameOffer(x, w)
          /\ x.unsent = k /\ x.unacked = h /\ x.lastack = w.lastack /\ x.snd_nxt = w.snd_nxt
      <4>1. x \in Pcb
        BY <1>1, <3>1 DEF Pcb
      <4> QED
        BY <1>1, <3>1, <4>1 DEF Pcb, SameStream, SameState, SameOffer
    <3>3. Send(x)
      BY <1>1, <3>1, <3>2 DEF Flow, Send, None
    <3>4. Offer(x)
      BY <1>1, <3>2, StreamSame, OfferSame DEF Flow, SameStream
    <3>5. Flow(x)
      BY <1>1, <3>2, <3>3, <3>4, FlowSame
    <3> QED
      BY <1>4, <3>2, <3>5
  <2> QED
    BY <1>5, <2>2, <2>3, <2>4
<1>9. CASE ~ s.rst /\ (Piece(s) \/ Blank(s))
  <2>1. ~ s.syn /\ w.state # "LAST_ACK"
    BY <1>1, <1>9 DEF Piece, Blank
  <2>2. CASE w.state = "SYN_RCVD" /\ s.ack \notin w.lastack + 1 .. w.snd_nxt
    <3>1. x = [w EXCEPT !.out = Answer("RST", w)]
      BY <1>3, <1>9, <2>1, <2>2 DEF process
    <3>2. Answer("RST", w) \in Replies /\ Acks(Answer("RST", w)) = R(w)
          /\ Answer("RST", w).kind = "RST"
      BY <1>1 DEF Answer, Replies, Acks, R, Pcb
    <3>3. /\ x \in Pcb /\ SameStream(x, w) /\ SameState(x, w) /\ SameSend(x, w)
          /\ x.out = Answer("RST", w) /\ E(x) = E(w) /\ x.ann_wnd = w.ann_wnd
      BY <1>1, <3>1, <3>2 DEF Pcb, SameStream, SameState, SameSend, E
    <3>4. R(x) = R(w) /\ R(w) \in 1 .. N + 2 /\ x.rcv_wnd = w.rcv_wnd
      BY <1>1, <3>3, FlowIs, StreamSame DEF SameStream
    <3>5. Offer(x)
      <4>1. Answers(x.out, R(x), E(x))
        BY <3>2, <3>3, <3>4, PieceTop DEF Answers
      <4> QED
        BY <1>1, <3>3, <3>4, <4>1 DEF Flow, Offer
    <3>6. Send(x)
      BY <1>1, <3>3 DEF Flow, Send, SameSend
    <3>7. Flow(x)
      BY <1>1, <3>3, <3>5, <3>6, FlowSame
    <3> QED
      BY <1>4, <3>3, <3>7
  <2>3. CASE ~ (w.state = "SYN_RCVD" /\ s.ack \notin w.lastack + 1 .. w.snd_nxt)
    <3>1. PICK u : u = [w EXCEPT !.state = "ESTABLISHED"]
      OBVIOUS
    <3>2. x = AfterReceive(receive(u, s))
      <4>1. u = [w EXCEPT !.state = IF w.state = "SYN_RCVD" THEN "ESTABLISHED" ELSE w.state]
        BY <1>1, <3>1
      <4> QED
        BY <1>3, <1>9, <2>1, <2>3, <4>1 DEF process
    <3>3. u \in Pcb /\ u.state = "ESTABLISHED" /\ u.got_fin = w.got_fin /\ u.unsent = None
          /\ SameStream(u, w) /\ SameOffer(u, w) /\ SameSend(u, w) /\ u.ending = w.ending
      BY <1>1, <3>1 DEF Pcb, SameStream, SameOffer, SameSend
    <3>4. Flow(u)
      <4>1. R(u) = R(w) /\ Stream(u) /\ Count(u) /\ u.rcv_wnd = w.rcv_wnd
        BY <1>1, <3>3, StreamSame DEF Flow, SameStream
      <4>2. Offer(u)
        BY <1>1, <3>3, <4>1, OfferSame DEF Flow
      <4>3. Send(u)
        BY <1>1, <3>3 DEF Flow, Send, SameSend
      <4> QED
        BY <1>1, <3>3, <4>1, <4>2, <4>3 DEF Flow
    <3>5. Ready(u)
      BY <1>1, <3>3, <3>4, ReadySame
    <3>6. Ready(x) /\ Settled(x)
      BY <1>1, <1>9, <3>2, <3>3, <3>5, ReceiveIs
    <3> QED
      BY <1>3, <3>6, AfterProcessIs
  <2> QED
    BY <2>2, <2>3
<1> QED
  BY <1>7, <1>8, <1>9 DEF Known, Piece, Blank

(***************************************************************************)
(* A segment for a connection whose FIN is not acknowledged.               *)
(***************************************************************************)
LEMMA ClosingInputIs ==
  ASSUME Numbered, NEW w, Closing(w), Quiet(w), E(pcb) <= E(w), NEW s, Known(s),
         NEW v, v = AfterProcess(process(w, s))
  PROVE  Outcome(v)
<1>1. /\ w \in Pcb /\ Send(w) /\ w.unsent = None /\ w.state = "LAST_ACK"
      /\ E(w) \in Int /\ E(pcb) \in Int
  BY Places DEF Closing, Quiet, Numbered, E
<1>2. PICK x : x = process(w, s) /\ v = AfterProcess(x)
  OBVIOUS
<1>3. ASSUME Closing(x), E(x) = E(w)
      PROVE  Outcome(v)
  <2>1. v = output(x)
    BY <1>2, <1>3
       DEF AfterProcess, AfterCallbacks, fin_callback, recv_callback, Closing, Passed
  <2>2. Closing(v) /\ Quiet(v) /\ E(w) <= E(v)
    BY <1>3, <2>1, ClosingOutputIs
  <2>3. E(v) \in Int
    BY <2>2 DEF Closing
  <2> QED
    BY <1>1, <2>2, <2>3 DEF Outcome, Closing
<1>4. ASSUME NEW y, y = w \/ y = ack_now(w), NEW how, how = "reset_by_peer" \/ how = "closed"
      PROVE  Closing(y) /\ E(y) = E(w) /\ Ended(Freed(w, how))
  <2>1. Ended(Freed(w, how))
    BY <1>1, <1>4, FreedIs, PieceTop DEF Closing, Numbered
  <2>2. CASE y = ack_now(w)
    <3>1. y \in Pcb /\ SameStream(y, w) /\ SameOffer(y, w) /\ SameSend(y, w) /\ SameState(y, w)
      BY <1>1, <2>2, AckIs
    <3>2. E(y) = E(w) /\ Send(y) /\ Told(y) /\ y.ann_wnd = w.ann_wnd
      <4>1. E(y) = E(w) /\ y.ann_wnd = w.ann_wnd
        BY <3>1 DEF SameOffer, E
      <4>2. Send(y)
        BY <1>1, <3>1 DEF Send, SameSend
      <4>3. Told(y)
        BY <3>1 DEF Closing, Told, SameOffer, SameStream
      <4> QED
        BY <4>1, <4>2, <4>3
    <3> QED
      BY <2>1, <3>1, <3>2, ClosingSame
  <2> QED
    BY <1>4, <2>1, <2>2
<1>5. ASSUME Ended(x)
      PROVE  Outcome(v)
  BY <1>2, <1>5 DEF AfterProcess, Outcome, Ended
<1>6. CASE s.rst
  <2>1. x = w \/ x = Freed(w, "reset_by_peer")
    BY <1>2, <1>6 DEF process
  <2> QED
    BY <1>3, <1>4, <1>5, <2>1
<1>7. CASE ~ s.rst /\ s = Syn
  <2>1. x = ack_now(w)
    BY <1>1, <1>2, <1>7 DEF process, Syn, Segment
  <2> QED
    BY <1>3, <1>4, <2>1
<1>8. CASE ~ s.rst /\ (Piece(s) \/ Blank(s))
  <2>1. ~ s.syn /\ s \in Segments
    BY <1>8 DEF Piece, Blank
  <2>2. PICK u, y : /\ u = Acknowledged(w, s) /\ y = ReceiveText(u, s)
                    /\ x = Finished(y, s)
    BY <1>1, <1>2, <1>8, <2>1 DEF process, receive
  <2>3. u \in Pcb /\ SameStream(u, w) /\ SameOffer(u, w) /\ SameState(u, w) /\ Send(u)
    BY <1>1, <2>1, <2>2, AcknowledgedIs
  <2>4. y = u \/ y = ack_now(u)
    BY <1>1, <2>2, <2>3 DEF ReceiveText, SameState
  <2>5. /\ y \in Pcb /\ SameStream(y, w) /\ SameOffer(y, w) /\ SameState(y, w) /\ Send(y)
    <3>1. CASE y = ack_now(u)
      <4>1. /\ y \in Pcb /\ SameStream(y, u) /\ SameOffer(y, u)
            /\ SameSend(y, u) /\ SameState(y, u)
        BY <2>3, <3>1, AckIs
      <4>2. Send(y)
        BY <2>3, <4>1 DEF Send, SameSend
      <4> QED
        BY <2>3, <4>1, <4>2 DEF SameStream, SameOffer, SameState
    <3> QED
      BY <2>3, <2>4, <3>1
  <2>6. Closing(y) /\ E(y) = E(w)
    <3>1. E(y) = E(w) /\ y.ann_wnd = w.ann_wnd
      BY <2>5 DEF SameOffer, E
    <3>2. Told(y)
      BY <2>5 DEF Closing, Told, SameOffer, SameStream
    <3> QED
      BY <2>5, <3>1, <3>2, ClosingSame
  <2>7. Ended(Freed(y, "closed"))
    BY <2>5, <2>6, FreedIs, PieceTop DEF Closing, Numbered
  <2>8. x = y \/ x = Freed(y, "closed")
    BY <2>2 DEF Finished
  <2> QED
    BY <1>3, <1>5, <2>6, <2>7, <2>8
<1> QED
  BY <1>6, <1>7, <1>8 DEF Known, Piece, Blank

(***************************************************************************)
(* A segment for a pcb that has been freed, and the first SYN.             *)
(***************************************************************************)
LEMMA EndedInputIs ==
  ASSUME Numbered, NEW w, Ended(w), NEW s, Known(s), NEW v, v = tcp_listen_input(w, s)
  PROVE  Outcome(v)
<1>1. w \in Pcb /\ w.state = "FREED" /\ R(w) = 1 /\ Len(w.delivered) \in Nat /\ N \in Nat
  BY PieceTop DEF Ended, Pcb
<1>2. CASE v = w
  BY <1>2 DEF Outcome, Ended
<1>3. CASE v = [w EXCEPT !.out = Answer("RST", w)]
  <2>1. Answer("RST", w) \in Replies /\ Acks(Answer("RST", w)) = 1
    BY <1>1 DEF Answer, Replies, Acks, R, Pcb
  <2>2. /\ v \in Pcb /\ v.out = Answer("RST", w) /\ SameStream(v, w) /\ SameState(v, w)
        /\ SameSend(v, w) /\ v.now = w.now
    BY <1>1, <1>3, <2>1 DEF Pcb, SameStream, SameState, SameSend
  <2>3. Told(v)
    <3>1. Told(w) /\ w.delivered = v.delivered
      BY <2>2 DEF Ended, SameStream
    <3>2. Smaller(Acks(v.out) - 1, N) <= Len(v.delivered)
      <4>1. Acks(v.out) - 1 = 0 /\ Smaller(0, N) = 0
        BY <1>1, <2>1, <2>2 DEF Smaller
      <4> QED
        BY <1>1, <3>1, <4>1
    <3>3. Acks(v.out) \in 1 .. N + 2
      BY <1>1, <2>1, <2>2
    <3> QED
      BY <3>1, <3>2, <3>3 DEF Told
  <2>4. Quiet(v) /\ Send(v)
    BY <2>2 DEF Ended, Quiet, Send, SameSend
  <2>5. Ended(v)
    BY <2>2, <2>3, <2>4
       DEF Ended, Passed, SameStream, SameState, R, History, Lost
  <2> QED
    BY <2>5 DEF Outcome, Ended
<1>4. v = w \/ v = [w EXCEPT !.out = Answer("RST", w)]
  <2>1. s.rst \/ (~ s.rst /\ s.syn) \/ (~ s.rst /\ ~ s.syn)
    BY DEF Known, Piece, Blank, Segments, Syn, Segment
  <2> QED
    BY <1>1, <2>1 DEF tcp_listen_input
<1> QED
  BY <1>2, <1>3, <1>4

(***************************************************************************)
(* The first SYN makes the pcb.                                            *)
(***************************************************************************)
LEMMA FreshInputIs ==
  ASSUME Numbered, pcb = Idle, reply = NoReply, sent = 0, una = 1, limit = 0,
         NEW v, v = output(Fresh(Syn))
  PROVE  Outcome(v)
<1>1. PICK w : w = Fresh(Syn)
  OBVIOUS
<1>2. /\ w \in Pcb /\ E(pcb) = 1 /\ Base \in Int
      /\ w = [state |-> "SYN_RCVD", rcv_nxt |-> Base + 1, rcv_wnd |-> TCP_WND,
              ann_wnd |-> TCP_WND, right_edge |-> Base + 1, delay |-> FALSE, now |-> FALSE,
              ooseq |-> << >>, lastack |-> 0, snd_nxt |-> 0, unsent |-> "SYN",
              unacked |-> None, dupacks |-> 0, infr |-> FALSE, recv_data |-> << >>,
              p_len |-> 0, got_fin |-> FALSE, out |-> NoReply, delivered |-> << >>,
              chained |-> 0, taken |-> 0, long |-> FALSE, ending |-> None]
  BY <1>1, FreshIs, Places DEF Numbered
<1>3. R(w) = 1 /\ E(w) = 1 /\ reply.kind = None
  BY <1>2 DEF R, E, NoReply
<1>4. Flag(w.got_fin) = 0 /\ ~ w.got_fin
  BY <1>2 DEF Flag
<1>5. /\ w.delivered = << >> /\ w.recv_data = << >> /\ Len(<< >>) = 0 /\ w.p_len = 0
      /\ w.chained = 0 /\ w.taken = 0 /\ w.rcv_wnd = TCP_WND /\ TCP_WND \in Nat /\ N \in Nat
  BY <1>2, Sizes
<1>6. Stream(w)
  <2>1. BytesBehind(<< >>, 0)
    BY DEF BytesBehind
  <2> QED
    BY <1>3, <1>4, <1>5, <2>1 DEF Stream, Heard
<1>7. Count(w)
  <2>1. Skipping(Len(w.delivered), w.taken, w.long)
    <3>1. w.long = FALSE
      BY <1>2
    <3> QED
      BY <1>5, <3>1, SkippingNone
  <2>2. History(w) /\ Lost(w) = 0
    BY <1>5, <2>1 DEF History, Lost
  <2> QED
    BY <1>4, <1>5, <2>2 DEF Count
<1>8. Offer(w)
  <2>1. Promised(E(w))
    BY <1>2, <1>3 DEF Promised
  <2>2. Answers(w.out, R(w), E(w))
    BY <1>2 DEF Answers, NoReply
  <2>3. TCP_WND \in Nat /\ Top \in Nat /\ Top >= 1
    BY Sizes DEF Top
  <2> QED
    BY <1>2, <1>3, <2>1, <2>2, <2>3 DEF Offer
<1>9. Send(w)
  BY <1>2 DEF Send
<1>10. w.state = "SYN_RCVD" /\ w.ending = None /\ w.ooseq = << >> /\ w.recv_data = << >>
      /\ w.p_len = 0
  BY <1>2
<1>11. Flow(w)
  BY <1>2, <1>4, <1>6, <1>7, <1>8, <1>9, <1>10 DEF Flow
<1>12. Ready(w)
  <2>1. Ordered(<< >>) /\ From(<< >>, R(w)) /\ From(<< >>, R(w) + 1)
    BY DEF Ordered, From
  <2> QED
    BY <1>4, <1>10, <1>11, <2>1 DEF Ready, Waiting
<1>13. Flow(v) /\ SameStream(v, w) /\ SameState(v, w) /\ v.unsent = None /\ ~ v.now
  BY <1>1, <1>11, OutputIs
<1>14. Ready(v) /\ v.got_fin = w.got_fin
  BY <1>12, <1>13, ReadySame
<1>15. Open(v) /\ Quiet(v)
  BY <1>4, <1>10, <1>13, <1>14 DEF Open, Passed, Quiet, SameStream, SameState
<1> QED
  BY <1>15, OpenIs

-----------------------------------------------------------------------------
(***************************************************************************)
(* The inductive invariant.                                                *)
(***************************************************************************)

\* What the peer knows, and what it is about to hear.
Peer ==
  /\ up \in BOOLEAN /\ gone \in BOOLEAN
  /\ sent \in 0 .. N + 1 /\ una \in 1 .. N + 2 /\ limit \in 0 .. N + 2 /\ ackno \in 0 .. 2
  /\ reply \in Replies
  /\ reply.kind # None => Acks(reply) \in 1 .. N + 2

\* Nothing has happened yet.
Untouched ==
  /\ pcb = Idle /\ reply = NoReply
  /\ ~ up /\ ~ gone /\ sent = 0 /\ una = 1 /\ limit = 0 /\ ackno = 0

\* The pcb between two segments.
Between ==
  /\ Open(pcb) \/ Closing(pcb) \/ Ended(pcb)
  /\ Quiet(pcb) /\ pcb.out = NoReply

IInv == server \in Servers /\ Peer /\ (Untouched \/ Between)

\* Two pcbs that differ in the answer and in the delayed acknowledgement only.
Alike(v, w) ==
  /\ SameStream(v, w) /\ SameState(v, w) /\ SameSend(v, w)
  /\ v.ann_wnd = w.ann_wnd /\ v.right_edge = w.right_edge /\ v.now = w.now

(***************************************************************************)
(* The invariant makes the numbers what the lemmas ask for.                *)
(***************************************************************************)
LEMMA NumberedIs ==
  ASSUME NoWrap, IInv
  PROVE  Numbered /\ pcb \in Pcb
<1>1. pcb \in Pcb
  BY FreshIs DEF IInv, Untouched, Between, Open, Ready, Waiting, Flow, Closing, Ended
<1>2. pcb.right_edge \in Nat
  BY <1>1 DEF Pcb, Numbers
<1>3. reply.ack \in Nat /\ reply.wnd \in Nat
  <2>1. reply \in Replies /\ TCP_WND \in Nat
    BY Sizes DEF IInv, Peer
  <2> QED
    BY <2>1 DEF Replies, NoReply, Numbers
<1>4. server \in {"seq", "data"}
  BY TcpAssumption DEF IInv
<1>5. N \in Nat
  BY TcpAssumption
<1>6. una \in Nat /\ sent \in 0 .. N + 1 /\ limit \in Nat
  BY <1>5 DEF IInv, Peer
<1> QED
  BY <1>1, <1>2, <1>3, <1>4, <1>6 DEF Numbered

(***************************************************************************)
(* A peer may learn more and send more as far as it was told.              *)
(***************************************************************************)
LEMMA OpenKept ==
  ASSUME Numbered, NEW w, Open(w), pcb' \in Pcb, Alike(pcb', w), pcb'.out = NoReply,
         server' = server, sent' \in Nat, sent <= sent', sent' + 1 <= E(w),
         una' <= R(w), limit' <= E(w), reply'.kind # None => Acks(reply') <= R(w),
         reply'.kind \notin {None, "RST"} => Acks(reply') + reply'.wnd <= E(w)
  PROVE  Open(pcb)'
<1>1. /\ Flow(w) /\ w \in Pcb /\ Ordered(w.ooseq) /\ From(w.ooseq, R(w))
      /\ From(w.ooseq, R(w) + 1) /\ Passed(w) /\ w.state \in {"SYN_RCVD", "ESTABLISHED"}
  BY DEF Open, Ready, Waiting, Flow
<1>2. /\ R(pcb') = R(w) /\ E(pcb') = E(w) /\ E(w) \in Int /\ R(w) \in Int
  BY <1>1, FlowIs DEF Alike, SameStream, R, E
<1>3. Stream(pcb)'
  <2>1. R(w) <= sent' + 1
    <3>1. R(w) <= sent + 1
      BY <1>1 DEF Flow, Stream
    <3>2. sent \in Int
      BY PieceTop DEF Numbered
    <3> QED
      BY <1>2, <3>1, <3>2
  <2>2. Heard(R(w))'
    BY DEF Heard, Acks, R, Base, Num
  <2> QED
    BY <1>1, <1>2, <2>1, <2>2 DEF Flow, Stream, Alike, SameStream, R, BytesBehind
<1>4. Count(pcb)'
  BY <1>1 DEF Flow, Count, History, Skipping, Lost, Alike, SameStream
<1>5. Offer(pcb)'
  <2>1. Promised(E(w))'
    BY <1>2 DEF Promised, Acks, E
  <2>2. Answers(pcb.out, R(pcb), E(pcb))'
    BY DEF Answers, NoReply
  <2>3. /\ E(w) \in 1 .. Top /\ E(w) <= R(w) + w.ann_wnd /\ w.ann_wnd <= w.rcv_wnd
    BY <1>1, FlowIs
  <2> QED
    BY <1>2, <2>1, <2>2, <2>3 DEF Offer, Alike, SameStream
<1>6. Send(pcb)'
  BY <1>1 DEF Flow, Send, Alike, SameSend
<1>7. Flow(pcb)'
  BY <1>1, <1>3, <1>4, <1>5, <1>6 DEF Flow, Alike, SameState
<1>8. Ordered(pcb.ooseq)'
  <2>1. ASSUME NEW i \in 1 .. Len(w.ooseq)
        PROVE  Piece(w.ooseq[i])'
    <3>1. PICK s : s = w.ooseq[i] /\ Piece(s)
      BY <1>1 DEF Ordered
    <3>2. Z(s) + Flag(s.fin) \in Int
      BY <3>1, PieceIs DEF Flag
    <3>3. Z(s) + Flag(s.fin) <= sent' + 1
      BY <3>1, <3>2 DEF Piece, Numbered
    <3> QED
      BY <3>1, <3>3 DEF Piece
  <2>2. pcb'.ooseq = w.ooseq
    BY DEF Alike, SameStream
  <2> QED
    BY <1>1, <2>1, <2>2 DEF Ordered
<1> QED
  BY <1>1, <1>2, <1>7, <1>8
     DEF Open, Ready, Waiting, From, Passed, Alike, SameStream, SameState

(***************************************************************************)
(* The same for a connection whose FIN is not acknowledged.                *)
(***************************************************************************)
LEMMA ClosingKept ==
  ASSUME NEW w, Closing(w), pcb' \in Pcb, Alike(pcb', w), Told(pcb)', server' = server
  PROVE  Closing(pcb)'
BY DEF Closing, Passed, Send, R, E, History, Skipping, Lost, BytesBehind,
       Alike, SameStream, SameState, SameSend

(***************************************************************************)
(* The same for a freed pcb.                                               *)
(***************************************************************************)
LEMMA EndedKept ==
  ASSUME NEW w, Ended(w), pcb' \in Pcb, Alike(pcb', w), Told(pcb)', server' = server,
         pcb'.unsent = None
  PROVE  Ended(pcb)'
BY DEF Ended, Quiet, Passed, Send, R, History, Skipping, Lost, BytesBehind,
       Alike, SameStream, SameState, SameSend

-----------------------------------------------------------------------------
(***************************************************************************)
(* A segment of the peer has the fields it was made with.                  *)
(***************************************************************************)
LEMMA SyntaxIs ==
  ASSUME NEW syn \in BOOLEAN, NEW fin \in BOOLEAN, NEW rst \in BOOLEAN, NEW n \in Nat,
         NEW i \in Nat, NEW data \in Seq(Nat),
         NEW s, s = Segment(syn, fin, rst, n, Num(i), data)
  PROVE  /\ s \in Segments /\ s.syn = syn /\ s.fin = fin /\ s.rst = rst
         /\ s.seq = Num(i) /\ s.data = data /\ s.len = Len(data)
<1>1. PICK m \in Numbers : m = Num(i)
  <2>1. ISN + i \in Int /\ SeqSpace \in Nat /\ SeqSpace > 0
    BY Sizes
  <2>2. (ISN + i) % SeqSpace \in 0 .. SeqSpace - 1
    BY <2>1
  <2> QED
    BY <2>2 DEF Num, Numbers
<1>2. PICK l \in Nat : l = Len(data)
  OBVIOUS
<1>3. s = [syn |-> syn, fin |-> fin, rst |-> rst, ack |-> n, seq |-> m, data |-> data,
           len |-> l]
  BY <1>1, <1>2 DEF Segment
<1> QED
  BY <1>1, <1>2, <1>3 DEF Segments

(***************************************************************************)
(* An acknowledgement or a probe is known.                                 *)
(***************************************************************************)
LEMMA EmptyIs ==
  ASSUME NEW i \in Nat, ackno \in 0 .. 2, NEW s \in Empty(i)
  PROVE  Known(s)
<1>1. PICK n \in 1 .. ackno : s = Segment(FALSE, FALSE, FALSE, n, Num(i), << >>)
  BY DEF Empty
<1>2. PICK q \in Seq(Nat), f \in BOOLEAN : q = << >> /\ f = FALSE /\ Len(q) = 0
  <2>1. << >> \in Seq(Nat)
    OBVIOUS
  <2> QED
    BY <2>1
<1>3. n \in Nat /\ s = Segment(f, f, f, n, Num(i), q)
  <2>1. n \in Nat
    BY <1>1
  <2> QED
    BY <1>1, <1>2, <2>1, Zenon
<1>4. s \in Segments /\ s.syn = f /\ s.fin = f /\ s.rst = f /\ s.len = Len(q)
  BY <1>3, SyntaxIs
<1> QED
  BY <1>2, <1>4 DEF Known, Blank

(***************************************************************************)
(* So is what the peer sends of the stream: it is a piece.                 *)
(***************************************************************************)
LEMMA TextIs ==
  ASSUME Numbered, ackno \in 0 .. 2, NEW a \in 1 .. sent, NEW s \in TextFrom(a)
  PROVE  Known(s)
<1>1. N \in Nat /\ sent \in 0 .. N + 1 /\ a \in Nat /\ 1 <= a /\ a <= sent
  BY PieceTop DEF Numbered
<1>2. PICK b \in Int, fin \in BOOLEAN :
        /\ s \in Text(a, b, fin) /\ b <= N /\ b + 1 + Flag(fin) <= sent + 1
        /\ a <= b + 1 /\ (b + 1 = a => fin) /\ (fin => b = N)
  <2>1. CASE s \in UNION {Text(a, b, FALSE) :
                            b \in a .. Smaller(Smaller(sent, N), a + PeerMss - 1)}
    <3>1. PICK b \in a .. Smaller(Smaller(sent, N), a + PeerMss - 1) : s \in Text(a, b, FALSE)
      BY <2>1
    <3>2. PICK m \in Nat : m = PeerMss
      BY TcpAssumption
    <3>3. b \in Int /\ a <= b /\ b <= N /\ b <= sent
      BY <1>1, <3>1, <3>2 DEF Smaller
    <3>4. Flag(FALSE) = 0
      BY DEF Flag
    <3>5. b + 1 + 0 <= sent + 1 /\ a <= b + 1 /\ b + 1 # a
      BY <1>1, <3>3
    <3>6. PICK f \in BOOLEAN : f = FALSE
      BY Zenon
    <3> QED
      BY <3>1, <3>3, <3>4, <3>5, <3>6
  <2>2. CASE sent = N + 1 /\ s \in Text(a, N, TRUE)
    <3>1. Flag(TRUE) = 1
      BY DEF Flag
    <3>2. N \in Int /\ N + 1 + 1 <= sent + 1 /\ a <= N + 1
      BY <1>1, <2>2
    <3>3. PICK f \in BOOLEAN : f = TRUE
      BY Zenon
    <3>4. s \in Text(a, N, f) /\ Flag(f) = 1
      BY <2>2, <3>1, <3>3, Zenon
    <3>5. N + 1 + Flag(f) <= sent + 1 /\ N <= N
      BY <1>1, <3>2, <3>4
    <3> QED
      BY <3>2, <3>3, <3>4, <3>5, Zenon
  <2> QED
    BY <2>1, <2>2 DEF TextFrom
<1>3. PICK m \in Nat : m = b - a + 1
  BY <1>1, <1>2
<1>4. PICK n \in Nat : s = Segment(FALSE, fin, FALSE, n, Num(a), [i \in 1 .. m |-> a + i - 1])
  <2>1. PICK n \in 1 .. ackno :
          s = Segment(FALSE, fin, FALSE, n, Num(a), [i \in 1 .. b - a + 1 |-> a + i - 1])
    BY <1>2 DEF Text
  <2>2. n \in Nat
    BY <2>1
  <2> QED
    BY <1>3, <2>1, <2>2, Zenon
<1>5. PICK d \in Seq(Nat) : d = [i \in 1 .. m |-> a + i - 1] /\ Len(d) = m
  <2>1. \A i \in 1 .. m : a + i - 1 \in Nat
    BY <1>1
  <2>2. [i \in 1 .. m |-> a + i - 1] \in Seq(Nat)
    BY <2>1
  <2>3. Len([i \in 1 .. m |-> a + i - 1]) = m
    BY <2>2
  <2> QED
    BY <2>2, <2>3
<1>6. /\ s \in Segments /\ ~ s.syn /\ s.fin = fin /\ ~ s.rst
      /\ s.seq = Num(a) /\ s.data = d /\ s.len = Len(d)
  <2>1. PICK f \in BOOLEAN : f = FALSE
    BY Zenon
  <2>2. s = Segment(f, fin, f, n, Num(a), d)
    BY <1>4, <1>5, <2>1
  <2> QED
    BY <1>1, <2>1, <2>2, SyntaxIs
<1>7. A(s) = a /\ Z(s) = b + 1
  <2>1. Num(a) = Base + a /\ Base \in Int
    <3>1. a \in 1 .. Top
      BY <1>1, Sizes DEF Top
    <3> QED
      BY <3>1, Places DEF Numbered
  <2>2. A(s) = a
    BY <1>1, <1>6, <2>1 DEF A
  <2> QED
    BY <1>1, <1>2, <1>3, <1>5, <1>6, <2>2 DEF Z
<1>8. \A k \in 1 .. m : d[k] = a + k - 1
  BY <1>5
<1>9. Piece(s)
  <2>1. A(s) >= 1 /\ Z(s) <= N + 1 /\ (m = 0 => fin) /\ (fin => Z(s) = N + 1)
    BY <1>1, <1>2, <1>3, <1>7
  <2>2. Z(s) + Flag(s.fin) <= sent + 1
    BY <1>2, <1>6, <1>7
  <2> QED
    BY <1>5, <1>6, <1>7, <1>8, <2>1, <2>2 DEF Piece
<1> QED
  BY <1>9 DEF Known

(***************************************************************************)
(* tcp_input, whatever the state of the pcb.                               *)
(***************************************************************************)
LEMMA InputIs ==
  ASSUME NoWrap, IInv, NEW s, Known(s), Untouched => s = Syn
  PROVE  Outcome(Input(s))
<1>1. Numbered
  BY NumberedIs
<1>2. CASE Untouched
  <2>1. pcb.state = "LISTEN"
    BY <1>2 DEF Untouched, Idle
  <2>2. ~ s.rst /\ s.syn
    BY <1>2 DEF Syn, Segment
  <2>3. Input(s) = output(Fresh(Syn))
    BY <1>2, <2>1, <2>2 DEF Input, tcp_listen_input
  <2> QED
    BY <1>1, <1>2, <2>3, FreshInputIs DEF Untouched
<1>3. CASE Between
  <2>1. CASE Open(pcb)
    <3>1. pcb.state \notin {"LISTEN", "FREED"}
      BY <2>1 DEF Open
    <3> QED
      BY <1>1, <1>3, <2>1, <3>1, OpenInputIs DEF Input, Between
  <2>2. CASE Closing(pcb)
    <3>1. pcb.state \notin {"LISTEN", "FREED"} /\ E(pcb) <= E(pcb)
      BY <2>2 DEF Closing
    <3> QED
      BY <1>1, <1>3, <2>2, <3>1, ClosingInputIs DEF Input, Between
  <2>3. CASE Ended(pcb)
    <3>1. pcb.state = "FREED"
      BY <2>3 DEF Ended
    <3> QED
      BY <1>1, <2>3, <3>1, EndedInputIs DEF Input
  <2> QED
    BY <1>3, <2>1, <2>2, <2>3 DEF Between
<1> QED
  BY <1>2, <1>3 DEF IInv

(***************************************************************************)
(* Whatever arrives, it is known, and comes to Input.                      *)
(***************************************************************************)
LEMMA ArrivalIs ==
  ASSUME NoWrap, IInv, SynArrives \/ EmptyArrives \/ TextArrives \/ ResetArrives
  PROVE  \E v : Outcome(v) /\ Becomes(v)
<1>1. Numbered /\ Peer /\ N \in Nat
  BY NumberedIs, PieceTop DEF IInv
<1>2. ASSUME NEW s, Known(s), Untouched => s = Syn, tcp_input(s)
      PROVE  \E v : Outcome(v) /\ Becomes(v)
  BY <1>2, InputIs DEF tcp_input
<1>3. CASE SynArrives
  <2>1. Known(Syn)
    BY DEF Known, Syn, Segment
  <2> QED
    BY <1>2, <1>3, <2>1 DEF SynArrives
<1>4. CASE EmptyArrives
  <2>1. PICK i \in 0 .. sent + 1 : \E s \in Empty(i) : tcp_input(s)
    BY <1>4 DEF EmptyArrives
  <2>2. PICK s \in Empty(i) : tcp_input(s)
    BY <2>1
  <2>3. i \in Nat /\ ackno \in 0 .. 2
    BY <1>1 DEF Peer
  <2>4. ~ Untouched
    <3>1. SUFFICES ASSUME ackno = 0 PROVE FALSE
      BY DEF Untouched
    <3>2. 1 .. ackno = {}
      BY <3>1
    <3> QED
      BY <3>2 DEF Empty
  <2> QED
    BY <1>2, <2>2, <2>3, <2>4, EmptyIs
<1>5. CASE TextArrives
  <2>1. PICK a \in 1 .. sent : \E s \in TextFrom(a) : tcp_input(s)
    BY <1>5 DEF TextArrives
  <2>2. PICK s \in TextFrom(a) : tcp_input(s)
    BY <2>1
  <2>3. sent # 0 /\ ackno \in 0 .. 2
    BY <1>1, <2>2 DEF Peer
  <2> QED
    BY <1>1, <1>2, <2>2, <2>3, TextIs DEF Untouched
<1>6. CASE ResetArrives
  <2>1. PICK s : s = Segment(FALSE, FALSE, TRUE, 0, Num(sent + 1), << >>)
    OBVIOUS
  <2>2. Known(s) /\ tcp_input(s) /\ ~ Untouched
    BY <1>6, <2>1 DEF Known, Segment, ResetArrives, Untouched
  <2> QED
    BY <1>2, <2>2
<1> QED
  BY <1>3, <1>4, <1>5, <1>6

-----------------------------------------------------------------------------
(***************************************************************************)
(* A segment of the server tells something.                                *)
(***************************************************************************)
LEMMA RepliesAre ==
  ASSUME NEW a \in Replies
  PROVE  /\ a # NoReply <=> a.kind # None
         /\ a # NoReply => /\ a.kind \in {"SYN", "ACK", "FIN", "RST"}
                           /\ a.ack \in Numbers /\ a.wnd \in 0 .. TCP_WND
BY DEF Replies, NoReply, None

(***************************************************************************)
(* The step that takes a segment.                                          *)
(***************************************************************************)
LEMMA BecomesIs ==
  ASSUME NoWrap, IInv, NEW v, Outcome(v), Becomes(v)
  PROVE  IInv'
<1>1. /\ Numbered /\ pcb \in Pcb /\ Peer /\ server \in Servers
  BY NumberedIs DEF IInv
<1>2. v \in Pcb /\ Told(v) /\ Quiet(v) /\ v.out \in Replies
  <2>1. v \in Pcb
    BY DEF Outcome, Open, Ready, Waiting, Flow, Closing, Ended
  <2> QED
    BY <2>1 DEF Outcome, Pcb
<1>3. /\ pcb' \in Pcb /\ Alike(pcb', v) /\ pcb'.out = NoReply
      /\ pcb'.now = v.now /\ pcb'.unsent = v.unsent
  <2>1. PICK o \in Replies : o = NoReply
    BY DEF Replies
  <2>2. pcb' = [v EXCEPT !.out = o]
    BY <2>1 DEF Becomes
  <2>3. pcb' \in Pcb
    BY <1>2, <2>2 DEF Pcb
  <2> QED
    BY <1>2, <2>1, <2>2, <2>3 DEF Pcb, Alike, SameStream, SameState, SameSend
<1>4. /\ server' = server /\ up' = up /\ sent' = sent /\ una' = una /\ limit' = limit
      /\ ackno' = ackno /\ gone' = gone
  BY DEF Becomes, peer
<1>5. reply' = reply \/ (reply' = v.out /\ v.out.kind # None)
  BY <1>2, RepliesAre DEF Becomes
<1>6. Peer'
  <2>1. reply' \in Replies
    BY <1>1, <1>2, <1>5 DEF Peer
  <2>2. reply'.kind # None => Acks(reply') \in 1 .. N + 2
    BY <1>1, <1>2, <1>5 DEF Peer, Told
  <2>3. Acks(reply)' = Acks(reply')
    BY DEF Acks, Base, Num
  <2> QED
    BY <1>1, <1>4, <2>1, <2>2, <2>3 DEF Peer
<1>7. Told(pcb)'
  <2>1. Smaller(una' - 1, N) <= Len(v.delivered)
    BY <1>2, <1>4 DEF Told
  <2>2. reply'.kind # None => Smaller(Acks(reply') - 1, N) <= Len(v.delivered)
    BY <1>2, <1>5 DEF Told
  <2>3. pcb'.delivered = v.delivered
    BY <1>3 DEF Alike, SameStream
  <2> QED
    BY <1>3, <2>1, <2>2, <2>3 DEF Told, NoReply, Acks, Base, Num, Smaller
<1>8. Quiet(pcb)' /\ pcb'.unsent = None
  BY <1>2, <1>3 DEF Quiet
<1>9. CASE Open(v)
  <2>1. Stream(v) /\ Offer(v) /\ Flow(v)
    BY <1>9 DEF Open, Ready, Waiting, Flow
  <2>2. Promised(E(v)) /\ Heard(R(v)) /\ Answers(v.out, R(v), E(v))
    BY <2>1 DEF Stream, Offer
  <2>3. sent' \in Nat /\ sent <= sent' /\ sent' + 1 <= E(v) /\ limit' <= E(v)
        /\ una' <= R(v)
    BY <1>1, <1>4, <2>2, PieceTop DEF Numbered, Promised, Heard
  <2>4. R(v) \in Int
    BY <1>1, <2>1, FlowIs
  <2>5. reply'.kind # None => Acks(reply') <= R(v)
    <3>1. CASE reply' = reply
      BY <2>2, <3>1 DEF Heard
    <3>2. CASE reply' = v.out /\ v.out.kind # None
      <4>1. Acks(v.out) \in 1 .. R(v)
        BY <2>2, <3>2 DEF Answers
      <4> QED
        BY <2>4, <3>2, <4>1
    <3> QED
      BY <1>5, <3>1, <3>2
  <2>6. reply'.kind \notin {None, "RST"} => Acks(reply') + reply'.wnd <= E(v)
    BY <1>5, <2>2 DEF Promised, Answers
  <2>7. Open(pcb)'
    BY <1>1, <1>3, <1>4, <1>9, <2>3, <2>5, <2>6, OpenKept
  <2> QED
    BY <1>1, <1>3, <1>4, <1>6, <1>8, <2>7 DEF IInv, Between
<1>10. CASE Closing(v)
  BY <1>1, <1>3, <1>4, <1>6, <1>7, <1>8, <1>10, ClosingKept DEF IInv, Between
<1>11. CASE Ended(v)
  BY <1>1, <1>3, <1>4, <1>6, <1>7, <1>8, <1>11, EndedKept DEF IInv, Between
<1> QED
  BY <1>9, <1>10, <1>11 DEF Outcome

(***************************************************************************)
(* What the peer learns it was told.                                       *)
(***************************************************************************)
LEMMA HeardIs ==
  ASSUME NoWrap, IInv, PeerHears
  PROVE  /\ reply.kind # None
         /\ una' = una \/ una' = Acks(reply)
         /\ limit' = limit
              \/ (reply.kind # "RST" /\ limit' <= Acks(reply) + reply.wnd
                    /\ limit' \in 0 .. N + 2)
<1>1. reply \in Replies /\ Numbered
  BY NumberedIs DEF IInv, Peer
<1>2. reply.kind # None /\ reply.ack \in Numbers /\ reply.wnd \in Nat
  BY <1>1, RepliesAre, Sizes DEF PeerHears
<1>3. PICK k \in 1 .. N + 2 : k = Acks(reply)
  BY <1>2 DEF IInv, Peer
<1>4. Diff(reply.ack, ISN) = k
  <2>1. reply.ack = Base + k /\ Base \in Int
    BY <1>2, <1>3, Places DEF Acks, Numbers
  <2>2. k \in 1 .. Top
    BY <1>1, <1>3, PieceTop, Sizes DEF Top
  <2> QED
    BY <2>1, <2>2, Places DEF Index
<1>5. una' = una \/ una' = k
  BY <1>4 DEF PeerHears
<1>6. limit' = IF reply.kind = "RST" THEN limit ELSE Smaller(N + 2, k + reply.wnd)
  BY <1>4 DEF PeerHears
<1>7. Smaller(N + 2, k + reply.wnd) <= k + reply.wnd
      /\ Smaller(N + 2, k + reply.wnd) \in 0 .. N + 2
  BY <1>1, <1>2, PieceTop DEF Smaller
<1> QED
  BY <1>2, <1>3, <1>5, <1>6, <1>7

(***************************************************************************)
(* The steps of the peer and of the network keep the invariant and leave   *)
(* the pcb.                                                                *)
(***************************************************************************)
LEMMA PeerIs ==
  ASSUME NoWrap, IInv, PeerSends \/ PeerHears \/ PeerAborts \/ ReplyLost
  PROVE  IInv' /\ pcb' = pcb
<1>1. /\ Numbered /\ pcb \in Pcb /\ Peer /\ server \in Servers /\ N \in Nat
  BY NumberedIs, PieceTop DEF IInv
<1>2. pcb' = pcb /\ server' = server
  BY DEF PeerSends, PeerHears, PeerAborts, ReplyLost
<1>3. Between
  BY DEF IInv, Untouched, PeerSends, PeerHears, PeerAborts, ReplyLost
<1>4. /\ sent' \in 0 .. N + 1 /\ sent <= sent'
      /\ sent' = sent \/ sent' + 1 <= limit
  <2>1. sent \in 0 .. N + 1 /\ limit \in Nat
    BY <1>1 DEF Numbered
  <2>2. CASE PeerSends
    BY <1>1, <2>1, <2>2 DEF PeerSends
  <2>3. CASE PeerHears \/ PeerAborts \/ ReplyLost
    <3>1. sent' = sent
      BY <2>3 DEF PeerHears, PeerAborts, ReplyLost, peer
    <3> QED
      BY <1>1, <2>1, <3>1
  <2> QED
    BY <2>2, <2>3
<1>5. /\ una' = una \/ (reply.kind # None /\ una' = Acks(reply))
      /\ limit' = limit
           \/ (reply.kind \notin {None, "RST"} /\ limit' <= Acks(reply) + reply.wnd
                 /\ limit' \in 0 .. N + 2)
  BY HeardIs DEF PeerSends, PeerAborts, ReplyLost, peer
<1>6. reply' \in {reply, NoReply}
  BY DEF PeerSends, PeerHears, PeerAborts, ReplyLost
<1>7. up' \in BOOLEAN /\ gone' \in BOOLEAN /\ ackno' \in 0 .. 2
  <2>1. up \in BOOLEAN /\ gone \in BOOLEAN /\ ackno \in 0 .. 2
    BY <1>1 DEF Peer
  <2>2. CASE PeerHears
    <3>1. up' = (up \/ reply.kind = "SYN") /\ gone' = (reply.kind = "RST")
      BY <2>2 DEF PeerHears
    <3>2. ackno' \in {ackno, 1, 2}
      BY <2>2 DEF PeerHears
    <3> QED
      BY <2>1, <3>1, <3>2
  <2>3. CASE PeerSends \/ PeerAborts \/ ReplyLost
    BY <2>1, <2>3 DEF PeerSends, PeerAborts, ReplyLost, peer
  <2> QED
    BY <2>2, <2>3
<1>8. Peer'
  <2>1. reply' \in Replies
    BY <1>1, <1>6 DEF Peer, Replies
  <2>2. una' \in 1 .. N + 2 /\ limit' \in 0 .. N + 2
    BY <1>1, <1>5 DEF Peer
  <2>3. reply'.kind # None => Acks(reply') \in 1 .. N + 2
    BY <1>1, <1>6 DEF Peer, NoReply
  <2>4. Acks(reply)' = Acks(reply')
    BY DEF Acks, Base, Num
  <2> QED
    BY <1>4, <1>7, <2>1, <2>2, <2>3, <2>4 DEF Peer
<1>9. /\ Alike(pcb', pcb) /\ pcb' \in Pcb /\ pcb'.out = NoReply /\ Quiet(pcb)'
      /\ pcb'.unsent = None
  BY <1>1, <1>2, <1>3 DEF Alike, SameStream, SameState, SameSend, Between, Quiet
<1>10. CASE Open(pcb)
  <2>1. Stream(pcb) /\ Offer(pcb) /\ Flow(pcb)
    BY <1>10 DEF Open, Ready, Waiting, Flow
  <2>2. Promised(E(pcb)) /\ Heard(R(pcb)) /\ E(pcb) \in Int
    BY <1>1, <2>1, FlowIs DEF Stream, Offer
  <2>3. limit' <= E(pcb)
    <3>1. limit <= E(pcb)
          /\ (reply.kind \notin {None, "RST"} => Acks(reply) + reply.wnd <= E(pcb))
      BY <2>2 DEF Promised
    <3>2. PICK k \in Int : k = Acks(reply) + reply.wnd
      BY <1>1, Places DEF Numbered, Acks
    <3>3. limit' = limit
            \/ (reply.kind \notin {None, "RST"} /\ limit' <= k /\ limit' \in 0 .. N + 2)
      BY <1>5, <3>2
    <3>4. CASE limit' = limit
      BY <3>1, <3>4
    <3>5. CASE reply.kind \notin {None, "RST"} /\ limit' <= k /\ limit' \in 0 .. N + 2
      <4>1. k <= E(pcb)
        BY <3>1, <3>2, <3>5
      <4>2. limit' \in Int
        BY <1>1, <3>5
      <4> QED
        BY <2>2, <3>5, <4>1, <4>2
    <3> QED
      BY <3>3, <3>4, <3>5
  <2>4. sent' \in Nat /\ sent' + 1 <= E(pcb)
    <3>1. limit <= E(pcb) /\ sent + 1 <= E(pcb)
      BY <2>2 DEF Promised
    <3>2. limit \in Int /\ sent' \in Nat
      BY <1>1, <1>4 DEF Numbered
    <3>3. CASE sent' = sent
      BY <3>1, <3>2, <3>3
    <3>4. CASE sent' + 1 <= limit
      <4>1. PICK e \in Int : e = E(pcb)
        BY <2>2
      <4>2. PICK k \in Nat, l \in Int : k = sent' /\ l = limit
        BY <3>2
      <4>3. l <= e
        BY <3>1, <4>1, <4>2
      <4>4. k + 1 <= l
        BY <3>4, <4>2
      <4>5. k + 1 <= e
        BY ONLY k \in Nat, l \in Int, e \in Int, <4>3, <4>4
      <4> QED
        BY <3>2, <4>1, <4>2, <4>5
    <3> QED
      BY <1>4, <3>3, <3>4
  <2>5. una' <= R(pcb)
    BY <1>5, <2>2 DEF Heard
  <2>6. /\ reply'.kind # None => Acks(reply') <= R(pcb)
        /\ reply'.kind \notin {None, "RST"} => Acks(reply') + reply'.wnd <= E(pcb)
    BY <1>6, <2>2 DEF Heard, Promised, NoReply
  <2>7. Open(pcb)'
    BY <1>1, <1>2, <1>4, <1>9, <1>10, <2>3, <2>4, <2>5, <2>6, OpenKept
  <2> QED
    BY <1>1, <1>2, <1>8, <1>9, <2>7 DEF IInv, Between
<1>11. CASE Closing(pcb) \/ Ended(pcb)
  <2>1. Told(pcb)
    BY <1>11 DEF Closing, Ended
  <2>2. Smaller(una' - 1, N) <= Len(pcb.delivered)
    BY <1>5, <2>1 DEF Told
  <2>3. reply'.kind # None => Smaller(Acks(reply') - 1, N) <= Len(pcb.delivered)
    BY <1>6, <2>1 DEF Told, NoReply
  <2>4. Told(pcb)'
    BY <1>2, <1>9, <2>2, <2>3 DEF Told, NoReply, Acks, Base, Num, Smaller
  <2>5. Closing(pcb)' \/ Ended(pcb)'
    BY <1>2, <1>9, <1>11, <2>4, ClosingKept, EndedKept
  <2> QED
    BY <1>1, <1>2, <1>8, <1>9, <2>5 DEF IInv, Between
<1> QED
  BY <1>2, <1>3, <1>10, <1>11 DEF Between

-----------------------------------------------------------------------------
(***************************************************************************)
(* Before anything has happened the invariant holds.                       *)
(***************************************************************************)
LEMMA InitInv ==
  ASSUME NoWrap, Init
  PROVE  IInv
<1>1. reply \in Replies /\ reply.kind = None
  BY DEF Init, Replies, NoReply
<1>2. Peer
  <2>1. N \in Nat
    BY TcpAssumption
  <2>2. 0 \in 0 .. N + 1 /\ 1 \in 1 .. N + 2 /\ 0 \in 0 .. N + 2 /\ 0 \in 0 .. 2
    BY <2>1
  <2> QED
    BY <1>1, <2>2 DEF Init, Peer
<1> QED
  BY <1>2 DEF Init, IInv, Untouched

(***************************************************************************)
(* Every step keeps the invariant.                                         *)
(***************************************************************************)
LEMMA NextInv ==
  ASSUME NoWrap, IInv, [Next]_vars
  PROVE  IInv'
<1>1. CASE SynArrives \/ EmptyArrives \/ TextArrives \/ ResetArrives
  <2>1. PICK v : Outcome(v) /\ Becomes(v)
    BY <1>1, ArrivalIs
  <2> QED
    BY <2>1, BecomesIs
<1>2. CASE PeerSends \/ PeerHears \/ PeerAborts \/ ReplyLost
  BY <1>2, PeerIs
<1>3. CASE UNCHANGED vars
  <2>1. /\ server' = server /\ pcb' = pcb /\ reply' = reply /\ up' = up /\ sent' = sent
        /\ una' = una /\ limit' = limit /\ ackno' = ackno /\ gone' = gone
    BY <1>3 DEF vars, peer
  <2>2. Peer' <=> Peer
    BY <2>1 DEF Peer, Acks, Base, Num
  <2>3. Untouched' <=> Untouched
    BY <2>1 DEF Untouched
  <2>4. Between' <=> Between
    <3>1. Told(pcb)' <=> Told(pcb)
      BY <2>1 DEF Told, Acks, Base, Num
    <3>2. History(pcb)' <=> History(pcb)
      BY <2>1 DEF History, Skipping
    <3>3. Lost(pcb)' = Lost(pcb)
      BY <2>1 DEF Lost
    <3>4. Closing(pcb)' <=> Closing(pcb)
      BY <2>1, <3>1, <3>2, <3>3 DEF Closing, Passed, R, E, BytesBehind, Send
    <3>5. Ended(pcb)' <=> Ended(pcb)
      BY <2>1, <3>1, <3>2, <3>3 DEF Ended, Quiet, Passed, R, BytesBehind, Send
    <3>6. Ordered(pcb.ooseq)' <=> Ordered(pcb.ooseq)
      BY <2>1 DEF Ordered, Piece
    <3>7. Stream(pcb)' <=> Stream(pcb)
      BY <2>1 DEF Stream, Heard, Acks, BytesBehind, R, Base, Num
    <3>8. Count(pcb)' <=> Count(pcb)
      BY <2>1, <3>2, <3>3 DEF Count
    <3>9. Offer(pcb)' <=> Offer(pcb)
      BY <2>1 DEF Offer, Promised, Answers, Acks, R, E, Base, Num
    <3>10. Open(pcb)' <=> Open(pcb)
      BY <2>1, <3>6, <3>7, <3>8, <3>9 DEF Open, Ready, Waiting, From, Passed, Flow, Send
    <3> QED
      BY <2>1, <3>4, <3>5, <3>10 DEF Between, Quiet
  <2> QED
    BY <2>1, <2>2, <2>3, <2>4 DEF IInv
<1> QED
  BY <1>1, <1>2, <1>3 DEF Next

(***************************************************************************)
(* The inductive invariant is an invariant.                                *)
(***************************************************************************)
THEOREM InvHolds ==
  ASSUME NoWrap
  PROVE  Spec => []IInv
<1>1. Init => IInv
  BY InitInv
<1>2. IInv /\ [Next]_vars => IInv'
  BY NextInv
<1> QED
  BY <1>1, <1>2, PTL DEF Spec

-----------------------------------------------------------------------------
(***************************************************************************)
(* What the invariant says of the history, whatever the state.             *)
(***************************************************************************)
LEMMA DeliveredIs ==
  ASSUME NoWrap, IInv
  PROVE  /\ pcb \in Pcb /\ Passed(pcb) /\ Quiet(pcb) /\ pcb.out = NoReply /\ Send(pcb)
         /\ Len(pcb.delivered) \in 0 .. N /\ BytesBehind(pcb.delivered, 0) /\ History(pcb)
         /\ Told(pcb)
<1>1. Numbered /\ pcb \in Pcb /\ N \in Nat /\ Len(pcb.delivered) \in Nat
  BY NumberedIs, PieceTop DEF Pcb
<1>2. CASE Untouched
  <2>1. /\ pcb.delivered = << >> /\ pcb.recv_data = << >> /\ pcb.p_len = 0 /\ ~ pcb.got_fin
        /\ ~ pcb.now /\ pcb.unsent = None /\ pcb.out = NoReply /\ pcb.chained = 0
        /\ pcb.taken = 0 /\ pcb.lastack = 0 /\ pcb.snd_nxt = 0 /\ pcb.unacked = None
        /\ pcb.long = FALSE
    BY <1>2 DEF Untouched, Idle, Fresh
  <2>2. Len(<< >>) = 0
    OBVIOUS
  <2>3. Passed(pcb) /\ Quiet(pcb) /\ History(pcb) /\ Send(pcb) /\ BytesBehind(pcb.delivered, 0)
    <3>1. Skipping(Len(pcb.delivered), pcb.taken, pcb.long)
      BY <2>1, <2>2, SkippingNone
    <3>2. History(pcb)
      BY <2>1, <2>2, <3>1 DEF History
    <3> QED
      BY <2>1, <2>2, <3>2 DEF Passed, Quiet, Send, BytesBehind, None
  <2>4. Told(pcb)
    <3>1. una - 1 = 0 /\ Smaller(0, N) = 0
      BY <1>1, <1>2 DEF Untouched, Smaller
    <3>2. Smaller(una - 1, N) <= Len(pcb.delivered)
      BY <2>1, <2>2, <3>1
    <3> QED
      BY <1>2, <2>1, <3>2 DEF Told, Untouched, NoReply
  <2> QED
    BY <1>1, <2>1, <2>2, <2>3, <2>4
<1>3. CASE Open(pcb) /\ Between
  <2>1. Flow(pcb) /\ Passed(pcb) /\ Quiet(pcb) /\ pcb.out = NoReply
    BY <1>3 DEF Open, Ready, Waiting, Between
  <2>2. Told(pcb)
    BY <1>1, <1>3, <2>1, OpenIs DEF Outcome
  <2>3. Len(pcb.delivered) \in 0 .. N
    BY <1>1, <2>1, RIs DEF Flow
  <2> QED
    BY <2>1, <2>2, <2>3 DEF Flow, Stream, Count
<1>4. CASE Closing(pcb) /\ Between
  <2>1. Len(pcb.delivered) = N
    BY <1>4 DEF Closing
  <2> QED
    BY <1>1, <1>4, <2>1 DEF Closing, Between
<1>5. CASE Ended(pcb) /\ Between
  <2>1. Len(pcb.delivered) <= N
    BY <1>5 DEF Ended
  <2> QED
    BY <1>1, <1>5, <2>1 DEF Ended, Between
<1> QED
  BY <1>2, <1>3, <1>4, <1>5 DEF IInv, Between

(***************************************************************************)
(* In the states in which the peer's connection is set up.                 *)
(***************************************************************************)
LEMMA OpenNow ==
  ASSUME NoWrap, IInv, pcb.state \in {"SYN_RCVD", "ESTABLISHED"}
  PROVE  Open(pcb) /\ Flow(pcb) /\ Numbered
<1>1. ~ Untouched /\ ~ Closing(pcb) /\ ~ Ended(pcb)
  BY DEF Untouched, Idle, Fresh, Closing, Ended
<1> QED
  BY <1>1, NumberedIs DEF IInv, Between, Open, Ready, Waiting

-----------------------------------------------------------------------------
(***************************************************************************)
(* TypeOK: every field has its type, and nothing is left to do between two *)
(* segments.                                                               *)
(***************************************************************************)
THEOREM TcpTypeCorrect ==
  ASSUME NoWrap
  PROVE  Spec => []TypeOK
<1>1. IInv => TypeOK
  <2> SUFFICES ASSUME IInv PROVE TypeOK
    OBVIOUS
  <2>1. /\ pcb \in Pcb /\ Passed(pcb) /\ Quiet(pcb) /\ pcb.out = NoReply /\ Send(pcb)
        /\ Len(pcb.delivered) \in 0 .. N /\ History(pcb)
    BY DeliveredIs
  <2>2. N \in Nat
    BY TcpAssumption
  <2>3. pcb.chained \in 0 .. N /\ pcb.taken \in 0 .. N
    <3>1. pcb.chained \in Nat /\ pcb.taken \in Nat
      BY <2>1 DEF Pcb
    <3>2. pcb.chained <= Len(pcb.delivered) /\ pcb.taken <= Len(pcb.delivered)
      BY <2>1 DEF History
    <3> QED
      BY <2>1, <2>2, <3>1, <3>2
  <2>4. pcb.lastack \in 0 .. pcb.snd_nxt
    <3>1. pcb.lastack \in 0 .. 2 /\ pcb.snd_nxt \in 0 .. 2
      BY <2>1 DEF Pcb
    <3> QED
      BY <2>1, <3>1 DEF Send
  <2>5. pcb.state \in {"LISTEN", "SYN_RCVD", "ESTABLISHED", "LAST_ACK", "FREED"}
        /\ (pcb.ending # None) = (pcb.state = "FREED")
    <3>1. CASE Untouched
      BY <3>1 DEF Untouched, Idle, Fresh
    <3>2. CASE Open(pcb)
      BY <3>2 DEF Open, Ready, Waiting, Flow
    <3>3. CASE Closing(pcb)
      BY <3>3 DEF Closing
    <3>4. CASE Ended(pcb)
      BY <3>4 DEF Ended
    <3> QED
      BY <3>1, <3>2, <3>3, <3>4 DEF IInv, Between
  <2>6. /\ pcb.rcv_nxt \in Numbers /\ pcb.right_edge \in Numbers
        /\ pcb.rcv_wnd \in 0 .. TCP_WND /\ pcb.ann_wnd \in 0 .. TCP_WND
        /\ pcb.delay \in BOOLEAN /\ pcb.infr \in BOOLEAN /\ pcb.long \in BOOLEAN
        /\ pcb.unacked \in {None, "SYN", "FIN"} /\ pcb.snd_nxt \in 0 .. 2
        /\ pcb.dupacks \in 0 .. 3
        /\ pcb.ending \in {None, "closed", "reset_sent", "reset_by_peer"}
    BY <2>1 DEF Pcb, Held
  <2>7. reply.kind \in {None, "SYN", "ACK", "FIN", "RST"}
    BY RepliesAre DEF IInv, Peer
  <2> QED
    BY <2>1, <2>3, <2>4, <2>5, <2>6, <2>7 DEF TypeOK, IInv, Peer, Passed, Quiet
<1> QED
  BY <1>1, InvHolds, PTL

(***************************************************************************)
(* StreamDelivered: the callbacks get the bytes in order, each once, the   *)
(* peer is told of nothing they have not got, and the connection is closed *)
(* after the last byte only.                                               *)
(***************************************************************************)
THEOREM TcpStreamDelivered ==
  ASSUME NoWrap
  PROVE  Spec => []StreamDelivered
<1>1. IInv => StreamDelivered
  <2> SUFFICES ASSUME IInv PROVE StreamDelivered
    OBVIOUS
  <2>1. /\ pcb \in Pcb /\ Len(pcb.delivered) \in 0 .. N /\ BytesBehind(pcb.delivered, 0)
        /\ Told(pcb) /\ Passed(pcb) /\ N \in Nat
    BY DeliveredIs, TcpAssumption
  <2>2. pcb.delivered = [i \in 1 .. Len(pcb.delivered) |-> i]
    <3>1. PICK d \in Seq(Nat) : d = pcb.delivered
      BY <2>1 DEF Pcb
    <3>2. \A i \in 1 .. Len(d) : d[i] = i
      BY <2>1, <3>1 DEF BytesBehind
    <3>3. d = [i \in 1 .. Len(d) |-> i]
      BY <3>2
    <3> QED
      BY <3>1, <3>3
  <2>3. ASSUME pcb.state = "ESTABLISHED"
        PROVE  pcb.rcv_nxt = Num(Len(pcb.delivered) + 1)
    <3>1. Flow(pcb) /\ Numbered
      BY <2>3, OpenNow
    <3>2. PICK d \in 0 .. N : d = Len(pcb.delivered)
      BY <2>1
    <3>3. R(pcb) = d + 0 + 1 + 0
      <4>1. Len(pcb.recv_data) = 0 /\ Flag(pcb.got_fin) = 0
        BY <2>1 DEF Passed, Flag
      <4> QED
        BY <3>1, <3>2, <4>1 DEF Flow, Stream
    <3>4. pcb.rcv_nxt = Base + (d + 1)
      BY <2>1, <3>1, <3>3, FlowIs
    <3>5. d + 1 \in 1 .. Top
      BY <2>1, Sizes DEF Top
    <3> QED
      BY <3>2, <3>4, <3>5, Places
  <2>4. Smaller(una - 1, N) <= Len(pcb.delivered)
    BY <2>1 DEF Told
  <2>5. pcb.state = "LAST_ACK" \/ pcb.ending \in {"closed", "reset_sent"}
          => Len(pcb.delivered) = N
    BY DEF IInv, Untouched, Idle, Fresh, Between, Open, Ready, Waiting, Flow, Closing,
           Ended, None
  <2> QED
    BY <2>2, <2>3, <2>4, <2>5 DEF StreamDelivered
<1> QED
  BY <1>1, InvHolds, PTL

(***************************************************************************)
(* OfferHonoured: neither the window announced nor what the peer has heard *)
(* of it reaches behind the window that tcp_receive keeps.                 *)
(***************************************************************************)
THEOREM TcpOfferHonoured ==
  ASSUME NoWrap
  PROVE  Spec => []OfferHonoured
<1>1. IInv => OfferHonoured
  <2> SUFFICES ASSUME IInv, pcb.state \in {"SYN_RCVD", "ESTABLISHED"}
               PROVE  /\ Index(pcb.right_edge) <= Index(pcb.rcv_nxt) + pcb.rcv_wnd
                      /\ Index(pcb.rcv_nxt) + pcb.ann_wnd <= Index(pcb.rcv_nxt) + pcb.rcv_wnd
                      /\ limit <= Index(pcb.rcv_nxt) + pcb.rcv_wnd
    BY DEF OfferHonoured
  <2>1. Flow(pcb) /\ Numbered
    BY OpenNow
  <2>2. PICK r \in 1 .. N + 2, e \in 1 .. Top, w \in Nat, a \in Nat, l \in Nat :
          /\ r = R(pcb) /\ e = E(pcb) /\ w = pcb.rcv_wnd /\ a = pcb.ann_wnd /\ l = limit
          /\ pcb.rcv_nxt = Base + r /\ pcb.right_edge = Base + e
          /\ a <= w /\ e <= r + w /\ l <= e
    <3>1. limit <= E(pcb) /\ limit \in Nat
      BY <2>1 DEF Flow, Offer, Promised, Numbered
    <3>2. pcb.rcv_wnd \in Nat /\ pcb.ann_wnd \in Nat
      BY <2>1, FlowIs, Sizes
    <3>3. /\ R(pcb) \in 1 .. N + 2 /\ E(pcb) \in 1 .. Top
          /\ pcb.rcv_nxt = Base + R(pcb) /\ pcb.right_edge = Base + E(pcb)
          /\ pcb.ann_wnd <= pcb.rcv_wnd /\ E(pcb) <= R(pcb) + pcb.rcv_wnd
      BY <2>1, FlowIs
    <3> QED
      BY <3>1, <3>2, <3>3
  <2>3. Index(pcb.rcv_nxt) = r /\ Index(pcb.right_edge) = e
    <3>1. r \in 1 .. Top
      BY Sizes DEF Top
    <3> QED
      BY <2>2, <3>1, Places
  <2>4. r + a <= r + w /\ l <= r + w
    <3>1. N \in Nat /\ Top \in Nat /\ a <= w /\ e <= r + w /\ l <= e
      BY <2>2, Sizes DEF Top
    <3> QED
      BY ONLY r \in 1 .. N + 2, e \in 1 .. Top, w \in Nat, a \in Nat, l \in Nat, <3>1
  <2> QED
    BY <2>2, <2>3, <2>4
<1> QED
  BY <1>1, InvHolds, PTL

(***************************************************************************)
(* WindowAccounted: of the window only the pbufs are lost that             *)
(* data_recv_callback leaves in a chain.                                   *)
(***************************************************************************)
THEOREM TcpWindowAccounted ==
  ASSUME NoWrap
  PROVE  Spec => []WindowAccounted
<1>1. IInv => WindowAccounted
  <2> SUFFICES ASSUME IInv, pcb.state = "ESTABLISHED"
               PROVE  pcb.rcv_wnd = TCP_WND - (IF server = "data" THEN pcb.chained ELSE 0)
    BY DEF WindowAccounted
  <2>1. Flow(pcb) /\ Passed(pcb) /\ pcb \in Pcb
    BY OpenNow DEF Open, Flow
  <2>2. Len(pcb.recv_data) = 0 /\ Flag(pcb.got_fin) = 0
    BY <2>1 DEF Passed, Flag
  <2>3. pcb.rcv_wnd + 0 + 0 + Lost(pcb) = TCP_WND
    BY <2>1, <2>2 DEF Flow, Count
  <2>4. pcb.rcv_wnd \in Int /\ Lost(pcb) \in Int
    BY <2>1, Sizes DEF Pcb, Lost
  <2> QED
    BY <2>3, <2>4 DEF Lost
<1> QED
  BY <1>1, InvHolds, PTL

(***************************************************************************)
(* ResetOnlyAfterChain: tcp_close answers with a reset exactly if a part   *)
(* of the window has been lost.                                            *)
(***************************************************************************)
THEOREM TcpResetOnlyAfterChain ==
  ASSUME NoWrap
  PROVE  Spec => []ResetOnlyAfterChain
<1>1. IInv => ResetOnlyAfterChain
  <2> SUFFICES ASSUME IInv PROVE ResetOnlyAfterChain
    OBVIOUS
  <2>1. /\ pcb.ending = "reset_sent" => Lost(pcb) > 0
        /\ pcb.state = "LAST_ACK" \/ pcb.ending = "closed" => Lost(pcb) = 0
    BY DEF IInv, Untouched, Idle, Fresh, Between, Open, Ready, Waiting, Flow, Closing,
           Ended, None
  <2>2. server \in {"seq", "data"}
    BY TcpAssumption DEF IInv
  <2> QED
    BY <2>1, <2>2 DEF ResetOnlyAfterChain, Lost
<1> QED
  BY <1>1, InvHolds, PTL

(***************************************************************************)
(* SkippedByCount: without a chain the callbacks take every byte that they *)
(* are given, but for multiples of what the u8_t of seq_recv_callback can  *)
(* count, and those are lost exactly if a piece was too long for it.       *)
(***************************************************************************)
THEOREM TcpSkippedByCount ==
  ASSUME NoWrap
  PROVE  Spec => []SkippedByCount
<1>1. IInv => SkippedByCount
  <2> SUFFICES ASSUME IInv, pcb.chained = 0
               PROVE  \E k \in 0 .. N :
                        /\ Len(pcb.delivered) = pcb.taken + k * U8
                        /\ k > 0 <=> server = "seq" /\ pcb.long
    BY DEF SkippedByCount
  <2>1. /\ Len(pcb.delivered) \in 0 .. N /\ pcb.taken \in Nat
        /\ Skipping(Len(pcb.delivered), pcb.taken, pcb.long)
    BY DeliveredIs DEF History, Pcb
  <2>2. PICK k \in Nat : /\ Len(pcb.delivered) = pcb.taken + k * U8
                         /\ k > 0 <=> server = "seq" /\ pcb.long
    BY <2>1 DEF Skipping
  <2>3. PICK D \in Nat, t \in Nat, S \in Nat \ {0} :
          D = Len(pcb.delivered) /\ t = pcb.taken /\ S = U8 /\ D <= N
    BY <2>1, TcpAssumption
  <2>4. k * S >= k
    OBVIOUS
  <2>5. k \in 0 .. N
    BY <2>2, <2>3, <2>4, TcpAssumption
  <2> QED
    BY <2>2, <2>5
<1> QED
  BY <1>1, InvHolds, PTL

(***************************************************************************)
(* OoseqSorted: the queue out of sequence is ahead of the stream, sorted,  *)
(* without overlap, and its segments hold the bytes of their numbers.      *)
(***************************************************************************)
THEOREM TcpOoseqSorted ==
  ASSUME NoWrap
  PROVE  Spec => []OoseqSorted
<1>1. IInv => OoseqSorted
  <2> SUFFICES ASSUME IInv, NEW i \in 1 .. Len(pcb.ooseq)
               PROVE  LET q == pcb.ooseq IN
                        /\ TCP_SEQ_GT(q[i].seq, pcb.rcv_nxt)
                        /\ q[i].len = Len(q[i].data)
                        /\ q[i].data = [k \in 1 .. q[i].len |-> Index(q[i].seq) + k - 1]
                        /\ q[i].fin => i = Len(q) /\ Index(End(q[i])) = N + 1
                        /\ i < Len(q) => /\ TCP_SEQ_GEQ(q[i + 1].seq, End(q[i]))
                                         /\ q[i + 1].seq # q[i].seq
    BY DEF OoseqSorted
  <2>1. Open(pcb) /\ Flow(pcb) /\ Numbered
    <3>1. pcb.ooseq # << >>
      OBVIOUS
    <3>2. ~ Untouched /\ ~ Closing(pcb) /\ ~ Ended(pcb)
      BY <3>1 DEF Untouched, Idle, Fresh, Closing, Ended
    <3> QED
      BY <3>2, NumberedIs DEF IInv, Between, Open, Ready, Waiting
  <2>2. PICK q : q = pcb.ooseq
    OBVIOUS
  <2>3. Ordered(q) /\ From(q, R(pcb) + 1) /\ i \in 1 .. Len(q) /\ Len(q) \in Nat
    BY <2>1, <2>2 DEF Open, Ready, Waiting, Ordered
  <2>4. PICK s : s = q[i] /\ Piece(s)
    BY <2>3 DEF Ordered
  <2>5. PICK a \in 1 .. N + 1, z \in 1 .. N + 1, l \in Nat :
          /\ a = A(s) /\ z = Z(s) /\ l = s.len /\ a <= z /\ z = a + l
          /\ s.seq = Base + a /\ End(s) = Base + z /\ (~ s.fin => a < z)
    BY <2>1, <2>4, PieceIs
  <2>6. N \in Nat /\ a \in 1 .. Top /\ z \in 1 .. Top /\ a \in 0 .. Top /\ z \in 0 .. Top
    BY Sizes DEF Top
  <2>7. Index(s.seq) = a /\ Index(End(s)) = z
    BY <2>5, <2>6, Places
  <2>8. TCP_SEQ_GT(s.seq, pcb.rcv_nxt)
    <3>1. R(pcb) \in 0 .. Top /\ pcb.rcv_nxt = Base + R(pcb) /\ R(pcb) \in Int
      BY <2>1, FlowIs
    <3>2. R(pcb) + 1 <= a
      BY <2>3, <2>4, <2>5 DEF From
    <3>3. R(pcb) < a
      BY <3>1, <3>2
    <3> QED
      BY <2>1, <2>5, <2>6, <3>1, <3>3, PlacesCompare
  <2>9. s.len = Len(s.data) /\ s.data = [k \in 1 .. s.len |-> Index(s.seq) + k - 1]
    <3>1. /\ s.len = Len(s.data) /\ s.data \in Seq(Nat)
          /\ \A k \in 1 .. s.len : s.data[k] = a + k - 1
      BY <2>4, <2>5 DEF Piece, Segments
    <3>2. PICK d \in Seq(Nat) : d = s.data
      BY <3>1
    <3>3. Len(d) = l /\ \A k \in 1 .. l : d[k] = a + k - 1
      BY <2>5, <3>1, <3>2
    <3>4. d = [k \in 1 .. l |-> a + k - 1]
      BY <3>3
    <3> QED
      BY <2>5, <2>7, <3>1, <3>2, <3>4
  <2>10. s.fin => i = Len(q) /\ Index(End(s)) = N + 1
    <3>1. s.fin => Index(End(s)) = N + 1
      BY <2>4, <2>5, <2>7 DEF Piece
    <3>2. ASSUME s.fin PROVE i = Len(q)
      <4>1. SUFFICES ASSUME i < Len(q) PROVE FALSE
        BY <2>3
      <4>2. i + 1 \in 1 .. Len(q) /\ i < i + 1
        BY <2>3, <4>1
      <4> QED
        BY <2>3, <2>4, <3>2, <4>2 DEF Ordered
    <3> QED
      BY <3>1, <3>2
  <2>11. ASSUME i < Len(q)
         PROVE  TCP_SEQ_GEQ(q[i + 1].seq, End(s)) /\ q[i + 1].seq # s.seq
    <3>1. i + 1 \in 1 .. Len(q) /\ i < i + 1
      BY <2>3, <2>11
    <3>2. PICK t : t = q[i + 1] /\ Piece(t)
      BY <2>3, <3>1 DEF Ordered
    <3>3. PICK b \in 1 .. N + 1 : b = A(t) /\ t.seq = Base + b
      BY <2>1, <3>2, PieceIs
    <3>4. ~ s.fin /\ z <= b
      BY <2>3, <2>4, <2>5, <3>1, <3>2, <3>3 DEF Ordered
    <3>5. b \in 0 .. Top /\ a < z
      BY <2>5, <2>6, <3>4, Sizes DEF Top
    <3>6. Base \in Int
      BY <2>1, Places DEF Numbered
    <3>7. Base + b # Base + a
      BY ONLY a \in 1 .. N + 1, b \in 1 .. N + 1, z \in 1 .. N + 1,
              <2>6, <3>4, <3>5, <3>6
    <3> QED
      BY <2>1, <2>5, <2>6, <3>2, <3>3, <3>4, <3>5, <3>7, PlacesCompare
  <2> QED
    BY <2>2, <2>4, <2>8, <2>9, <2>10, <2>11
<1> QED
  BY <1>1, InvHolds, PTL

(***************************************************************************)
(* RightEdgeKept: no step moves the right edge of the window to the left   *)
(* (tcp_update_rcv_ann_wnd).                                               *)
(***************************************************************************)
THEOREM TcpRightEdgeKept ==
  ASSUME NoWrap
  PROVE  Spec => RightEdgeKept
<1>1. ASSUME IInv, [Next]_vars, pcb.state \in {"SYN_RCVD", "ESTABLISHED"}, Connected'
      PROVE  TCP_SEQ_GEQ(pcb'.right_edge, pcb.right_edge)
  <2>1. Flow(pcb) /\ Numbered
    BY <1>1, OpenNow
  <2>2. E(pcb) \in 1 .. Top /\ E(pcb) \in 0 .. Top /\ pcb.right_edge = Base + E(pcb)
    BY <2>1, FlowIs
  <2>3. CASE SynArrives \/ EmptyArrives \/ TextArrives \/ ResetArrives
    <3>1. PICK v : Outcome(v) /\ Becomes(v)
      BY <1>1, <2>3, ArrivalIs
    <3>2. v \in Pcb
      BY <3>1 DEF Outcome, Open, Ready, Waiting, Flow, Closing, Ended
    <3>3. pcb'.right_edge = v.right_edge /\ pcb'.state = v.state
      BY <3>1, <3>2 DEF Becomes, Pcb
    <3>4. v.state # "FREED"
      BY <1>1, <3>3 DEF Connected
    <3>5. E(v) \in 1 .. Top /\ E(pcb) <= E(v)
      BY <3>1, <3>4 DEF Outcome
    <3>6. v.right_edge = Base + E(v)
      BY <3>2, Places DEF Pcb, Numbers, E
    <3>7. E(v) \in 0 .. Top
      BY <3>5, Places
    <3> QED
      BY <2>1, <2>2, <3>3, <3>5, <3>6, <3>7, PlacesCompare
  <2>4. CASE pcb' = pcb
    <3>1. E(pcb) <= E(pcb)
      BY <2>2, Places
    <3> QED
      BY <2>1, <2>2, <2>4, <3>1, PlacesCompare
  <2>5. CASE PeerSends \/ PeerHears \/ PeerAborts \/ ReplyLost
    BY <2>4, <2>5 DEF PeerSends, PeerHears, PeerAborts, ReplyLost
  <2>6. CASE UNCHANGED vars
    BY <2>4, <2>6 DEF vars
  <2> QED
    BY <1>1, <2>3, <2>5, <2>6 DEF Next
<1>2. IInv /\ [Next]_vars
        => [pcb.state \in {"SYN_RCVD", "ESTABLISHED"} /\ Connected'
              => TCP_SEQ_GEQ(pcb'.right_edge, pcb.right_edge)]_vars
  BY <1>1
<1> QED
  BY <1>2, InvHolds, PTL DEF Spec, RightEdgeKept

============================================================================
