----------------------- MODULE StreamAssemblerProofs -----------------------
(***************************************************************************)
(* The accounts of StreamAssembler hold for windows, queues, chunks and    *)
(* gaps of every size: AccountsInv is inductive, and with it no sample is  *)
(* counted twice, forgotten or handed out of order.                        *)
(***************************************************************************)
EXTENDS StreamAssembler, TLAPS, WellFoundedInduction, SequenceTheorems

(* Sums are computed by recursion.  Facts about them are proved from this: *)
(* a set of counterexamples would have a least one.                        *)
LEMMA LeastNumber ==
  ASSUME NEW T, T \subseteq Nat, T # {}
  PROVE  \E m \in T : \A k \in T : m <= k
<1>1. PICK m \in T : \A k \in T : ~(<<k, m>> \in OpToRel(<, Nat))
  BY WFMin, NatLessThanWellFounded
<1>2. SUFFICES ASSUME NEW k \in T, k < m PROVE FALSE
  OBVIOUS
<1>3. <<k, m>> \in Nat \X Nat /\ <<k, m>>[1] < <<k, m>>[2]
  BY <1>2
<1>4. <<k, m>> \in OpToRel(<, Nat)
  BY <1>3 DEF OpToRel
<1> QED
  BY <1>1, <1>4

(* g lists the sums of the first n numbers of w. *)
PartialSums(w, g, n) ==
  /\ g \in [0 .. n -> Int]
  /\ g[0] = 0
  /\ \A i \in 1 .. n : g[i] = w[i] + g[i - 1]

LEMMA PartialSumsExist ==
  ASSUME NEW w \in Seq(Int), NEW n \in 0 .. Len(w)
  PROVE  \E g : PartialSums(w, g, n)
<1> DEFINE T == {m \in 0 .. Len(w) : ~ \E g : PartialSums(w, g, m)}
<1>1. SUFFICES ASSUME T # {} PROVE FALSE
  OBVIOUS
<1>2. PICK m \in T : \A k \in T : m <= k
  <2>1. T \subseteq Nat
    OBVIOUS
  <2> HIDE DEF T
  <2> QED
    BY <2>1, <1>1, LeastNumber
<1>3. m # 0
  <2>1. PartialSums(w, [i \in 0 .. 0 |-> 0], 0)
    BY DEF PartialSums
  <2> QED
    BY <2>1
<1>4. m \in 1 .. Len(w) /\ m - 1 \in 0 .. Len(w) /\ w[m] \in Int
  <2>1. m \in 0 .. Len(w) /\ Len(w) \in Nat
    OBVIOUS
  <2> QED
    BY <2>1, <1>3
<1>5. PICK g : PartialSums(w, g, m - 1)
  <2>1. m - 1 \notin T
    BY <1>2, <1>4
  <2> QED
    BY <2>1, <1>4
<1> DEFINE h == [i \in 0 .. m |-> IF i = m THEN w[m] + g[m - 1] ELSE g[i]]
<1>6. PartialSums(w, h, m)
  <2>1. /\ g \in [0 .. m - 1 -> Int] /\ g[0] = 0
        /\ \A i \in 1 .. m - 1 : g[i] = w[i] + g[i - 1]
    BY <1>5 DEF PartialSums
  <2>2. g[m - 1] \in Int /\ m \in Nat
    BY <1>4, <2>1
  <2>3. h \in [0 .. m -> Int] /\ h[0] = 0
    BY <1>3, <1>4, <2>1, <2>2
  <2>4. ASSUME NEW i \in 1 .. m PROVE h[i] = w[i] + h[i - 1]
    <3>1. CASE i = m
      BY <3>1, <1>4, <2>1
    <3>2. CASE i # m
      BY <3>2, <1>4, <2>1
    <3> QED
      BY <3>1, <3>2
  <2> HIDE DEF h
  <2> QED
    BY <2>3, <2>4 DEF PartialSums
<1> QED
  BY <1>6

(* Total is the last of them. *)
LEMMA TotalIsLast ==
  ASSUME NEW w \in Seq(Int), NEW g, PartialSums(w, g, Len(w))
  PROVE  Total(w) = g[Len(w)]
<1> DEFINE n == Len(w)
           Upto(f) == f = [i \in 0 .. n |-> IF i = 0 THEN 0 ELSE w[i] + f[i - 1]]
           f == CHOOSE any : Upto(any)
           T == {m \in 0 .. n : f[m] # g[m]}
<1>1. n \in Nat
  OBVIOUS
<1>2. /\ g \in [0 .. n -> Int] /\ g[0] = 0
      /\ \A i \in 1 .. n : g[i] = w[i] + g[i - 1]
  BY DEF PartialSums
<1>3. Total(w) = f[n]
  BY DEF Total
<1> HIDE DEF n
<1>4. Upto(g)
  <2>1. \A i \in 0 .. n : i # 0 => i \in 1 .. n
    BY <1>1
  <2> QED
    BY <1>2, <2>1
<1>5. Upto(f)
  BY <1>4
<1> HIDE DEF f
<1>6. f[0] = 0 /\ \A i \in 1 .. n : f[i] = w[i] + f[i - 1]
  BY <1>5, <1>1
<1>7. SUFFICES ASSUME T # {} PROVE FALSE
  BY <1>1, <1>3 DEF n
<1>8. PICK m \in T : \A k \in T : m <= k
  <2>1. T \subseteq Nat
    BY <1>1
  <2> HIDE DEF T
  <2> QED
    BY <2>1, <1>7, LeastNumber
<1>9. m \in 1 .. n /\ m - 1 \in 0 .. n
  BY <1>1, <1>2, <1>6
<1>10. m - 1 \notin T
  BY <1>8, <1>9, <1>1
<1> QED
  BY <1>2, <1>6, <1>9, <1>10

LEMMA TotalEmpty == Total(<<>>) = 0
<1>1. PartialSums(<<>>, [i \in 0 .. 0 |-> 0], Len(<<>>))
  BY DEF PartialSums
<1> QED
  BY <1>1, TotalIsLast

LEMMA TotalOne ==
  ASSUME NEW x \in Int PROVE Total(<<x>>) = x
<1> DEFINE g == [i \in 0 .. 1 |-> IF i = 0 THEN 0 ELSE x]
<1>1. <<x>> \in Seq(Int) /\ Len(<<x>>) = 1 /\ <<x>>[1] = x
  OBVIOUS
<1>2. g \in [0 .. 1 -> Int] /\ g[0] = 0 /\ g[1] = x
  OBVIOUS
<1>3. ASSUME NEW i \in 1 .. 1 PROVE g[i] = <<x>>[i] + g[i - 1]
  <2>1. i = 1
    OBVIOUS
  <2> QED
    BY <2>1, <1>1, <1>2
<1> HIDE DEF g
<1>4. PartialSums(<<x>>, g, Len(<<x>>))
  BY <1>1, <1>2, <1>3 DEF PartialSums
<1> QED
  BY <1>1, <1>2, <1>4, TotalIsLast

LEMMA TotalType ==
  ASSUME NEW w \in Seq(Int) PROVE Total(w) \in Int
<1>1. PICK g : PartialSums(w, g, Len(w))
  BY PartialSumsExist
<1>2. g[Len(w)] \in Int
  BY <1>1 DEF PartialSums
<1> QED
  BY <1>1, <1>2, TotalIsLast

LEMMA TotalConcat ==
  ASSUME NEW a \in Seq(Int), NEW b \in Seq(Int)
  PROVE  Total(a \o b) = Total(a) + Total(b)
<1> DEFINE m == Len(a)
           n == Len(b)
<1>1. m \in Nat /\ n \in Nat /\ a \in [1 .. m -> Int] /\ b \in [1 .. n -> Int]
  OBVIOUS
<1>2. /\ a \o b \in Seq(Int) /\ Len(a \o b) = m + n
      /\ \A i \in 1 .. m + n : (a \o b)[i] = IF i <= m THEN a[i] ELSE b[i - m]
  OBVIOUS
<1>3. PICK g : PartialSums(a, g, m)
  BY PartialSumsExist, <1>1
<1>4. PICK h : PartialSums(b, h, n)
  BY PartialSumsExist, <1>1
<1> DEFINE s == [i \in 0 .. m + n |-> IF i <= m THEN g[i] ELSE g[m] + h[i - m]]
<1>5. Total(a) = g[m] /\ Total(b) = h[n]
  BY <1>3, <1>4, TotalIsLast
<1> HIDE DEF m, n
<1>6. /\ g \in [0 .. m -> Int] /\ g[0] = 0
      /\ \A i \in 1 .. m : g[i] = a[i] + g[i - 1]
  BY <1>3 DEF PartialSums
<1>7. /\ h \in [0 .. n -> Int] /\ h[0] = 0
      /\ \A i \in 1 .. n : h[i] = b[i] + h[i - 1]
  BY <1>4 DEF PartialSums
<1>8. s \in [0 .. m + n -> Int] /\ s[0] = 0
  <2>1. ASSUME NEW i \in 0 .. m + n PROVE s[i] \in Int
    <3>1. CASE i <= m
      BY <3>1, <1>1, <1>6
    <3>2. CASE ~(i <= m)
      BY <3>2, <1>1, <1>6, <1>7
    <3> QED
      BY <3>1, <3>2
  <2>2. s \in [0 .. m + n -> Int]
    BY <2>1
  <2>3. s[0] = 0
    BY <1>1, <1>6
  <2> QED
    BY <2>2, <2>3
<1>9. ASSUME NEW i \in 1 .. m + n PROVE s[i] = (a \o b)[i] + s[i - 1]
  <2>1. CASE i <= m
    BY <2>1, <1>1, <1>2, <1>6
  <2>2. CASE i = m + 1
    <3>1. s[i] = g[m] + h[1] /\ s[i - 1] = g[m]
      BY <2>2, <1>1
    <3>2. (a \o b)[i] = b[1] /\ 1 \in 1 .. n
      BY <2>2, <1>1, <1>2
    <3>3. h[1] = b[1] + h[0] /\ h[1] \in Int /\ g[m] \in Int
      BY <3>2, <1>1, <1>6, <1>7
    <3>4. h[1] = b[1]
      <4>1. b[1] \in Int
        BY <3>2, <1>1
      <4> QED
        BY <4>1, <3>3, <1>7
    <3> QED
      BY <3>1, <3>2, <3>3, <3>4
  <2>3. CASE i > m + 1
    <3>1. s[i] = g[m] + h[i - m] /\ s[i - 1] = g[m] + h[i - 1 - m]
      BY <2>3, <1>1
    <3>2. (a \o b)[i] = b[i - m] /\ i - m \in 1 .. n /\ i - 1 - m = i - m - 1
      BY <2>3, <1>1, <1>2
    <3>3. h[i - m] = b[i - m] + h[i - m - 1]
      BY <3>2, <1>7
    <3>4. h[i - m] \in Int /\ h[i - m - 1] \in Int /\ g[m] \in Int /\ b[i - m] \in Int
      <4>1. i - m \in 0 .. n /\ i - m - 1 \in 0 .. n /\ m \in 0 .. m
        BY <2>3, <3>2, <1>1
      <4> HIDE DEF s
      <4> QED
        BY <4>1, <3>2, <1>1, <1>6, <1>7
    <3>5. s[i] = g[m] + (b[i - m] + h[i - m - 1]) /\ s[i - 1] = g[m] + h[i - m - 1]
      BY <3>1, <3>2, <3>3
    <3> DEFINE x == g[m]
               y == b[i - m]
               z == h[i - m - 1]
    <3>6. x + (y + z) = y + (x + z)
      <4>1. x \in Int /\ y \in Int /\ z \in Int
        BY <3>4
      <4> HIDE DEF x, y, z
      <4> QED
        BY <4>1
    <3> QED
      BY <3>2, <3>5, <3>6
  <2>4. i <= m \/ i = m + 1 \/ i > m + 1
    BY <1>1
  <2> QED
    BY <2>1, <2>2, <2>3, <2>4
<1>10. s[m + n] = g[m] + h[n]
  BY <1>1, <1>6, <1>7
<1> HIDE DEF s
<1>11. PartialSums(a \o b, s, Len(a \o b))
  BY <1>2, <1>8, <1>9 DEF PartialSums
<1>12. Total(a \o b) = s[m + n]
  BY <1>2, <1>11, TotalIsLast
<1> QED
  BY <1>5, <1>10, <1>12

LEMMA TotalNat ==
  ASSUME NEW w \in Seq(Nat) PROVE Total(w) \in Nat
<1>1. w \in Seq(Int) /\ Len(w) \in Nat /\ \A i \in 1 .. Len(w) : w[i] \in Nat
  OBVIOUS
<1>2. PICK g : PartialSums(w, g, Len(w))
  BY <1>1, PartialSumsExist
<1>3. /\ g \in [0 .. Len(w) -> Int] /\ g[0] = 0
      /\ \A i \in 1 .. Len(w) : g[i] = w[i] + g[i - 1]
  BY <1>2 DEF PartialSums
<1> DEFINE T == {m \in 0 .. Len(w) : g[m] < 0}
<1>4. SUFFICES ASSUME T # {} PROVE FALSE
  <2>1. T = {} => g[Len(w)] >= 0 /\ g[Len(w)] \in Int
    BY <1>1, <1>3
  <2> QED
    BY <2>1, <1>1, <1>2, TotalIsLast
<1>5. PICK m \in T : \A k \in T : m <= k
  <2>1. T \subseteq Nat
    BY <1>1
  <2> HIDE DEF T
  <2> QED
    BY <2>1, <1>4, LeastNumber
<1>6. m \in 1 .. Len(w) /\ m - 1 \in 0 .. Len(w) /\ g[m] < 0
  BY <1>1, <1>3
<1>7. g[m - 1] >= 0
  <2>1. m - 1 \notin T
    BY <1>1, <1>5, <1>6
  <2>2. g[m - 1] \in Int
    BY <1>3, <1>6
  <2> QED
    BY <2>1, <2>2, <1>6
<1>8. g[m] = w[m] + g[m - 1] /\ w[m] \in Nat /\ g[m - 1] \in Int
  BY <1>1, <1>3, <1>6
<1> QED
  BY <1>6, <1>7, <1>8

(* A sum of natural numbers is at least each of them. *)
LEMMA TotalAtLeast ==
  ASSUME NEW w \in Seq(Nat), NEW i \in 1 .. Len(w)
  PROVE  Total(w) >= w[i]
<1> DEFINE a == SubSeq(w, 1, i - 1)
           b == SubSeq(w, i, i)
           c == SubSeq(w, i + 1, Len(w))
<1>1. Len(w) \in Nat /\ i \in Nat /\ w[i] \in Nat
  OBVIOUS
<1>2. a \in Seq(Nat) /\ b \in Seq(Nat) /\ c \in Seq(Nat)
  BY <1>1, SubSeqProperties
<1>3. b = <<w[i]>>
  <2>1. Len(b) = 1 /\ b[1] = w[i]
    BY <1>1, SubSeqProperties
  <2>2. <<w[i]>> \in Seq(Nat) /\ Len(<<w[i]>>) = 1 /\ <<w[i]>>[1] = w[i]
    BY <1>1
  <2> HIDE DEF b
  <2> QED
    BY <2>1, <2>2, <1>2, SeqEqual
<1>4. a \o b = SubSeq(w, 1, i)
  <2>1. 1 \in 1 .. Len(w) + 1 /\ i - 1 \in 1 - 1 .. Len(w) /\ i \in i - 1 .. Len(w)
    BY <1>1
  <2>2. SubSeq(w, 1, i - 1) \o SubSeq(w, (i - 1) + 1, i) = SubSeq(w, 1, i)
    BY <2>1, ConcatAdjacentSubSeq
  <2>3. (i - 1) + 1 = i
    BY <1>1
  <2> QED
    BY <2>2, <2>3
<1>5. (a \o b) \o c = w
  <2>1. 1 \in 1 .. Len(w) + 1 /\ i \in 1 - 1 .. Len(w) /\ Len(w) \in i .. Len(w)
    BY <1>1
  <2>2. SubSeq(w, 1, i) \o SubSeq(w, i + 1, Len(w)) = SubSeq(w, 1, Len(w))
    BY <2>1, ConcatAdjacentSubSeq
  <2>3. SubSeq(w, 1, Len(w)) = w
    BY SubSeqFull
  <2> QED
    BY <1>4, <2>2, <2>3
<1> HIDE DEF a, b, c
<1>6. /\ a \in Seq(Int) /\ b \in Seq(Int) /\ c \in Seq(Int) /\ a \o b \in Seq(Int)
      /\ w[i] \in Int
  BY <1>1, <1>2
<1>7. Total(w) = Total(a) + Total(b) + Total(c) /\ Total(b) = w[i]
  <2>1. Total((a \o b) \o c) = Total(a \o b) + Total(c)
    BY <1>6, TotalConcat
  <2>2. Total(a \o b) = Total(a) + Total(b)
    BY <1>6, TotalConcat
  <2>3. Total(<<w[i]>>) = w[i]
    BY <1>6, TotalOne
  <2> QED
    BY <1>3, <1>5, <2>1, <2>2, <2>3
<1>8. Total(a) \in Nat /\ Total(c) \in Nat
  BY <1>2, TotalNat
<1> QED
  BY <1>1, <1>7, <1>8
-----------------------------------------------------------------------------
(* Samples and gaps of sequences of chunks. *)

LEMMA ChunkType ==
  ASSUME NEW c \in Chunk
  PROVE  /\ c.start \in Nat /\ c.n \in Nat /\ c.lo \in Nat /\ c.centre \in Nat
         /\ c.dropped \in Gap /\ Sized(c.dropped) \in Nat
         /\ HoleOf(c.dropped) \in Nat /\ End(c) \in Nat
  BY DEF Chunk, Gap, Sized, HoleOf, Unknown, End

LEMMA NumbersOfChunks ==
  ASSUME NEW s \in Seq(Chunk)
  PROVE  /\ [i \in DOMAIN s |-> s[i].n] \in Seq(Nat)
         /\ [i \in DOMAIN s |-> Sized(s[i].dropped)] \in Seq(Nat)
<1>1. Len(s) \in Nat /\ DOMAIN s = 1 .. Len(s)
  OBVIOUS
<1>2. \A i \in 1 .. Len(s) : s[i].n \in Nat /\ Sized(s[i].dropped) \in Nat
  <2> TAKE i \in 1 .. Len(s)
  <2>1. s[i] \in Chunk
    OBVIOUS
  <2> QED
    BY <2>1, ChunkType
<1> QED
  BY <1>1, <1>2

LEMMA AmountsAreNumbers ==
  ASSUME NEW s \in Seq(Chunk)
  PROVE  Samples(s) \in Nat /\ SizedGaps(s) \in Nat
  BY NumbersOfChunks, TotalNat DEF Samples, SizedGaps

LEMMA NothingInEmpty == Samples(<<>>) = 0 /\ SizedGaps(<<>>) = 0
<1>1. [i \in DOMAIN <<>> |-> <<>>[i].n] = <<>>
  OBVIOUS
<1>2. [i \in DOMAIN <<>> |-> Sized(<<>>[i].dropped)] = <<>>
  OBVIOUS
<1> QED
  BY <1>1, <1>2, TotalEmpty DEF Samples, SizedGaps

LEMMA AmountsOfOne ==
  ASSUME NEW c \in Chunk
  PROVE  Samples(<<c>>) = c.n /\ SizedGaps(<<c>>) = Sized(c.dropped)
<1>1. [i \in DOMAIN <<c>> |-> <<c>>[i].n] = <<c.n>>
  OBVIOUS
<1>2. [i \in DOMAIN <<c>> |-> Sized(<<c>>[i].dropped)] = <<Sized(c.dropped)>>
  OBVIOUS
<1>3. c.n \in Int /\ Sized(c.dropped) \in Int
  BY ChunkType
<1> QED
  BY <1>1, <1>2, <1>3, TotalOne DEF Samples, SizedGaps

LEMMA IsConcat ==
  ASSUME NEW u \in Seq(Nat), NEW v \in Seq(Nat), NEW w \in Seq(Nat),
         Len(w) = Len(u) + Len(v),
         \A i \in 1 .. Len(u) : w[i] = u[i],
         \A i \in 1 .. Len(v) : w[Len(u) + i] = v[i]
  PROVE  w = u \o v
<1>1. u \o v \in Seq(Nat) /\ Len(u) \in Nat /\ Len(v) \in Nat
  OBVIOUS
<1>2. ASSUME NEW i \in 1 .. Len(w) PROVE w[i] = (u \o v)[i]
  <2>1. CASE i <= Len(u)
    BY <2>1, <1>1
  <2>2. CASE ~(i <= Len(u))
    <3>1. i - Len(u) \in 1 .. Len(v) /\ Len(u) + (i - Len(u)) = i
      BY <2>2, <1>1
    <3>2. w[Len(u) + (i - Len(u))] = v[i - Len(u)]
      BY <3>1
    <3> QED
      BY <3>1, <3>2, <2>2, <1>1
  <2> QED
    BY <2>1, <2>2
<1>3. Len(u \o v) = Len(w)
  BY <1>1
<1> QED
  BY <1>1, <1>2, <1>3, SeqEqual

LEMMA AmountsOfConcat ==
  ASSUME NEW s \in Seq(Chunk), NEW t \in Seq(Chunk)
  PROVE  /\ Samples(s \o t) = Samples(s) + Samples(t)
         /\ SizedGaps(s \o t) = SizedGaps(s) + SizedGaps(t)
<1> DEFINE N(u) == [i \in DOMAIN u |-> u[i].n]
           G(u) == [i \in DOMAIN u |-> Sized(u[i].dropped)]
<1>1. /\ Len(s) \in Nat /\ Len(t) \in Nat /\ s \o t \in Seq(Chunk)
      /\ Len(s \o t) = Len(s) + Len(t)
      /\ \A i \in 1 .. Len(s) : (s \o t)[i] = s[i]
      /\ \A i \in 1 .. Len(t) : (s \o t)[Len(s) + i] = t[i]
  OBVIOUS
<1>2. /\ N(s) \in Seq(Nat) /\ N(t) \in Seq(Nat) /\ N(s \o t) \in Seq(Nat)
      /\ G(s) \in Seq(Nat) /\ G(t) \in Seq(Nat) /\ G(s \o t) \in Seq(Nat)
  BY <1>1, NumbersOfChunks
<1>3. N(s \o t) = N(s) \o N(t)
  <2>1. Len(N(s)) = Len(s) /\ Len(N(t)) = Len(t) /\ Len(N(s \o t)) = Len(s) + Len(t)
    BY <1>1
  <2>2. /\ \A i \in 1 .. Len(s) : N(s \o t)[i] = N(s)[i]
        /\ \A i \in 1 .. Len(t) : N(s \o t)[Len(s) + i] = N(t)[i]
    BY <1>1
  <2>3. \A i \in 1 .. Len(N(t)) : N(s \o t)[Len(N(s)) + i] = N(t)[i]
    BY <2>1, <2>2
  <2>4. /\ \A i \in 1 .. Len(N(s)) : N(s \o t)[i] = N(s)[i]
        /\ Len(N(s \o t)) = Len(N(s)) + Len(N(t))
    BY <2>1, <2>2
  <2> HIDE DEF N
  <2> QED
    BY <1>2, <2>3, <2>4, IsConcat
<1>4. G(s \o t) = G(s) \o G(t)
  <2>1. Len(G(s)) = Len(s) /\ Len(G(t)) = Len(t) /\ Len(G(s \o t)) = Len(s) + Len(t)
    BY <1>1
  <2>2. /\ \A i \in 1 .. Len(s) : G(s \o t)[i] = G(s)[i]
        /\ \A i \in 1 .. Len(t) : G(s \o t)[Len(s) + i] = G(t)[i]
    BY <1>1
  <2>3. \A i \in 1 .. Len(G(t)) : G(s \o t)[Len(G(s)) + i] = G(t)[i]
    BY <2>1, <2>2
  <2>4. /\ \A i \in 1 .. Len(G(s)) : G(s \o t)[i] = G(s)[i]
        /\ Len(G(s \o t)) = Len(G(s)) + Len(G(t))
    BY <2>1, <2>2
  <2> HIDE DEF G
  <2> QED
    BY <1>2, <2>3, <2>4, IsConcat
<1>5. /\ Total(N(s) \o N(t)) = Total(N(s)) + Total(N(t))
      /\ Total(G(s) \o G(t)) = Total(G(s)) + Total(G(t))
  <2>1. /\ N(s) \in Seq(Int) /\ N(t) \in Seq(Int)
        /\ G(s) \in Seq(Int) /\ G(t) \in Seq(Int)
    BY <1>2
  <2> QED
    BY <2>1, TotalConcat
<1> QED
  BY <1>3, <1>4, <1>5 DEF Samples, SizedGaps

LEMMA AmountsOfAppend ==
  ASSUME NEW s \in Seq(Chunk), NEW c \in Chunk
  PROVE  /\ Samples(Append(s, c)) = Samples(s) + c.n
         /\ SizedGaps(Append(s, c)) = SizedGaps(s) + Sized(c.dropped)
<1>1. Append(s, c) = s \o <<c>> /\ <<c>> \in Seq(Chunk)
  BY AppendIsConcat
<1> QED
  BY <1>1, AmountsOfConcat, AmountsOfOne

LEMMA HeadThenTail ==
  ASSUME NEW s \in Seq(Chunk), s # <<>>
  PROVE  /\ s = <<Head(s)>> \o Tail(s)
         /\ Head(s) \in Chunk /\ <<Head(s)>> \in Seq(Chunk) /\ Tail(s) \in Seq(Chunk)
<1>1. Head(s) \in Chunk /\ Tail(s) \in Seq(Chunk) /\ <<Head(s)>> \in Seq(Chunk)
  BY HeadTailProperties
<1> QED
  BY <1>1

LEMMA AmountsOfTail ==
  ASSUME NEW s \in Seq(Chunk), s # <<>>
  PROVE  /\ Samples(s) = Head(s).n + Samples(Tail(s))
         /\ SizedGaps(s) = Sized(Head(s).dropped) + SizedGaps(Tail(s))
<1>1. /\ s = <<Head(s)>> \o Tail(s)
      /\ Head(s) \in Chunk /\ <<Head(s)>> \in Seq(Chunk) /\ Tail(s) \in Seq(Chunk)
  BY HeadThenTail
<1>2. /\ Samples(<<Head(s)>> \o Tail(s)) = Samples(<<Head(s)>>) + Samples(Tail(s))
      /\ SizedGaps(<<Head(s)>> \o Tail(s)) = SizedGaps(<<Head(s)>>) + SizedGaps(Tail(s))
  BY <1>1, AmountsOfConcat
<1>3. Samples(<<Head(s)>>) = Head(s).n /\ SizedGaps(<<Head(s)>>) = Sized(Head(s).dropped)
  BY <1>1, AmountsOfOne
<1> QED
  BY <1>1, <1>2, <1>3

-----------------------------------------------------------------------------
(* The order of the stream. *)

(* Everything in A lies before everything in B. *)
Precedes(A, B) == \A a \in A, b \in B : End(a) <= b.start
EndsBy(A, p)   == \A a \in A : End(a) <= p
Sorted(s)      == \A i, j \in 1 .. Len(s) : i < j => End(s[i]) <= s[j].start

LEMMA SortedConcat ==
  ASSUME NEW s \in Seq(Chunk), NEW t \in Seq(Chunk),
         Sorted(s), Sorted(t), Precedes(Range(s), Range(t))
  PROVE  Sorted(s \o t)
<1>1. /\ Len(s) \in Nat /\ Len(t) \in Nat /\ Len(s \o t) = Len(s) + Len(t)
      /\ \A i \in 1 .. Len(s) + Len(t) :
           (s \o t)[i] = IF i <= Len(s) THEN s[i] ELSE t[i - Len(s)]
  OBVIOUS
<1>2. SUFFICES ASSUME NEW i \in 1 .. Len(s) + Len(t), NEW j \in 1 .. Len(s) + Len(t),
                      i < j
               PROVE  End((s \o t)[i]) <= (s \o t)[j].start
  BY <1>1 DEF Sorted
<1>3. CASE j <= Len(s)
  <2>1. i \in 1 .. Len(s) /\ j \in 1 .. Len(s)
    BY <1>1, <1>2, <1>3
  <2>2. (s \o t)[i] = s[i] /\ (s \o t)[j] = s[j]
    BY <1>1, <2>1
  <2> QED
    BY <1>2, <2>1, <2>2 DEF Sorted
<1>4. CASE i <= Len(s) /\ ~(j <= Len(s))
  <2>1. i \in 1 .. Len(s) /\ j - Len(s) \in 1 .. Len(t)
    BY <1>1, <1>2, <1>4
  <2>2. s[i] \in Range(s) /\ t[j - Len(s)] \in Range(t)
    BY <2>1 DEF Range
  <2>3. (s \o t)[i] = s[i] /\ (s \o t)[j] = t[j - Len(s)]
    BY <1>1, <1>4
  <2> QED
    BY <2>2, <2>3 DEF Precedes
<1>5. CASE ~(i <= Len(s))
  <2>1. /\ i - Len(s) \in 1 .. Len(t) /\ j - Len(s) \in 1 .. Len(t)
        /\ i - Len(s) < j - Len(s) /\ ~(j <= Len(s))
    BY <1>1, <1>2, <1>5
  <2>2. (s \o t)[i] = t[i - Len(s)] /\ (s \o t)[j] = t[j - Len(s)]
    BY <1>1, <1>5, <2>1
  <2> QED
    BY <2>1, <2>2 DEF Sorted
<1> QED
  BY <1>3, <1>4, <1>5

LEMMA RangeOfConcat ==
  ASSUME NEW s \in Seq(Chunk), NEW t \in Seq(Chunk)
  PROVE  Range(s \o t) = Range(s) \cup Range(t)
  BY RangeConcatenation

LEMMA JoinInOrder ==
  ASSUME NEW s \in Seq(Chunk), NEW t \in Seq(Chunk),
         Sorted(s), Sorted(t), Precedes(Range(s), Range(t))
  PROVE  /\ s \o t \in Seq(Chunk) /\ Sorted(s \o t)
         /\ Range(s \o t) = Range(s) \cup Range(t)
  BY SortedConcat, RangeOfConcat, ConcatProperties

LEMMA RangeOfOne ==
  ASSUME NEW c \in Chunk
  PROVE  <<c>> \in Seq(Chunk) /\ Range(<<c>>) = {c} /\ Sorted(<<c>>)
<1>1. <<c>> \in Seq(Chunk) /\ Len(<<c>>) = 1 /\ DOMAIN <<c>> = {1} /\ <<c>>[1] = c
  OBVIOUS
<1> QED
  BY <1>1 DEF Range, Sorted

LEMMA RangeOfEmpty == Range(<<>>) = {} /\ Sorted(<<>>)
<1>1. Len(<<>>) = 0 /\ DOMAIN <<>> = {}
  OBVIOUS
<1> QED
  BY <1>1 DEF Range, Sorted

LEMMA RangeOfChunks ==
  ASSUME NEW s \in Seq(Chunk) PROVE Range(s) \subseteq Chunk
<1>1. \A i \in DOMAIN s : s[i] \in Chunk
  OBVIOUS
<1> QED
  BY <1>1 DEF Range

LEMMA SortedAppend ==
  ASSUME NEW s \in Seq(Chunk), NEW c \in Chunk
  PROVE  /\ Append(s, c) \in Seq(Chunk)
         /\ Range(Append(s, c)) = Range(s) \cup {c}
         /\ Sorted(s) /\ Precedes(Range(s), {c}) => Sorted(Append(s, c))
<1>1. Append(s, c) = s \o <<c>> /\ Append(s, c) \in Seq(Chunk)
  BY AppendIsConcat
<1>2. <<c>> \in Seq(Chunk) /\ Range(<<c>>) = {c} /\ Sorted(<<c>>)
  BY RangeOfOne
<1>3. Range(s \o <<c>>) = Range(s) \cup {c}
  BY <1>2, RangeOfConcat
<1>4. Sorted(s) /\ Precedes(Range(s), {c}) => Sorted(s \o <<c>>)
  BY <1>2, SortedConcat
<1> QED
  BY <1>1, <1>3, <1>4

LEMMA SortedTail ==
  ASSUME NEW s \in Seq(Chunk), s # <<>>, Sorted(s)
  PROVE  /\ Head(s) \in Range(s) /\ Range(Tail(s)) \subseteq Range(s)
         /\ Sorted(Tail(s)) /\ Precedes({Head(s)}, Range(Tail(s)))
<1>1. /\ Len(s) \in Nat \ {0} /\ Head(s) = s[1] /\ Len(Tail(s)) = Len(s) - 1
      /\ Tail(s) \in Seq(Chunk) /\ DOMAIN Tail(s) = 1 .. Len(s) - 1
      /\ \A i \in 1 .. Len(s) - 1 : Tail(s)[i] = s[i + 1]
  OBVIOUS
<1>2. Head(s) \in Range(s)
  BY <1>1 DEF Range
<1>3. ASSUME NEW i \in 1 .. Len(s) - 1
      PROVE  i + 1 \in 1 .. Len(s) /\ Tail(s)[i] = s[i + 1] /\ Tail(s)[i] \in Range(s)
  BY <1>1 DEF Range
<1>4. Range(Tail(s)) \subseteq Range(s)
  BY <1>1, <1>3 DEF Range
<1>5. Sorted(Tail(s))
  BY <1>1, <1>3 DEF Sorted
<1>6. Precedes({Head(s)}, Range(Tail(s)))
  <2>1. SUFFICES ASSUME NEW i \in 1 .. Len(s) - 1
                 PROVE  End(Head(s)) <= Tail(s)[i].start
    BY <1>1 DEF Range, Precedes
  <2>2. 1 \in 1 .. Len(s) /\ 1 < i + 1
    BY <1>1
  <2> QED
    BY <1>1, <1>3, <2>2 DEF Sorted
<1> QED
  BY <1>2, <1>4, <1>5, <1>6

-----------------------------------------------------------------------------
(* Chunks that follow one another, each behind the hole it reports: from   *)
(* stream number p to stream number e.                                     *)
Follows(s, p, e) ==
  /\ s = <<>> => p = e
  /\ s # <<>> => /\ s[1].start - HoleOf(s[1].dropped) = p
                 /\ End(s[Len(s)]) = e
  /\ \A i \in 1 .. Len(s) - 1 : HoleAfter(s, i) = HoleOf(s[i + 1].dropped)

LEMMA FollowsEmpty == \A p : Follows(<<>>, p, p)
<1>1. Len(<<>>) = 0
  OBVIOUS
<1> QED
  BY <1>1 DEF Follows

LEMMA FollowsOne ==
  ASSUME NEW c \in Chunk
  PROVE  \A p, e : Follows(<<c>>, p, e) <=>
                     p = c.start - HoleOf(c.dropped) /\ e = End(c)
<1>1. Len(<<c>>) = 1 /\ <<c>> # <<>> /\ <<c>>[1] = c
  OBVIOUS
<1> QED
  BY <1>1 DEF Follows

LEMMA FollowsConcat ==
  ASSUME NEW s \in Seq(Chunk), NEW t \in Seq(Chunk), NEW p, NEW m, NEW e,
         Follows(s, p, m), Follows(t, m, e)
  PROVE  Follows(s \o t, p, e)
<1>1. CASE s = <<>>
  <2>1. s \o t = t /\ p = m
    BY <1>1 DEF Follows
  <2> QED
    BY <2>1
<1>2. CASE t = <<>>
  <2>1. s \o t = s /\ m = e
    BY <1>2 DEF Follows
  <2> QED
    BY <2>1
<1>3. CASE s # <<>> /\ t # <<>>
  <2>1. /\ Len(s) \in Nat \ {0} /\ Len(t) \in Nat \ {0}
        /\ Len(s \o t) = Len(s) + Len(t) /\ s \o t # <<>>
        /\ \A i \in 1 .. Len(s) + Len(t) :
             (s \o t)[i] = IF i <= Len(s) THEN s[i] ELSE t[i - Len(s)]
    BY <1>3
  <2>2. (s \o t)[1] = s[1] /\ (s \o t)[Len(s \o t)] = t[Len(t)]
    BY <2>1
  <2>3. ASSUME NEW i \in 1 .. Len(s) + Len(t) - 1
        PROVE  HoleAfter(s \o t, i) = HoleOf((s \o t)[i + 1].dropped)
    <3>1. CASE i < Len(s)
      <4>1. (s \o t)[i] = s[i] /\ (s \o t)[i + 1] = s[i + 1] /\ i \in 1 .. Len(s) - 1
        BY <3>1, <2>1
      <4> QED
        BY <4>1 DEF Follows, HoleAfter
    <3>2. CASE i = Len(s)
      <4>1. (s \o t)[i] = s[Len(s)] /\ (s \o t)[i + 1] = t[1]
        BY <3>2, <2>1
      <4>2. End(s[Len(s)]) = m /\ t[1].start - HoleOf(t[1].dropped) = m
        BY <1>3 DEF Follows
      <4>3. t[1] \in Chunk /\ s[Len(s)] \in Chunk
        BY <2>1
      <4>4. t[1].start \in Nat /\ HoleOf(t[1].dropped) \in Nat
        BY <4>3, ChunkType
      <4> QED
        BY <4>1, <4>2, <4>4 DEF HoleAfter
    <3>3. CASE i > Len(s)
      <4>1. /\ (s \o t)[i] = t[i - Len(s)] /\ (s \o t)[i + 1] = t[i + 1 - Len(s)]
            /\ i - Len(s) \in 1 .. Len(t) - 1 /\ i + 1 - Len(s) = (i - Len(s)) + 1
        BY <3>3, <2>1
      <4> QED
        BY <4>1 DEF Follows, HoleAfter
    <3> QED
      BY <3>1, <3>2, <3>3, <2>1
  <2>4. End((s \o t)[Len(s \o t)]) = e /\ (s \o t)[1].start - HoleOf((s \o t)[1].dropped) = p
    BY <1>3, <2>2 DEF Follows
  <2> QED
    BY <2>1, <2>3, <2>4 DEF Follows
<1> QED
  BY <1>1, <1>2, <1>3

LEMMA FollowsTail ==
  ASSUME NEW s \in Seq(Chunk), s # <<>>, NEW p, NEW e, Follows(s, p, e)
  PROVE  /\ Follows(Tail(s), End(Head(s)), e)
         /\ p = Head(s).start - HoleOf(Head(s).dropped)
<1>1. /\ Len(s) \in Nat \ {0} /\ Head(s) = s[1] /\ Len(Tail(s)) = Len(s) - 1
      /\ Tail(s) \in Seq(Chunk)
      /\ \A i \in 1 .. Len(s) - 1 : Tail(s)[i] = s[i + 1]
  OBVIOUS
<1>2. p = Head(s).start - HoleOf(Head(s).dropped)
  BY <1>1 DEF Follows
<1>3. CASE Len(s) = 1
  <2>1. Len(Tail(s)) = 0
    BY <1>1, <1>3
  <2>2. Tail(s) = <<>>
    BY <2>1, <1>1
  <2>3. End(Head(s)) = e
    BY <1>1, <1>3 DEF Follows
  <2> QED
    BY <1>2, <2>2, <2>3, FollowsEmpty
<1>4. CASE Len(s) > 1
  <2>1. Tail(s) # <<>> /\ Tail(s)[1] = s[2] /\ Tail(s)[Len(Tail(s))] = s[Len(s)]
    <3>1. 1 \in 1 .. Len(s) - 1 /\ 1 + 1 = 2
      BY <1>1, <1>4
    <3>2. Tail(s)[1] = s[2]
      BY <1>1, <3>1
    <3>3. Len(s) - 1 \in 1 .. Len(s) - 1 /\ (Len(s) - 1) + 1 = Len(s)
      BY <1>1, <1>4
    <3>4. Tail(s)[Len(s) - 1] = s[Len(s)]
      BY <1>1, <3>3
    <3>5. Tail(s) # <<>>
      <4> DEFINE m == Len(s)
                 k == Len(Tail(s))
      <4>1. k # 0
        <5>1. k = m - 1 /\ m \in Nat /\ m > 1
          BY <1>1, <1>4
        <5> HIDE DEF m, k
        <5> QED
          BY <5>1
      <4>2. Len(<<>>) = 0
        OBVIOUS
      <4> QED
        BY <4>1, <4>2
    <3> QED
      BY <1>1, <3>2, <3>4, <3>5
  <2>2. HoleAfter(s, 1) = HoleOf(s[2].dropped)
    BY <1>1, <1>4 DEF Follows
  <2>3. s[1] \in Chunk /\ s[2] \in Chunk
    BY <1>1, <1>4
  <2>4. s[2].start \in Nat /\ HoleOf(s[2].dropped) \in Nat /\ End(s[1]) \in Nat
    BY <2>3, ChunkType
  <2>5. s[2].start - HoleOf(s[2].dropped) = End(s[1])
    BY <2>2, <2>4 DEF HoleAfter
  <2>6. ASSUME NEW i \in 1 .. Len(Tail(s)) - 1
        PROVE  HoleAfter(Tail(s), i) = HoleOf(Tail(s)[i + 1].dropped)
    <3>1. /\ i + 1 \in 1 .. Len(s) - 1
          /\ Tail(s)[i] = s[i + 1] /\ Tail(s)[i + 1] = s[(i + 1) + 1]
      BY <1>1
    <3> QED
      BY <3>1 DEF Follows, HoleAfter
  <2>7. End(s[Len(s)]) = e
    BY <1>1 DEF Follows
  <2> QED
    BY <1>1, <1>2, <2>1, <2>5, <2>6, <2>7 DEF Follows
<1> QED
  BY <1>1, <1>3, <1>4

-----------------------------------------------------------------------------
(* A window that takes all but the last k samples of its last part, and    *)
(* the piece that is left of that part.                                    *)
Cut(s, k)  == [s EXCEPT ![Len(s)].n = @ - k]
Rest(s, k) == [s[Len(s)] EXCEPT !.start = @ + s[Len(s)].n - k, !.n = k,
                                !.centre = s[1].centre, !.dropped = 0]

LEMMA ReplaceLast ==
  ASSUME NEW s \in Seq(Chunk), NEW c \in Chunk, NEW d \in Chunk
  PROVE  [Append(s, c) EXCEPT ![Len(s) + 1] = d] = Append(s, d)
<1> DEFINE n == Len(s) + 1
           x == [Append(s, c) EXCEPT ![n] = d]
           y == Append(s, d)
<1>1. /\ Len(s) \in Nat /\ n \in Nat
      /\ Append(s, c) \in Seq(Chunk) /\ Len(Append(s, c)) = n
      /\ \A i \in 1 .. Len(s) : Append(s, c)[i] = s[i]
  OBVIOUS
<1>2. /\ y \in Seq(Chunk) /\ Len(y) = n /\ y[n] = d
      /\ \A i \in 1 .. Len(s) : y[i] = s[i]
  OBVIOUS
<1>3. x \in Seq(Chunk) /\ Len(x) = n /\ x[n] = d
  BY <1>1
<1>4. ASSUME NEW i \in 1 .. Len(s) PROVE x[i] = s[i]
  <2>1. i # n /\ i \in DOMAIN Append(s, c)
    BY <1>1
  <2> QED
    BY <2>1, <1>1
<1>5. \A i \in 1 .. n : i = n \/ i \in 1 .. Len(s)
  BY <1>1
<1> HIDE DEF x, y, n
<1>6. \A i \in 1 .. Len(x) : x[i] = y[i]
  BY <1>2, <1>3, <1>4, <1>5
<1>7. x = y
  BY <1>2, <1>3, <1>6, SeqEqual
<1> QED
  BY <1>7 DEF x, y, n

LEMMA CutOfAppend ==
  ASSUME NEW s \in Seq(Chunk), NEW c \in Chunk, NEW k \in Nat, k <= c.n
  PROVE  LET d == [c EXCEPT !.n = @ - k]
             r == Rest(Append(s, c), k)
         IN  /\ Cut(Append(s, c), k) = Append(s, d)
             /\ d \in Chunk /\ r \in Chunk
             /\ d.start = c.start /\ d.n = c.n - k /\ d.dropped = c.dropped
             /\ r.start = End(d) /\ r.n = k /\ r.dropped = 0
             /\ End(r) = End(c)
<1> DEFINE t == Append(s, c)
           d == [c EXCEPT !.n = @ - k]
           r == Rest(t, k)
<1>1. /\ Len(s) \in Nat /\ t \in Seq(Chunk) /\ Len(t) = Len(s) + 1 /\ t[Len(t)] = c
      /\ \A i \in 1 .. Len(s) : t[i] = s[i]
  OBVIOUS
<1>2. c.start \in Nat /\ c.n \in Nat /\ c.n - k \in Nat
  BY ChunkType
<1>3. d \in Chunk /\ d.start = c.start /\ d.n = c.n - k /\ d.dropped = c.dropped
  BY <1>2 DEF Chunk
<1>4. t[1] \in Chunk
  BY <1>1
<1>5. r = [c EXCEPT !.start = @ + c.n - k, !.n = k, !.centre = t[1].centre, !.dropped = 0]
  <2> HIDE DEF t
  <2> QED
    BY <1>1 DEF Rest
<1>6. /\ r \in Chunk /\ r.start = c.start + c.n - k /\ r.n = k /\ r.dropped = 0
  <2>1. t[1].centre \in Nat
    BY <1>4, ChunkType
  <2>2. c.start + c.n - k \in Nat /\ 0 \in Gap
    BY <1>2 DEF Gap
  <2> HIDE DEF t, r
  <2> QED
    BY <1>5, <2>1, <2>2 DEF Chunk
<1>7. Cut(t, k) = Append(s, d)
  <2> HIDE DEF d
  <2>1. Cut(t, k) = [t EXCEPT ![Len(s) + 1] = d]
    BY <1>1 DEF Cut, d
  <2>2. [t EXCEPT ![Len(s) + 1] = d] = Append(s, d)
    BY <1>3, ReplaceLast
  <2> QED
    BY <2>1, <2>2
<1>8. r.start = End(d) /\ End(r) = End(c)
  <2> HIDE DEF r, d
  <2> QED
    BY <1>2, <1>3, <1>6 DEF End
<1> QED
  BY <1>3, <1>6, <1>7, <1>8

(* The loop of read_window stops pulling once it has Want samples. *)
PulledAsNeeded == parts # <<>> => Have - LastPart.n < Want

(* What read_window makes of its parts: a window and a leftover that split *)
(* the parts between them, at Want samples.                                *)
LEMMA WindowSplitsParts ==
  ASSUME AssemblerAssumption, parts \in Seq(Chunk), PulledAsNeeded
  PROVE  /\ Pieces \in Seq(Chunk) /\ Spill \in Seq(Chunk) /\ Len(Spill) <= 1
         /\ Samples(Pieces) + Samples(Spill) = Have
         /\ Samples(Pieces) = IF Short THEN Have ELSE Want
         /\ SizedGaps(Pieces) = SizedGaps(parts) /\ SizedGaps(Spill) = 0
         /\ Spill # <<>> => Samples(Spill) > 0
         /\ Sorted(parts) => Sorted(Pieces) /\ Precedes(Range(Pieces), Range(Spill))
         /\ \A x \in Range(Pieces) \cup Range(Spill) : \E y \in Range(parts) :
              y.start <= x.start /\ End(x) <= End(y)
         /\ \A p, e : Follows(parts, p, e) =>
              \E m : Follows(Pieces, p, m) /\ Follows(Spill, m, e)
         /\ Len(Pieces) = Len(parts)
         /\ \A i \in 1 .. Len(parts) - 1 : HoleAfter(Pieces, i) = HoleAfter(parts, i)
<1>1. Want \in Nat \ {0} /\ Have \in Nat
  BY AmountsAreNumbers DEF AssemblerAssumption, Have
<1>2. CASE ~(Over > 0)
  <2>1. Pieces = parts /\ Spill = <<>> /\ <<>> \in Seq(Chunk) /\ Len(<<>>) = 0
    BY <1>2 DEF Pieces, Spill
  <2>2. Short \/ Have = Want
    BY <1>1, <1>2 DEF Over, Short
  <2>3. Samples(<<>>) = 0 /\ SizedGaps(<<>>) = 0 /\ Range(<<>>) = {}
    BY NothingInEmpty, RangeOfEmpty
  <2>4. \A x \in Range(parts) : x.start <= x.start /\ End(x) <= End(x)
    <3> TAKE x \in Range(parts)
    <3>1. x.start \in Nat /\ End(x) \in Nat
      BY RangeOfChunks, ChunkType
    <3> QED
      BY <3>1
  <2>5. \A e : Follows(<<>>, e, e)
    BY FollowsEmpty
  <2>6. Samples(parts) + 0 = Have
    BY <1>1 DEF Have
  <2> QED
    BY <2>1, <2>2, <2>3, <2>4, <2>5, <2>6 DEF Precedes, Have
<1>3. CASE Over > 0
  <2>1. parts # <<>>
    BY <1>1, <1>3, NothingInEmpty DEF Over, Have
  <2>2. PICK f \in Seq(Chunk), c \in Chunk : parts = Append(f, c)
    BY <2>1, SequenceEmptyOrAppend
  <2> DEFINE d == [c EXCEPT !.n = @ - Over]
             r == Rest(parts, Over)
  <2>3. /\ Len(parts) = Len(f) + 1 /\ Len(f) \in Nat
        /\ LastPart = c /\ parts[Len(parts)] = c
        /\ \A i \in 1 .. Len(f) : parts[i] = f[i]
    BY <2>2 DEF LastPart
  <2>4. c.start \in Nat /\ c.n \in Nat /\ End(c) \in Nat
    BY ChunkType
  <2>5. Over \in Nat /\ Over <= c.n /\ ~Short
    BY <1>1, <1>3, <2>1, <2>3, <2>4 DEF Over, Short, PulledAsNeeded
  <2>6. /\ Cut(parts, Over) = Append(f, d) /\ d \in Chunk /\ r \in Chunk
        /\ d.start = c.start /\ d.n = c.n - Over /\ d.dropped = c.dropped
        /\ r.start = End(d) /\ r.n = Over /\ r.dropped = 0 /\ End(r) = End(c)
    BY <2>2, <2>5, CutOfAppend
  <2>7. Pieces = Append(f, d) /\ Spill = <<r>>
    BY <1>3, <2>6 DEF Pieces, Spill, Cut, Rest, LastPart
  <2> HIDE DEF d, r
  <2>8. /\ Append(f, d) \in Seq(Chunk) /\ Len(Append(f, d)) = Len(f) + 1
        /\ <<r>> \in Seq(Chunk) /\ Len(<<r>>) = 1
    BY <2>3, <2>6
  <2>9. /\ Samples(parts) = Samples(f) + c.n /\ Samples(Pieces) = Samples(f) + d.n
        /\ SizedGaps(parts) = SizedGaps(f) + Sized(c.dropped)
        /\ SizedGaps(Pieces) = SizedGaps(f) + Sized(d.dropped)
        /\ Samples(Spill) = r.n /\ SizedGaps(Spill) = Sized(r.dropped)
    BY <2>2, <2>6, <2>7, AmountsOfAppend, AmountsOfOne
  <2>10. /\ Samples(Pieces) + Samples(Spill) = Have
         /\ Samples(Pieces) = IF Short THEN Have ELSE Want
         /\ SizedGaps(Pieces) = SizedGaps(parts) /\ SizedGaps(Spill) = 0
    <3>1. Samples(f) \in Nat
      BY AmountsAreNumbers
    <3>2. Sized(0) = 0
      BY DEF Sized, Unknown
    <3>3. SizedGaps(Pieces) = SizedGaps(parts) /\ SizedGaps(Spill) = 0
      BY <2>6, <2>9, <3>2
    <3> DEFINE n == c.n
           front == Samples(f)
           kept == Samples(Pieces)
           carried == Samples(Spill)
    <3>4. Have = front + n /\ Over = Have - Want
      BY <2>9 DEF Have, Over
    <3>5. kept = front + (n - Over) /\ carried = Over
      BY <2>6, <2>9
    <3>6. kept + carried = Have /\ kept = Want
      <4>1. n \in Nat /\ front \in Nat
        BY <2>4, <3>1
      <4> HIDE DEF n, front, kept, carried, Over, Have
      <4> QED
        BY <1>1, <2>5, <3>4, <3>5, <4>1
    <3> QED
      BY <2>5, <3>3, <3>6
  <2>11. /\ Range(parts) = Range(f) \cup {c} /\ Range(Pieces) = Range(f) \cup {d}
         /\ Range(Spill) = {r}
    BY <2>2, <2>6, <2>7, SortedAppend, RangeOfOne
  <2>12. /\ d.start \in Nat /\ r.start \in Nat /\ End(d) \in Nat /\ End(r) \in Nat
         /\ End(d) <= End(c) /\ d.start = c.start /\ c.start <= r.start
    BY <2>4, <2>5, <2>6 DEF End
  <2>13. ASSUME Sorted(parts)
         PROVE  Sorted(Pieces) /\ Precedes(Range(Pieces), Range(Spill))
    <3>1. ASSUME NEW i \in 1 .. Len(f)
          PROVE  /\ f[i] \in Chunk /\ End(f[i]) \in Nat /\ End(f[i]) <= c.start
                 /\ f[i].start \in Nat
      <4>1. i \in 1 .. Len(parts) /\ Len(parts) \in 1 .. Len(parts) /\ i < Len(parts)
        BY <2>3
      <4>2. End(parts[i]) <= parts[Len(parts)].start
        BY <2>13, <4>1 DEF Sorted
      <4>3. f[i] \in Chunk
        OBVIOUS
      <4> QED
        BY <2>3, <4>2, <4>3, ChunkType
    <3>2. Sorted(f)
      <4>1. \A i \in 1 .. Len(f) : i \in 1 .. Len(parts)
        BY <2>3
      <4> QED
        BY <2>3, <2>13, <4>1 DEF Sorted
    <3>3. \A x \in Range(f) : End(x) \in Nat /\ End(x) <= c.start
      BY <3>1 DEF Range
    <3>4. Precedes(Range(f), {d}) /\ Precedes(Range(f), {r}) /\ Precedes({d}, {r})
      BY <2>4, <2>6, <2>12, <3>3 DEF Precedes
    <3>5. Sorted(Append(f, d))
      BY <2>6, <3>2, <3>4, SortedAppend
    <3> QED
      BY <2>7, <2>11, <3>4, <3>5 DEF Precedes
  <2>14. ASSUME NEW x \in Range(Pieces) \cup Range(Spill)
         PROVE  \E y \in Range(parts) : y.start <= x.start /\ End(x) <= End(y)
    <3>1. CASE x \in Range(f)
      <4>1. x.start \in Nat /\ End(x) \in Nat
        BY <3>1, RangeOfChunks, ChunkType
      <4> QED
        BY <3>1, <2>11, <4>1
    <3>2. CASE x = d \/ x = r
      BY <3>2, <2>4, <2>6, <2>11, <2>12
    <3> QED
      BY <3>1, <3>2, <2>11
  <2>15. ASSUME NEW p, NEW e, Follows(parts, p, e)
         PROVE  \E m : Follows(Pieces, p, m) /\ Follows(Spill, m, e)
    <3>1. /\ Append(f, d)[Len(f) + 1] = d
          /\ \A i \in 1 .. Len(f) : Append(f, d)[i] = f[i]
      BY <2>3, <2>6
    <3>2. Follows(Pieces, p, End(d))
      <4>1. Append(f, d)[1].start = parts[1].start /\ Append(f, d)[1].dropped = parts[1].dropped
        <5>1. CASE Len(f) = 0
          BY <5>1, <2>3, <2>6, <3>1
        <5>2. CASE Len(f) > 0
          BY <5>2, <2>3, <2>6, <3>1
        <5> QED
          BY <5>1, <5>2, <2>3
      <4>2. parts[1].start - HoleOf(parts[1].dropped) = p
        BY <2>1, <2>15 DEF Follows
      <4>3. ASSUME NEW i \in 1 .. Len(Append(f, d)) - 1
            PROVE  HoleAfter(Append(f, d), i) = HoleOf(Append(f, d)[i + 1].dropped)
        <5>1. i \in 1 .. Len(f) /\ i \in 1 .. Len(parts) - 1
          BY <2>3, <2>8
        <5>2. Append(f, d)[i] = parts[i]
          BY <5>1, <2>3, <3>1
        <5>3. /\ Append(f, d)[i + 1].start = parts[i + 1].start
              /\ Append(f, d)[i + 1].dropped = parts[i + 1].dropped
          <6>1. CASE i = Len(f)
            BY <6>1, <2>3, <2>6, <3>1
          <6>2. CASE i # Len(f)
            <7>1. i + 1 \in 1 .. Len(f)
              BY <6>2, <5>1, <2>3
            <7> QED
              BY <7>1, <2>3, <3>1
          <6> QED
            BY <6>1, <6>2
        <5>4. HoleAfter(parts, i) = HoleOf(parts[i + 1].dropped)
          BY <5>1, <2>15 DEF Follows
        <5> QED
          BY <5>2, <5>3, <5>4 DEF HoleAfter
      <4>4. Append(f, d) # <<>> /\ Append(f, d)[Len(Append(f, d))] = d
        BY <2>3, <2>8, <3>1
      <4> QED
        BY <2>7, <4>1, <4>2, <4>3, <4>4 DEF Follows
    <3>3. Follows(Spill, End(d), e)
      <4>1. e = End(c)
        BY <2>1, <2>3, <2>15 DEF Follows
      <4>2. r.start - HoleOf(r.dropped) = End(d)
        BY <2>6, <2>12 DEF HoleOf, Unknown
      <4> QED
        BY <2>6, <2>7, <4>1, <4>2, FollowsOne
    <3> QED
      BY <3>2, <3>3
  <2>16. ASSUME NEW i \in 1 .. Len(parts) - 1
         PROVE  HoleAfter(Pieces, i) = HoleAfter(parts, i)
    <3>1. /\ Append(f, d)[Len(f) + 1] = d
          /\ \A j \in 1 .. Len(f) : Append(f, d)[j] = f[j]
      BY <2>3, <2>6
    <3>2. i \in 1 .. Len(f) /\ Append(f, d)[i] = parts[i]
      BY <2>3, <3>1
    <3>3. Append(f, d)[i + 1].start = parts[i + 1].start
      <4>1. CASE i = Len(f)
        BY <4>1, <2>3, <2>6, <3>1
      <4>2. CASE i # Len(f)
        <5>1. i + 1 \in 1 .. Len(f)
          BY <4>2, <3>2, <2>3
        <5> QED
          BY <5>1, <2>3, <3>1
      <4> QED
        BY <4>1, <4>2
    <3> QED
      BY <2>7, <3>2, <3>3 DEF HoleAfter
  <2>17. Samples(Spill) > 0
    BY <1>3, <2>6, <2>9
  <2> QED
    BY <2>3, <2>7, <2>8, <2>10, <2>13, <2>14, <2>15, <2>16, <2>17
<1> QED
  BY <1>2, <1>3

-----------------------------------------------------------------------------
(* The inductive invariant. *)

(* Who may hold what: the leftover is taken at once by a call that begins, *)
(* parts exist only during one, and only push after a full queue evicts.   *)
HeldByOne ==
  /\ cpc \in {"fill", "check"} => leftover = <<>>
  /\ cpc \in {"idle", "ended"} => parts = <<>>
  /\ ppc \in {"evict", "reput"} => overflow_count > 0

(* No chunk in the queue or on its way to it is empty. *)
NoneEmpty == \A c \in Range(q) \cup Range(InFlight) : c.n > 0

(* Everything lies in the order of the stream, and before its end. *)
LineInOrder ==
  /\ Sorted(win.pieces) /\ Sorted(parts) /\ Sorted(q)
  /\ Precedes(Range(win.pieces), Range(parts) \cup Range(leftover))
  /\ Precedes(Range(win.pieces), Range(q) \cup Range(InFlight))
  /\ Precedes(Range(parts) \cup Range(leftover), Range(q) \cup Range(InFlight))
  /\ Precedes(Range(q), Range(InFlight))
  /\ EndsBy(Range(win.pieces), pos)
  /\ EndsBy(Range(parts) \cup Range(leftover), pos)
  /\ EndsBy(Range(q) \cup Range(InFlight), pos)

(* As long as nothing was evicted or flushed, what is held is the end of   *)
(* the stream, with no holes but the reported ones.                        *)
NothingMissing ==
  overflow_count = 0 /\ tail_discarded_samples = 0 =>
    \E p, a, b, c :
      /\ Follows(parts, p, a) /\ Follows(leftover, a, b)
      /\ Follows(q, b, c) /\ Follows(InFlight, c, pos)

(* The leftover is the rest of a part, whose gap the window reported. *)
LeftoverIsRest ==
  /\ SizedGaps(leftover) = 0
  /\ leftover # <<>> => Samples(leftover) > 0

AccountsInv ==
  /\ TypeOK
  /\ NewestKept /\ HeldByOne /\ PulledAsNeeded /\ NoneEmpty /\ LeftoverIsRest
  /\ Conserved
  /\ LineInOrder
  /\ NothingMissing
  /\ HealthExactWithoutOverflow

LEMMA InFlightType ==
  ASSUME TypeOK PROVE InFlight \in Seq(Chunk)
  BY DEF TypeOK, InFlight

LEMMA HeadOfQueue ==
  ASSUME TypeOK, q # <<>>
  PROVE  /\ Head(q) \in Chunk /\ Tail(q) \in Seq(Chunk) /\ Len(Tail(q)) = Len(q) - 1
         /\ Head(q).n \in Nat /\ Head(q).dropped \in Gap /\ Sized(Head(q).dropped) \in Nat
<1>1. Head(q) \in Chunk /\ Tail(q) \in Seq(Chunk) /\ Len(Tail(q)) = Len(q) - 1
  BY DEF TypeOK
<1> QED
  BY <1>1, ChunkType

LEMMA AssembledType ==
  ASSUME AssemblerAssumption, TypeOK, PulledAsNeeded
  PROVE  /\ Assembled \in Window /\ GapBefore \in Nat /\ KnownGap \in Nat
         /\ GapBefore + KnownGap = SizedGaps(parts)
         /\ GapsInside \in Seq(Chunk)
<1>1. /\ Want \in Nat \ {0} /\ Have \in Nat /\ parts \in Seq(Chunk)
      /\ ReportsDrops \in BOOLEAN
  BY AmountsAreNumbers DEF AssemblerAssumption, Have, TypeOK
<1>2. Pieces \in Seq(Chunk)
  BY <1>1, WindowSplitsParts
<1>3. /\ GapsInside \in Seq(Chunk) /\ GapBefore \in Nat
      /\ (IF parts = <<>> THEN 0 ELSE parts[1].centre) \in Nat
  <2>1. CASE parts = <<>>
    BY <2>1 DEF GapsInside, GapBefore
  <2>2. CASE parts # <<>>
    <3>1. Tail(parts) \in Seq(Chunk) /\ parts[1] \in Chunk
      BY <1>1, <2>2
    <3>2. parts[1].centre \in Nat /\ Sized(parts[1].dropped) \in Nat
      BY <3>1, ChunkType
    <3> QED
      BY <2>2, <3>1, <3>2 DEF GapsInside, GapBefore
  <2> QED
    BY <2>1, <2>2
<1>4. KnownGap \in Nat
  BY <1>3, AmountsAreNumbers DEF KnownGap
<1>5. GapBefore + KnownGap = SizedGaps(parts)
  <2>1. CASE parts = <<>>
    BY <2>1, NothingInEmpty DEF GapsInside, GapBefore, KnownGap
  <2>2. CASE parts # <<>>
    <3>1. Head(parts) = parts[1]
      BY <1>1, <2>2
    <3>2. SizedGaps(parts) = Sized(Head(parts).dropped) + SizedGaps(Tail(parts))
      BY <1>1, <2>2, AmountsOfTail
    <3> QED
      BY <2>2, <3>1, <3>2 DEF GapsInside, GapBefore, KnownGap
  <2> QED
    BY <2>1, <2>2
<1>6. Assembled.complete \in BOOLEAN /\ Assembled.dropped \in Gap
  <2>1. Short => Want - Have \in Nat
    BY <1>1 DEF Short
  <2>2. KnownGap + (IF Short THEN Want - Have ELSE 0) \in Nat
    <3> DEFINE k == KnownGap
               w == Want - Have
    <3> HIDE DEF k, w
    <3>1. k \in Nat /\ (Short => w \in Nat)
      BY <1>4, <2>1 DEF k, w
    <3>2. k + (IF Short THEN w ELSE 0) \in Nat
      BY <3>1
    <3> QED
      BY <3>2 DEF k, w
  <2>3. Assembled.dropped \in Gap
    BY <2>2 DEF Assembled, Gap
  <2>4. Assembled.complete \in BOOLEAN
    BY DEF Assembled
  <2> QED
    BY <2>3, <2>4
<1>7. Assembled \in Window
  BY <1>2, <1>3, <1>6 DEF Assembled, Window
<1> QED
  BY <1>3, <1>4, <1>5, <1>7

LEMMA TypeStep ==
  ASSUME AssemblerAssumption, TypeOK, NewestKept, PulledAsNeeded, Next
  PROVE  TypeOK'
<1> USE DEF TypeOK, ConsumerUnchanged, ProducerUnchanged, producer, consumer, counters, history
<1>1. ASSUME NEW n \in ChunkSizes, NEW d \in Gaps, StartPush(n, d) PROVE TypeOK'
  <2>1. n \in Nat /\ d \in Gap
    BY <1>1 DEF AssemblerAssumption, Gap
  <2>2. HoleOf(d) \in Nat /\ HoleOf(d) - Sized(d) \in Nat
    BY <2>1 DEF Gap, HoleOf, Sized, Unknown
  <2>3. item' \in Chunk
    <3>1. item' = [start |-> pos + HoleOf(d), n |-> n, lo |-> lo, centre |-> lo,
                   dropped |-> d]
      BY <1>1 DEF StartPush
    <3>2. pos + HoleOf(d) \in Nat /\ lo \in Nat
      BY <2>2
    <3> QED
      BY <2>1, <3>1, <3>2 DEF Chunk
  <2>4. pos' \in Nat
    <3> DEFINE h == HoleOf(d)
    <3>1. pos' = pos + h + n /\ h \in Nat
      BY <1>1, <2>2 DEF StartPush
    <3> HIDE DEF h
    <3> QED
      BY <2>1, <3>1
  <2>5. unsized' \in Nat
    <3> DEFINE h == HoleOf(d)
               g == Sized(d)
    <3>1. h \in Nat /\ g \in Nat /\ g <= h
      BY <2>1 DEF Gap, HoleOf, Sized, Unknown
    <3>2. unsized' = unsized + h - g
      BY <1>1 DEF StartPush
    <3>3. unsized \in Nat
      OBVIOUS
    <3> HIDE DEF h, g, TypeOK
    <3> QED
      BY <3>1, <3>2, <3>3
  <2> QED
    BY <1>1, <2>3, <2>4, <2>5 DEF StartPush
<1>2. CASE Put
  BY <1>2 DEF Put
<1>3. CASE PutFull
  BY <1>3 DEF PutFull
<1>4. CASE Evict
  <2>1. CASE q = <<>>
    BY <1>4, <2>1 DEF Evict
  <2>2. CASE q # <<>>
    <3>1. /\ Head(q) \in Chunk /\ Tail(q) \in Seq(Chunk) /\ Len(Tail(q)) = Len(q) - 1
          /\ Head(q).n \in Nat /\ Head(q).dropped \in Gap
      BY <2>2, HeadOfQueue
    <3>2. item.dropped \in Gap
      BY DEF Chunk
    <3>3. MergedGap(Head(q), item) \in Gap
      <4> DEFINE x == Head(q).dropped
                 n == Head(q).n
                 y == item.dropped
      <4>1. x \in Gap /\ y \in Gap /\ n \in Nat
        BY <3>1, <3>2
      <4>2. MergedGap(Head(q), item) = IF x = Unknown \/ y = Unknown THEN Unknown ELSE x + n + y
        BY DEF MergedGap
      <4> HIDE DEF x, n, y, TypeOK
      <4> QED
        BY <4>1, <4>2 DEF Gap, Unknown
    <3>4. item' \in Chunk
      BY <1>4, <2>2, <3>3 DEF Evict, Chunk
    <3>5. <<Head(q), item>> \in Seq(Chunk)
      BY <3>1
    <3>6. SizedGaps(<<Head(q), item>>) \in Nat
      BY <3>5, AmountsAreNumbers
    <3>7. unsized' \in Nat
      <4> DEFINE lost == IF item'.dropped # Unknown THEN 0
                         ELSE Head(q).n + SizedGaps(<<Head(q), item>>)
      <4>1. lost \in Nat
        <5> HIDE DEF TypeOK
        <5> QED
          BY <3>1, <3>6
      <4>2. unsized' = unsized + lost
        BY <1>4, <2>2 DEF Evict
      <4> HIDE DEF lost
      <4> QED
        BY <4>1, <4>2
    <3>8. q' = Tail(q)
      BY <1>4, <2>2 DEF Evict
    <3>9. q' \in Seq(Chunk) /\ Len(q') <= QueueMax
      BY <3>1, <3>8 DEF AssemblerAssumption
    <3>10. /\ ppc' = "reput" /\ pos' = pos /\ lo' = lo /\ leftover' = leftover
           /\ stopped' = stopped /\ cpc' = cpc /\ parts' = parts /\ polled' = polled
           /\ win' = win
           /\ UNCHANGED <<overflow_count, tail_discarded_samples, total_samples,
                          reported, flushed_gap, abandoned>>
      BY <1>4 DEF Evict
    <3> QED
      BY <3>4, <3>7, <3>9, <3>10
  <2> QED
    BY <2>1, <2>2
<1>5. CASE Reput
  BY <1>5 DEF Reput
<1>6. CASE FlushLeftover
  <2>1. Samples(leftover) \in Nat
    BY AmountsAreNumbers
  <2> QED
    BY <1>6, <2>1 DEF FlushLeftover
<1>7. CASE FlushChunk
  <2>1. /\ Tail(q) \in Seq(Chunk) /\ Len(Tail(q)) = Len(q) - 1
        /\ Head(q).n \in Nat /\ Sized(Head(q).dropped) \in Nat
    BY <1>7, HeadOfQueue DEF FlushChunk
  <2> DEFINE n == Head(q).n
             g == Sized(Head(q).dropped)
  <2>2. /\ tail_discarded_samples' = tail_discarded_samples + n
        /\ flushed_gap' = flushed_gap + g /\ q' = Tail(q)
    BY <1>7 DEF FlushChunk
  <2>3. n \in Nat /\ g \in Nat
    BY <2>1
  <2> HIDE DEF n, g
  <2>4. tail_discarded_samples' \in Nat /\ flushed_gap' \in Nat
    BY <2>2, <2>3
  <2>5. q' \in Seq(Chunk) /\ Len(q') <= QueueMax
    BY <2>1, <2>2 DEF AssemblerAssumption
  <2>6. UNCHANGED <<leftover, stopped, overflow_count, total_samples, ppc, item, pos, lo, cpc,
                    parts, polled, win, reported, unsized, abandoned>>
    BY <1>7 DEF FlushChunk
  <2> QED
    BY <2>4, <2>5, <2>6
<1>8. CASE FlushDone
  BY <1>8 DEF FlushDone
<1>9. CASE Stop
  BY <1>9 DEF Stop
<1>10. CASE Begin
  <2>1. <<>> \in Seq(Chunk) /\ Len(<<>>) = 0
    OBVIOUS
  <2>2. leftover' \in Seq(Chunk) /\ Len(leftover') <= 1 /\ parts' \in Seq(Chunk)
    BY <1>10, <2>1 DEF Begin
  <2> QED
    BY <1>10, <2>2 DEF Begin
<1>11. CASE Pull
  <2>1. Head(q) \in Chunk /\ Tail(q) \in Seq(Chunk) /\ Len(Tail(q)) = Len(q) - 1
    BY <1>11, HeadOfQueue DEF Pull
  <2> QED
    BY <1>11, <2>1 DEF Pull
<1>12. CASE PollEmpty
  BY <1>12 DEF PollEmpty
<1>13. CASE StillActive
  BY <1>13 DEF StillActive
<1>14. CASE ReturnNone
  <2>1. Have \in Nat /\ SizedGaps(parts) \in Nat
    BY AmountsAreNumbers DEF Have
  <2> QED
    BY <1>14, <2>1 DEF ReturnNone
<1>15. CASE Return
  <2>1. Assembled \in Window /\ GapBefore \in Nat /\ KnownGap \in Nat
    BY AssembledType
  <2>2. Spill \in Seq(Chunk) /\ Len(Spill) <= 1 /\ Pieces \in Seq(Chunk)
    BY WindowSplitsParts
  <2>3. Samples(Pieces) \in Nat
    BY <2>2, AmountsAreNumbers
  <2> QED
    BY <1>15, <2>1, <2>2, <2>3 DEF Return
<1> QED
  BY <1>1, <1>2, <1>3, <1>4, <1>5, <1>6, <1>7, <1>8, <1>9, <1>10, <1>11, <1>12, <1>13,
     <1>14, <1>15 DEF Next, Producer, Consumer, ReturnFull, ReturnTimeout

LEMMA HeldStep ==
  ASSUME AssemblerAssumption, TypeOK, NewestKept, HeldByOne, Next
  PROVE  NewestKept' /\ HeldByOne'
<1> USE DEF TypeOK, NewestKept, HeldByOne, ConsumerUnchanged, ProducerUnchanged,
            producer, consumer, counters, history
<1>1. CASE \E n \in ChunkSizes, d \in Gaps : StartPush(n, d)
  BY <1>1 DEF StartPush
<1>2. CASE Put
  BY <1>2 DEF Put
<1>3. CASE PutFull
  BY <1>3 DEF PutFull
<1>4. CASE Evict
  <2>1. QueueMax \in Nat \ {0}
    BY DEF AssemblerAssumption
  <2>2. NewestKept'
    <3>1. CASE q = <<>>
      <4>1. q' = <<>> /\ Len(<<>>) = 0
        BY <1>4, <3>1 DEF Evict
      <4> QED
        BY <2>1, <4>1
    <3>2. CASE q # <<>>
      <4>1. Len(Tail(q)) = Len(q) - 1 /\ Len(q) \in Nat
        BY <3>2, HeadOfQueue
      <4>2. q' = Tail(q)
        BY <1>4, <3>2 DEF Evict
      <4> QED
        BY <2>1, <4>1, <4>2
    <3> QED
      BY <3>1, <3>2
  <2>3. HeldByOne'
    BY <1>4 DEF Evict
  <2> QED
    BY <2>2, <2>3
<1>5. CASE Reput
  BY <1>5 DEF Reput
<1>6. CASE FlushLeftover
  BY <1>6 DEF FlushLeftover
<1>7. CASE FlushChunk
  BY <1>7 DEF FlushChunk
<1>8. CASE FlushDone
  BY <1>8 DEF FlushDone
<1>9. CASE Stop
  BY <1>9 DEF Stop
<1>10. CASE Begin
  BY <1>10 DEF Begin
<1>11. CASE Pull
  <2>1. Len(Tail(q)) = Len(q) - 1 /\ Len(q) \in Nat /\ QueueMax \in Nat
    BY <1>11, HeadOfQueue DEF Pull, AssemblerAssumption
  <2>2. NewestKept'
    BY <1>11, <2>1 DEF Pull
  <2>3. HeldByOne'
    BY <1>11 DEF Pull
  <2> QED
    BY <2>2, <2>3
<1>12. CASE PollEmpty
  BY <1>12 DEF PollEmpty
<1>13. CASE StillActive
  BY <1>13 DEF StillActive
<1>14. CASE ReturnNone
  BY <1>14 DEF ReturnNone
<1>15. CASE Return /\ cpc = "fill"
  <2>1. cpc' = "idle" /\ parts' = <<>> /\ ppc' = ppc /\ q' = q
        /\ overflow_count' = overflow_count
    BY <1>15 DEF Return
  <2> QED
    BY <2>1
<1> QED
  BY <1>1, <1>2, <1>3, <1>4, <1>5, <1>6, <1>7, <1>8, <1>9, <1>10, <1>11, <1>12, <1>13,
     <1>14, <1>15 DEF Next, Producer, Consumer, ReturnFull, ReturnTimeout

LEMMA SingleChunk ==
  ASSUME NEW s \in Seq(Chunk), Len(s) <= 1, s # <<>>
  PROVE  s[1] \in Chunk /\ s = <<s[1]>> /\ Len(s) = 1
<1>1. Len(s) \in Nat
  OBVIOUS
<1>2. Len(s) = 1
  <2>1. Len(s) # 0
    OBVIOUS
  <2> QED
    BY <1>1, <2>1
<1>3. s[1] \in Chunk
  BY <1>2
<1>4. <<s[1]>> \in Seq(Chunk) /\ Len(<<s[1]>>) = 1 /\ <<s[1]>>[1] = s[1]
  BY <1>3
<1>5. \A i \in 1 .. Len(s) : s[i] = <<s[1]>>[i]
  BY <1>2, <1>4
<1>6. s = <<s[1]>>
  BY <1>2, <1>4, <1>5, SeqEqual
<1> QED
  BY <1>2, <1>3, <1>6

LEMMA PulledStep ==
  ASSUME AssemblerAssumption, TypeOK, HeldByOne, PulledAsNeeded, Next
  PROVE  PulledAsNeeded'
<1>1. Want \in Nat \ {0} /\ leftover \in Seq(Chunk) /\ Len(leftover) <= 1
  BY DEF AssemblerAssumption, TypeOK
<1>2. CASE parts' = parts
  BY <1>2 DEF PulledAsNeeded, Have, LastPart
<1>3. CASE parts' = <<>>
  BY <1>3 DEF PulledAsNeeded
<1>4. CASE Begin
  <2>1. CASE leftover = <<>>
    BY <1>4, <2>1 DEF Begin, PulledAsNeeded
  <2>2. CASE leftover # <<>>
    <3>1. leftover[1] \in Chunk /\ leftover = <<leftover[1]>> /\ Len(leftover) = 1
      BY <1>1, <2>2, SingleChunk
    <3>2. Samples(leftover) = leftover[1].n /\ leftover[1].n \in Nat
      BY <3>1, AmountsOfOne, ChunkType
    <3>3. parts' = leftover
      BY <1>4 DEF Begin
    <3> DEFINE h == Samples(leftover)
               n == leftover[1].n
    <3>4. Have' - LastPart'.n = h - n
      BY <3>1, <3>3 DEF Have, LastPart
    <3>5. h = n /\ n \in Nat
      BY <3>2
    <3>6. h - n < Want
      <4> HIDE DEF h, n
      <4> QED
        BY <1>1, <3>5
    <3> QED
      BY <3>4, <3>6 DEF PulledAsNeeded
  <2> QED
    BY <2>1, <2>2
<1>5. CASE Pull
  <2>1. Head(q) \in Chunk /\ Head(q).n \in Nat /\ parts \in Seq(Chunk)
    BY <1>5, HeadOfQueue DEF Pull, TypeOK
  <2>2. parts' = Append(parts, Head(q)) /\ Have < Want
    BY <1>5 DEF Pull
  <2> DEFINE c == Head(q)
             h == Samples(parts)
             n == c.n
  <2>3. LastPart' = c
    <3> HIDE DEF c
    <3>1. /\ Len(Append(parts, c)) = Len(parts) + 1 /\ Len(parts) \in Nat
          /\ Append(parts, c)[Len(parts) + 1] = c
      BY <2>1 DEF c
    <3> QED
      BY <2>2, <3>1 DEF LastPart, c
  <2>4. Have' = h + n
    BY <2>1, <2>2, AmountsOfAppend DEF Have
  <2>5. h \in Nat /\ n \in Nat /\ h < Want
    BY <2>1, <2>2, AmountsAreNumbers DEF Have
  <2>6. h + n - n < Want
    <3> HIDE DEF h, n
    <3> QED
      BY <1>1, <2>5
  <2>7. Have' - LastPart'.n = (h + n) - n /\ (h + n) - n < Want
    <3>1. Have' - LastPart'.n = (h + n) - n
      BY <2>3, <2>4
    <3>2. (h + n) - n < Want
      <4> HIDE DEF h, n
      <4> QED
        BY <1>1, <2>5
    <3> QED
      BY <3>1, <3>2
  <2> QED
    BY <2>7 DEF PulledAsNeeded
<1> QED
  BY <1>2, <1>3, <1>4, <1>5 DEF Next, Producer, Consumer, ReturnFull, ReturnTimeout, StartPush,
     Put, PutFull, Evict, Reput, FlushLeftover, FlushChunk, FlushDone, Stop, PollEmpty,
     StillActive, ReturnNone, Return, ConsumerUnchanged, consumer, producer

LEMMA NoneEmptyStep ==
  ASSUME AssemblerAssumption, TypeOK, NewestKept, NoneEmpty, Next
  PROVE  NoneEmpty'
<1> USE DEF ConsumerUnchanged, ProducerUnchanged, producer, consumer
<1>1. q \in Seq(Chunk) /\ item \in Chunk
  BY DEF TypeOK
<1>2. ppc \in {"put", "evict", "reput"} => InFlight = <<item>> /\ Range(InFlight) = {item}
  BY <1>1, RangeOfOne DEF InFlight
<1>3. ppc \notin {"put", "evict", "reput"} => InFlight = <<>> /\ Range(InFlight) = {}
  BY RangeOfEmpty DEF InFlight
<1>4. q # <<>> => Range(Tail(q)) \subseteq Range(q)
  <2> SUFFICES ASSUME q # <<>>, NEW x \in Range(Tail(q)) PROVE x \in Range(q)
    OBVIOUS
  <2>1. /\ DOMAIN Tail(q) = 1 .. Len(q) - 1 /\ Len(q) \in Nat
        /\ \A i \in 1 .. Len(q) - 1 : Tail(q)[i] = q[i + 1]
    BY <1>1
  <2>2. PICK i \in 1 .. Len(q) - 1 : x = q[i + 1]
    BY <2>1 DEF Range
  <2>3. i + 1 \in DOMAIN q
    BY <1>1, <2>1
  <2> QED
    BY <2>2, <2>3 DEF Range
<1>5. Range(Append(q, item)) = Range(q) \cup {item}
  BY <1>1, SortedAppend
<1>6. ASSUME NEW n \in ChunkSizes, NEW d \in Gaps, StartPush(n, d) PROVE NoneEmpty'
  <2>1. n > 0 /\ q' = q
    BY <1>6 DEF StartPush, AssemblerAssumption
  <2>2. InFlight' = <<item'>> /\ item'.n = n
    BY <1>6 DEF StartPush, InFlight
  <2>3. Range(InFlight)' = {item'}
    BY <2>2 DEF Range
  <2> QED
    BY <2>1, <2>2, <2>3 DEF NoneEmpty
<1>7. CASE Put
  <2>1. q' = Append(q, item) /\ InFlight' = <<>> /\ ppc = "put"
    BY <1>7 DEF Put, InFlight
  <2> QED
    BY <1>2, <1>5, <2>1, RangeOfEmpty DEF NoneEmpty
<1>8. CASE Evict
  <2>1. ppc = "evict" /\ ppc' = "reput" /\ item'.n = item.n
    BY <1>1, <1>8 DEF Evict, Chunk
  <2>2. Range(InFlight)' = {item'} /\ Range(q)' \subseteq Range(q)
    <3>1. q' = q \/ (q # <<>> /\ q' = Tail(q))
      BY <1>8 DEF Evict
    <3>2. InFlight' = <<item'>>
      BY <2>1 DEF InFlight
    <3>3. Range(<<item'>>) = {item'}
      BY DEF Range
    <3>4. Range(q)' = Range(q')
      BY DEF Range
    <3> QED
      BY <1>4, <3>1, <3>2, <3>3, <3>4
  <2> QED
    BY <1>2, <2>1, <2>2 DEF NoneEmpty
<1>9. CASE Reput
  <2>1. q' = Append(q, item) /\ InFlight' = <<>> /\ ppc = "reput"
    BY <1>9 DEF Reput, InFlight, NewestKept
  <2> QED
    BY <1>2, <1>5, <2>1, RangeOfEmpty DEF NoneEmpty
<1>10. CASE FlushChunk
  <2>1. q # <<>> /\ q' = Tail(q) /\ InFlight' = InFlight
    BY <1>10 DEF FlushChunk, InFlight
  <2> QED
    BY <1>4, <2>1 DEF NoneEmpty
<1>11. CASE Pull
  <2>1. q # <<>> /\ q' = Tail(q) /\ InFlight' = InFlight
    BY <1>11 DEF Pull, InFlight
  <2> QED
    BY <1>4, <2>1 DEF NoneEmpty
<1>12. CASE q' = q /\ InFlight' = InFlight
  BY <1>12 DEF NoneEmpty
<1>13. PutFull \/ FlushLeftover \/ FlushDone \/ Stop \/ Begin \/ PollEmpty \/ StillActive
         \/ ReturnNone \/ Return => q' = q /\ InFlight' = InFlight
  BY DEF PutFull, FlushLeftover, FlushDone, Stop, Begin, PollEmpty, StillActive, ReturnNone,
         Return, InFlight
<1> QED
  BY <1>6, <1>7, <1>8, <1>9, <1>10, <1>11, <1>12, <1>13
     DEF Next, Producer, Consumer, ReturnFull, ReturnTimeout

LEMMA LeftoverStep ==
  ASSUME AssemblerAssumption, TypeOK, PulledAsNeeded, LeftoverIsRest, Next
  PROVE  LeftoverIsRest'
<1>1. CASE leftover' = leftover
  BY <1>1 DEF LeftoverIsRest
<1>2. CASE leftover' = <<>>
  BY <1>2, NothingInEmpty DEF LeftoverIsRest
<1>3. CASE leftover' = Spill
  <2>1. SizedGaps(Spill) = 0 /\ (Spill # <<>> => Samples(Spill) > 0)
    BY WindowSplitsParts DEF TypeOK
  <2> QED
    BY <1>3, <2>1 DEF LeftoverIsRest
<1> QED
  BY <1>1, <1>2, <1>3 DEF Next, Producer, Consumer, ReturnFull, ReturnTimeout, StartPush,
     Put, PutFull, Evict, Reput, FlushLeftover, FlushChunk, FlushDone, Stop, Begin, Pull,
     PollEmpty, StillActive, ReturnNone, Return

-----------------------------------------------------------------------------
(* Conservation: what the parts, the leftover, the queue and the chunk on  *)
(* its way account for, each on its own.                                   *)
Weight(c) == c.n + Sized(c.dropped)
Amount(s) == Samples(s) + SizedGaps(s)

LEMMA AmountType ==
  ASSUME NEW s \in Seq(Chunk) PROVE Amount(s) \in Nat
<1>1. Samples(s) \in Nat /\ SizedGaps(s) \in Nat
  BY AmountsAreNumbers
<1> QED
  BY <1>1 DEF Amount

LEMMA AmountOfNone == Amount(<<>>) = 0
  BY NothingInEmpty DEF Amount

LEMMA AmountOfOne ==
  ASSUME NEW c \in Chunk PROVE Amount(<<c>>) = Weight(c) /\ Weight(c) \in Nat
<1>1. c.n \in Nat /\ Sized(c.dropped) \in Nat
  BY ChunkType
<1> QED
  BY <1>1, AmountsOfOne DEF Amount, Weight

LEMMA AmountOfConcat ==
  ASSUME NEW s \in Seq(Chunk), NEW t \in Seq(Chunk)
  PROVE  Amount(s \o t) = Amount(s) + Amount(t)
<1> DEFINE a == Samples(s)
           b == Samples(t)
           g == SizedGaps(s)
           h == SizedGaps(t)
<1>1. a \in Nat /\ b \in Nat /\ g \in Nat /\ h \in Nat
  BY AmountsAreNumbers
<1>2. Amount(s \o t) = (a + b) + (g + h) /\ Amount(s) = a + g /\ Amount(t) = b + h
  BY AmountsOfConcat DEF Amount
<1>3. (a + b) + (g + h) = (a + g) + (b + h)
  <2> HIDE DEF a, b, g, h
  <2> QED
    BY <1>1
<1> QED
  BY <1>2, <1>3

LEMMA AmountOfAppend ==
  ASSUME NEW s \in Seq(Chunk), NEW c \in Chunk
  PROVE  Amount(Append(s, c)) = Amount(s) + Weight(c)
<1>1. Append(s, c) = s \o <<c>> /\ <<c>> \in Seq(Chunk)
  BY AppendIsConcat
<1> QED
  BY <1>1, AmountOfConcat, AmountOfOne

LEMMA AmountOfTail ==
  ASSUME NEW s \in Seq(Chunk), s # <<>>
  PROVE  Amount(s) = Weight(Head(s)) + Amount(Tail(s)) /\ Weight(Head(s)) \in Nat
<1>1. /\ s = <<Head(s)>> \o Tail(s)
      /\ Head(s) \in Chunk /\ <<Head(s)>> \in Seq(Chunk) /\ Tail(s) \in Seq(Chunk)
  BY HeadThenTail
<1>2. Amount(<<Head(s)>> \o Tail(s)) = Amount(<<Head(s)>>) + Amount(Tail(s))
  BY <1>1, AmountOfConcat
<1>3. Amount(<<Head(s)>>) = Weight(Head(s)) /\ Weight(Head(s)) \in Nat
  BY <1>1, AmountOfOne
<1> QED
  BY <1>1, <1>2, <1>3

LEMMA AmountOfFour ==
  ASSUME NEW s \in Seq(Chunk), NEW t \in Seq(Chunk), NEW u \in Seq(Chunk), NEW v \in Seq(Chunk)
  PROVE  Samples(s \o t \o u \o v) + SizedGaps(s \o t \o u \o v)
           = Amount(s) + Amount(t) + Amount(u) + Amount(v)
<1>1. s \o t \in Seq(Chunk) /\ s \o t \o u \in Seq(Chunk)
  OBVIOUS
<1>2. /\ Amount(s \o t) = Amount(s) + Amount(t)
      /\ Amount(s \o t \o u) = Amount(s \o t) + Amount(u)
      /\ Amount(s \o t \o u \o v) = Amount(s \o t \o u) + Amount(v)
  BY <1>1, AmountOfConcat
<1> QED
  BY <1>2 DEF Amount

(* The accounts, with the four places apart. *)
Accounted ==
  total_samples + reported + tail_discarded_samples + flushed_gap + abandoned + unsized

Balanced ==
  pos = Accounted + (Amount(parts) + Amount(leftover) + Amount(q) + Amount(InFlight))

LEMMA ConservedApart == TypeOK => (Conserved <=> Balanced)
<1> SUFFICES ASSUME TypeOK PROVE Conserved <=> Balanced
  OBVIOUS
<1> DEFINE a == Accounted
           m == Samples(Held)
           g == SizedGaps(Held)
           k == Amount(parts) + Amount(leftover) + Amount(q) + Amount(InFlight)
<1>1. /\ parts \in Seq(Chunk) /\ leftover \in Seq(Chunk) /\ q \in Seq(Chunk)
      /\ InFlight \in Seq(Chunk)
  BY InFlightType DEF TypeOK
<1>2. Held \in Seq(Chunk)
  BY <1>1 DEF Held
<1>3. m \in Nat /\ g \in Nat
  BY <1>2, AmountsAreNumbers
<1>4. a \in Nat
  BY DEF Accounted, TypeOK
<1>5. m + g = k
  BY <1>1, AmountOfFour DEF Held
<1>6. Conserved <=> pos = a + m + g
  BY DEF Conserved, Accounted
<1>7. a + m + g = a + (m + g)
  <2> HIDE DEF a, m, g
  <2> QED
    BY <1>3, <1>4
<1>8. Conserved <=> pos = a + k
  <2> HIDE DEF a, m, g, k
  <2> QED
    BY <1>5, <1>6, <1>7
<1> QED
  BY <1>8 DEF Balanced

LEMMA ConservedApartNext == TypeOK' => (Conserved' <=> Balanced')
  BY ConservedApart, PTL

LEMMA AmountInFlight ==
  ASSUME TypeOK
  PROVE  Amount(InFlight) = IF ppc \in {"put", "evict", "reput"} THEN Weight(item) ELSE 0
<1>1. item \in Chunk
  BY DEF TypeOK
<1> QED
  BY <1>1, AmountOfOne, AmountOfNone DEF InFlight

LEMMA AmountInFlightNext ==
  ASSUME TypeOK'
  PROVE  Amount(InFlight)' = IF ppc' \in {"put", "evict", "reput"} THEN Weight(item') ELSE 0
<1>1. item' \in Chunk
  BY DEF TypeOK
<1>2. Amount(<<item'>>) = Weight(item')
  BY <1>1, AmountOfOne
<1>3. CASE ppc' \in {"put", "evict", "reput"}
  <2>1. InFlight' = <<item'>>
    BY <1>3 DEF InFlight
  <2>2. Amount(InFlight)' = Amount(<<item'>>)
    BY <2>1 DEF Amount
  <2> QED
    BY <1>2, <1>3, <2>2
<1>4. CASE ppc' \notin {"put", "evict", "reput"}
  <2>1. InFlight' = <<>>
    BY <1>4 DEF InFlight
  <2>2. Amount(InFlight)' = Amount(<<>>)
    BY <2>1 DEF Amount
  <2> QED
    BY <1>4, <2>2, AmountOfNone
<1> QED
  BY <1>3, <1>4

LEMMA AppendToOne ==
  ASSUME NEW a \in Chunk, NEW b \in Chunk
  PROVE  <<a>> \in Seq(Chunk) /\ Append(<<a>>, b) = <<a, b>>
<1> DEFINE s == Append(<<a>>, b)
           t == <<a, b>>
<1>1. <<a>> \in Seq(Chunk) /\ Len(<<a>>) = 1 /\ <<a>>[1] = a
  OBVIOUS
<1>2. s \in Seq(Chunk) /\ Len(s) = 2 /\ s[1] = a /\ s[2] = b
  BY <1>1
<1>3. t \in Seq(Chunk) /\ Len(t) = 2 /\ t[1] = a /\ t[2] = b
  OBVIOUS
<1> HIDE DEF s, t
<1>4. \A i \in 1 .. 2 : s[i] = t[i]
  BY <1>2, <1>3
<1>5. s = t
  BY <1>2, <1>3, <1>4, SeqEqual
<1> QED
  BY <1>1, <1>5 DEF s, t

LEMMA BalancedStep ==
  ASSUME AssemblerAssumption, TypeOK, TypeOK', NewestKept, HeldByOne, PulledAsNeeded,
         LeftoverIsRest, Balanced, Next
  PROVE  Balanced'
<1> DEFINE P == Amount(parts)
           L == Amount(leftover)
           Q == Amount(q)
           F == Amount(InFlight)
           w == Weight(item)
<1> USE DEF ConsumerUnchanged, ProducerUnchanged, producer, consumer, counters, history
<1>1. /\ q \in Seq(Chunk) /\ item \in Chunk /\ parts \in Seq(Chunk) /\ leftover \in Seq(Chunk)
      /\ pos \in Nat /\ Accounted \in Nat
      /\ overflow_count \in Nat /\ tail_discarded_samples \in Nat
      /\ total_samples \in Nat /\ reported \in Nat /\ flushed_gap \in Nat
      /\ unsized \in Nat /\ abandoned \in Nat
  BY DEF TypeOK, Accounted
<1>2. P \in Nat /\ L \in Nat /\ Q \in Nat /\ F \in Nat /\ w \in Nat
  BY <1>1, InFlightType, AmountType, AmountOfOne
<1>3. /\ F = IF ppc \in {"put", "evict", "reput"} THEN w ELSE 0
      /\ F' = IF ppc' \in {"put", "evict", "reput"} THEN w' ELSE 0
  BY AmountInFlight, AmountInFlightNext DEF Amount, Weight
<1>4. /\ parts' = parts => P' = P
      /\ leftover' = leftover => L' = L
      /\ q' = q => Q' = Q
      /\ item' = item => w' = w
  BY DEF Amount, Weight
<1>5. q' = Append(q, item) => Q' = Q + w
  BY <1>1, AmountOfAppend DEF Amount, Weight
<1>6. q # <<>> /\ q' = Tail(q) =>
        Q = Weight(Head(q)) + Q' /\ Weight(Head(q)) \in Nat /\ Q' \in Nat
  <2> SUFFICES ASSUME q # <<>>, q' = Tail(q)
               PROVE  Q = Weight(Head(q)) + Q' /\ Weight(Head(q)) \in Nat /\ Q' \in Nat
    OBVIOUS
  <2>1. Amount(q) = Weight(Head(q)) + Amount(Tail(q)) /\ Weight(Head(q)) \in Nat
    BY <1>1, AmountOfTail
  <2>2. Q' = Amount(Tail(q)) /\ Tail(q) \in Seq(Chunk)
    BY <1>1 DEF Amount
  <2> QED
    BY <2>1, <2>2, AmountType
<1>7. Balanced <=> pos = Accounted + (P + L + Q + F)
  BY DEF Balanced
<1>8. Balanced' <=> pos' = Accounted' + (P' + L' + Q' + F')
  BY DEF Balanced
<1> HIDE DEF P, L, Q, F
<1>9. ASSUME NEW n \in ChunkSizes, NEW d \in Gaps, StartPush(n, d) PROVE Balanced'
  <2>1. n \in Nat /\ d \in Gap
    BY <1>9 DEF AssemblerAssumption, Gap
  <2> DEFINE h == HoleOf(d)
             g == Sized(d)
  <2>2. h \in Nat /\ g \in Nat
    BY <2>1 DEF Gap, HoleOf, Sized, Unknown
  <2>3. w' = n + g
    BY <1>9 DEF StartPush, Weight
  <2>4. P' = P /\ L' = L /\ Q' = Q /\ F = 0 /\ F' = w'
    BY <1>3, <1>4, <1>9 DEF StartPush
  <2>5. pos' = pos + h + n /\ Accounted' = Accounted + (h - g)
    <3>1. unsized' = unsized + (h - g)
      BY <1>9 DEF StartPush
    <3>2. /\ total_samples' = total_samples /\ reported' = reported
          /\ tail_discarded_samples' = tail_discarded_samples
          /\ flushed_gap' = flushed_gap /\ abandoned' = abandoned
      BY <1>9 DEF StartPush
    <3>3. pos' = pos + h + n
      BY <1>9 DEF StartPush
    <3> HIDE DEF h, g
    <3> QED
      BY <1>1, <2>2, <3>1, <3>2, <3>3 DEF Accounted
  <2> HIDE DEF h, g, w
  <2> QED
    BY <1>1, <1>2, <1>7, <1>8, <2>1, <2>2, <2>3, <2>4, <2>5
<1>10. ASSUME q' = Append(q, item), Put \/ Reput PROVE Balanced'
  <2>1. P' = P /\ L' = L /\ Q' = Q + w /\ F = w /\ F' = 0 /\ pos' = pos
    BY <1>3, <1>4, <1>5, <1>10 DEF Put, Reput
  <2>2. Accounted' = Accounted
    BY <1>10 DEF Put, Reput, Accounted
  <2> HIDE DEF w
  <2> QED
    BY <1>1, <1>2, <1>7, <1>8, <2>1, <2>2
<1>11. CASE Evict
  <2>1. P' = P /\ L' = L /\ F = w /\ F' = w' /\ pos' = pos
    BY <1>3, <1>4, <1>11 DEF Evict
  <2>2. CASE q = <<>>
    <3>1. Q' = Q /\ w' = w /\ Accounted' = Accounted
      BY <1>4, <1>11, <2>2 DEF Evict, Accounted
    <3> HIDE DEF w
    <3> QED
      BY <1>1, <1>2, <1>7, <1>8, <2>1, <3>1
  <2>3. CASE q # <<>>
    <3> DEFINE old == Head(q)
               on == old.n
               og == Sized(old.dropped)
               in == item.n
               ig == Sized(item.dropped)
    <3>1. old \in Chunk
      BY <1>1, <2>3
    <3>2. on \in Nat /\ og \in Nat /\ in \in Nat /\ ig \in Nat
      BY <1>1, <3>1, ChunkType
    <3>3. q' = Tail(q) /\ item' = [item EXCEPT !.dropped = MergedGap(old, item)]
      BY <1>11, <2>3 DEF Evict
    <3>4. Q = (on + og) + Q' /\ Q' \in Nat
      BY <1>6, <2>3, <3>3 DEF Weight
    <3>5. w = in + ig
      BY DEF Weight
    <3>6. item'.n = in /\ item'.dropped = MergedGap(old, item)
      BY <1>1, <3>3 DEF Chunk
    <3>7. CASE item'.dropped = Unknown
      <4>1. w' = in + 0
        BY <3>6, <3>7 DEF Weight, Sized
      <4>2. SizedGaps(<<old, item>>) = og + ig
        <5>1. <<old>> \in Seq(Chunk) /\ Append(<<old>>, item) = <<old, item>>
          BY <1>1, <3>1, AppendToOne
        <5>2. SizedGaps(Append(<<old>>, item)) = SizedGaps(<<old>>) + ig
          BY <1>1, <5>1, AmountsOfAppend
        <5> QED
          BY <3>1, <5>1, <5>2, AmountsOfOne
      <4>3. unsized' = unsized + (on + (og + ig))
        BY <1>11, <2>3, <3>7, <4>2 DEF Evict
      <4>4. Accounted' = Accounted + (on + (og + ig))
        <5>1. /\ total_samples' = total_samples /\ reported' = reported
              /\ tail_discarded_samples' = tail_discarded_samples
              /\ flushed_gap' = flushed_gap /\ abandoned' = abandoned
          BY <1>11 DEF Evict
        <5> HIDE DEF on, og, ig
        <5> QED
          BY <1>1, <3>2, <4>3, <5>1 DEF Accounted
      <4> HIDE DEF w, on, og, in, ig
      <4>5. P + L + Q + F = (P' + L' + Q' + F') + (on + (og + ig))
        BY <1>2, <2>1, <3>2, <3>4, <3>5, <4>1
      <4>6. P' + L' + Q' + F' \in Nat
        <5> DEFINE a == P'
                   b == L'
                   c == Q'
                   d == F'
        <5>1. a \in Nat /\ b \in Nat /\ c \in Nat
          BY <1>2, <2>1, <3>4
        <5>2. d \in Nat
          BY <2>1, <3>2, <4>1
        <5>3. a + b + c + d \in Nat
          <6> HIDE DEF a, b, c, d
          <6> QED
            BY <5>1, <5>2
        <5> QED
          BY <5>3
      <4> DEFINE k == P' + L' + Q' + F'
                 x == on + (og + ig)
      <4>7. pos' = pos /\ pos = Accounted + (k + x) /\ Accounted' = Accounted + x
        BY <1>7, <2>1, <4>4, <4>5
      <4>8. x \in Nat
        BY <3>2
      <4>9. pos' = Accounted' + k
        <5> HIDE DEF k, x
        <5> QED
          BY <1>1, <4>6, <4>7, <4>8 DEF k
      <4> QED
        BY <1>8, <4>9
    <3>8. CASE item'.dropped # Unknown
      <4>1. old.dropped # Unknown /\ item.dropped # Unknown
            /\ item'.dropped = old.dropped + on + item.dropped
        BY <3>6, <3>8 DEF MergedGap
      <4>2. og = old.dropped /\ ig = item.dropped
        BY <4>1 DEF Sized
      <4>3. w' = in + (og + on + ig)
        BY <3>6, <3>8, <4>1, <4>2 DEF Weight, Sized
      <4>4. Accounted' = Accounted
        <5>1. unsized' = unsized + 0
          BY <1>11, <2>3, <3>8 DEF Evict
        <5>2. /\ total_samples' = total_samples /\ reported' = reported
              /\ tail_discarded_samples' = tail_discarded_samples
              /\ flushed_gap' = flushed_gap /\ abandoned' = abandoned
          BY <1>11 DEF Evict
        <5> QED
          BY <1>1, <5>1, <5>2 DEF Accounted
      <4> HIDE DEF w, on, og, in, ig
      <4> QED
        BY <1>1, <1>2, <1>7, <1>8, <2>1, <3>2, <3>4, <3>5, <4>3, <4>4
    <3> QED
      BY <3>7, <3>8
  <2> QED
    BY <2>2, <2>3
<1>12. CASE FlushLeftover
  <2>1. P' = P /\ Q' = Q /\ F = 0 /\ F' = 0 /\ pos' = pos
    BY <1>3, <1>4, <1>12 DEF FlushLeftover
  <2> DEFINE m == Samples(leftover)
  <2>2. m \in Nat /\ L = m
    <3>1. m \in Nat /\ L = m + 0
      BY <1>1, AmountsAreNumbers DEF LeftoverIsRest, L, Amount
    <3> QED
      BY <3>1
  <2>3. L' = 0
    <3>1. leftover' = <<>>
      BY <1>12 DEF FlushLeftover
    <3> QED
      BY <3>1, AmountOfNone DEF L, Amount
  <2>4. Accounted' = Accounted + m
    <3>1. tail_discarded_samples' = tail_discarded_samples + m
      BY <1>12 DEF FlushLeftover
    <3>2. /\ total_samples' = total_samples /\ reported' = reported
          /\ unsized' = unsized /\ flushed_gap' = flushed_gap /\ abandoned' = abandoned
      BY <1>12 DEF FlushLeftover
    <3> HIDE DEF m
    <3> QED
      BY <1>1, <2>2, <3>1, <3>2 DEF Accounted
  <2> HIDE DEF m, w
  <2> QED
    BY <1>1, <1>2, <1>7, <1>8, <2>1, <2>2, <2>3, <2>4
<1>13. CASE FlushChunk
  <2> DEFINE n == Head(q).n
             g == Sized(Head(q).dropped)
  <2>1. P' = P /\ L' = L /\ F = 0 /\ F' = 0 /\ pos' = pos
    BY <1>3, <1>4, <1>13 DEF FlushChunk
  <2>2. n \in Nat /\ g \in Nat
    BY <1>13, HeadOfQueue DEF FlushChunk
  <2>3. Q = (n + g) + Q' /\ Q' \in Nat
    BY <1>6, <1>13 DEF FlushChunk, Weight
  <2>4. Accounted' = Accounted + (n + g)
    <3>1. /\ tail_discarded_samples' = tail_discarded_samples + n
          /\ flushed_gap' = flushed_gap + g
      BY <1>13 DEF FlushChunk
    <3>2. /\ total_samples' = total_samples /\ reported' = reported
          /\ unsized' = unsized /\ abandoned' = abandoned
      BY <1>13 DEF FlushChunk
    <3> HIDE DEF n, g
    <3> QED
      BY <1>1, <2>2, <3>1, <3>2 DEF Accounted
  <2> HIDE DEF n, g, w
  <2> QED
    BY SMTT(20), <1>1, <1>2, <1>7, <1>8, <2>1, <2>2, <2>3, <2>4
<1>14. CASE Begin
  <2>1. Q' = Q /\ F' = F /\ pos' = pos /\ Accounted' = Accounted
    BY <1>3, <1>4, <1>14 DEF Begin, Accounted
  <2>2. parts = <<>> /\ parts' = leftover /\ leftover' = <<>>
    BY <1>14 DEF Begin, HeldByOne
  <2>3. P = 0 /\ L' = 0 /\ P' = L
    BY <2>2, AmountOfNone DEF P, L, Amount
  <2> HIDE DEF w
  <2> QED
    BY <1>1, <1>2, <1>7, <1>8, <2>1, <2>3
<1>15. CASE Pull
  <2>1. L' = L /\ F' = F /\ pos' = pos /\ Accounted' = Accounted
    BY <1>3, <1>4, <1>15 DEF Pull, Accounted
  <2> DEFINE h == Weight(Head(q))
  <2>2. h \in Nat /\ Q = h + Q' /\ Q' \in Nat
    BY <1>6, <1>15 DEF Pull
  <2>3. P' = P + h
    <3>1. Head(q) \in Chunk /\ parts' = Append(parts, Head(q))
      BY <1>15, HeadOfQueue DEF Pull
    <3> QED
      BY <1>1, <3>1, AmountOfAppend DEF P, Amount
  <2> HIDE DEF h, w
  <2> QED
    BY <1>1, <1>2, <1>7, <1>8, <2>1, <2>2, <2>3
<1>16. CASE ReturnNone
  <2>1. L' = L /\ Q' = Q /\ F' = F /\ pos' = pos
    BY <1>3, <1>4, <1>16 DEF ReturnNone
  <2> DEFINE m == Samples(parts)
             g == SizedGaps(parts)
  <2>2. m \in Nat /\ g \in Nat /\ P = m + g
    BY <1>1, AmountsAreNumbers DEF P, Amount
  <2>3. P' = 0
    <3>1. parts' = <<>>
      BY <1>16 DEF ReturnNone
    <3> QED
      BY <3>1, AmountOfNone DEF P, Amount
  <2>4. Accounted' = Accounted + (m + g)
    <3>1. abandoned' = abandoned + m + g
      BY <1>16 DEF ReturnNone, Have
    <3>2. /\ total_samples' = total_samples /\ reported' = reported
          /\ unsized' = unsized /\ flushed_gap' = flushed_gap
          /\ tail_discarded_samples' = tail_discarded_samples
      BY <1>16 DEF ReturnNone
    <3> HIDE DEF m, g
    <3> QED
      BY <1>1, <2>2, <3>1, <3>2 DEF Accounted
  <2> HIDE DEF m, g, w
  <2> QED
    BY <1>1, <1>2, <1>7, <1>8, <2>1, <2>2, <2>3, <2>4
<1>17. CASE Return /\ cpc = "fill"
  <2>1. Q' = Q /\ F' = F /\ pos' = pos
    BY <1>3, <1>4, <1>17 DEF Return
  <2> DEFINE k == Samples(Pieces)
             m == Samples(Spill)
             g == SizedGaps(parts)
  <2>2. k \in Nat /\ m \in Nat /\ g \in Nat /\ k + m = Samples(parts) /\ SizedGaps(Spill) = 0
    BY <1>1, WindowSplitsParts, AmountsAreNumbers DEF Have
  <2>3. P = (k + m) + g
    BY <2>2 DEF P, Amount
  <2>4. P' = 0 /\ L = 0 /\ L' = m
    <3>1. parts' = <<>> /\ leftover = <<>> /\ leftover' = Spill
      BY <1>17 DEF Return, HeldByOne
    <3>2. Amount(Spill) = m + 0
      BY <2>2 DEF Amount
    <3>3. P' = Amount(<<>>) /\ L = Amount(<<>>) /\ L' = Amount(Spill)
      BY <3>1 DEF P, L, Amount
    <3> HIDE DEF m
    <3> QED
      BY <2>2, <3>2, <3>3, AmountOfNone
  <2>5. Accounted' = Accounted + (k + g)
    <3> DEFINE u == GapBefore
               v == KnownGap
    <3>1. u \in Nat /\ v \in Nat /\ u + v = g
      BY AssembledType
    <3>2. total_samples' = total_samples + k /\ reported' = reported + u + v
      BY <1>17 DEF Return
    <3>3. /\ unsized' = unsized /\ flushed_gap' = flushed_gap /\ abandoned' = abandoned
          /\ tail_discarded_samples' = tail_discarded_samples
      BY <1>17 DEF Return
    <3> HIDE DEF k, g, u, v
    <3> QED
      BY <1>1, <2>2, <3>1, <3>2, <3>3 DEF Accounted
  <2> HIDE DEF k, m, g, w
  <2> QED
    BY <1>1, <1>2, <1>7, <1>8, <2>1, <2>2, <2>3, <2>4, <2>5
<1>18. PutFull \/ FlushDone \/ Stop \/ PollEmpty \/ StillActive => Balanced'
  <2> SUFFICES ASSUME PutFull \/ FlushDone \/ Stop \/ PollEmpty \/ StillActive
               PROVE  Balanced'
    OBVIOUS
  <2>1. /\ parts' = parts /\ leftover' = leftover /\ q' = q /\ item' = item /\ pos' = pos
        /\ ppc \in {"put", "evict", "reput"} <=> ppc' \in {"put", "evict", "reput"}
    BY DEF PutFull, FlushDone, Stop, PollEmpty, StillActive
  <2>2. Accounted' = Accounted
    BY DEF PutFull, FlushDone, Stop, PollEmpty, StillActive, Accounted
  <2>3. P' = P /\ L' = L /\ Q' = Q /\ F' = F
    BY <1>3, <1>4, <2>1
  <2> QED
    BY <1>7, <1>8, <2>1, <2>2, <2>3
<1>19. Put \/ Reput => q' = Append(q, item)
  BY DEF Put, Reput, NewestKept
<1> QED
  BY <1>9, <1>10, <1>11, <1>12, <1>13, <1>14, <1>15, <1>16, <1>17, <1>18, <1>19
     DEF Next, Producer, Consumer, ReturnFull, ReturnTimeout

-----------------------------------------------------------------------------
(* Order. *)

LEMMA RangeInFlight ==
  ASSUME TypeOK
  PROVE  Range(InFlight) = IF ppc \in {"put", "evict", "reput"} THEN {item} ELSE {}
<1>1. item \in Chunk
  BY DEF TypeOK
<1> QED
  BY <1>1, RangeOfOne, RangeOfEmpty DEF InFlight

LEMMA RangeInFlightNext ==
  Range(InFlight)' = IF ppc' \in {"put", "evict", "reput"} THEN {item'} ELSE {}
<1>1. Range(<<item'>>) = {item'}
  BY DEF Range
<1>2. CASE ppc' \in {"put", "evict", "reput"}
  <2>1. InFlight' = <<item'>>
    BY <1>2 DEF InFlight
  <2>2. Range(InFlight)' = Range(<<item'>>)
    BY <2>1 DEF Range
  <2> QED
    BY <1>1, <1>2, <2>2
<1>3. CASE ppc' \notin {"put", "evict", "reput"}
  <2>1. InFlight' = <<>>
    BY <1>3 DEF InFlight
  <2>2. Range(InFlight)' = Range(<<>>)
    BY <2>1 DEF Range
  <2> QED
    BY <1>3, <2>2, RangeOfEmpty
<1> QED
  BY <1>2, <1>3

LEMMA OrderStep ==
  ASSUME AssemblerAssumption, TypeOK, TypeOK', NewestKept, HeldByOne, PulledAsNeeded,
         LineInOrder, Next
  PROVE  LineInOrder'
<1> DEFINE W == Range(win.pieces)
           P == Range(parts)
           L == Range(leftover)
           Q == Range(q)
           I == Range(InFlight)
<1> USE DEF ConsumerUnchanged, ProducerUnchanged, producer, consumer, counters, history
<1>1. /\ q \in Seq(Chunk) /\ item \in Chunk /\ parts \in Seq(Chunk)
      /\ leftover \in Seq(Chunk) /\ Len(leftover) <= 1 /\ win.pieces \in Seq(Chunk)
      /\ pos \in Nat /\ pos' \in Nat /\ item' \in Chunk
  BY DEF TypeOK, Window
<1>2. W \subseteq Chunk /\ P \subseteq Chunk /\ L \subseteq Chunk /\ Q \subseteq Chunk
  BY <1>1, RangeOfChunks
<1>3. /\ I = IF ppc \in {"put", "evict", "reput"} THEN {item} ELSE {}
      /\ I' = IF ppc' \in {"put", "evict", "reput"} THEN {item'} ELSE {}
  BY RangeInFlight, RangeInFlightNext DEF Range
<1>4. I \subseteq Chunk
  BY <1>1, <1>3
<1>5. \A c \in Chunk : c.start \in Nat /\ End(c) \in Nat
  BY ChunkType
<1>6. /\ win' = win => W' = W
      /\ parts' = parts => P' = P
      /\ leftover' = leftover => L' = L
      /\ q' = q => Q' = Q
      /\ parts' = <<>> => P' = {}
      /\ leftover' = <<>> => L' = {}
  BY RangeOfEmpty DEF Range
<1>7. /\ Sorted(win.pieces) /\ Sorted(parts) /\ Sorted(q)
      /\ Precedes(W, P \cup L) /\ Precedes(W, Q \cup I) /\ Precedes(P \cup L, Q \cup I)
      /\ Precedes(Q, I)
      /\ EndsBy(W, pos) /\ EndsBy(P \cup L, pos) /\ EndsBy(Q \cup I, pos)
  BY DEF LineInOrder
<1>8. /\ win' = win => Sorted(win'.pieces)
      /\ parts' = parts \/ parts' = <<>> => Sorted(parts')
      /\ q' = q => Sorted(q')
  BY <1>7, RangeOfEmpty
<1>9. /\ Sorted(win'.pieces) /\ Sorted(parts') /\ Sorted(q')
      /\ Precedes(W', P' \cup L') /\ Precedes(W', Q' \cup I')
      /\ Precedes(P' \cup L', Q' \cup I') /\ Precedes(Q', I')
      /\ EndsBy(W', pos') /\ EndsBy(P' \cup L', pos') /\ EndsBy(Q' \cup I', pos')
      => LineInOrder'
  BY DEF LineInOrder, Sorted, Precedes, EndsBy, End
<1>10. q # <<>> => /\ Head(q) \in Q /\ Range(Tail(q)) \subseteq Q
                   /\ Sorted(Tail(q)) /\ Precedes({Head(q)}, Range(Tail(q)))
  BY <1>1, <1>7, SortedTail
<1>11. q' = Tail(q) => Q' = Range(Tail(q))
  BY DEF Range
<1> HIDE DEF W, P, L, Q, I
<1>12. ASSUME NEW n \in ChunkSizes, NEW d \in Gaps, StartPush(n, d)
       PROVE  LineInOrder'
  <2>1. n \in Nat /\ d \in Gap
    BY <1>12 DEF AssemblerAssumption, Gap
  <2> DEFINE h == HoleOf(d)
  <2>2. h \in Nat
    BY <2>1 DEF Gap, HoleOf, Unknown
  <2>3. W' = W /\ P' = P /\ L' = L /\ Q' = Q /\ I = {} /\ I' = {item'}
    BY <1>3, <1>6, <1>12 DEF StartPush
  <2>4. item'.start = pos + h /\ pos' = pos + h + n /\ item'.n = n
    BY <1>12 DEF StartPush
  <2>5. pos <= item'.start /\ End(item') = pos' /\ pos <= pos' /\ item'.start \in Nat
    <3> HIDE DEF h
    <3> QED
      BY <1>1, <2>1, <2>2, <2>4 DEF End
  <2>6. Sorted(win'.pieces) /\ Sorted(parts') /\ Sorted(q')
    BY <1>8, <1>12 DEF StartPush
  <2>7. ASSUME NEW A, A \subseteq Chunk, EndsBy(A, pos)
        PROVE  EndsBy(A, pos') /\ Precedes(A, {item'})
    BY <1>1, <1>5, <2>5, <2>7 DEF EndsBy, Precedes
  <2>8. EndsBy(W, pos) /\ EndsBy(P, pos) /\ EndsBy(L, pos) /\ EndsBy(Q, pos)
    BY <1>7 DEF EndsBy
  <2>9. /\ EndsBy(W, pos') /\ EndsBy(P, pos') /\ EndsBy(L, pos') /\ EndsBy(Q, pos')
        /\ Precedes(W, {item'}) /\ Precedes(P, {item'}) /\ Precedes(L, {item'})
        /\ Precedes(Q, {item'})
    BY <1>2, <2>7, <2>8
  <2>10. EndsBy({item'}, pos')
    BY <1>1, <2>5 DEF EndsBy
  <2>11. Precedes(W', P' \cup L') /\ Precedes(W', Q' \cup I') /\ Precedes(P' \cup L', Q' \cup I')
         /\ Precedes(Q', I')
    BY <1>7, <2>3, <2>9 DEF Precedes
  <2>12. EndsBy(W', pos') /\ EndsBy(P' \cup L', pos') /\ EndsBy(Q' \cup I', pos')
    BY <2>3, <2>9, <2>10 DEF EndsBy
  <2> QED
    BY <1>9, <2>6, <2>11, <2>12
<1>13. ASSUME q' = Append(q, item), Put \/ Reput PROVE LineInOrder'
  <2>1. W' = W /\ P' = P /\ L' = L /\ I = {item} /\ I' = {} /\ pos' = pos
    BY <1>3, <1>6, <1>13 DEF Put, Reput
  <2>2. Q' = Q \cup {item} /\ Sorted(q')
    <3>1. /\ Range(Append(q, item)) = Range(q) \cup {item}
          /\ Sorted(q) /\ Precedes(Range(q), {item}) => Sorted(Append(q, item))
      BY <1>1, SortedAppend
    <3>2. Sorted(q) /\ Precedes(Range(q), {item})
      BY <1>7, <2>1 DEF Q
    <3>3. Q' = Range(Append(q, item))
      BY <1>13 DEF Q, Range
    <3> QED
      BY <1>13, <3>1, <3>2, <3>3 DEF Q
  <2>3. Sorted(win'.pieces) /\ Sorted(parts')
    BY <1>8, <1>13 DEF Put, Reput
  <2> QED
    BY <1>7, <1>9, <2>1, <2>2, <2>3 DEF Precedes, EndsBy
<1>14. CASE Evict
  <2>1. W' = W /\ P' = P /\ L' = L /\ I = {item} /\ I' = {item'} /\ pos' = pos
    BY <1>3, <1>6, <1>14 DEF Evict
  <2>2. item'.start = item.start /\ End(item') = End(item)
    BY <1>1, <1>14 DEF Evict, Chunk, End
  <2>3. Q' \subseteq Q /\ Sorted(q')
    BY <1>6, <1>7, <1>10, <1>11, <1>14 DEF Evict
  <2>4. Sorted(win'.pieces) /\ Sorted(parts')
    BY <1>8, <1>14 DEF Evict
  <2> QED
    BY <1>7, <1>9, <2>1, <2>2, <2>3, <2>4 DEF Precedes, EndsBy
<1>15. CASE FlushLeftover
  <2>1. W' = W /\ P' = P /\ L' = {} /\ Q' = Q /\ I = {} /\ I' = {} /\ pos' = pos
    BY <1>3, <1>6, <1>15 DEF FlushLeftover
  <2>2. Sorted(win'.pieces) /\ Sorted(parts') /\ Sorted(q')
    BY <1>8, <1>15 DEF FlushLeftover
  <2> QED
    BY <1>7, <1>9, <2>1, <2>2 DEF Precedes, EndsBy
<1>16. CASE FlushChunk
  <2>1. W' = W /\ P' = P /\ L' = L /\ I = {} /\ I' = {} /\ pos' = pos
    BY <1>3, <1>6, <1>16 DEF FlushChunk
  <2>2. Q' \subseteq Q /\ Sorted(q')
    BY <1>10, <1>11, <1>16 DEF FlushChunk
  <2>3. Sorted(win'.pieces) /\ Sorted(parts')
    BY <1>8, <1>16 DEF FlushChunk
  <2> QED
    BY <1>7, <1>9, <2>1, <2>2, <2>3 DEF Precedes, EndsBy
<1>17. CASE Begin
  <2>1. W' = W /\ P = {} /\ P' = L /\ L' = {} /\ Q' = Q /\ I' = I /\ pos' = pos
    <3>1. parts = <<>> /\ parts' = leftover /\ leftover' = <<>>
      BY <1>17 DEF Begin, HeldByOne
    <3>2. P = {} /\ P' = L
      BY <3>1, RangeOfEmpty DEF P, L, Range
    <3> QED
      BY <1>3, <1>6, <1>17, <3>1, <3>2 DEF Begin
  <2>2. Sorted(parts')
    <3>1. \A i, j \in 1 .. Len(leftover) : ~(i < j)
      BY <1>1
    <3> QED
      BY <1>17, <3>1 DEF Begin, Sorted
  <2>3. Sorted(win'.pieces) /\ Sorted(q')
    BY <1>8, <1>17 DEF Begin
  <2> QED
    BY <1>7, <1>9, <2>1, <2>2, <2>3 DEF Precedes, EndsBy
<1>18. CASE Pull
  <2> DEFINE c == Head(q)
  <2>1. W' = W /\ L' = L /\ I' = I /\ pos' = pos
    BY <1>3, <1>6, <1>18 DEF Pull
  <2>2. /\ c \in Q /\ c \in Chunk /\ Q' \subseteq Q /\ Sorted(q') /\ Precedes({c}, Q')
    BY <1>2, <1>10, <1>11, <1>18 DEF Pull
  <2>3. P' = P \cup {c} /\ Sorted(parts')
    <3> HIDE DEF c
    <3>1. Precedes(Range(parts), {c}) /\ Sorted(parts)
      BY <1>7, <2>2 DEF P, Precedes
    <3>2. Range(Append(parts, c)) = Range(parts) \cup {c} /\ Sorted(Append(parts, c))
      BY <1>1, <2>2, <3>1, SortedAppend
    <3>3. parts' = Append(parts, c)
      BY <1>18 DEF Pull, c
    <3>4. P' = Range(Append(parts, c))
      BY <3>3 DEF P, Range
    <3> QED
      BY <3>2, <3>3, <3>4 DEF P
  <2>4. Sorted(win'.pieces)
    BY <1>8, <1>18 DEF Pull
  <2> HIDE DEF c
  <2> QED
    BY <1>7, <1>9, <2>1, <2>2, <2>3, <2>4 DEF Precedes, EndsBy
<1>19. CASE ReturnNone
  <2>1. W' = W /\ P' = {} /\ L' = L /\ Q' = Q /\ I' = I /\ pos' = pos
    BY <1>3, <1>6, <1>19 DEF ReturnNone
  <2>2. Sorted(win'.pieces) /\ Sorted(parts') /\ Sorted(q')
    BY <1>8, <1>19 DEF ReturnNone
  <2> QED
    BY <1>7, <1>9, <2>1, <2>2 DEF Precedes, EndsBy
<1>20. CASE Return /\ cpc = "fill"
  <2>1. P' = {} /\ L = {} /\ Q' = Q /\ I' = I /\ pos' = pos
    <3>1. leftover = <<>> /\ parts' = <<>>
      BY <1>20 DEF Return, HeldByOne
    <3> QED
      BY <1>3, <1>6, <1>20, <3>1, RangeOfEmpty DEF Return, L
  <2>2. win'.pieces = Pieces /\ leftover' = Spill
    BY <1>20 DEF Return, Assembled
  <2>3. W' = Range(Pieces) /\ L' = Range(Spill)
    BY <2>2 DEF W, L, Range
  <2>4. /\ Sorted(Pieces) /\ Precedes(W', L')
        /\ \A x \in W' \cup L' : x \in Chunk
        /\ \A x \in W' \cup L' : \E y \in P : End(x) <= End(y)
    <3>1. /\ Sorted(Pieces) /\ Precedes(Range(Pieces), Range(Spill))
          /\ Pieces \in Seq(Chunk) /\ Spill \in Seq(Chunk)
          /\ \A x \in Range(Pieces) \cup Range(Spill) : \E y \in Range(parts) :
               y.start <= x.start /\ End(x) <= End(y)
      BY <1>1, <1>7, WindowSplitsParts
    <3>2. Range(Pieces) \subseteq Chunk /\ Range(Spill) \subseteq Chunk
      BY <3>1, RangeOfChunks
    <3> QED
      BY <2>3, <3>1, <3>2 DEF P
  <2>5. ASSUME NEW x \in W' \cup L'
        PROVE  End(x) <= pos /\ \A b \in Q \cup I : End(x) <= b.start
    <3>1. PICK y \in P : End(x) <= End(y)
      BY <2>4
    <3>2. End(x) \in Nat /\ End(y) \in Nat /\ \A b \in Q \cup I : b.start \in Nat
      BY <1>2, <1>4, <1>5, <2>4
    <3>3. End(y) <= pos /\ \A b \in Q \cup I : End(y) <= b.start
      BY <1>7 DEF EndsBy, Precedes
    <3> QED
      BY <1>1, <3>1, <3>2, <3>3
  <2>6. /\ Precedes(W', Q' \cup I') /\ Precedes(P' \cup L', Q' \cup I') /\ Precedes(Q', I')
        /\ Precedes(W', P' \cup L')
    BY <1>7, <2>1, <2>4, <2>5 DEF Precedes
  <2>7. EndsBy(W', pos') /\ EndsBy(P' \cup L', pos') /\ EndsBy(Q' \cup I', pos')
    BY <1>7, <2>1, <2>5 DEF EndsBy
  <2>8. Sorted(win'.pieces) /\ Sorted(parts') /\ Sorted(q')
    BY <1>8, <1>20, <2>2, <2>4 DEF Return
  <2> QED
    BY <1>9, <2>6, <2>7, <2>8
<1>21. PutFull \/ FlushDone \/ Stop \/ PollEmpty \/ StillActive => LineInOrder'
  <2> SUFFICES ASSUME PutFull \/ FlushDone \/ Stop \/ PollEmpty \/ StillActive
               PROVE  LineInOrder'
    OBVIOUS
  <2>1. /\ parts' = parts /\ leftover' = leftover /\ q' = q /\ item' = item /\ pos' = pos
        /\ win' = win
        /\ ppc \in {"put", "evict", "reput"} <=> ppc' \in {"put", "evict", "reput"}
    BY DEF PutFull, FlushDone, Stop, PollEmpty, StillActive
  <2>2. W' = W /\ P' = P /\ L' = L /\ Q' = Q /\ I' = I
    BY <1>3, <1>6, <2>1
  <2> QED
    BY <1>7, <1>8, <1>9, <2>1, <2>2
<1>22. Put \/ Reput => q' = Append(q, item)
  BY DEF Put, Reput, NewestKept
<1> QED
  BY <1>12, <1>13, <1>14, <1>15, <1>16, <1>17, <1>18, <1>19, <1>20, <1>21, <1>22
     DEF Next, Producer, Consumer, ReturnFull, ReturnTimeout

-----------------------------------------------------------------------------
(* Health. *)

(* A loss that was counted stays counted. *)
LEMMA NothingUncounted ==
  ASSUME TypeOK, Next
  PROVE  /\ overflow_count' = 0 => overflow_count = 0
         /\ tail_discarded_samples' = 0 => tail_discarded_samples = 0
<1> DEFINE m == Samples(leftover)
           n == Head(q).n
<1>1. /\ overflow_count \in Nat /\ tail_discarded_samples \in Nat
      /\ m \in Nat /\ (q # <<>> => n \in Nat)
  BY AmountsAreNumbers, HeadOfQueue DEF TypeOK
<1>2. /\ \/ overflow_count' = overflow_count
         \/ overflow_count' = overflow_count + 1
      /\ \/ tail_discarded_samples' = tail_discarded_samples
         \/ tail_discarded_samples' = tail_discarded_samples + m
         \/ q # <<>> /\ tail_discarded_samples' = tail_discarded_samples + n
  BY DEF Next, Producer, Consumer, ReturnFull, ReturnTimeout, StartPush, Put, PutFull, Evict,
     Reput, FlushLeftover, FlushChunk, FlushDone, Stop, Begin, Pull, PollEmpty, StillActive,
     ReturnNone, Return, ConsumerUnchanged, ProducerUnchanged, counters
<1> HIDE DEF m, n
<1> QED
  BY <1>1, <1>2

LEMMA NothingMissingStep ==
  ASSUME AssemblerAssumption, TypeOK, NewestKept, HeldByOne, PulledAsNeeded, NoneEmpty,
         LeftoverIsRest, NothingMissing, Next
  PROVE  NothingMissing'
<1> USE DEF ConsumerUnchanged, ProducerUnchanged, producer, consumer, counters, history
<1>1. /\ q \in Seq(Chunk) /\ item \in Chunk /\ parts \in Seq(Chunk)
      /\ leftover \in Seq(Chunk) /\ pos \in Nat
      /\ overflow_count \in Nat /\ tail_discarded_samples \in Nat
  BY DEF TypeOK
<1>2. SUFFICES ASSUME overflow_count' = 0, tail_discarded_samples' = 0
               PROVE  \E p, a, b, c :
                        /\ Follows(parts', p, a) /\ Follows(leftover', a, b)
                        /\ Follows(q', b, c) /\ Follows(InFlight', c, pos')
  BY DEF NothingMissing, Follows, HoleAfter, End
<1>3. SUFFICES ASSUME overflow_count = 0, tail_discarded_samples = 0
               PROVE  \E p, a, b, c :
                        /\ Follows(parts', p, a) /\ Follows(leftover', a, b)
                        /\ Follows(q', b, c) /\ Follows(InFlight', c, pos')
  BY <1>2, NothingUncounted
<1>4. PICK p, a, b, c : /\ Follows(parts, p, a) /\ Follows(leftover, a, b)
                        /\ Follows(q, b, c) /\ Follows(InFlight, c, pos)
  BY <1>3 DEF NothingMissing
<1>5. \A x : Follows(<<>>, x, x)
  BY FollowsEmpty
<1>6. \A x, y : Follows(<<>>, x, y) => x = y
  BY DEF Follows
<1>7. ASSUME NEW n \in ChunkSizes, NEW d \in Gaps, StartPush(n, d)
      PROVE  \E r, t, u, v : /\ Follows(parts', r, t) /\ Follows(leftover', t, u)
                             /\ Follows(q', u, v) /\ Follows(InFlight', v, pos')
  <2>1. InFlight = <<>> /\ InFlight' = <<item'>>
    BY <1>7 DEF StartPush, InFlight
  <2>2. c = pos
    BY <1>4, <1>6, <2>1
  <2>3. n \in Nat /\ d \in Gap
    BY <1>7 DEF AssemblerAssumption, Gap
  <2> DEFINE h == HoleOf(d)
  <2>4. h \in Nat
    BY <2>3 DEF Gap, HoleOf, Unknown
  <2>5. /\ item'.start = pos + h /\ item'.n = n /\ item'.dropped = d /\ pos' = pos + h + n
        /\ HoleOf(item'.dropped) = h
    BY <1>7 DEF StartPush
  <2>6. item'.start - h = pos /\ End(item') = pos'
    <3> HIDE DEF h
    <3> QED
      BY <1>1, <2>3, <2>4, <2>5 DEF End
  <2>7. Follows(<<item'>>, pos, pos')
    <3>1. Len(<<item'>>) = 1 /\ <<item'>> # <<>> /\ <<item'>>[1] = item'
      OBVIOUS
    <3> QED
      BY <2>5, <2>6, <3>1 DEF Follows
  <2>8. parts' = parts /\ leftover' = leftover /\ q' = q
    BY <1>7 DEF StartPush
  <2> QED
    BY <1>4, <2>1, <2>2, <2>7, <2>8
<1>8. CASE Put
  <2>1. InFlight = <<item>> /\ InFlight' = <<>> /\ q' = Append(q, item) /\ pos' = pos
    BY <1>8 DEF Put, InFlight
  <2>2. Append(q, item) = q \o <<item>> /\ <<item>> \in Seq(Chunk)
    BY <1>1, AppendIsConcat
  <2>3. Follows(q \o <<item>>, b, pos)
    BY <1>1, <1>4, <2>1, <2>2, FollowsConcat
  <2>4. parts' = parts /\ leftover' = leftover
    BY <1>8 DEF Put
  <2> QED
    BY <1>4, <1>5, <2>1, <2>2, <2>3, <2>4
<1>9. ~PutFull /\ ~Evict /\ ~Reput
  BY <1>1, <1>2, <1>3 DEF PutFull, Evict, Reput, HeldByOne
<1>10. CASE FlushLeftover
  <2> DEFINE m == Samples(leftover)
  <2>1. tail_discarded_samples' = tail_discarded_samples + m /\ m \in Nat
    BY <1>1, <1>10, AmountsAreNumbers DEF FlushLeftover
  <2>2. leftover # <<>> => m > 0
    BY DEF LeftoverIsRest
  <2>3. leftover = <<>>
    <3> HIDE DEF m
    <3> QED
      BY <1>1, <1>2, <1>3, <2>1, <2>2
  <2>4. /\ parts' = parts /\ leftover' = leftover /\ q' = q /\ pos' = pos
        /\ InFlight' = InFlight
    BY <1>10, <2>3 DEF FlushLeftover, InFlight
  <2> QED
    BY <1>4, <2>4
<1>11. ~FlushChunk
  <2> SUFFICES ASSUME FlushChunk PROVE FALSE
    OBVIOUS
  <2> DEFINE n == Head(q).n
  <2>1. tail_discarded_samples' = tail_discarded_samples + n /\ q # <<>>
    BY DEF FlushChunk
  <2>2. n \in Nat /\ Head(q) \in Range(q)
    <3>1. Head(q) = q[1] /\ 1 \in DOMAIN q
      BY <1>1, <2>1
    <3> QED
      BY <2>1, <3>1, HeadOfQueue DEF Range
  <2>3. n > 0
    BY <2>2 DEF NoneEmpty
  <2> HIDE DEF n
  <2> QED
    BY <1>1, <1>2, <1>3, <2>1, <2>2, <2>3
<1>12. CASE Begin
  <2>1. parts = <<>> /\ parts' = leftover /\ leftover' = <<>> /\ q' = q /\ pos' = pos
        /\ InFlight' = InFlight
    BY <1>12 DEF Begin, HeldByOne, InFlight
  <2> QED
    BY <1>4, <1>5, <2>1
<1>13. CASE Pull
  <2>1. /\ leftover = <<>> /\ leftover' = <<>> /\ q # <<>> /\ q' = Tail(q) /\ pos' = pos
        /\ parts' = Append(parts, Head(q)) /\ InFlight' = InFlight
    BY <1>13 DEF Pull, HeldByOne, InFlight
  <2>2. a = b
    BY <1>4, <1>6, <2>1
  <2>3. /\ Follows(Tail(q), End(Head(q)), c)
        /\ b = Head(q).start - HoleOf(Head(q).dropped)
    BY <1>1, <1>4, <2>1, FollowsTail
  <2>4. Head(q) \in Chunk
    BY <2>1, HeadOfQueue
  <2>5. Follows(<<Head(q)>>, b, End(Head(q)))
    BY <2>3, <2>4, FollowsOne
  <2>6. Append(parts, Head(q)) = parts \o <<Head(q)>> /\ <<Head(q)>> \in Seq(Chunk)
    BY <1>1, <2>4, AppendIsConcat
  <2>7. Follows(parts \o <<Head(q)>>, p, End(Head(q)))
    BY <1>1, <1>4, <2>2, <2>5, <2>6, FollowsConcat
  <2> QED
    BY <1>4, <1>5, <2>1, <2>3, <2>6, <2>7
<1>14. CASE ReturnNone
  <2>1. parts' = <<>> /\ leftover' = leftover /\ q' = q /\ pos' = pos /\ InFlight' = InFlight
    BY <1>14 DEF ReturnNone, InFlight
  <2> QED
    BY <1>4, <1>5, <2>1
<1>15. CASE Return /\ cpc = "fill"
  <2>1. /\ leftover = <<>> /\ parts' = <<>> /\ leftover' = Spill /\ q' = q /\ pos' = pos
        /\ InFlight' = InFlight
    BY <1>15 DEF Return, HeldByOne, InFlight
  <2>2. \E m : Follows(Pieces, p, m) /\ Follows(Spill, m, a)
    BY <1>1, <1>4, WindowSplitsParts
  <2>3. a = b
    BY <1>4, <1>6, <2>1
  <2> QED
    BY <1>4, <1>5, <2>1, <2>2, <2>3
<1>16. FlushDone \/ Stop \/ PollEmpty \/ StillActive =>
         /\ parts' = parts /\ leftover' = leftover /\ q' = q /\ pos' = pos
         /\ InFlight' = InFlight
  BY DEF FlushDone, Stop, PollEmpty, StillActive, InFlight
<1> QED
  BY <1>4, <1>7, <1>8, <1>9, <1>10, <1>11, <1>12, <1>13, <1>14, <1>15, <1>16
     DEF Next, Producer, Consumer, ReturnFull, ReturnTimeout

(* The holes inside a window are the gaps its pieces report, if each piece *)
(* follows the one before it.                                              *)
HolesIn(w) ==
  LET later == IF w = <<>> THEN <<>> ELSE Tail(w)
  IN  Total([i \in DOMAIN later |-> HoleAfter(w, i)])

LEMMA HolesAreGaps ==
  ASSUME AssemblerAssumption, TypeOK, PulledAsNeeded, NEW p, NEW e, Follows(parts, p, e)
  PROVE  /\ HolesIn(Pieces) \in Nat
         /\ ~UnknownGap => HolesIn(Pieces) = KnownGap
         /\ UnknownGap => HolesIn(Pieces) > 0
<1>1. /\ parts \in Seq(Chunk) /\ Pieces \in Seq(Chunk) /\ Len(Pieces) = Len(parts)
      /\ \A i \in 1 .. Len(parts) - 1 : HoleAfter(Pieces, i) = HoleAfter(parts, i)
  BY WindowSplitsParts DEF TypeOK
<1>2. CASE parts = <<>>
  <2>1. Pieces = <<>> /\ GapsInside = <<>>
    BY <1>1, <1>2 DEF GapsInside
  <2>2. [i \in DOMAIN <<>> |-> HoleAfter(Pieces, i)] = <<>>
    OBVIOUS
  <2>3. HolesIn(Pieces) = 0
    BY <2>1, <2>2, TotalEmpty DEF HolesIn
  <2>4. KnownGap = 0 /\ ~UnknownGap
    BY <2>1, NothingInEmpty DEF KnownGap, UnknownGap
  <2> QED
    BY <2>3, <2>4
<1>3. CASE parts # <<>>
  <2> DEFINE g == Tail(parts)
             H == [i \in DOMAIN g |-> HoleOf(g[i].dropped)]
  <2>1. /\ g \in Seq(Chunk) /\ Len(parts) \in Nat \ {0} /\ Len(g) = Len(parts) - 1
        /\ DOMAIN g = 1 .. Len(parts) - 1
        /\ \A i \in 1 .. Len(parts) - 1 : g[i] = parts[i + 1]
    BY <1>1, <1>3
  <2>2. Pieces # <<>> /\ DOMAIN Tail(Pieces) = 1 .. Len(parts) - 1
    <3>1. Len(Pieces) # 0 /\ Len(<<>>) = 0
      BY <1>1, <2>1
    <3>2. Pieces # <<>>
      BY <3>1
    <3>3. Len(Tail(Pieces)) = Len(Pieces) - 1 /\ Tail(Pieces) \in Seq(Chunk)
      BY <1>1, <3>2
    <3> QED
      BY <1>1, <3>2, <3>3
  <2> HIDE DEF g
  <2>3. \A i \in 1 .. Len(parts) - 1 : HoleAfter(Pieces, i) = HoleOf(g[i].dropped)
    BY <1>1, <2>1 DEF Follows
  <2>4. HolesIn(Pieces) = Total(H)
    <3>1. [i \in DOMAIN Tail(Pieces) |-> HoleAfter(Pieces, i)] = H
      BY <2>1, <2>2, <2>3
    <3> QED
      BY <2>2, <3>1 DEF HolesIn
  <2>5. \A i \in 1 .. Len(g) : g[i] \in Chunk /\ HoleOf(g[i].dropped) \in Nat
    <3> TAKE i \in 1 .. Len(g)
    <3>1. g[i] \in Chunk
      BY <2>1
    <3> QED
      BY <3>1, ChunkType
  <2>6. H \in Seq(Nat) /\ Len(H) = Len(g)
    BY <2>1, <2>5
  <2>7. GapsInside = g
    BY <1>3 DEF GapsInside, g
  <2>8. ~UnknownGap => HolesIn(Pieces) = KnownGap
    <3> SUFFICES ASSUME ~UnknownGap PROVE HolesIn(Pieces) = KnownGap
      OBVIOUS
    <3>1. \A i \in DOMAIN g : g[i].dropped # Unknown
      BY <2>7 DEF UnknownGap
    <3>2. H = [i \in DOMAIN g |-> Sized(g[i].dropped)]
      BY <3>1 DEF HoleOf, Sized
    <3> QED
      BY <2>4, <2>7, <3>2 DEF KnownGap, SizedGaps
  <2>9. UnknownGap => HolesIn(Pieces) > 0
    <3> SUFFICES ASSUME UnknownGap PROVE HolesIn(Pieces) > 0
      OBVIOUS
    <3>1. PICK i \in DOMAIN g : g[i].dropped = Unknown
      BY <2>7 DEF UnknownGap
    <3>2. H[i] = 1 /\ i \in 1 .. Len(H)
      BY <2>1, <2>6, <3>1 DEF HoleOf
    <3> HIDE DEF H
    <3>3. Total(H) >= H[i] /\ Total(H) \in Nat
      BY <2>6, <3>2, TotalAtLeast, TotalNat
    <3> QED
      BY <2>4, <3>2, <3>3
  <2>10. HolesIn(Pieces) \in Nat
    <3> HIDE DEF H
    <3> QED
      BY <2>4, <2>6, TotalNat
  <2> QED
    BY <2>8, <2>9, <2>10
<1> QED
  BY <1>2, <1>3

(* The health of the last window, for a window and counters of any kind. *)
HealthOf(w, overflows, discarded) ==
  ReportsDrops /\ overflows = 0 /\ discarded = 0 =>
    /\ w.complete <=> (Samples(w.pieces) = Want /\ HolesIn(w.pieces) = 0)
    /\ w.dropped # Unknown => w.dropped = HolesIn(w.pieces) + Want - Samples(w.pieces)

LEMMA HealthIs ==
  /\ HealthExactWithoutOverflow <=> HealthOf(win, overflow_count, tail_discarded_samples)
  /\ HealthExactWithoutOverflow' <=> HealthOf(win', overflow_count', tail_discarded_samples')
  BY DEF HealthExactWithoutOverflow, HealthOf, HolesIn, HoleAfter, End, Samples, Total

LEMMA HealthStep ==
  ASSUME AssemblerAssumption, TypeOK, PulledAsNeeded, NothingMissing,
         HealthExactWithoutOverflow, Next
  PROVE  HealthExactWithoutOverflow'
<1>1. CASE Return
  <2>1. win' = Assembled /\ overflow_count' = overflow_count
        /\ tail_discarded_samples' = tail_discarded_samples
    BY <1>1 DEF Return, ProducerUnchanged
  <2>2. SUFFICES ASSUME ReportsDrops, overflow_count = 0, tail_discarded_samples = 0
                 PROVE  /\ Assembled.complete <=>
                             (Samples(Pieces) = Want /\ HolesIn(Pieces) = 0)
                        /\ Assembled.dropped # Unknown =>
                             Assembled.dropped = HolesIn(Pieces) + Want - Samples(Pieces)
    <3>1. Assembled.pieces = Pieces
      BY DEF Assembled
    <3> QED
      BY <2>1, <3>1, HealthIs DEF HealthOf
  <2>3. PICK p, a : Follows(parts, p, a)
    BY <2>2 DEF NothingMissing
  <2> DEFINE holes == HolesIn(Pieces)
             size == Samples(Pieces)
             known == KnownGap
             short == Have < Want
  <2>4. /\ holes \in Nat
        /\ ~UnknownGap => holes = known
        /\ UnknownGap => holes > 0
    BY <2>3, HolesAreGaps
  <2>5. size = IF short THEN Have ELSE Want
    BY WindowSplitsParts DEF TypeOK, Short
  <2>6. known \in Nat
    BY AssembledType
  <2>7. Want \in Nat /\ Have \in Nat
    BY AmountsAreNumbers DEF AssemblerAssumption, Have, TypeOK
  <2>8. Assembled.complete <=> ~short /\ ~UnknownGap /\ known = 0
    BY <2>2 DEF Assembled, Short
  <2>9. Assembled.dropped = IF UnknownGap THEN Unknown
                            ELSE known + (IF short THEN Want - Have ELSE 0)
    BY <2>2 DEF Assembled, Short
  <2> DEFINE complete == Assembled.complete
             dropped == Assembled.dropped
             unsizedGap == UnknownGap
             have == Have
  <2>10. Assembled.complete <=> (size = Want /\ holes = 0)
    <3>1. size = Want <=> ~short
      <4>1. size = IF have < Want THEN have ELSE Want
        BY <2>5
      <4>2. size = Want <=> ~(have < Want)
        <5>1. have \in Nat
          BY <2>7
        <5> HIDE DEF size, have
        <5> QED
          BY <2>7, <4>1, <5>1
      <4> QED
        BY <4>2
    <3>2. holes = 0 <=> ~UnknownGap /\ known = 0
      <4> HIDE DEF holes, known
      <4> QED
        BY <2>4, <2>6
    <3> HIDE DEF short, size, holes, known
    <3> QED
      BY <2>8, <3>1, <3>2
  <2>11. ASSUME Assembled.dropped # Unknown
         PROVE  Assembled.dropped = holes + Want - size
    <3>1. ~UnknownGap /\ holes = known
      BY <2>4, <2>9, <2>11
    <3>2. dropped = known + (IF have < Want THEN Want - have ELSE 0)
      BY <2>9, <3>1
    <3>3. size = IF have < Want THEN have ELSE Want
      BY <2>5
    <3>4. dropped = holes + Want - size
      <4>1. have \in Nat
        BY <2>7
      <4>2. holes = known
        BY <3>1
      <4> HIDE DEF dropped, holes, size, known, have
      <4> QED
        BY <2>6, <2>7, <3>2, <3>3, <4>1, <4>2
    <3> QED
      BY <3>4
  <2> QED
    BY <2>10, <2>11
<1>2. CASE win' = win
  BY <1>2, NothingUncounted, HealthIs DEF HealthOf
<1> QED
  BY <1>1, <1>2 DEF Next, Producer, Consumer, ReturnFull, ReturnTimeout, StartPush, Put, PutFull,
     Evict, Reput, FlushLeftover, FlushChunk, FlushDone, Stop, Begin, Pull, PollEmpty, StillActive,
     ReturnNone, ConsumerUnchanged, consumer

-----------------------------------------------------------------------------
(* The theorems. *)

LEMMA InitAccounts == AssemblerAssumption /\ Init => AccountsInv
<1> SUFFICES ASSUME AssemblerAssumption, Init PROVE AccountsInv
  OBVIOUS
<1>1. /\ q = <<>> /\ leftover = <<>> /\ parts = <<>> /\ win.pieces = <<>> /\ InFlight = <<>>
      /\ pos = 0 /\ ppc = "idle" /\ cpc = "idle"
      /\ win.complete = FALSE /\ win.dropped = Unknown
  BY DEF Init, InFlight
<1>2. TypeOK
  <2>1. NoChunk \in Chunk
    BY DEF NoChunk, Chunk, Gap
  <2>2. win \in Window
    BY DEF Init, Window, Gap
  <2>3. <<>> \in Seq(Chunk) /\ Len(<<>>) = 0 /\ 0 <= QueueMax
    BY DEF AssemblerAssumption
  <2>4. q \in Seq(Chunk) /\ Len(q) <= QueueMax
    BY <1>1, <2>3
  <2>5. leftover \in Seq(Chunk) /\ Len(leftover) <= 1 /\ parts \in Seq(Chunk)
    BY <1>1, <2>3
  <2> QED
    BY <2>1, <2>2, <2>4, <2>5 DEF Init, TypeOK
<1>3. NewestKept /\ HeldByOne /\ PulledAsNeeded
  BY <1>1 DEF NewestKept, HeldByOne, PulledAsNeeded
<1>4. NoneEmpty /\ LineInOrder
  BY <1>1, RangeOfEmpty DEF NoneEmpty, LineInOrder, Precedes, EndsBy
<1>5. LeftoverIsRest
  BY <1>1, NothingInEmpty DEF LeftoverIsRest
<1>6. Conserved
  <2>1. Balanced
    BY <1>1, AmountOfNone DEF Init, Balanced, Accounted
  <2> QED
    BY <1>2, <2>1, ConservedApart
<1>7. NothingMissing
  BY <1>1, FollowsEmpty DEF NothingMissing
<1>8. HealthExactWithoutOverflow
  <2>1. Samples(win.pieces) = 0 /\ Want # 0
    BY <1>1, NothingInEmpty DEF AssemblerAssumption
  <2> QED
    BY <1>1, <2>1, HealthIs DEF HealthOf
<1> QED
  BY <1>2, <1>3, <1>4, <1>5, <1>6, <1>7, <1>8 DEF AccountsInv

LEMMA NextAccounts == AssemblerAssumption /\ AccountsInv /\ [Next]_vars => AccountsInv'
<1> SUFFICES ASSUME AssemblerAssumption, AccountsInv, [Next]_vars PROVE AccountsInv'
  OBVIOUS
<1>1. CASE Next
  <2>1. TypeOK'
    BY <1>1, TypeStep DEF AccountsInv
  <2>2. NewestKept' /\ HeldByOne'
    BY <1>1, HeldStep DEF AccountsInv
  <2>3. PulledAsNeeded'
    BY <1>1, PulledStep DEF AccountsInv
  <2>4. NoneEmpty'
    BY <1>1, NoneEmptyStep DEF AccountsInv
  <2>5. LeftoverIsRest'
    BY <1>1, LeftoverStep DEF AccountsInv
  <2>6. Conserved'
    <3>1. Balanced
      BY ConservedApart DEF AccountsInv
    <3>2. Balanced'
      BY <1>1, <2>1, <3>1, BalancedStep DEF AccountsInv
    <3> QED
      BY <2>1, <3>2, ConservedApartNext
  <2>7. LineInOrder'
    BY <1>1, <2>1, OrderStep DEF AccountsInv
  <2>8. NothingMissing'
    BY <1>1, NothingMissingStep DEF AccountsInv
  <2>9. HealthExactWithoutOverflow'
    BY <1>1, HealthStep DEF AccountsInv
  <2> QED
    BY <2>1, <2>2, <2>3, <2>4, <2>5, <2>6, <2>7, <2>8, <2>9 DEF AccountsInv
<1>2. CASE UNCHANGED vars
  <2>1. /\ UNCHANGED <<q, leftover, stopped, overflow_count, tail_discarded_samples>>
        /\ UNCHANGED <<total_samples, ppc, item, pos, lo, cpc, parts, polled, win>>
        /\ UNCHANGED <<reported, flushed_gap, unsized, abandoned>>
    BY <1>2 DEF vars, counters, producer, consumer, history
  <2>2. InFlight' = InFlight
    BY <2>1 DEF InFlight
  <2>3. TypeOK' /\ NewestKept' /\ HeldByOne'
    BY <2>1 DEF AccountsInv, TypeOK, NewestKept, HeldByOne
  <2>4. PulledAsNeeded' /\ NoneEmpty' /\ LeftoverIsRest'
    BY <2>1, <2>2 DEF AccountsInv, PulledAsNeeded, LastPart, Have, NoneEmpty, LeftoverIsRest
  <2>5. Conserved'
    BY <2>1, <2>2 DEF AccountsInv, Conserved, Held
  <2>6. LineInOrder'
    BY <2>1, <2>2 DEF AccountsInv, LineInOrder
  <2>7. NothingMissing'
    BY <2>1, <2>2 DEF AccountsInv, NothingMissing
  <2>8. HealthExactWithoutOverflow'
    BY <2>1 DEF AccountsInv, HealthExactWithoutOverflow
  <2> QED
    BY <2>3, <2>4, <2>5, <2>6, <2>7, <2>8 DEF AccountsInv
<1> QED
  BY <1>1, <1>2

(* The inductive invariant holds in every reachable state, for every       *)
(* window length, queue size, chunk size and gap.                          *)
THEOREM AccountsInvHolds == Spec => []AccountsInv
<1>1. Init => AccountsInv
  BY InitAccounts, AssemblerAssumption
<1>2. AccountsInv /\ [Next]_vars => AccountsInv'
  BY NextAccounts, AssemblerAssumption
<1> QED
  BY <1>1, <1>2, PTL DEF Spec

(* The accounts of push, flush and read_window: every sample of the stream *)
(* is in exactly one place, the newest chunk is never the one that goes,   *)
(* and without evictions and flushes a window's health is exact.           *)
THEOREM AccountsAlwaysHold == Spec => []AccountsHold
<1>1. AccountsInv => AccountsHold
  BY DEF AccountsInv, AccountsHold
<1> QED
  BY <1>1, AccountsInvHolds, PTL

LEMMA SortedHasNoOverlap ==
  ASSUME NEW s \in Seq(Chunk), Sorted(s)
  PROVE  \A i \in 1 .. Len(s) - 1 : HoleAfter(s, i) >= 0
<1> TAKE i \in 1 .. Len(s) - 1
<1>1. i \in 1 .. Len(s) /\ i + 1 \in 1 .. Len(s) /\ i < i + 1
  OBVIOUS
<1>2. s[i] \in Chunk /\ s[i + 1] \in Chunk
  BY <1>1
<1> DEFINE e == End(s[i])
           b == s[i + 1].start
<1>3. e <= b
  BY <1>1 DEF Sorted
<1>4. e \in Nat /\ b \in Nat
  BY <1>2, ChunkType
<1>5. b - e >= 0
  <2> HIDE DEF e, b
  <2> QED
    BY <1>3, <1>4
<1> QED
  BY <1>5 DEF HoleAfter

(* No sample is handed out twice or after a later one: the last window and *)
(* everything that is still held follow one another without overlap.       *)
THEOREM InOrderHolds == Spec => []InOrder
<1>1. AccountsInv => InOrder
  <2> SUFFICES ASSUME AccountsInv PROVE InOrder
    OBVIOUS
  <2>1. /\ parts \in Seq(Chunk) /\ leftover \in Seq(Chunk) /\ q \in Seq(Chunk)
        /\ win.pieces \in Seq(Chunk) /\ InFlight \in Seq(Chunk) /\ Len(leftover) <= 1
    BY InFlightType DEF AccountsInv, TypeOK, Window
  <2>2. /\ Sorted(win.pieces) /\ Sorted(parts) /\ Sorted(q)
        /\ Precedes(Range(win.pieces), Range(parts) \cup Range(leftover))
        /\ Precedes(Range(win.pieces), Range(q) \cup Range(InFlight))
        /\ Precedes(Range(parts) \cup Range(leftover), Range(q) \cup Range(InFlight))
        /\ Precedes(Range(q), Range(InFlight))
    BY DEF AccountsInv, LineInOrder
  <2>3. Sorted(leftover) /\ Sorted(InFlight)
    <3>1. \A i, j \in 1 .. Len(leftover) : ~(i < j)
      BY <2>1
    <3>2. item \in Chunk
      BY DEF AccountsInv, TypeOK
    <3> QED
      BY <3>1, <3>2, RangeOfOne, RangeOfEmpty DEF Sorted, InFlight
  <2>4. parts = <<>> \/ leftover = <<>>
    BY DEF AccountsInv, HeldByOne, TypeOK
  <2>5. Precedes(Range(parts), Range(leftover))
    BY <2>4, RangeOfEmpty DEF Precedes
  <2> DEFINE a == parts \o leftover
             b == a \o q
  <2>6. a \in Seq(Chunk) /\ Sorted(a) /\ Range(a) = Range(parts) \cup Range(leftover)
    BY <2>1, <2>2, <2>3, <2>5, JoinInOrder
  <2> HIDE DEF a
  <2>7. Precedes(Range(a), Range(q)) /\ Precedes(Range(a), Range(InFlight))
    BY <2>2, <2>6 DEF Precedes
  <2>8. b \in Seq(Chunk) /\ Sorted(b) /\ Range(b) = Range(a) \cup Range(q)
    <3>1. /\ a \o q \in Seq(Chunk) /\ Sorted(a \o q)
          /\ Range(a \o q) = Range(a) \cup Range(q)
      BY <2>1, <2>2, <2>6, <2>7, JoinInOrder
    <3> QED
      BY <3>1
  <2> HIDE DEF b
  <2>9. Precedes(Range(b), Range(InFlight))
    BY <2>2, <2>7, <2>8 DEF Precedes
  <2>10. /\ Held \in Seq(Chunk) /\ Sorted(Held)
         /\ Range(Held) = Range(b) \cup Range(InFlight)
    <3>1. Held = b \o InFlight
      BY DEF Held, a, b
    <3>2. /\ b \o InFlight \in Seq(Chunk) /\ Sorted(b \o InFlight)
          /\ Range(b \o InFlight) = Range(b) \cup Range(InFlight)
      BY <2>1, <2>3, <2>8, <2>9, JoinInOrder
    <3> QED
      BY <3>1, <3>2
  <2>11. Precedes(Range(win.pieces), Range(Held))
    BY <2>2, <2>6, <2>8, <2>10 DEF Precedes
  <2>12. win.pieces \o Held \in Seq(Chunk) /\ Sorted(win.pieces \o Held)
    BY <2>1, <2>2, <2>10, <2>11, JoinInOrder
  <2> QED
    BY <2>12, SortedHasNoOverlap DEF InOrder
<1> QED
  BY <1>1, AccountsInvHolds, PTL

=============================================================================
