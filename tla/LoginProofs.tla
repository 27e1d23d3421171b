----------------------------- MODULE LoginProofs -----------------------------
(***************************************************************************)
(* Proofs about Login: the mmtls connection, the DNS cache, and the login  *)
(* that uses both, for every value of the constants.                       *)
(***************************************************************************)
EXTENDS Login, SequenceTheorems, FiniteSetTheorems, TLAPS

(* What a server sends is an immutable sequence of records S.  The client   *)
(* has taken r of them, has cut recq out of the stream after these, holds   *)
(* rxbuf of the next one, and wire is what is still under way.              *)
unitOf(S, p) == [of |-> S[(p + 1) \div 2], part |-> IF p % 2 = 1 THEN "head" ELSE "body"]

Flow(S, r, recq, rxbuf, w) ==
    LET cutOut == r + Len(recq) IN
    /\ \A i \in 1..Len(recq) : recq[i] = S[r + i]
    /\ Len(rxbuf) \in {0, 1}
    /\ 2 * cutOut + Len(rxbuf) + Len(w) = 2 * Len(S)
    /\ \A j \in 1..Len(rxbuf) : rxbuf[j] = unitOf(S, 2 * cutOut + j)
    /\ \A j \in 1..Len(w) : w[j] = unitOf(S, 2 * cutOut + Len(rxbuf) + j)

UnitsOf(R) == [of : R, part : {"head", "body"}]

\* A unit, by its position.
LEMMA Halves ==
    ASSUME NEW S, NEW k \in Nat \ {0}
    PROVE  /\ unitOf(S, 2 * k - 1) = [of |-> S[k], part |-> "head"]
           /\ unitOf(S, 2 * k) = [of |-> S[k], part |-> "body"]
<1>1. (2 * k - 1 + 1) \div 2 = k /\ (2 * k - 1) % 2 = 1 /\ (2 * k + 1) \div 2 = k /\ (2 * k) % 2 = 0
  OBVIOUS
<1>. QED  BY <1>1 DEF unitOf

LEMMA MaxOfInterval ==
    ASSUME NEW n \in Nat
    PROVE  Max(0..n) = n
<1>1. n \in 0..n /\ \A y \in 0..n : n >= y
  OBVIOUS
<1>2. \A x \in 0..n : (\A y \in 0..n : x >= y) => x = n
  OBVIOUS
<1>. QED  BY <1>1, <1>2 DEF Max

LEMMA HalfOf ==
    \A x \in Nat : x \div 2 \in Nat /\ 2 * (x \div 2) <= x /\ x - 2 * (x \div 2) \in {0, 1}
  OBVIOUS

\* Sequences given by what stands at their places.
LEMMA IsSeq ==
    ASSUME NEW T, NEW n \in Nat, NEW f \in [1..n -> T]
    PROVE  f \in Seq(T) /\ Len(f) = n
<1>1. [1..n -> T] \in {[1..m -> T] : m \in Nat}
  OBVIOUS
<1>2. f \in Seq(T)
  BY <1>1, SeqDef
<1>3. DOMAIN f = 1..n /\ DOMAIN f = 1..Len(f) /\ Len(f) \in Nat
  BY <1>2, LenProperties
<1>4. \A m \in Nat : 1..n = 1..m => m = n
  <2>1. ASSUME NEW m \in Nat, 1..n = 1..m, m # n  PROVE FALSE
    <3>1. CASE m < n
      <4>1. n \in 1..n /\ n \notin 1..m
        BY <3>1
      <4>. QED  BY <2>1, <4>1
    <3>2. CASE n < m
      <4>1. m \in 1..m /\ m \notin 1..n
        BY <3>2
      <4>. QED  BY <2>1, <4>1
    <3>. QED  BY <2>1, <3>1, <3>2
  <2>. QED  BY <2>1
<1>. QED  BY <1>2, <1>3, <1>4

LEMMA UpTo ==
    ASSUME NEW T, NEW s \in Seq(T), NEW n \in 0..Len(s)
    PROVE  /\ SubSeq(s, 1, n) \in Seq(T) /\ Len(SubSeq(s, 1, n)) = n
           /\ \A i \in 1..n : SubSeq(s, 1, n)[i] = s[i]
<1>1. Len(s) \in Nat /\ n \in Nat /\ n \in Int /\ 1 \in Int
  BY LenProperties
<1>2. \A i \in 1..n : s[i] \in T
  BY <1>1, ElementOfSeq
<1>3. /\ SubSeq(s, 1, n) \in Seq(T)
      /\ Len(SubSeq(s, 1, n)) = IF 1 <= n THEN n - 1 + 1 ELSE 0
      /\ \A i \in 1..(n - 1 + 1) : SubSeq(s, 1, n)[i] = s[1 + i - 1]
  BY <1>1, <1>2, SubSeqProperties
<1>4. (IF 1 <= n THEN n - 1 + 1 ELSE 0) = n /\ n - 1 + 1 = n /\ \A i \in 1..n : 1 + i - 1 = i
  BY <1>1
<1>. QED  BY <1>3, <1>4

LEMMA After ==
    ASSUME NEW T, NEW s \in Seq(T), NEW n \in 0..Len(s)
    PROVE  /\ SubSeq(s, n + 1, Len(s)) \in Seq(T) /\ Len(SubSeq(s, n + 1, Len(s))) = Len(s) - n
           /\ \A i \in 1..(Len(s) - n) : SubSeq(s, n + 1, Len(s))[i] = s[n + i]
<1> DEFINE m == Len(s)
           t == SubSeq(s, n + 1, Len(s))
<1>1. m \in Nat /\ n \in 0..m /\ m \in Int /\ n + 1 \in Int
  BY LenProperties
<1>2. \A i \in (n + 1)..m : s[i] \in T
  <2>1. \A i \in (n + 1)..m : i \in 1..m
    BY <1>1
  <2>. QED  BY <2>1, ElementOfSeq
<1>3. /\ t \in Seq(T)
      /\ Len(t) = IF n + 1 <= m THEN m - (n + 1) + 1 ELSE 0
      /\ \A i \in 1..(m - (n + 1) + 1) : t[i] = s[n + 1 + i - 1]
  BY <1>1, <1>2, SubSeqProperties
<1>. HIDE DEF m, t
<1>4. /\ (IF n + 1 <= m THEN m - (n + 1) + 1 ELSE 0) = m - n
      /\ m - (n + 1) + 1 = m - n
      /\ \A i \in 1..(m - n) : n + 1 + i - 1 = n + i
  BY <1>1
<1>5. t \in Seq(T) /\ Len(t) = m - n /\ \A i \in 1..(m - n) : t[i] = s[n + i]
  BY <1>3, <1>4
<1>. QED  BY <1>5 DEF m, t

\* The client takes the next record off its queue.
LEMMA FlowTake ==
    ASSUME NEW R, NEW S \in Seq(R), NEW r \in Nat, NEW recq \in Seq(R), recq # <<>>,
           NEW b \in Seq(UnitsOf(R)), NEW w \in Seq(UnitsOf(R)), Flow(S, r, recq, b, w)
    PROVE  /\ Tail(recq) \in Seq(R) /\ Flow(S, r + 1, Tail(recq), b, w)
           /\ Head(recq) = S[r + 1] /\ r + 1 \in 1..Len(S)
<1>1. /\ Tail(recq) \in Seq(R) /\ Len(Tail(recq)) = Len(recq) - 1
      /\ \A i \in 1..Len(Tail(recq)) : Tail(recq)[i] = recq[i + 1]
  BY HeadTailProperties
<1>2. Head(recq) = recq[1] /\ Len(recq) \in Nat \ {0}
  BY EmptySeq
<1>3. Len(S) \in Nat /\ Len(b) \in Nat /\ Len(w) \in Nat
  BY LenProperties
<1>4. r + 1 + Len(Tail(recq)) = r + Len(recq)
  BY <1>1, <1>2
<1>5. \A i \in 1..Len(Tail(recq)) : Tail(recq)[i] = S[r + 1 + i]
  BY <1>1, <1>2 DEF Flow
<1>. QED  BY <1>1, <1>2, <1>3, <1>4, <1>5 DEF Flow

\* Units at hand begin where a record begins: all of them are cut out.
LEMMA WholeOfRegular ==
    ASSUME NEW R, NEW S \in Seq(R), NEW r \in Nat, NEW buf \in Seq(UnitsOf(R)),
           \A i \in 1..Len(buf) : buf[i] = unitOf(S, 2 * r + i)
    PROVE  /\ wholeRecords(buf) = Len(buf) \div 2
           /\ \A k \in 1..(Len(buf) \div 2) : buf[2 * k].of = S[r + k]
<1> DEFINE h == Len(buf) \div 2
<1>1. Len(buf) \in Nat /\ h \in Nat /\ 2 * h <= Len(buf)
  BY LenProperties
<1>2. ASSUME NEW k \in 1..h
      PROVE  /\ buf[2 * k - 1].part = "head" /\ buf[2 * k].part = "body"
             /\ buf[2 * k].of = S[r + k]
  <2>1. 2 * k - 1 \in 1..Len(buf) /\ 2 * k \in 1..Len(buf)
    BY <1>1, <1>2
  <2>2. buf[2 * k - 1] = unitOf(S, 2 * (r + k) - 1) /\ buf[2 * k] = unitOf(S, 2 * (r + k))
    <3>1. 2 * r + (2 * k - 1) = 2 * (r + k) - 1 /\ 2 * r + 2 * k = 2 * (r + k)
      BY <1>1, <1>2
    <3>. QED  BY <2>1, <3>1
  <2>3. r + k \in Nat \ {0}
    BY <1>1, <1>2
  <2>4. buf[2 * k - 1] = [of |-> S[r + k], part |-> "head"]
        /\ buf[2 * k] = [of |-> S[r + k], part |-> "body"]
    BY <2>2, <2>3, Halves
  <2>. QED  BY <2>4
<1>3. \A n \in 0..h : \A k \in 1..n : k \in 1..h
  BY <1>1
<1>4. {n \in 0..h : \A k \in 1..n : buf[2 * k - 1].part = "head" /\ buf[2 * k].part = "body"} = 0..h
  BY <1>2, <1>3
<1>5. wholeRecords(buf) = Max(0..h)
  BY <1>4 DEF wholeRecords
<1>. QED  BY <1>1, <1>2, <1>5, MaxOfInterval

\* One Read, and the parse after it.
LEMMA FlowRead ==
    ASSUME NEW R, NEW S \in Seq(R), NEW r \in Nat, NEW b \in Seq(UnitsOf(R)),
           NEW w \in Seq(UnitsOf(R)), Flow(S, r, <<>>, b, w), NEW n \in 1..Len(w)
    PROVE  LET buf == b \o SubSeq(w, 1, n)
               cut1 == [k \in 1..wholeRecords(buf) |-> buf[2 * k].of]
               w1 == SubSeq(w, n + 1, Len(w))
           IN  /\ cut1 \in Seq(R) /\ rest(buf) \in Seq(UnitsOf(R)) /\ w1 \in Seq(UnitsOf(R))
               /\ Flow(S, r, cut1, rest(buf), w1)
<1> DEFINE buf == b \o SubSeq(w, 1, n)
           h == Len(buf) \div 2
           cut1 == [k \in 1..wholeRecords(buf) |-> buf[2 * k].of]
           w1 == SubSeq(w, n + 1, Len(w))
           U == UnitsOf(R)
<1>1. /\ Len(S) \in Nat /\ Len(b) \in {0, 1} /\ Len(w) \in Nat /\ Len(<<>>) = 0
      /\ 2 * r + Len(b) + Len(w) = 2 * Len(S)
  BY LenProperties, EmptySeq DEF Flow
<1>2. /\ SubSeq(w, 1, n) \in Seq(U) /\ Len(SubSeq(w, 1, n)) = n
      /\ \A i \in 1..n : SubSeq(w, 1, n)[i] = w[i]
  BY <1>1, UpTo
<1>3. /\ w1 \in Seq(U) /\ Len(w1) = Len(w) - n
      /\ \A i \in 1..(Len(w) - n) : w1[i] = w[n + i]
  <2>1. n \in 0..Len(w)
    BY <1>1
  <2>. HIDE DEF U
  <2>2. w \in Seq(U)
    BY DEF U
  <2>. QED  BY <2>1, <2>2, After
<1>4. /\ buf \in Seq(U) /\ Len(buf) = Len(b) + n
      /\ \A i \in 1..Len(buf) : buf[i] = unitOf(S, 2 * r + i)
  <2>1. /\ buf \in Seq(U) /\ Len(buf) = Len(b) + n
        /\ \A i \in 1..(Len(b) + n) : buf[i] = IF i <= Len(b) THEN b[i] ELSE SubSeq(w, 1, n)[i - Len(b)]
    BY <1>2, ConcatProperties
  <2>2. ASSUME NEW i \in 1..Len(b)  PROVE b[i] = unitOf(S, 2 * r + i)
    BY <1>1 DEF Flow
  <2>3. ASSUME NEW i \in 1..Len(w)  PROVE w[i] = unitOf(S, 2 * r + Len(b) + i)
    BY <1>1 DEF Flow
  <2>4. ASSUME NEW i \in 1..(Len(b) + n)  PROVE buf[i] = unitOf(S, 2 * r + i)
    <3>1. CASE i <= Len(b)
      BY <1>1, <2>1, <2>2, <3>1
    <3>2. CASE i > Len(b)
      <4>1. i - Len(b) \in 1..n /\ i - Len(b) \in 1..Len(w) /\ ~(i <= Len(b))
        BY <1>1, <3>2
      <4>2. 2 * r + Len(b) + (i - Len(b)) = 2 * r + i
        BY <1>1
      <4>3. buf[i] = w[i - Len(b)]
        BY <1>2, <2>1, <4>1
      <4>. QED  BY <2>3, <4>1, <4>2, <4>3
    <3>. QED  BY <1>1, <3>1, <3>2
  <2>. QED  BY <2>1, <2>4
<1>. HIDE DEF buf, w1
<1>0. Len(buf) \in Nat
  BY <1>4, LenProperties
<1>5. /\ wholeRecords(buf) = h
      /\ \A k \in 1..h : buf[2 * k].of = S[r + k]
      /\ h \in Nat /\ Len(buf) \in Nat /\ 2 * h <= Len(buf) /\ Len(buf) - 2 * h \in {0, 1}
  <2>1. h \in Nat /\ 2 * h <= Len(buf) /\ Len(buf) - 2 * h \in {0, 1}
    BY <1>0, HalfOf
  <2>. QED  BY <1>0, <1>4, <2>1, WholeOfRegular
<1>. HIDE DEF h
<1>9. /\ 2 * (r + h) + (Len(buf) - 2 * h) + (Len(w) - n) = 2 * Len(S)
      /\ r + h <= Len(S)
      /\ \A j \in 1..(Len(buf) - 2 * h) :
            2 * h + j \in 1..Len(buf) /\ 2 * r + (2 * h + j) = 2 * (r + h) + j
      /\ \A j \in 1..(Len(w) - n) :
            n + j \in 1..Len(w) /\ 2 * r + Len(b) + (n + j) = 2 * (r + h) + (Len(buf) - 2 * h) + j
  <2> DEFINE bl == Len(b)
             wl == Len(w)
             l == Len(buf)
             sl == Len(S)
  <2>1. /\ bl \in Nat /\ wl \in Nat /\ l \in Nat /\ sl \in Nat /\ h \in Nat
        /\ n \in 1..wl /\ l = bl + n /\ 2 * h <= l /\ 2 * r + bl + wl = 2 * sl
    BY <1>1, <1>4, <1>5
  <2>. HIDE DEF bl, wl, l, sl
  <2>2. 2 * (r + h) + (l - 2 * h) + (wl - n) = 2 * sl /\ r + h <= sl
    BY <2>1
  <2>3. ASSUME NEW j \in 1..(l - 2 * h)
        PROVE  2 * h + j \in 1..l /\ 2 * r + (2 * h + j) = 2 * (r + h) + j
    BY <2>1
  <2>4. ASSUME NEW j \in 1..(wl - n)
        PROVE  n + j \in 1..wl /\ 2 * r + bl + (n + j) = 2 * (r + h) + (l - 2 * h) + j
    BY <2>1
  <2>. QED  BY <2>2, <2>3, <2>4 DEF bl, wl, l, sl
<1>6. /\ cut1 \in Seq(R) /\ Len(cut1) = h
      /\ \A k \in 1..h : cut1[k] = S[r + k]
  <2>1. \A k \in 1..h : r + k \in 1..Len(S)
    <3>1. r + h <= Len(S) /\ Len(S) \in Nat /\ h \in Nat
      BY <1>1, <1>5, <1>9
    <3>. QED  BY <3>1
  <2>2. \A k \in 1..h : buf[2 * k].of \in R
    BY <1>5, <2>1, ElementOfSeq
  <2>3. cut1 \in [1..h -> R]
    BY <1>5, <2>2
  <2>. QED  BY <1>5, <2>3, IsSeq
<1>7. /\ rest(buf) \in Seq(U) /\ Len(rest(buf)) = Len(buf) - 2 * h
      /\ \A i \in 1..Len(rest(buf)) : rest(buf)[i] = buf[2 * h + i]
  <2>1. 2 * h \in 0..Len(buf)
    BY <1>5
  <2>2. rest(buf) = SubSeq(buf, 2 * h + 1, Len(buf))
    BY <1>5 DEF rest
  <2>3. buf \in Seq(U)
    BY <1>4
  <2>. HIDE DEF U
  <2>4. /\ SubSeq(buf, 2 * h + 1, Len(buf)) \in Seq(U)
        /\ Len(SubSeq(buf, 2 * h + 1, Len(buf))) = Len(buf) - 2 * h
        /\ \A i \in 1..(Len(buf) - 2 * h) :
              SubSeq(buf, 2 * h + 1, Len(buf))[i] = buf[2 * h + i]
    BY <2>1, <2>3, After
  <2>. QED  BY <2>2, <2>4
<1>. HIDE DEF cut1
<1>8. Flow(S, r, cut1, rest(buf), w1)
  <2>2. \A j \in 1..Len(rest(buf)) : rest(buf)[j] = unitOf(S, 2 * (r + h) + j)
    BY <1>4, <1>7, <1>9
  <2>3. ASSUME NEW j \in 1..Len(w1)
        PROVE  w1[j] = unitOf(S, 2 * (r + h) + Len(rest(buf)) + j)
    <3>1. j \in 1..(Len(w) - n) /\ n + j \in 1..Len(w) /\ w1[j] = w[n + j]
      BY <1>3, <1>9
    <3>2. w[n + j] = unitOf(S, 2 * r + Len(b) + (n + j))
      BY <1>1, <3>1 DEF Flow
    <3>3. 2 * r + Len(b) + (n + j) = 2 * (r + h) + Len(rest(buf)) + j
      BY <1>7, <1>9, <3>1
    <3>. QED  BY <3>1, <3>2, <3>3
  <2>4. Len(rest(buf)) \in {0, 1}
    BY <1>5, <1>7
  <2>. QED  BY <1>3, <1>6, <1>7, <1>9, <2>2, <2>3, <2>4 DEF Flow
<1>. QED  BY <1>3, <1>6, <1>7, <1>8 DEF buf, w1, cut1, h

LEMMA UnitsOf1 ==
    ASSUME NEW R, NEW T \in Seq(R)
    PROVE  /\ units(T) \in Seq(UnitsOf(R)) /\ Len(units(T)) = 2 * Len(T)
           /\ \A k \in 1..(2 * Len(T)) : units(T)[k] = unitOf(T, k)
<1>1. Len(T) \in Nat
  BY LenProperties
<1>2. \A k \in 1..(2 * Len(T)) : (k + 1) \div 2 \in 1..Len(T)
  BY <1>1
<1>3. units(T) \in [1..(2 * Len(T)) -> UnitsOf(R)]
  BY <1>1, <1>2, ElementOfSeq DEF units, UnitsOf
<1>4. \A k \in 1..(2 * Len(T)) : units(T)[k] = unitOf(T, k)
  BY DEF units, unitOf
<1>. QED  BY <1>1, <1>3, <1>4, IsSeq

LEMMA Shifted ==
    \A n, k \in Nat :
        (2 * n + k + 1) \div 2 = n + (k + 1) \div 2 /\ (2 * n + k) % 2 = k % 2
  OBVIOUS

LEMMA HalfWithin ==
    \A t \in Nat : \A k \in 1..(2 * t) : (k + 1) \div 2 \in 1..t
  OBVIOUS

\* The server sends more.
LEMMA FlowSend ==
    ASSUME NEW R, NEW S \in Seq(R), NEW T \in Seq(R), NEW r \in Nat, NEW recq \in Seq(R),
           NEW b \in Seq(UnitsOf(R)), NEW w \in Seq(UnitsOf(R)), Flow(S, r, recq, b, w)
    PROVE  /\ w \o units(T) \in Seq(UnitsOf(R))
           /\ Flow(S \o T, r, recq, b, w \o units(T))
<1> DEFINE c == r + Len(recq)
           w1 == w \o units(T)
           S1 == S \o T
           n == Len(S)
           t == Len(T)
           wl == Len(w)
           bl == Len(b)
           q == Len(recq)
<1>1. n \in Nat /\ t \in Nat /\ Len(recq) \in Nat /\ bl \in {0, 1} /\ wl \in Nat
  BY LenProperties DEF Flow
<1>2. /\ S1 \in Seq(R) /\ Len(S1) = n + t
      /\ \A i \in 1..(n + t) : S1[i] = IF i <= n THEN S[i] ELSE T[i - n]
  BY ConcatProperties
<1>3. /\ units(T) \in Seq(UnitsOf(R)) /\ Len(units(T)) = 2 * t
      /\ \A k \in 1..(2 * t) : units(T)[k] = unitOf(T, k)
  BY UnitsOf1
<1>4. /\ w1 \in Seq(UnitsOf(R)) /\ Len(w1) = wl + 2 * t
      /\ \A i \in 1..(wl + 2 * t) :
            w1[i] = IF i <= wl THEN w[i] ELSE units(T)[i - wl]
  BY <1>3, ConcatProperties, ZenonT(30)
<1>5. /\ \A i \in 1..Len(recq) : recq[i] = S[r + i]
      /\ c \in Nat /\ 2 * c + bl + wl = 2 * n
      /\ \A j \in 1..bl : b[j] = unitOf(S, 2 * c + j)
      /\ \A j \in 1..wl : w[j] = unitOf(S, 2 * c + bl + j)
  BY <1>1 DEF Flow
<1>0. /\ n \in Nat /\ t \in Nat /\ q \in Nat /\ c \in Nat /\ bl \in Nat /\ wl \in Nat
      /\ c = r + q /\ 2 * c + bl + wl = 2 * n
  BY <1>1, <1>5
<1>. HIDE DEF c, n, t, wl, bl, q, w1, S1
<1>6. ASSUME NEW p \in 1..(2 * n)  PROVE unitOf(S1, p) = unitOf(S, p)
  <2>1. (p + 1) \div 2 \in 1..n /\ (p + 1) \div 2 \in 1..(n + t) /\ (p + 1) \div 2 <= n
    BY <1>0, HalfWithin
  <2>2. S1[(p + 1) \div 2] = S[(p + 1) \div 2]
    BY <1>2, <2>1
  <2>. QED  BY <2>2 DEF unitOf
<1>7. ASSUME NEW k \in 1..(2 * t)  PROVE unitOf(S1, 2 * n + k) = unitOf(T, k)
  <2>1. /\ (k + 1) \div 2 \in 1..t /\ (2 * n + k + 1) \div 2 = n + (k + 1) \div 2
        /\ (2 * n + k) % 2 = k % 2
    BY <1>1, Shifted, HalfWithin
  <2>2. ASSUME NEW i \in 1..t  PROVE S1[n + i] = T[i]
    <3> DEFINE m == n + i
    <3>1. m \in 1..(n + t) /\ ~(m <= n) /\ m - n = i
      BY <1>0
    <3>. HIDE DEF m
    <3>2. S1[m] = T[m - n]
      BY <1>2, <3>1
    <3>3. S1[m] = T[i]
      BY <3>1, <3>2
    <3>. QED  BY <3>3 DEF m
  <2>3. S1[n + (k + 1) \div 2] = T[(k + 1) \div 2]
    BY <2>1, <2>2
  <2>. QED  BY <2>1, <2>3 DEF unitOf
<1>8. \A i \in 1..Len(recq) : recq[i] = S1[r + i]
  <2>1. \A i \in 1..q : r + i \in 1..n /\ r + i \in 1..(n + t) /\ r + i <= n
    BY <1>0
  <2>2. \A i \in 1..q : S1[r + i] = S[r + i]
    BY <1>2, <2>1
  <2>. QED  BY <1>5, <2>2 DEF q
<1>9. 2 * c + bl + Len(w1) = 2 * Len(S1)
  <2>1. 2 * c + bl + (wl + 2 * t) = 2 * (n + t)
    BY <1>0
  <2>. QED  BY <1>2, <1>4, <2>1
<1>10. \A j \in 1..bl : b[j] = unitOf(S1, 2 * c + j)
  <2>1. \A j \in 1..bl : 2 * c + j \in 1..(2 * n)
    BY <1>0
  <2>. QED  BY <1>5, <1>6, <2>1
<1>11. ASSUME NEW j \in 1..Len(w1)  PROVE w1[j] = unitOf(S1, 2 * c + bl + j)
  <2>0. j \in 1..(wl + 2 * t)
    BY <1>4
  <2>1. CASE j <= wl
    <3>1. j \in 1..wl /\ 2 * c + bl + j \in 1..(2 * n)
      BY <1>0, <2>0, <2>1
    <3>. QED  BY <1>4, <1>5, <1>6, <2>0, <2>1, <3>1
  <2>2. CASE j > wl
    <3>1. /\ j - wl \in 1..(2 * t) /\ ~(j <= wl)
          /\ 2 * c + bl + j = 2 * n + (j - wl)
      BY <1>0, <2>0, <2>2
    <3>2. w1[j] = unitOf(T, j - wl)
      BY <1>3, <1>4, <2>0, <3>1
    <3>. QED  BY <1>7, <3>1, <3>2
  <2>. QED  BY <1>1, <2>0, <2>1, <2>2
<1>12. Flow(S1, r, recq, b, w1)
  BY <1>1, <1>8, <1>9, <1>10, <1>11 DEF Flow, c, bl, n, wl, t
<1>. QED  BY <1>4, <1>12 DEF w1, S1
------------------------------------------------------------------------------
(* The inductive invariant of a connection.                                  *)

HsMessage ==
    [mt : {"ClientHello"}, data : {Nil}] \cup [mt : {"ServerHello"}, data : {"P256", "other"}]
        \cup FlightMessage
Transcript == Seq(HsMessage)
Hash == Transcript \cup {Nil}
Message ==
    HsMessage \cup [mt : {"Finished"}, data : Hash]
        \cup [mt : {"ManualAuth", "Answer", "Alert"}, data : {Nil}]
Key == {Nil} \cup [label : {"handshake", "app"}, side : {"client", "server"}, hash : Hash]
Record == [ct : {"handshake", "appData", "alert"}, key : Key, seq : Nat, msg : Message]
Unit == UnitsOf(Record)

ClientState ==
    [transcript : Seq(Message), hsHash : Hash, hFinal : Hash, hCertV : Hash, nst : Seq(Ticket),
     txSeq : 0..3, rxSeq : Nat, rxbuf : Seq(Unit), recq : Seq(Record)]
ServerState ==
    [st : {"hello", "finished", "auth", "served"}, transcript : Transcript, hsHash : Hash,
     hCertV : Hash, tx : Nat, rx : 0..3, refused : BOOLEAN, broken : {FALSE}]

MmtlsTypeOK ==
    /\ mc \in ClientState /\ srv \in ServerState /\ hpc \in ClientLabel
    /\ wire \in Seq(Unit) /\ up \in Seq(Record) /\ cut \in BOOLEAN

\* h is the transcript t up to its last CertVerify, or nothing when it has none.
CertHash(h, t) ==
    \/ h = Nil /\ \A i \in DOMAIN t : t[i].mt # "CertVerify"
    \/ \E i \in DOMAIN t :
          /\ t[i].mt = "CertVerify" /\ \A j \in DOMAIN t : j > i => t[j].mt # "CertVerify"
          /\ h = SubSeq(t, 1, i)

clientHello == msg("ClientHello", Nil)

\* The records from ServerHello to Finished that make up a transcript.
flightRecords(tr, hs) ==
    [n \in 1..Len(tr) |->
        record("handshake", IF n = 1 THEN Nil ELSE key("handshake", "server", hs), n - 1,
               IF n = Len(tr) THEN msg("Finished", tr) ELSE tr[n + 1])]

lastRecord(tr, refused) ==
    IF refused THEN record("alert", key("app", "server", tr), Len(tr), msg("Alert", Nil))
    ELSE record("appData", key("app", "server", tr), Len(tr), msg("Answer", Nil))

\* All the records of the server on this connection.
ServerSent ==
    IF srv.transcript = <<>>
    THEN IF srv.refused THEN <<record("alert", Nil, 0, msg("Alert", Nil))>> ELSE <<>>
    ELSE flightRecords(srv.transcript, srv.hsHash)
         \o (IF srv.st = "served" THEN <<lastRecord(srv.transcript, srv.refused)>> ELSE <<>>)

\* The records of the client: number n of this connection.
clientRecord(n) ==
    IF n = 0 THEN record("handshake", Nil, 0, clientHello)
    ELSE IF n = 1
    THEN record("handshake", key("handshake", "client", mc.hsHash), 1, msg("Finished", mc.hFinal))
    ELSE record("appData", key("app", "client", mc.hFinal), 2, msg("ManualAuth", Nil))

\* Both sides derive their keys from the same transcript.
Agreed == srv.transcript # <<>> /\ mc.hsHash = srv.hsHash /\ mc.hFinal = srv.transcript

ClientAt ==
    /\ hpc \in {"closed", "sendHello"} =>
          mc = newMmtlsClient /\ srv = newServer /\ wire = <<>> /\ up = <<>>
    /\ hpc = "serverHello" =>
          /\ mc.txSeq = 1 /\ mc.rxSeq = 0
          /\ mc.transcript = <<clientHello>> /\ mc.hCertV = Nil
    /\ hpc = "flight" =>
          /\ mc.txSeq = 1 /\ srv.transcript # <<>> /\ mc.hsHash = srv.hsHash
          /\ mc.rxSeq \in 1..(Len(srv.transcript) - 1)
          /\ mc.transcript = SubSeq(srv.transcript, 1, mc.rxSeq + 1)
          /\ CertHash(mc.hCertV, mc.transcript)
    /\ hpc \in {"sendFinished", "connected", "sendApp", "answer"} =>
          mc.rxSeq = Len(srv.transcript)
    /\ hpc \in {"sendFinished", "connected", "sendApp", "answer", "answered"} =>
          Agreed /\ CertHash(mc.hCertV, srv.transcript)
    /\ hpc = "sendFinished" => mc.txSeq = 1
    /\ hpc \in {"connected", "sendApp"} => mc.txSeq = 2
    /\ hpc \in {"answer", "answered"} => mc.txSeq = 3
    /\ hpc = "answered" => srv.st = "served" /\ ~srv.refused
    /\ mc.txSeq >= 2 => Agreed

\* A flight is sent as a whole.
FlightSent ==
    LET tr == srv.transcript IN
    /\ Len(tr) >= 2 /\ tr[1] = clientHello
    /\ tr[2].mt = "ServerHello" /\ tr[2].data \in {"P256", "other"}
    /\ \A n \in 3..Len(tr) : tr[n] \in FlightMessage
    /\ srv.hsHash = <<tr[1], tr[2]>>
    /\ CertHash(srv.hCertV, tr)

ServerAt ==
    /\ srv.transcript # <<>> => FlightSent
    /\ srv.st = "hello" => srv.rx = 0 /\ srv.transcript = <<>> /\ srv.tx = 0
    /\ srv.st = "finished" => srv.rx = 1
    /\ srv.st = "auth" => srv.rx = 2
    /\ srv.st \in {"finished", "auth"} => srv.transcript # <<>> /\ srv.tx = Len(srv.transcript)
    /\ srv.st # "served" => ~srv.refused
    /\ srv.rx <= mc.txSeq
    /\ srv.st = "served" =>
          IF srv.transcript = <<>> THEN srv.refused /\ mc.txSeq = 1
          ELSE mc.txSeq = 3 /\ srv.rx = (IF srv.refused THEN 2 ELSE 3)

UpAt ==
    IF cut \/ srv.st = "served" THEN up = <<>>
    ELSE /\ mc.txSeq = srv.rx + Len(up)
         /\ \A i \in 1..Len(up) : up[i] = clientRecord(srv.rx + i - 1)

Stream == Flow(ServerSent, mc.rxSeq, mc.recq, mc.rxbuf, wire)

MmtlsInv == MmtlsTypeOK /\ ClientAt /\ ServerAt /\ UpAt /\ Stream /\ fault # "own"
------------------------------------------------------------------------------
(* Messages, records and certificates.                                       *)

LEMMA MessageTypes ==
    /\ clientHello \in HsMessage /\ clientHello.mt = "ClientHello" /\ clientHello.data = Nil
    /\ \A g \in {"P256", "other"} :
          msg("ServerHello", g) \in HsMessage /\ msg("ServerHello", g).mt = "ServerHello"
          /\ msg("ServerHello", g).data = g
    /\ \A h \in Hash : msg("Finished", h) \in Message /\ msg("Finished", h).mt = "Finished"
                       /\ msg("Finished", h).data = h
    /\ \A mt \in {"ManualAuth", "Answer", "Alert"} :
          msg(mt, Nil) \in Message /\ msg(mt, Nil).mt = mt
    /\ HsMessage \subseteq Message /\ FlightMessage \subseteq HsMessage
  BY DEF clientHello, msg, HsMessage, Message

LEMMA FlightTypes ==
    ASSUME NEW m \in FlightMessage
    PROVE  /\ m.mt \in {"EncryptedExtensions", "CertVerify", "NewSessionTicket"}
           /\ m.mt = "NewSessionTicket" => m.data \in Seq(Ticket)
  BY DEF FlightMessage

LEMMA KeyTypes ==
    /\ Nil \in Key
    /\ \A l \in {"handshake", "app"}, side \in {"client", "server"}, h \in Hash :
          key(l, side, h) \in Key
  BY DEF Key, key

LEMMA RecordTypes ==
    ASSUME NEW ct \in {"handshake", "appData", "alert"}, NEW k \in Key, NEW n \in Nat,
           NEW m \in Message
    PROVE  /\ record(ct, k, n, m) \in Record
           /\ record(ct, k, n, m).ct = ct /\ record(ct, k, n, m).key = k
           /\ record(ct, k, n, m).seq = n /\ record(ct, k, n, m).msg = m
  BY DEF Record, record

LEMMA FlightRecordTypes ==
    ASSUME NEW tr \in Transcript, Len(tr) >= 2, NEW hs \in Hash
    PROVE  /\ flightRecords(tr, hs) \in Seq(Record) /\ Len(flightRecords(tr, hs)) = Len(tr)
           /\ \A n \in 1..Len(tr) : flightRecords(tr, hs)[n] =
                record("handshake", IF n = 1 THEN Nil ELSE key("handshake", "server", hs), n - 1,
                       IF n = Len(tr) THEN msg("Finished", tr) ELSE tr[n + 1])
<1>1. Len(tr) \in Nat
  BY LenProperties DEF Transcript
<1>2. ASSUME NEW n \in 1..Len(tr)
      PROVE  (IF n = Len(tr) THEN msg("Finished", tr) ELSE tr[n + 1]) \in Message
  <2>1. CASE n = Len(tr)
    BY <2>1, MessageTypes DEF Hash
  <2>2. CASE n # Len(tr)
    <3>1. n + 1 \in 1..Len(tr)
      BY <1>1, <2>2
    <3>2. tr[n + 1] \in HsMessage
      BY <3>1, ElementOfSeq DEF Transcript
    <3>. QED  BY <2>2, <3>2, MessageTypes
  <2>. QED  BY <2>1, <2>2
<1>3. ASSUME NEW n \in 1..Len(tr)
      PROVE  (IF n = 1 THEN Nil ELSE key("handshake", "server", hs)) \in Key /\ n - 1 \in Nat
  BY <1>1, KeyTypes
<1>4. flightRecords(tr, hs) \in [1..Len(tr) -> Record]
  BY <1>2, <1>3, RecordTypes DEF flightRecords
<1>5. \A n \in 1..Len(tr) : flightRecords(tr, hs)[n] =
                record("handshake", IF n = 1 THEN Nil ELSE key("handshake", "server", hs), n - 1,
                       IF n = Len(tr) THEN msg("Finished", tr) ELSE tr[n + 1])
  BY DEF flightRecords
<1>. QED  BY <1>1, <1>4, <1>5, IsSeq

LEMMA LastRecordTypes ==
    ASSUME NEW tr \in Transcript, NEW refused
    PROVE  lastRecord(tr, refused) \in Record
<1>1. Len(tr) \in Nat /\ tr \in Hash
  BY LenProperties DEF Transcript, Hash
<1>. QED  BY <1>1, KeyTypes, RecordTypes, MessageTypes DEF lastRecord

LEMMA SentType ==
    ASSUME MmtlsTypeOK, ServerAt
    PROVE  /\ ServerSent \in Seq(Record) /\ Len(ServerSent) \in Nat
           /\ srv.transcript \in Transcript /\ Len(srv.transcript) \in Nat
           /\ srv.hsHash \in Hash
           /\ srv.transcript # <<>> =>
                 /\ Len(srv.transcript) >= 2
                 /\ Len(ServerSent) = Len(srv.transcript) + (IF srv.st = "served" THEN 1 ELSE 0)
                 /\ \A n \in 1..Len(srv.transcript) :
                       ServerSent[n] = flightRecords(srv.transcript, srv.hsHash)[n]
                 /\ srv.st = "served" => ServerSent[Len(srv.transcript) + 1]
                                            = lastRecord(srv.transcript, srv.refused)
<1> DEFINE tr == srv.transcript
<1>1. tr \in Transcript /\ Len(tr) \in Nat /\ srv.hsHash \in Hash
  BY LenProperties DEF MmtlsTypeOK, ServerState, Transcript
<1>2. <<>> \in Seq(Record) /\ Len(<<>>) = 0
  BY EmptySeq
<1>3. CASE tr = <<>>
  <2>1. record("alert", Nil, 0, msg("Alert", Nil)) \in Record
    BY KeyTypes, MessageTypes, RecordTypes
  <2>2. ServerSent \in Seq(Record)
    BY <1>2, <1>3, <2>1 DEF ServerSent
  <2>. QED  BY <1>1, <1>3, <2>2, LenProperties
<1>4. CASE tr # <<>>
  <2> DEFINE fr == flightRecords(tr, srv.hsHash)
             l == lastRecord(tr, srv.refused)
             s1 == IF srv.st = "served" THEN <<l>> ELSE <<>>
  <2>1. Len(tr) >= 2
    BY <1>4 DEF ServerAt, FlightSent
  <2>2. fr \in Seq(Record) /\ Len(fr) = Len(tr)
    BY <1>1, <2>1, FlightRecordTypes
  <2>3. l \in Record
    BY <1>1, LastRecordTypes
  <2>4. s1 \in Seq(Record) /\ Len(s1) = (IF srv.st = "served" THEN 1 ELSE 0)
        /\ (srv.st = "served" => s1[1] = l)
    BY <1>2, <2>3
  <2>5. ServerSent = fr \o s1
    BY <1>4 DEF ServerSent
  <2>. HIDE DEF fr, l, s1
  <2>6. /\ ServerSent \in Seq(Record) /\ Len(ServerSent) = Len(fr) + Len(s1)
        /\ \A i \in 1..(Len(fr) + Len(s1)) :
              ServerSent[i] = IF i <= Len(fr) THEN fr[i] ELSE s1[i - Len(fr)]
    BY <2>2, <2>4, <2>5, ConcatProperties
  <2>7. \A n \in 1..Len(tr) : ServerSent[n] = fr[n]
    <3>1. Len(s1) \in Nat
      BY <2>4
    <3>2. \A n \in 1..Len(tr) : n \in 1..(Len(fr) + Len(s1)) /\ n <= Len(fr)
      BY <1>1, <2>2, <3>1
    <3>. QED  BY <2>6, <3>2
  <2>8. ASSUME srv.st = "served"  PROVE ServerSent[Len(tr) + 1] = l
    <3>1. Len(tr) + 1 \in 1..(Len(fr) + Len(s1)) /\ ~(Len(tr) + 1 <= Len(fr))
          /\ Len(tr) + 1 - Len(fr) = 1
      BY <1>1, <2>2, <2>4, <2>8
    <3>. QED  BY <2>4, <2>6, <2>8, <3>1
  <2>. QED  BY <1>1, <2>1, <2>2, <2>4, <2>6, <2>7, <2>8, LenProperties DEF fr, l
<1>. QED  BY <1>3, <1>4

LEMMA CertUnique ==
    ASSUME NEW T, NEW t \in Seq(T), NEW g, NEW h, CertHash(g, t), CertHash(h, t)
    PROVE  g = h
<1>1. DOMAIN t = 1..Len(t) /\ Len(t) \in Nat
  BY LenProperties
<1>2. CASE \A i \in DOMAIN t : t[i].mt # "CertVerify"
  BY <1>2 DEF CertHash
<1>3. ASSUME NEW k \in DOMAIN t, t[k].mt = "CertVerify"
      PROVE  g = h
  <2>1. PICK i \in DOMAIN t : /\ t[i].mt = "CertVerify"
                              /\ \A n \in DOMAIN t : n > i => t[n].mt # "CertVerify"
                              /\ g = SubSeq(t, 1, i)
    BY <1>3 DEF CertHash
  <2>2. PICK j \in DOMAIN t : /\ t[j].mt = "CertVerify"
                              /\ \A n \in DOMAIN t : n > j => t[n].mt # "CertVerify"
                              /\ h = SubSeq(t, 1, j)
    BY <1>3 DEF CertHash
  <2>3. ~(i > j) /\ ~(j > i) /\ i \in Nat /\ j \in Nat
    BY <1>1, <2>1, <2>2
  <2>4. i = j
    BY <2>3
  <2>. QED  BY <2>1, <2>2, <2>4
<1>. QED  BY <1>2, <1>3

\* What the client keeps of a transcript, message by message.
LEMMA CertAppend ==
    ASSUME NEW T, NEW t \in Seq(T), NEW m \in T, NEW h, CertHash(h, t)
    PROVE  /\ m.mt # "CertVerify" => CertHash(h, Append(t, m))
           /\ m.mt = "CertVerify" => CertHash(Append(t, m), Append(t, m))
<1> DEFINE u == Append(t, m)
           n == Len(t)
<1>1. /\ u \in Seq(T) /\ n \in Nat /\ Len(u) = n + 1 /\ DOMAIN t = 1..n /\ DOMAIN u = 1..(n + 1)
      /\ \A i \in 1..n : u[i] = t[i]
      /\ u[n + 1] = m
  BY AppendProperties, LenProperties
<1>. HIDE DEF u, n
<1>2. ASSUME NEW i \in 1..n  PROVE SubSeq(u, 1, i) = SubSeq(t, 1, i)
  <2>1. i \in 0..Len(u) /\ i \in 0..n /\ n = Len(t) /\ i \in 1..(n + 1)
    BY <1>1 DEF n
  <2>2. /\ SubSeq(u, 1, i) \in Seq(T) /\ Len(SubSeq(u, 1, i)) = i
        /\ \A k \in 1..i : SubSeq(u, 1, i)[k] = u[k]
    BY <1>1, <2>1, UpTo
  <2>3. /\ SubSeq(t, 1, i) \in Seq(T) /\ Len(SubSeq(t, 1, i)) = i
        /\ \A k \in 1..i : SubSeq(t, 1, i)[k] = t[k]
    BY <2>1, UpTo
  <2>4. \A k \in 1..i : k \in 1..n
    BY <1>1
  <2>5. \A k \in 1..i : SubSeq(u, 1, i)[k] = SubSeq(t, 1, i)[k]
    BY <1>1, <2>2, <2>3, <2>4
  <2>. QED  BY <2>2, <2>3, <2>5, SeqEqual
<1>3. SubSeq(u, 1, n + 1) = u
  BY <1>1, SubSeqFull
<1>4. ASSUME m.mt = "CertVerify"  PROVE CertHash(u, u)
  <2>1. n + 1 \in DOMAIN u /\ \A j \in DOMAIN u : ~(j > n + 1)
    BY <1>1
  <2>. QED  BY <1>1, <1>3, <1>4, <2>1 DEF CertHash
<1>5. ASSUME m.mt # "CertVerify"  PROVE CertHash(h, u)
  <2>0. \A i \in DOMAIN u : i \in 1..n \/ i = n + 1
    BY <1>1
  <2>1. CASE h = Nil /\ \A i \in DOMAIN t : t[i].mt # "CertVerify"
    BY <1>1, <1>5, <2>0, <2>1 DEF CertHash
  <2>2. ASSUME NEW i \in DOMAIN t,
               t[i].mt = "CertVerify" /\ \A j \in DOMAIN t : j > i => t[j].mt # "CertVerify",
               h = SubSeq(t, 1, i)
        PROVE  CertHash(h, u)
    <3>1. i \in 1..n /\ i \in DOMAIN u
      BY <1>1
    <3>2. u[i].mt = "CertVerify" /\ h = SubSeq(u, 1, i)
      BY <1>1, <1>2, <2>2, <3>1
    <3>3. \A j \in DOMAIN u : j > i => u[j].mt # "CertVerify"
      BY <1>1, <1>5, <2>0, <2>2
    <3>. QED  BY <3>1, <3>2, <3>3 DEF CertHash
  <2>. QED  BY <2>1, <2>2 DEF CertHash
<1>. QED  BY <1>4, <1>5 DEF u

\* A set of places has a last one.
LEMMA LastPlace ==
    ASSUME NEW n \in Nat, NEW S \in SUBSET (1..n), S # {}
    PROVE  Max(S) \in S /\ \A y \in S : Max(S) >= y
<1> DEFINE T == {n - x : x \in S}
           Below == OpToRel(<, Nat)
<1>1. T \subseteq Nat /\ T # {}
  <2>1. \A x \in S : n - x \in Nat
    OBVIOUS
  <2>2. PICK x \in S : TRUE
    OBVIOUS
  <2>3. n - x \in T
    BY <2>2
  <2>. QED  BY <2>1, <2>3
<1>2. \E z \in T : \A y \in T : ~ (<<y, z>> \in Below)
  <2>1. IsWellFoundedOn(Below, Nat)
    BY NatLessThanWellFounded
  <2>. HIDE DEF T, Below
  <2>. QED  BY <1>1, <2>1, WFMin
<1>3. PICK z \in T : \A y \in T : ~ (<<y, z>> \in Below)
  BY <1>2
<1>4. \A y \in T : ~(y < z)
  BY <1>1, <1>3 DEF OpToRel
<1>5. PICK x \in S : z = n - x
  BY <1>3
<1>6. \A y \in S : x >= y
  <2>1. ASSUME NEW y \in S  PROVE x >= y
    <3>1. n - y \in T /\ ~(n - y < n - x)
      BY <1>4, <1>5
    <3>2. x \in 1..n /\ y \in 1..n
      BY <1>5
    <3>. HIDE DEF T
    <3>. QED  BY <3>1, <3>2
  <2>. QED  BY <2>1
<1>. QED  BY <1>6 DEF Max

LEMMA FirstPlace ==
    ASSUME NEW S \in SUBSET Nat, S # {}
    PROVE  Min(S) \in S /\ \A y \in S : Min(S) <= y
<1> DEFINE Below == OpToRel(<, Nat)
<1>1. \E x \in S : \A y \in S : ~ (<<y, x>> \in Below)
  <2>1. IsWellFoundedOn(Below, Nat)
    BY NatLessThanWellFounded
  <2>. HIDE DEF Below
  <2>. QED  BY <2>1, WFMin
<1>2. \A x, y \in S : y < x => <<y, x>> \in Below
  BY DEF OpToRel
<1>3. \E x \in S : \A y \in S : x <= y
  <2>1. PICK x \in S : \A y \in S : ~ (<<y, x>> \in Below)
    BY <1>1
  <2>. HIDE DEF Below
  <2>2. \A y \in S : ~(y < x)
    BY <1>2, <2>1
  <2>. QED  BY <2>2
<1>. QED  BY <1>3 DEF Min

\* The transcript of a flight, and its certificate hash.
LEMMA FlightTranscript ==
    ASSUME NEW a \in HsMessage, NEW b \in HsMessage, NEW f \in Seq(FlightMessage)
    PROVE  /\ <<a, b>> \in Transcript /\ Len(<<a, b>>) = 2
           /\ <<a, b>> \o f \in Transcript /\ Len(<<a, b>> \o f) = Len(f) + 2
           /\ (<<a, b>> \o f)[1] = a /\ (<<a, b>> \o f)[2] = b
           /\ \A n \in 1..Len(f) : (<<a, b>> \o f)[n + 2] = f[n] /\ f[n] \in FlightMessage
           /\ \A n \in 3..(Len(f) + 2) : (<<a, b>> \o f)[n] \in FlightMessage
           /\ DOMAIN f = 1..Len(f) /\ Len(f) \in Nat
<1> DEFINE hs == <<a, b>>
           tr == hs \o f
           k == Len(f)
<1>1. f \in Seq(HsMessage) /\ k \in Nat /\ DOMAIN f = 1..k /\ \A n \in 1..k : f[n] \in FlightMessage
  BY MessageTypes, SeqMonotonic, LenProperties, ElementOfSeq
<1>2. hs \in Seq(HsMessage) /\ Len(hs) = 2 /\ hs[1] = a /\ hs[2] = b
  OBVIOUS
<1>. HIDE DEF hs
<1>3. /\ tr \in Seq(HsMessage) /\ Len(tr) = Len(hs) + Len(f)
      /\ \A n \in 1..(Len(hs) + Len(f)) : tr[n] = IF n <= Len(hs) THEN hs[n] ELSE f[n - Len(hs)]
  BY <1>1, <1>2, ConcatProperties
<1>. HIDE DEF tr, k
<1>4. Len(tr) = k + 2 /\ \A n \in 1..(k + 2) : tr[n] = IF n <= 2 THEN hs[n] ELSE f[n - 2]
  BY <1>1, <1>2, <1>3 DEF k
<1>5. tr[1] = a /\ tr[2] = b
  BY <1>1, <1>2, <1>4
<1>6. \A n \in 1..k : n + 2 \in 1..(k + 2) /\ ~(n + 2 <= 2) /\ n + 2 - 2 = n
  BY <1>1
<1>7. \A n \in 1..k : tr[n + 2] = f[n]
  BY <1>4, <1>6
<1>8. \A n \in 3..(k + 2) : n - 2 \in 1..k /\ n - 2 + 2 = n
  BY <1>1
<1>9. \A n \in 3..(k + 2) : tr[n] \in FlightMessage
  BY <1>1, <1>7, <1>8
<1>. QED  BY <1>1, <1>2, <1>3, <1>4, <1>5, <1>7, <1>9 DEF hs, tr, k, Transcript

LEMMA CertOfFlight ==
    ASSUME NEW a \in HsMessage, a.mt # "CertVerify", NEW b \in HsMessage, b.mt # "CertVerify",
           NEW f \in Seq(FlightMessage)
    PROVE  LET certs == {n \in DOMAIN f : f[n].mt = "CertVerify"} IN
           /\ CertHash(IF certs = {} THEN Nil ELSE <<a, b>> \o SubSeq(f, 1, Max(certs)),
                       <<a, b>> \o f)
           /\ (IF certs = {} THEN Nil ELSE <<a, b>> \o SubSeq(f, 1, Max(certs))) \in Hash
<1> DEFINE hs == <<a, b>>
           tr == hs \o f
           k == Len(f)
           certs == {n \in DOMAIN f : f[n].mt = "CertVerify"}
<1>1. /\ hs \in Transcript /\ Len(hs) = 2 /\ tr \in Transcript /\ Len(tr) = k + 2
      /\ tr[1] = a /\ tr[2] = b /\ DOMAIN f = 1..k /\ k \in Nat
      /\ \A n \in 1..k : tr[n + 2] = f[n]
  BY FlightTranscript
<1>2. DOMAIN tr = 1..(k + 2)
  BY <1>1, LenProperties DEF Transcript
<1>3. f \in Seq(HsMessage)
  BY MessageTypes, SeqMonotonic
<1>4. certs \in SUBSET (1..k)
  BY <1>1
<1>. HIDE DEF hs, tr, k
<1>5. \A n \in 1..(k + 2) : n = 1 \/ n = 2 \/ (n - 2 \in 1..k /\ n - 2 + 2 = n)
  BY <1>1
<1>6. CASE certs = {}
  <2>1. \A n \in 1..k : f[n].mt # "CertVerify"
    BY <1>1, <1>6
  <2>2. \A n \in 1..(k + 2) : tr[n].mt # "CertVerify"
    BY <1>1, <1>5, <2>1
  <2>3. CertHash(Nil, tr) /\ Nil \in Hash
    BY <1>2, <2>2 DEF CertHash, Hash
  <2>. QED  BY <1>6, <2>3 DEF hs, tr
<1>7. CASE certs # {}
  <2> DEFINE c == Max(certs)
             h == hs \o SubSeq(f, 1, c)
  <2>1. c \in certs /\ \A y \in certs : c >= y
    BY <1>1, <1>4, <1>7, LastPlace
  <2>2. c \in 1..k /\ f[c].mt = "CertVerify" /\ \A n \in 1..k : n > c => f[n].mt # "CertVerify"
    <3>1. c \in 1..k /\ f[c].mt = "CertVerify"
      BY <1>1, <2>1
    <3>2. ASSUME NEW n \in 1..k, n > c  PROVE f[n].mt # "CertVerify"
      <4>1. ~(c >= n)
        BY <1>1, <3>1, <3>2
      <4>. QED  BY <1>1, <2>1, <4>1
    <3>. QED  BY <3>1, <3>2
  <2>. HIDE DEF c, certs
  <2>3. /\ SubSeq(f, 1, c) \in Seq(HsMessage) /\ Len(SubSeq(f, 1, c)) = c
        /\ \A i \in 1..c : SubSeq(f, 1, c)[i] = f[i]
    <3>1. c \in 0..Len(f)
      BY <1>1, <2>2 DEF k
    <3>. QED  BY <1>3, <3>1, UpTo
  <2>4. /\ h \in Seq(HsMessage) /\ Len(h) = c + 2
        /\ \A n \in 1..(c + 2) : h[n] = tr[n]
    <3>1. /\ h \in Seq(HsMessage) /\ Len(h) = Len(hs) + Len(SubSeq(f, 1, c))
          /\ \A n \in 1..(Len(hs) + Len(SubSeq(f, 1, c))) :
                h[n] = IF n <= Len(hs) THEN hs[n] ELSE SubSeq(f, 1, c)[n - Len(hs)]
      BY <1>1, <2>3, ConcatProperties DEF Transcript
    <3>2. Len(h) = c + 2 /\ \A n \in 1..(c + 2) : h[n] = IF n <= 2 THEN hs[n] ELSE SubSeq(f, 1, c)[n - 2]
      BY <1>1, <2>2, <2>3, <3>1
    <3>3. \A n \in 1..(c + 2) : n \in 1..2 \/ (n - 2 \in 1..c /\ n - 2 \in 1..k /\ n - 2 + 2 = n /\ ~(n <= 2))
      BY <1>1, <2>2
    <3>4. hs[1] = tr[1] /\ hs[2] = tr[2]
      BY <1>1 DEF hs
    <3>5. \A n \in 1..2 : hs[n] = tr[n]
      BY <3>4
    <3>. HIDE DEF h
    <3>6. ASSUME NEW n \in 1..(c + 2)  PROVE h[n] = tr[n]
      <4>1. CASE n \in 1..2
        BY <3>2, <3>5, <4>1
      <4>2. CASE n - 2 \in 1..c /\ n - 2 \in 1..k /\ n - 2 + 2 = n /\ ~(n <= 2)
        BY <1>1, <2>3, <3>2, <4>2
      <4>. QED  BY <3>3, <4>1, <4>2
    <3>. QED  BY <3>1, <3>2, <3>6
  <2>5. SubSeq(tr, 1, c + 2) = h
    <3>1. c + 2 \in 0..Len(tr)
      BY <1>1, <2>2
    <3>2. /\ SubSeq(tr, 1, c + 2) \in Seq(HsMessage) /\ Len(SubSeq(tr, 1, c + 2)) = c + 2
          /\ \A i \in 1..(c + 2) : SubSeq(tr, 1, c + 2)[i] = tr[i]
      BY <1>1, <3>1, UpTo DEF Transcript
    <3>. HIDE DEF h
    <3>. QED  BY <2>4, <3>2, SeqEqual
  <2>. HIDE DEF h
  <2>6. c + 2 \in DOMAIN tr /\ tr[c + 2].mt = "CertVerify"
    BY <1>1, <1>2, <2>2
  <2>7. ASSUME NEW j \in DOMAIN tr, j > c + 2  PROVE tr[j].mt # "CertVerify"
    <3>1. j - 2 \in 1..k /\ j - 2 > c /\ j - 2 + 2 = j
      BY <1>1, <1>2, <2>2, <2>7
    <3>. QED  BY <1>1, <2>2, <3>1
  <2>8. CertHash(h, tr) /\ h \in Hash
    BY <2>4, <2>5, <2>6, <2>7 DEF CertHash, Hash, Transcript
  <2>. QED  BY <1>7, <2>8 DEF h, hs, tr, certs, c
<1>. QED  BY <1>6, <1>7 DEF certs

\* The records of a flight, as ServerFlight puts them together.
LEMMA FlightIsWhole ==
    ASSUME NEW a \in HsMessage, NEW b \in HsMessage, NEW f \in Seq(FlightMessage)
    PROVE  LET tr == <<a, b>> \o f
               sealed == Append(f, msg("Finished", tr))
           IN  <<record("handshake", Nil, 0, b)>>
               \o [n \in DOMAIN sealed |->
                      record("handshake", key("handshake", "server", <<a, b>>), n, sealed[n])]
               = flightRecords(tr, <<a, b>>)
<1> DEFINE hs == <<a, b>>
           tr == hs \o f
           k == Len(f)
           sealed == Append(f, msg("Finished", tr))
           first == <<record("handshake", Nil, 0, b)>>
           others == [n \in DOMAIN sealed |->
                         record("handshake", key("handshake", "server", hs), n, sealed[n])]
           all1 == first \o others
           fr == flightRecords(tr, hs)
<1>1. /\ hs \in Transcript /\ tr \in Transcript /\ Len(tr) = k + 2 /\ tr[2] = b /\ k \in Nat
      /\ \A n \in 1..k : tr[n + 2] = f[n] /\ f[n] \in FlightMessage
  BY FlightTranscript
<1>. HIDE DEF hs, tr
<1>2. tr \in Hash /\ hs \in Hash /\ msg("Finished", tr) \in Message
  BY <1>1, MessageTypes DEF Hash
<1>3. /\ sealed \in Seq(Message) /\ Len(sealed) = k + 1 /\ DOMAIN sealed = 1..(k + 1)
      /\ \A n \in 1..k : sealed[n] = f[n]
      /\ sealed[k + 1] = msg("Finished", tr)
  <2>1. f \in Seq(Message)
    BY MessageTypes, SeqMonotonic
  <2>2. /\ sealed \in Seq(Message) /\ Len(sealed) = Len(f) + 1
        /\ \A n \in 1..Len(f) : sealed[n] = f[n] /\ sealed[Len(f) + 1] = msg("Finished", tr)
        /\ sealed[Len(f) + 1] = msg("Finished", tr)
    BY <1>2, <2>1, AppendProperties
  <2>3. DOMAIN sealed = 1..Len(sealed)
    BY <2>2, LenProperties
  <2>. QED  BY <2>2, <2>3
<1>. HIDE DEF sealed, k
<1>4. first \in Seq(Record) /\ Len(first) = 1 /\ first[1] = record("handshake", Nil, 0, b)
  <2>1. record("handshake", Nil, 0, b) \in Record
    BY KeyTypes, RecordTypes, MessageTypes
  <2>. QED  BY <2>1
<1>5. others \in Seq(Record) /\ Len(others) = k + 1
      /\ \A n \in 1..(k + 1) : others[n] = record("handshake", key("handshake", "server", hs), n, sealed[n])
  <2>1. \A n \in 1..(k + 1) : sealed[n] \in Message
    BY <1>3, ElementOfSeq
  <2>2. others \in [1..(k + 1) -> Record]
    BY <1>1, <1>2, <1>3, <2>1, KeyTypes, RecordTypes
  <2>3. \A n \in 1..(k + 1) : others[n] = record("handshake", key("handshake", "server", hs), n, sealed[n])
    BY <1>3
  <2>4. k + 1 \in Nat
    BY <1>1
  <2>. HIDE DEF others
  <2>. QED  BY <2>2, <2>3, <2>4, IsSeq
<1>. HIDE DEF first, others
<1>6. /\ all1 \in Seq(Record) /\ Len(all1) = k + 2
      /\ \A n \in 1..(k + 2) : all1[n] = IF n <= 1 THEN first[n] ELSE others[n - 1]
  <2>1. /\ all1 \in Seq(Record) /\ Len(all1) = Len(first) + Len(others)
        /\ \A n \in 1..(Len(first) + Len(others)) :
              all1[n] = IF n <= Len(first) THEN first[n] ELSE others[n - Len(first)]
    BY <1>4, <1>5, ConcatProperties
  <2>2. Len(first) + Len(others) = k + 2
    BY <1>1, <1>4, <1>5
  <2>. QED  BY <1>4, <2>1, <2>2
<1>7. /\ fr \in Seq(Record) /\ Len(fr) = k + 2
      /\ \A n \in 1..(k + 2) : fr[n] =
            record("handshake", IF n = 1 THEN Nil ELSE key("handshake", "server", hs), n - 1,
                   IF n = k + 2 THEN msg("Finished", tr) ELSE tr[n + 1])
  <2>1. Len(tr) >= 2
    BY <1>1
  <2>. QED  BY <1>1, <1>2, <2>1, FlightRecordTypes
<1>. HIDE DEF all1, fr
<1>8. ASSUME NEW n \in 1..(k + 2)  PROVE all1[n] = fr[n]
  <2>1. CASE n = 1
    <3>1. n <= 1 /\ n # k + 2 /\ n - 1 = 0 /\ n + 1 = 2
      BY <1>1, <2>1
    <3>2. fr[n] = record("handshake", Nil, 0, b)
      BY <1>1, <1>7, <2>1, <3>1
    <3>. QED  BY <1>4, <1>6, <2>1, <3>1, <3>2
  <2>2. CASE n > 1 /\ n < k + 2
    <3>1. /\ n - 1 \in 1..k /\ n - 1 \in 1..(k + 1) /\ ~(n <= 1) /\ n # 1 /\ n # k + 2
          /\ n - 1 + 2 = n + 1
      BY <1>1, <2>2
    <3>2. sealed[n - 1] = tr[n + 1]
      BY <1>1, <1>3, <3>1
    <3>3. all1[n] = record("handshake", key("handshake", "server", hs), n - 1, tr[n + 1])
      BY <1>5, <1>6, <3>1, <3>2
    <3>4. fr[n] = record("handshake", key("handshake", "server", hs), n - 1, tr[n + 1])
      BY <1>7, <3>1
    <3>. QED  BY <3>3, <3>4
  <2>3. CASE n = k + 2
    <3>1. n - 1 = k + 1 /\ n - 1 \in 1..(k + 1) /\ ~(n <= 1) /\ n # 1
      BY <1>1, <2>3
    <3>2. all1[n] = record("handshake", key("handshake", "server", hs), n - 1, msg("Finished", tr))
      BY <1>3, <1>5, <1>6, <3>1
    <3>3. fr[n] = record("handshake", key("handshake", "server", hs), n - 1, msg("Finished", tr))
      BY <1>7, <2>3, <3>1
    <3>. QED  BY <3>2, <3>3
  <2>. QED  BY <1>1, <2>1, <2>2, <2>3
<1>9. all1 = fr
  BY <1>6, <1>7, <1>8, SeqEqual
<1>. QED  BY <1>9 DEF all1, fr, first, others, sealed, hs, tr
------------------------------------------------------------------------------
(* What a step leaves as it is.                                              *)

LEMMA ClientTypes ==
    ASSUME MmtlsTypeOK
    PROVE  /\ mc.transcript \in Seq(Message) /\ mc.hsHash \in Hash /\ mc.hFinal \in Hash
           /\ mc.hCertV \in Hash /\ mc.nst \in Seq(Ticket) /\ mc.txSeq \in 0..3 /\ mc.rxSeq \in Nat
           /\ mc.rxbuf \in Seq(Unit) /\ mc.recq \in Seq(Record)
           /\ srv.st \in {"hello", "finished", "auth", "served"} /\ srv.transcript \in Transcript
           /\ srv.hsHash \in Hash /\ srv.hCertV \in Hash /\ srv.tx \in Nat /\ srv.rx \in 0..3
           /\ srv.refused \in BOOLEAN
           /\ wire \in Seq(Unit) /\ up \in Seq(Record) /\ Len(up) \in Nat /\ cut \in BOOLEAN
           /\ hpc \in ClientLabel
<1>1. up \in Seq(Record) => Len(up) \in Nat
  BY LenProperties
<1>. QED  BY <1>1 DEF MmtlsTypeOK, ClientState, ServerState

LEMMA SentKept ==
    ASSUME srv' = srv
    PROVE  ServerSent' = ServerSent
  BY DEF ServerSent

LEMMA ServerKept ==
    ASSUME ServerAt, srv' = srv, mc'.txSeq = mc.txSeq
    PROVE  ServerAt'
  BY DEF ServerAt, FlightSent

LEMMA UpKept ==
    ASSUME MmtlsTypeOK, UpAt, srv' = srv, up' = up, cut' = cut, mc'.txSeq = mc.txSeq,
           mc.txSeq >= 2 => mc'.hsHash = mc.hsHash /\ mc'.hFinal = mc.hFinal
    PROVE  UpAt'
<1>1. CASE cut \/ srv.st = "served"
  BY <1>1 DEF UpAt
<1>2. CASE ~(cut \/ srv.st = "served")
  <2>1. /\ mc.txSeq = srv.rx + Len(up) /\ srv.rx \in Nat /\ mc.txSeq \in Nat /\ Len(up) \in Nat
        /\ \A i \in 1..Len(up) : up[i] = clientRecord(srv.rx + i - 1)
    BY <1>2, ClientTypes DEF UpAt
  <2>2. ASSUME NEW i \in 1..Len(up)  PROVE clientRecord(srv.rx + i - 1)' = clientRecord(srv.rx + i - 1)
    <3>1. srv.rx + i - 1 = 0 \/ mc.txSeq >= 2
      BY <2>1
    <3>. QED  BY <3>1 DEF clientRecord
  <2>. QED  BY <1>2, <2>1, <2>2 DEF UpAt
<1>. QED  BY <1>1, <1>2

\* The record at hand is the next one of those sent.
LEMMA AtHand ==
    ASSUME MmtlsInv, mc.recq # <<>>
    PROVE  /\ Head(mc.recq) = ServerSent[mc.rxSeq + 1] /\ mc.rxSeq + 1 \in 1..Len(ServerSent)
           /\ Tail(mc.recq) \in Seq(Record)
           /\ Flow(ServerSent, mc.rxSeq + 1, Tail(mc.recq), mc.rxbuf, wire)
<1>1. ServerSent \in Seq(Record)
  BY SentType DEF MmtlsInv
<1>2. mc.rxSeq \in Nat /\ mc.recq \in Seq(Record) /\ mc.rxbuf \in Seq(UnitsOf(Record)) /\ wire \in Seq(UnitsOf(Record))
  BY ClientTypes DEF MmtlsInv, Unit
<1>3. Flow(ServerSent, mc.rxSeq, mc.recq, mc.rxbuf, wire)
  BY DEF MmtlsInv, Stream
<1>. QED  BY <1>1, <1>2, <1>3, FlowTake, ZenonT(30)
------------------------------------------------------------------------------
(* Each step of the client.                                                  *)

\* A record goes out, whichever it is.
LEMMA Sends ==
    ASSUME MmtlsInv, NEW ct, NEW k, NEW message,
           UNCHANGED <<srv, wire, cut, fault>>, mc.txSeq < 3,
           srv.st # "served",
           record(ct, k, mc.txSeq, message) \in Record,
           up' = IF cut THEN up ELSE Append(up, record(ct, k, mc.txSeq, message)),
           mc' \in ClientState, mc'.txSeq = mc.txSeq + 1, mc'.rxSeq = mc.rxSeq,
           mc'.recq = mc.recq, mc'.rxbuf = mc.rxbuf, mc'.hsHash = mc.hsHash,
           mc'.hFinal = mc.hFinal, hpc' \in ClientLabel,
           record(ct, k, mc.txSeq, message) = clientRecord(mc.txSeq)
    PROVE  MmtlsTypeOK' /\ ServerAt' /\ UpAt' /\ Stream' /\ fault' # "own"
<1> USE DEF MmtlsInv
<1>1. MmtlsTypeOK'
  <2>1. up' \in Seq(Record)
    BY ClientTypes, AppendProperties
  <2>. QED  BY <2>1 DEF MmtlsTypeOK
<1>2. ServerAt'
  <2>1. mc.txSeq \in Nat /\ srv.rx \in Nat
    BY ClientTypes
  <2>. QED  BY <2>1 DEF ServerAt, FlightSent
<1>3. UpAt'
  <2>1. CASE cut
    BY <2>1 DEF UpAt
  <2>2. CASE ~cut
    <3>1. /\ mc.txSeq = srv.rx + Len(up) /\ srv.rx \in Nat /\ mc.txSeq \in Nat /\ Len(up) \in Nat
          /\ \A i \in 1..Len(up) : up[i] = clientRecord(srv.rx + i - 1)
      BY <2>2, ClientTypes, SMTT(30) DEF UpAt
    <3>2. /\ Len(up') = Len(up) + 1 /\ \A i \in 1..Len(up) : up'[i] = up[i]
          /\ up'[Len(up) + 1] = clientRecord(mc.txSeq)
      BY <2>2, ClientTypes, AppendProperties
    <3>3. \A n : clientRecord(n)' = clientRecord(n)
      BY DEF clientRecord
    <3>4. \A i \in 1..(Len(up) + 1) : i \in 1..Len(up) \/ (i = Len(up) + 1 /\ srv.rx + i - 1 = mc.txSeq)
      BY <3>1
    <3>5. \A i \in 1..Len(up') : up'[i] = clientRecord(srv.rx + i - 1)'
      BY <3>1, <3>2, <3>3, <3>4
    <3>6. mc'.txSeq = srv.rx + Len(up')
      BY <3>1, <3>2
    <3>. QED  BY <2>2, <3>5, <3>6 DEF UpAt
  <2>. QED  BY <2>1, <2>2
<1>4. Stream'
  BY SentKept DEF Stream
<1>. QED  BY <1>1, <1>2, <1>3, <1>4

LEMMA SentCounts ==
    ASSUME NEW m \in ClientState, m.txSeq < 3, NEW k
    PROVE  /\ sent(m, k) \in ClientState /\ sent(m, k).txSeq = m.txSeq + 1
           /\ sent(m, k).transcript = m.transcript /\ sent(m, k).hsHash = m.hsHash
           /\ sent(m, k).hFinal = m.hFinal /\ sent(m, k).hCertV = m.hCertV
           /\ sent(m, k).nst = m.nst /\ sent(m, k).rxSeq = m.rxSeq
           /\ sent(m, k).rxbuf = m.rxbuf /\ sent(m, k).recq = m.recq
<1>1. m.txSeq \in 0..3 /\ m.txSeq + 1 \in 0..3
  BY DEF ClientState
<1>2. sent(m, k) = [m EXCEPT !.txSeq = m.txSeq + 1]
  BY DEF sent
<1>. QED  BY <1>1, <1>2 DEF ClientState

LEMMA FedTypes ==
    ASSUME NEW m \in ClientState, NEW message \in Message
    PROVE  /\ feed(m, message) \in ClientState
           /\ feed(m, message).transcript = Append(m.transcript, message)
           /\ feed(m, message).txSeq = m.txSeq /\ feed(m, message).hsHash = m.hsHash
           /\ feed(m, message).hFinal = m.hFinal /\ feed(m, message).hCertV = m.hCertV
           /\ feed(m, message).nst = m.nst /\ feed(m, message).rxSeq = m.rxSeq
           /\ feed(m, message).rxbuf = m.rxbuf /\ feed(m, message).recq = m.recq
<1>1. m.transcript \in Seq(Message)
  BY DEF ClientState
<1>2. Append(m.transcript, message) \in Seq(Message)
  BY <1>1, AppendProperties
<1>3. feed(m, message) = [m EXCEPT !.transcript = Append(m.transcript, message)]
  BY DEF feed
<1>. QED  BY <1>2, <1>3 DEF ClientState

LEMMA HelloStep ==
    ASSUME MmtlsInv, SendClientHello
    PROVE  MmtlsInv'
<1>1. mc = newMmtlsClient /\ srv = newServer
  BY DEF MmtlsInv, ClientAt, SendClientHello
<1>2. mc.transcript = <<>> /\ mc.txSeq = 0 /\ mc.rxSeq = 0 /\ mc.hCertV = Nil
      /\ srv.st = "hello" /\ srv.transcript = <<>>
  BY <1>1 DEF newMmtlsClient, newServer
<1>3. mc \in ClientState
  BY DEF MmtlsInv, MmtlsTypeOK
<1>4. /\ mc' = sent(feed(mc, clientHello), Nil)
      /\ up' = IF cut THEN up ELSE Append(up, record("handshake", Nil, mc.txSeq, clientHello))
      /\ hpc' = "serverHello" /\ UNCHANGED <<srv, wire, cut, fault>>
  <2>1. feed(mc, clientHello).txSeq = mc.txSeq
    BY <1>3, MessageTypes, FedTypes
  <2>. QED  BY <2>1 DEF SendClientHello, send, clientHello
<1>5. Append(mc.transcript, clientHello) = <<clientHello>> /\ clientHello \in Message
  BY <1>2, MessageTypes
<1>6. /\ mc' \in ClientState /\ mc'.transcript = <<clientHello>> /\ mc'.txSeq = 1
      /\ mc'.rxSeq = mc.rxSeq /\ mc'.recq = mc.recq /\ mc'.rxbuf = mc.rxbuf
      /\ mc'.hsHash = mc.hsHash /\ mc'.hFinal = mc.hFinal /\ mc'.hCertV = mc.hCertV
  <2> DEFINE fed == feed(mc, clientHello)
  <2>1. /\ fed \in ClientState /\ fed.transcript = <<clientHello>> /\ fed.txSeq = 0
        /\ fed.rxSeq = mc.rxSeq /\ fed.recq = mc.recq /\ fed.rxbuf = mc.rxbuf
        /\ fed.hsHash = mc.hsHash /\ fed.hFinal = mc.hFinal /\ fed.hCertV = mc.hCertV
    BY <1>2, <1>3, <1>5, FedTypes
  <2>2. fed.txSeq < 3 /\ 0 + 1 = 1
    BY <2>1
  <2>. HIDE DEF fed
  <2>3. mc' = sent(fed, Nil)
    BY <1>4 DEF fed
  <2>. QED  BY <2>1, <2>2, <2>3, SentCounts
<1>7. record("handshake", Nil, 0, clientHello) \in Record
  BY KeyTypes, RecordTypes, MessageTypes
<1>8. record("handshake", Nil, mc.txSeq, clientHello) = clientRecord(mc.txSeq)
  BY <1>2 DEF clientRecord
<1>9. MmtlsTypeOK' /\ ServerAt' /\ UpAt' /\ Stream' /\ fault' # "own"
  <2>1. hpc' \in ClientLabel /\ mc'.txSeq = mc.txSeq + 1 /\ mc.txSeq < 3 /\ srv.st # "served"
    BY <1>2, <1>4, <1>6 DEF ClientLabel
  <2>. QED  BY <1>2, <1>4, <1>6, <1>7, <1>8, <2>1, Sends
<1>10. ClientAt'
  BY <1>2, <1>4, <1>6 DEF ClientAt
<1>. QED  BY <1>9, <1>10 DEF MmtlsInv

LEMMA FinishedStep ==
    ASSUME MmtlsInv, SendClientFinished
    PROVE  MmtlsInv'
<1>1. /\ hpc = "sendFinished" /\ mc.txSeq = 1 /\ Agreed /\ CertHash(mc.hCertV, srv.transcript)
      /\ mc.rxSeq = Len(srv.transcript)
  BY DEF MmtlsInv, ClientAt, SendClientFinished
<1>2. mc \in ClientState /\ mc.hsHash \in Hash /\ mc.hFinal \in Hash
  BY ClientTypes DEF MmtlsInv, MmtlsTypeOK
<1>3. srv.st # "served"
  BY <1>1 DEF MmtlsInv, ServerAt, Agreed
<1> DEFINE k == key("handshake", "client", mc.hsHash)
           fin == msg("Finished", mc.hFinal)
<1>4. /\ mc' = sent(mc, k) /\ hpc' = "connected" /\ UNCHANGED <<srv, wire, cut, fault>>
      /\ up' = IF cut THEN up ELSE Append(up, record("handshake", k, mc.txSeq, fin))
  BY DEF SendClientFinished, send
<1>5. /\ mc' \in ClientState /\ mc'.txSeq = 2 /\ mc'.rxSeq = mc.rxSeq /\ mc'.recq = mc.recq
      /\ mc'.rxbuf = mc.rxbuf /\ mc'.hsHash = mc.hsHash /\ mc'.hFinal = mc.hFinal
      /\ mc'.hCertV = mc.hCertV
  BY <1>1, <1>2, <1>4, SentCounts
<1>6. record("handshake", k, mc.txSeq, fin) \in Record
  <2>1. k \in Key /\ fin \in Message /\ mc.txSeq \in Nat
    BY <1>1, <1>2, KeyTypes, MessageTypes
  <2>. QED  BY <2>1, RecordTypes
<1>7. record("handshake", k, mc.txSeq, fin) = clientRecord(mc.txSeq)
  BY <1>1 DEF clientRecord
<1>8. MmtlsTypeOK' /\ ServerAt' /\ UpAt' /\ Stream' /\ fault' # "own"
  <2>1. hpc' \in ClientLabel /\ mc'.txSeq = mc.txSeq + 1 /\ mc.txSeq < 3
    BY <1>1, <1>4, <1>5 DEF ClientLabel
  <2>. HIDE DEF k, fin
  <2>. QED  BY <1>3, <1>4, <1>5, <1>6, <1>7, <2>1, Sends
<1>9. ClientAt'
  BY <1>1, <1>4, <1>5 DEF ClientAt, Agreed
<1>. QED  BY <1>8, <1>9 DEF MmtlsInv

LEMMA AppStep ==
    ASSUME MmtlsInv, SendApp
    PROVE  MmtlsInv'
<1>1. /\ hpc = "sendApp" /\ mc.txSeq = 2 /\ Agreed /\ CertHash(mc.hCertV, srv.transcript)
      /\ mc.rxSeq = Len(srv.transcript)
  BY DEF MmtlsInv, ClientAt, SendApp
<1>2. mc \in ClientState /\ mc.hsHash \in Hash /\ mc.hFinal \in Hash
  BY ClientTypes DEF MmtlsInv, MmtlsTypeOK
<1>3. srv.st # "served"
  BY <1>1 DEF MmtlsInv, ServerAt, Agreed
<1> DEFINE k == key("app", "client", mc.hFinal)
           auth == msg("ManualAuth", Nil)
<1>4. /\ mc' = sent(mc, k) /\ hpc' = "answer" /\ UNCHANGED <<srv, wire, cut, fault>>
      /\ up' = IF cut THEN up ELSE Append(up, record("appData", k, mc.txSeq, auth))
  BY DEF SendApp, send
<1>5. /\ mc' \in ClientState /\ mc'.txSeq = 3 /\ mc'.rxSeq = mc.rxSeq /\ mc'.recq = mc.recq
      /\ mc'.rxbuf = mc.rxbuf /\ mc'.hsHash = mc.hsHash /\ mc'.hFinal = mc.hFinal
      /\ mc'.hCertV = mc.hCertV
  BY <1>1, <1>2, <1>4, SentCounts
<1>6. record("appData", k, mc.txSeq, auth) \in Record
  <2>1. k \in Key /\ auth \in Message /\ mc.txSeq \in Nat
    BY <1>1, <1>2, KeyTypes, MessageTypes
  <2>. QED  BY <2>1, RecordTypes
<1>7. record("appData", k, mc.txSeq, auth) = clientRecord(mc.txSeq)
  BY <1>1 DEF clientRecord
<1>8. MmtlsTypeOK' /\ ServerAt' /\ UpAt' /\ Stream' /\ fault' # "own"
  <2>1. hpc' \in ClientLabel /\ mc'.txSeq = mc.txSeq + 1 /\ mc.txSeq < 3
    BY <1>1, <1>4, <1>5 DEF ClientLabel
  <2>. HIDE DEF k, auth
  <2>. QED  BY <1>3, <1>4, <1>5, <1>6, <1>7, <2>1, Sends
<1>9. ClientAt'
  BY <1>1, <1>4, <1>5 DEF ClientAt, Agreed
<1>. QED  BY <1>8, <1>9 DEF MmtlsInv

\* The client gives up and leaves everything as it is.
LEMMA GivesUp ==
    ASSUME MmtlsInv, hpc' = "failed", fault' # "own", UNCHANGED <<mc, srv, wire, up, cut>>
    PROVE  MmtlsInv'
<1>1. MmtlsTypeOK'
  BY DEF MmtlsInv, MmtlsTypeOK, ClientLabel
<1>2. ClientAt'
  BY DEF MmtlsInv, ClientAt, Agreed
<1>3. ServerAt' /\ UpAt'
  BY ServerKept, UpKept DEF MmtlsInv
<1>4. Stream'
  BY SentKept DEF MmtlsInv, Stream
<1>. QED  BY <1>1, <1>2, <1>3, <1>4 DEF MmtlsInv

LEMMA ReadStep ==
    ASSUME MmtlsInv, Read
    PROVE  MmtlsInv'
<1>1. /\ mc \in ClientState /\ mc.rxSeq \in Nat /\ mc.recq = <<>>
      /\ mc.rxbuf \in Seq(UnitsOf(Record)) /\ wire \in Seq(UnitsOf(Record))
      /\ ServerSent \in Seq(Record)
      /\ hpc \in Reading /\ UNCHANGED <<hpc, srv, up, cut, fault>>
  BY ClientTypes, SentType DEF MmtlsInv, MmtlsTypeOK, Unit, Read
<1>2. PICK n \in 1..Len(wire) :
          LET buf == mc.rxbuf \o SubSeq(wire, 1, n) IN
          /\ mc' = [mc EXCEPT !.rxbuf = rest(buf),
                              !.recq = [k \in 1..wholeRecords(buf) |-> buf[2 * k].of]]
          /\ wire' = SubSeq(wire, n + 1, Len(wire))
  BY DEF Read
<1> DEFINE buf == mc.rxbuf \o SubSeq(wire, 1, n)
           b1 == rest(buf)
           q1 == [k \in 1..wholeRecords(buf) |-> buf[2 * k].of]
           w1 == SubSeq(wire, n + 1, Len(wire))
<1>3. Flow(ServerSent, mc.rxSeq, <<>>, mc.rxbuf, wire)
  BY <1>1 DEF MmtlsInv, Stream
<1>4. /\ q1 \in Seq(Record) /\ b1 \in Seq(UnitsOf(Record)) /\ w1 \in Seq(UnitsOf(Record))
      /\ Flow(ServerSent, mc.rxSeq, q1, b1, w1)
  BY <1>1, <1>2, <1>3, FlowRead
<1>5. mc' = [mc EXCEPT !.rxbuf = b1, !.recq = q1] /\ wire' = w1
  BY <1>2
<1>. HIDE DEF buf, b1, q1, w1
<1>6. /\ mc' \in ClientState /\ mc'.rxbuf = b1 /\ mc'.recq = q1 /\ mc'.txSeq = mc.txSeq
      /\ mc'.rxSeq = mc.rxSeq /\ mc'.transcript = mc.transcript /\ mc'.hsHash = mc.hsHash
      /\ mc'.hFinal = mc.hFinal /\ mc'.hCertV = mc.hCertV
  BY <1>1, <1>4, <1>5 DEF ClientState, Unit
<1>7. MmtlsTypeOK'
  BY <1>1, <1>4, <1>5, <1>6 DEF MmtlsInv, MmtlsTypeOK, Unit
<1>8. ClientAt'
  BY <1>1, <1>6 DEF MmtlsInv, ClientAt, Agreed, Reading
<1>9. ServerAt' /\ UpAt'
  BY <1>1, <1>6, ServerKept, UpKept DEF MmtlsInv
<1>10. Stream'
  BY <1>1, <1>4, <1>5, <1>6, SentKept DEF Stream
<1>. QED  BY <1>1, <1>7, <1>8, <1>9, <1>10 DEF MmtlsInv

\* With nothing under way and nothing said about why, something is still to come.
LEMMA NeverStuck ==
    ASSUME MmtlsInv, hpc \in Reading, mc.recq = <<>>, wire = <<>>, up = <<>>, ~cut, ~srv.refused
    PROVE  FALSE
<1>1. /\ mc.rxSeq \in Nat /\ mc.txSeq \in Nat /\ srv.rx \in Nat
      /\ srv.st \in {"hello", "finished", "auth", "served"}
      /\ Len(srv.transcript) \in Nat /\ Len(ServerSent) \in Nat
  BY ClientTypes, SentType DEF MmtlsInv
<1>2. Len(ServerSent) = mc.rxSeq
  <2>1. Len(<<>>) = 0
    BY EmptySeq
  <2>2. /\ Len(mc.rxbuf) \in {0, 1}
        /\ 2 * (mc.rxSeq + 0) + Len(mc.rxbuf) + 0 = 2 * Len(ServerSent)
    BY <2>1 DEF MmtlsInv, Stream, Flow
  <2>3. \A x, y \in Nat, z \in {0, 1} : 2 * (x + 0) + z + 0 = 2 * y => x = y
    OBVIOUS
  <2>. QED  BY <1>1, <2>2, <2>3
<1>3. srv.st # "served" => mc.txSeq = srv.rx
  <2>1. Len(<<>>) = 0
    BY EmptySeq
  <2>. QED  BY <1>1, <2>1 DEF MmtlsInv, UpAt
<1>4. srv.transcript # <<>> =>
          Len(ServerSent) = Len(srv.transcript) + (IF srv.st = "served" THEN 1 ELSE 0)
          /\ Len(srv.transcript) >= 2
  BY SentType DEF MmtlsInv
<1>5. /\ hpc = "serverHello" => mc.txSeq = 1 /\ mc.rxSeq = 0
      /\ hpc = "flight" => mc.txSeq = 1 /\ srv.transcript # <<>> /\ mc.rxSeq \in 1..(Len(srv.transcript) - 1)
      /\ hpc = "answer" => mc.txSeq = 3 /\ srv.transcript # <<>> /\ mc.rxSeq = Len(srv.transcript)
  BY DEF MmtlsInv, ClientAt, Agreed
<1>6. /\ srv.st = "hello" => srv.rx = 0
      /\ srv.st = "finished" => srv.rx = 1 /\ srv.transcript # <<>>
      /\ srv.st = "auth" => srv.rx = 2
      /\ srv.st = "served" => srv.transcript # <<>> /\ mc.txSeq = 3
  BY DEF MmtlsInv, ServerAt
<1>7. CASE hpc = "serverHello"
  <2>1. mc.txSeq = 1 /\ mc.rxSeq = 0
    BY <1>5, <1>7
  <2>2. srv.st = "finished"
    BY <1>1, <1>3, <1>6, <2>1
  <2>3. Len(ServerSent) >= 2
    BY <1>1, <1>4, <1>6, <2>2
  <2>. QED  BY <1>1, <1>2, <2>1, <2>3
<1>8. CASE hpc = "flight"
  <2>1. /\ mc.txSeq = 1 /\ srv.transcript # <<>>
        /\ mc.rxSeq \in 1..(Len(srv.transcript) - 1)
    BY <1>5, <1>8
  <2>2. srv.st # "served"
    BY <1>6, <2>1
  <2>3. Len(ServerSent) = Len(srv.transcript)
    BY <1>4, <2>1, <2>2
  <2>. QED  BY <1>1, <1>2, <2>1, <2>3
<1>9. CASE hpc = "answer"
  <2>1. mc.txSeq = 3 /\ srv.transcript # <<>> /\ mc.rxSeq = Len(srv.transcript)
    BY <1>5, <1>9
  <2>2. srv.st = "served"
    BY <1>1, <1>3, <1>6, <2>1
  <2>3. Len(ServerSent) = Len(srv.transcript) + 1
    BY <1>4, <2>1, <2>2
  <2>. QED  BY <1>1, <1>2, <2>1, <2>3
<1>. QED  BY <1>7, <1>8, <1>9 DEF Reading

LEMMA ReadFailsStep ==
    ASSUME MmtlsInv, ReadFails
    PROVE  MmtlsInv'
<1>1. wire # <<>> \/ up # <<>> \/ cut \/ srv.refused
  BY NeverStuck DEF ReadFails
<1>2. hpc' = "failed" /\ fault' = "peer" /\ UNCHANGED <<mc, srv, wire, up, cut>>
  BY <1>1 DEF ReadFails, fail
<1>. QED  BY <1>2, GivesUp

LEMMA SendFailsStep ==
    ASSUME MmtlsInv, SendFails
    PROVE  MmtlsInv'
<1>1. hpc' = "failed" /\ fault' = "peer" /\ UNCHANGED <<mc, srv, wire, up, cut>>
  BY DEF SendFails, fail
<1>. QED  BY <1>1, GivesUp

LEMMA Longer ==
    ASSUME NEW T, NEW t \in Seq(T), NEW n \in 0..(Len(t) - 1)
    PROVE  Append(SubSeq(t, 1, n), t[n + 1]) = SubSeq(t, 1, n + 1)
<1> DEFINE a == SubSeq(t, 1, n)
           b == SubSeq(t, 1, n + 1)
           e == t[n + 1]
           c == Append(a, e)
<1>1. Len(t) \in Nat /\ n \in 0..Len(t) /\ n + 1 \in 0..Len(t) /\ n + 1 \in 1..Len(t) /\ n \in Nat
  BY LenProperties
<1>2. a \in Seq(T) /\ Len(a) = n /\ \A i \in 1..n : a[i] = t[i]
  BY <1>1, UpTo
<1>3. b \in Seq(T) /\ Len(b) = n + 1 /\ \A i \in 1..(n + 1) : b[i] = t[i]
  BY <1>1, UpTo
<1>4. e \in T
  BY <1>1, ElementOfSeq
<1>. HIDE DEF a, b, e
<1>5. c \in Seq(T) /\ Len(c) = n + 1 /\ (\A i \in 1..n : c[i] = a[i]) /\ c[n + 1] = e
  BY <1>2, <1>4, AppendProperties
<1>. HIDE DEF c
<1>6. \A i \in 1..(n + 1) : i \in 1..n \/ i = n + 1
  BY <1>1
<1>7. \A i \in 1..(n + 1) : c[i] = b[i]
  BY <1>2, <1>3, <1>5, <1>6 DEF e
<1>. QED  BY <1>3, <1>5, <1>7, SeqEqual DEF a, b, c, e

LEMMA AppendTwo ==
    ASSUME NEW T, NEW a \in T, NEW b \in T
    PROVE  Append(<<a>>, b) = <<a, b>>
<1>1. <<a>> \in Seq(T) /\ Len(<<a>>) = 1 /\ <<a>>[1] = a
  OBVIOUS
<1>2. <<a, b>> \in Seq(T) /\ Len(<<a, b>>) = 2 /\ <<a, b>>[1] = a /\ <<a, b>>[2] = b
  OBVIOUS
<1> DEFINE c == Append(<<a>>, b)
<1>3. c \in Seq(T) /\ Len(c) = 1 + 1 /\ (\A i \in 1..1 : c[i] = <<a>>[i]) /\ c[1 + 1] = b
  BY <1>1, AppendProperties
<1>. HIDE DEF c
<1>4. Len(c) = 2 /\ c[1] = a /\ c[2] = b
  BY <1>1, <1>3
<1>5. \A i \in 1..2 : c[i] = <<a, b>>[i]
  BY <1>2, <1>4
<1>. QED  BY <1>2, <1>3, <1>4, <1>5, SeqEqual DEF c

LEMMA TakenTypes ==
    ASSUME MmtlsInv, mc.recq # <<>>
    PROVE  /\ taken \in ClientState /\ taken.recq = Tail(mc.recq) /\ taken.rxSeq = mc.rxSeq + 1
           /\ taken.transcript = mc.transcript /\ taken.hsHash = mc.hsHash
           /\ taken.hFinal = mc.hFinal /\ taken.hCertV = mc.hCertV /\ taken.nst = mc.nst
           /\ taken.txSeq = mc.txSeq /\ taken.rxbuf = mc.rxbuf
<1>1. mc \in ClientState /\ Tail(mc.recq) \in Seq(Record)
  BY AtHand DEF MmtlsInv, MmtlsTypeOK
<1>2. mc.rxSeq + 1 \in Nat
  BY <1>1 DEF ClientState
<1>. QED  BY <1>1, <1>2 DEF taken, ClientState

\* A record is taken and something made of it; what the peer has to do with is as before.
LEMMA Takes ==
    ASSUME MmtlsInv, mc.recq # <<>>, mc' \in ClientState, hpc' \in ClientLabel, fault' # "own",
           UNCHANGED <<srv, wire, up, cut>>,
           mc'.rxSeq = mc.rxSeq + 1, mc'.recq = Tail(mc.recq), mc'.rxbuf = mc.rxbuf,
           mc'.txSeq = mc.txSeq,
           mc.txSeq >= 2 => mc'.hsHash = mc.hsHash /\ mc'.hFinal = mc.hFinal
    PROVE  MmtlsTypeOK' /\ ServerAt' /\ UpAt' /\ Stream' /\ fault' # "own"
<1>1. MmtlsTypeOK'
  BY DEF MmtlsInv, MmtlsTypeOK
<1>2. ServerAt' /\ UpAt'
  BY ServerKept, UpKept DEF MmtlsInv
<1>3. Stream'
  BY AtHand, SentKept DEF Stream
<1>. QED  BY <1>1, <1>2, <1>3

LEMMA ServerHelloStep ==
    ASSUME MmtlsInv, RecvServerHello
    PROVE  MmtlsInv'
<1>1. /\ hpc = "serverHello" /\ mc.recq # <<>> /\ mc.txSeq = 1 /\ mc.rxSeq = 0
      /\ mc.transcript = <<clientHello>> /\ mc.hCertV = Nil /\ UNCHANGED <<srv, wire, up, cut>>
  BY DEF MmtlsInv, ClientAt, RecvServerHello, receiving
<1> DEFINE tr == srv.transcript
           m == Head(mc.recq).msg
<1>2. Head(mc.recq) = ServerSent[1] /\ Len(ServerSent) >= 1 /\ Len(ServerSent) \in Nat
  BY <1>1, AtHand, SentType DEF MmtlsInv
<1>3. CASE tr = <<>>
  <2>1. srv.refused
    <3>1. Len(<<>>) = 0
      BY EmptySeq
    <3>. QED  BY <1>2, <1>3, <3>1 DEF ServerSent
  <2>2. m = msg("Alert", Nil)
    BY <1>2, <1>3, <2>1 DEF ServerSent, record
  <2>3. m.mt # "ServerHello"
    BY <2>2, MessageTypes
  <2>4. hpc' = "failed" /\ fault' = "peer" /\ UNCHANGED mc
    BY <2>1, <2>3 DEF RecvServerHello, unexpected, fail
  <2>. QED  BY <1>1, <2>4, GivesUp
<1>4. CASE tr # <<>>
  <2>1. /\ tr \in Transcript /\ Len(tr) \in Nat /\ Len(tr) >= 2 /\ srv.hsHash \in Hash
        /\ ServerSent[1] = flightRecords(tr, srv.hsHash)[1]
        /\ tr[1] = clientHello /\ tr[2].mt = "ServerHello" /\ tr[2].data \in {"P256", "other"}
        /\ srv.hsHash = <<tr[1], tr[2]>>
    <3>1. FlightSent
      BY <1>4 DEF MmtlsInv, ServerAt
    <3>2. tr \in Transcript /\ Len(tr) \in Nat /\ Len(tr) >= 2 /\ srv.hsHash \in Hash
      BY <1>4, SentType DEF MmtlsInv
    <3>3. \A n \in 1..Len(tr) : ServerSent[n] = flightRecords(tr, srv.hsHash)[n]
      BY <1>4, SentType DEF MmtlsInv
    <3>4. 1 \in 1..Len(tr)
      BY <3>2
    <3>. QED  BY <3>1, <3>2, <3>3, <3>4 DEF FlightSent
  <2>2. m = tr[2] /\ m \in HsMessage /\ m \in Message
    <3>1. flightRecords(tr, srv.hsHash)[1] = record("handshake", Nil, 0, tr[2])
      <4>1. 1 \in 1..Len(tr) /\ 1 # Len(tr) /\ 1 - 1 = 0 /\ 1 + 1 = 2
        BY <2>1
      <4>. QED  BY <2>1, <4>1, FlightRecordTypes
    <3>2. 2 \in 1..Len(tr)
      BY <2>1
    <3>3. tr[2] \in HsMessage
      BY <2>1, <3>2, ElementOfSeq DEF Transcript
    <3>. QED  BY <1>2, <2>1, <3>1, <3>3, MessageTypes DEF record
  <2>. HIDE DEF m
  <2>3. CASE m.data # "P256"
    <3>1. hpc' = "failed" /\ fault' = "peer" /\ UNCHANGED mc
      BY <2>1, <2>2, <2>3 DEF RecvServerHello, fail, m
    <3>. QED  BY <1>1, <3>1, GivesUp
  <2>4. CASE m.data = "P256"
    <3> DEFINE fed == feed(taken, m)
    <3>1. mc' = [fed EXCEPT !.hsHash = fed.transcript] /\ hpc' = "flight" /\ fault' = fault
      BY <2>1, <2>2, <2>4 DEF RecvServerHello, m
    <3>2. /\ fed \in ClientState /\ fed.recq = Tail(mc.recq) /\ fed.rxSeq = 1
          /\ fed.transcript = Append(<<clientHello>>, m) /\ fed.hCertV = Nil
          /\ fed.txSeq = 1 /\ fed.rxbuf = mc.rxbuf
      <4>1. /\ taken \in ClientState /\ taken.recq = Tail(mc.recq) /\ taken.rxSeq = 1
            /\ taken.transcript = <<clientHello>> /\ taken.hCertV = Nil /\ taken.txSeq = 1
            /\ taken.rxbuf = mc.rxbuf
        BY <1>1, TakenTypes
      <4>2. /\ fed \in ClientState /\ fed.transcript = Append(taken.transcript, m)
            /\ fed.txSeq = taken.txSeq /\ fed.hCertV = taken.hCertV
            /\ fed.rxSeq = taken.rxSeq /\ fed.rxbuf = taken.rxbuf /\ fed.recq = taken.recq
        BY <2>2, <4>1, FedTypes
      <4>. HIDE DEF fed
      <4>. QED  BY <4>1, <4>2
    <3>3. fed.transcript = <<tr[1], tr[2]>>
      <4>1. Append(<<clientHello>>, m) = <<clientHello, m>>
        BY <2>2, MessageTypes, AppendTwo
      <4>. HIDE DEF fed
      <4>. QED  BY <2>1, <2>2, <3>2, <4>1
    <3>. HIDE DEF fed
    <3>4. /\ mc' \in ClientState /\ mc'.recq = Tail(mc.recq) /\ mc'.rxSeq = 1
          /\ mc'.transcript = <<tr[1], tr[2]>> /\ mc'.hCertV = Nil /\ mc'.txSeq = 1
          /\ mc'.rxbuf = mc.rxbuf /\ mc'.hsHash = srv.hsHash
      BY <2>1, <3>1, <3>2, <3>3 DEF ClientState
    <3>5. MmtlsTypeOK' /\ ServerAt' /\ UpAt' /\ Stream' /\ fault' # "own"
      <4>1. hpc' \in ClientLabel /\ fault' # "own" /\ mc'.rxSeq = mc.rxSeq + 1
        BY <1>1, <3>1, <3>4 DEF ClientLabel, MmtlsInv
      <4>2. mc'.txSeq = mc.txSeq /\ ~(mc.txSeq >= 2)
        BY <1>1, <3>4
      <4>. QED  BY <1>1, <3>4, <4>1, <4>2, Takes
    <3>6. mc'.transcript = SubSeq(srv'.transcript, 1, mc'.rxSeq + 1)
      <4>1. /\ SubSeq(tr, 1, 2) \in Seq(HsMessage) /\ Len(SubSeq(tr, 1, 2)) = 2
            /\ \A i \in 1..2 : SubSeq(tr, 1, 2)[i] = tr[i]
        <5>1. 2 \in 0..Len(tr)
          BY <2>1
        <5>. QED  BY <2>1, <5>1, UpTo DEF Transcript
      <4>2. <<tr[1], tr[2]>> \in Seq(HsMessage) /\ Len(<<tr[1], tr[2]>>) = 2
            /\ \A i \in 1..2 : <<tr[1], tr[2]>>[i] = tr[i]
        BY <2>1, <2>2, MessageTypes
      <4>3. \A i \in 1..2 : <<tr[1], tr[2]>>[i] = SubSeq(tr, 1, 2)[i]
        BY <4>1, <4>2
      <4>. HIDE DEF tr
      <4>4. <<tr[1], tr[2]>> = SubSeq(tr, 1, 2)
        BY <4>1, <4>2, <4>3, SeqEqual
      <4>5. mc'.rxSeq + 1 = 2
        BY <3>4
      <4>. QED  BY <1>1, <3>4, <4>4, <4>5 DEF tr
    <3>7. CertHash(mc'.hCertV, mc'.transcript)
      <4>1. DOMAIN <<tr[1], tr[2]>> = {1, 2} /\ tr[1].mt # "CertVerify" /\ tr[2].mt # "CertVerify"
        BY <2>1, MessageTypes
      <4>. QED  BY <3>4, <4>1 DEF CertHash
    <3>8. ClientAt'
      <4>1. mc'.rxSeq \in 1..(Len(srv'.transcript) - 1) /\ ~(mc'.txSeq >= 2)
        BY <1>1, <2>1, <3>4
      <4>. QED  BY <1>1, <1>4, <3>1, <3>4, <3>6, <3>7, <4>1 DEF ClientAt
    <3>. QED  BY <3>5, <3>8 DEF MmtlsInv
  <2>. QED  BY <2>3, <2>4
<1>. QED  BY <1>3, <1>4

\* The next record of the flight, when the client is in it.
LEMMA InFlight ==
    ASSUME MmtlsInv, hpc = "flight", mc.recq # <<>>
    PROVE  LET tr == srv.transcript
               n == mc.rxSeq + 1 IN
           /\ tr \in Transcript /\ Len(tr) \in Nat /\ n \in 2..Len(tr) /\ mc.rxSeq \in Nat
           /\ Head(mc.recq).key = key("handshake", "server", mc.hsHash)
           /\ Head(mc.recq).seq = mc.rxSeq
           /\ Head(mc.recq).msg = IF n = Len(tr) THEN msg("Finished", tr) ELSE tr[n + 1]
           /\ n < Len(tr) => tr[n + 1] \in FlightMessage
<1> DEFINE tr == srv.transcript
           n == mc.rxSeq + 1
<1>1. /\ mc.txSeq = 1 /\ tr # <<>> /\ mc.hsHash = srv.hsHash /\ mc.rxSeq \in 1..(Len(tr) - 1)
      /\ mc.transcript = SubSeq(tr, 1, n)
  BY DEF MmtlsInv, ClientAt
<1>2. srv.st # "served" /\ FlightSent
  BY <1>1 DEF MmtlsInv, ServerAt
<1>3. /\ tr \in Transcript /\ Len(tr) \in Nat /\ srv.hsHash \in Hash /\ Len(tr) >= 2
  BY <1>1, SentType DEF MmtlsInv
<1>4. n \in 2..Len(tr) /\ n \in 1..Len(tr) /\ n # 1 /\ n - 1 = mc.rxSeq /\ mc.rxSeq \in Nat
  BY <1>1, <1>3
<1>5. \A i \in 1..Len(tr) : ServerSent[i] = flightRecords(tr, srv.hsHash)[i]
  BY <1>1, SentType DEF MmtlsInv
<1>6. Head(mc.recq) = ServerSent[n]
  BY AtHand
<1>. HIDE DEF n
<1>7. Head(mc.recq) = record("handshake", IF n = 1 THEN Nil ELSE key("handshake", "server", srv.hsHash), n - 1,
                             IF n = Len(tr) THEN msg("Finished", tr) ELSE tr[n + 1])
  BY <1>3, <1>4, <1>5, <1>6, FlightRecordTypes
<1>8. ASSUME n < Len(tr)  PROVE tr[n + 1] \in FlightMessage
  <2>1. n + 1 \in 3..Len(tr)
    BY <1>3, <1>4, <1>8
  <2>. QED  BY <1>2, <2>1 DEF FlightSent
<1>. QED  BY <1>1, <1>3, <1>4, <1>7, <1>8 DEF record, n

\* A message of the flight, by its type.
LEMMA MessageStep ==
    ASSUME NEW m \in ClientState, NEW message \in FlightMessage, m.transcript \in Transcript,
           CertHash(m.hCertV, m.transcript)
    PROVE  LET n == recvMessage(m, message) IN
           /\ n \in ClientState /\ n.transcript = Append(m.transcript, message)
           /\ CertHash(n.hCertV, n.transcript)
           /\ n.recq = m.recq /\ n.rxSeq = m.rxSeq /\ n.rxbuf = m.rxbuf /\ n.txSeq = m.txSeq
           /\ n.hsHash = m.hsHash /\ n.hFinal = m.hFinal
<1> DEFINE fed == feed(m, message)
           n == recvMessage(m, message)
<1>1. message \in HsMessage /\ message \in Message
      /\ message.mt \in {"EncryptedExtensions", "CertVerify", "NewSessionTicket"}
      /\ (message.mt = "NewSessionTicket" => message.data \in Seq(Ticket))
  BY MessageTypes, FlightTypes
<1>2. /\ fed \in ClientState /\ fed.transcript = Append(m.transcript, message)
      /\ fed.txSeq = m.txSeq /\ fed.hsHash = m.hsHash
      /\ fed.hFinal = m.hFinal /\ fed.hCertV = m.hCertV
      /\ fed.rxSeq = m.rxSeq /\ fed.rxbuf = m.rxbuf /\ fed.recq = m.recq
  BY <1>1, FedTypes
<1>3. /\ fed.transcript \in Transcript
      /\ message.mt # "CertVerify" => CertHash(m.hCertV, fed.transcript)
      /\ message.mt = "CertVerify" => CertHash(fed.transcript, fed.transcript)
  BY <1>1, <1>2, AppendProperties, CertAppend DEF Transcript
<1>4. CASE message.mt = "CertVerify"
  <2>1. n = [fed EXCEPT !.hCertV = fed.transcript]
    BY <1>4 DEF recvMessage, certVerified
  <2>2. fed.transcript \in Hash
    BY <1>3 DEF Hash
  <2>. HIDE DEF fed, n
  <2>3. /\ n \in ClientState /\ n.hCertV = fed.transcript /\ n.transcript = fed.transcript
        /\ n.txSeq = fed.txSeq /\ n.hsHash = fed.hsHash /\ n.hFinal = fed.hFinal
        /\ n.rxSeq = fed.rxSeq /\ n.rxbuf = fed.rxbuf /\ n.recq = fed.recq
    BY <1>2, <2>1, <2>2 DEF ClientState
  <2>4. CertHash(n.hCertV, n.transcript)
    BY <1>3, <1>4, <2>3
  <2>. QED  BY <1>2, <2>3, <2>4 DEF n
<1>5. CASE message.mt = "NewSessionTicket"
  <2>1. n = [fed EXCEPT !.nst = message.data]
    BY <1>5 DEF recvMessage
  <2>. HIDE DEF fed, n
  <2>3. /\ n \in ClientState /\ n.hCertV = fed.hCertV /\ n.transcript = fed.transcript
        /\ n.txSeq = fed.txSeq /\ n.hsHash = fed.hsHash /\ n.hFinal = fed.hFinal
        /\ n.rxSeq = fed.rxSeq /\ n.rxbuf = fed.rxbuf /\ n.recq = fed.recq
    BY <1>1, <1>2, <1>5, <2>1 DEF ClientState
  <2>4. CertHash(n.hCertV, n.transcript)
    BY <1>2, <1>3, <1>5, <2>3
  <2>. QED  BY <1>2, <2>3, <2>4 DEF n
<1>6. CASE message.mt = "EncryptedExtensions"
  <2>1. n = fed
    BY <1>6 DEF recvMessage
  <2>. HIDE DEF fed, n
  <2>2. CertHash(n.hCertV, n.transcript)
    BY <1>2, <1>3, <1>6, <2>1
  <2>. QED  BY <1>2, <2>1, <2>2 DEF n
<1>. QED  BY <1>1, <1>4, <1>5, <1>6

LEMMA FlightStep ==
    ASSUME MmtlsInv, RecvFlight
    PROVE  MmtlsInv'
<1> DEFINE tr == srv.transcript
           n == mc.rxSeq + 1
           r == Head(mc.recq)
           m == r.msg
<1>1. /\ hpc = "flight" /\ mc.recq # <<>> /\ UNCHANGED <<srv, wire, up, cut>>
      /\ mc.txSeq = 1 /\ tr # <<>> /\ mc.hsHash = srv.hsHash
      /\ mc.transcript = SubSeq(tr, 1, n)
      /\ CertHash(mc.hCertV, mc.transcript) /\ fault # "own"
  BY DEF MmtlsInv, ClientAt, RecvFlight, receiving
<1>2. /\ tr \in Transcript /\ Len(tr) \in Nat /\ n \in 2..Len(tr) /\ mc.rxSeq \in Nat
      /\ r.key = key("handshake", "server", mc.hsHash) /\ r.seq = mc.rxSeq
      /\ m = IF n = Len(tr) THEN msg("Finished", tr) ELSE tr[n + 1]
      /\ n < Len(tr) => tr[n + 1] \in FlightMessage
  BY <1>1, InFlight
<1>3. opens(r, key("handshake", "server", mc.hsHash))
  BY <1>2 DEF opens
<1>4. /\ taken \in ClientState /\ taken.recq = Tail(mc.recq) /\ taken.rxSeq = n
      /\ taken.transcript = mc.transcript /\ taken.hsHash = mc.hsHash
      /\ taken.hCertV = mc.hCertV /\ taken.txSeq = 1 /\ taken.rxbuf = mc.rxbuf
  BY <1>1, TakenTypes
<1>5. mc.transcript \in Transcript
  <2>1. n \in 0..Len(tr)
    BY <1>2
  <2>. QED  BY <1>1, <1>2, <2>1, UpTo DEF Transcript
<1>6. CASE n < Len(tr)
  <2>1. m = tr[n + 1] /\ m \in FlightMessage
    BY <1>2, <1>6
  <2>2. m.mt # "Alert" /\ m.mt # "Finished"
    BY <2>1, FlightTypes
  <2>3. mc' = recvMessage(taken, m) /\ hpc' = hpc /\ fault' = fault
    BY <1>3, <2>2 DEF RecvFlight
  <2>. HIDE DEF m, r, n, tr
  <2>4. /\ mc' \in ClientState /\ mc'.transcript = Append(mc.transcript, m)
        /\ CertHash(mc'.hCertV, mc'.transcript)
        /\ mc'.recq = Tail(mc.recq) /\ mc'.rxSeq = n /\ mc'.rxbuf = mc.rxbuf /\ mc'.txSeq = 1
        /\ mc'.hsHash = mc.hsHash
    <3>1. CertHash(taken.hCertV, taken.transcript) /\ taken.transcript \in Transcript
      BY <1>1, <1>4, <1>5
    <3>2. /\ mc' \in ClientState /\ mc'.transcript = Append(taken.transcript, m)
          /\ CertHash(mc'.hCertV, mc'.transcript)
          /\ mc'.recq = taken.recq /\ mc'.rxSeq = taken.rxSeq /\ mc'.rxbuf = taken.rxbuf
          /\ mc'.txSeq = taken.txSeq /\ mc'.hsHash = taken.hsHash
      BY <1>4, <2>1, <2>3, <3>1, MessageStep
    <3>. QED  BY <1>4, <3>2
  <2>5. mc'.transcript = SubSeq(tr, 1, n + 1)
    <3>1. n \in 0..(Len(tr) - 1)
      BY <1>2, <1>6
    <3>. QED  BY <1>1, <1>2, <2>1, <2>4, <3>1, Longer DEF Transcript
  <2>6. MmtlsTypeOK' /\ ServerAt' /\ UpAt' /\ Stream' /\ fault' # "own"
    <3>1. hpc' \in ClientLabel /\ fault' # "own" /\ mc'.rxSeq = mc.rxSeq + 1 /\ mc'.txSeq = mc.txSeq
          /\ ~(mc.txSeq >= 2)
      BY <1>1, <2>3, <2>4 DEF ClientLabel, n
    <3>. QED  BY <1>1, <2>4, <3>1, Takes
  <2>7. ClientAt'
    <3>1. mc'.rxSeq \in 1..(Len(srv'.transcript) - 1) /\ ~(mc'.txSeq >= 2)
      BY <1>1, <1>2, <1>6, <2>4 DEF tr
    <3>2. mc'.transcript = SubSeq(srv'.transcript, 1, mc'.rxSeq + 1)
      BY <1>1, <2>4, <2>5 DEF tr
    <3>3. hpc' = "flight" /\ srv'.transcript # <<>> /\ mc'.hsHash = srv'.hsHash /\ mc'.txSeq = 1
      BY <1>1, <2>3, <2>4 DEF tr
    <3>. QED  BY <2>4, <3>1, <3>2, <3>3 DEF ClientAt
  <2>. QED  BY <2>6, <2>7 DEF MmtlsInv
<1>7. CASE n = Len(tr)
  <2>1. m = msg("Finished", tr) /\ tr \in Hash
    BY <1>2, <1>7 DEF Hash
  <2>2. m.mt = "Finished" /\ m.data = tr /\ m \in Message /\ m.mt # "Alert"
    BY <2>1, MessageTypes
  <2>3. mc.transcript = tr
    BY <1>1, <1>2, <1>7, SubSeqFull DEF Transcript
  <2> DEFINE fed == feed(taken, m)
  <2>4. mc' = [fed EXCEPT !.hFinal = mc.transcript] /\ hpc' = "sendFinished" /\ fault' = fault
    BY <1>3, <2>2, <2>3 DEF RecvFlight
  <2>. HIDE DEF m, r, n, tr
  <2>5. /\ fed \in ClientState /\ fed.txSeq = taken.txSeq /\ fed.hsHash = taken.hsHash
        /\ fed.hCertV = taken.hCertV /\ fed.rxSeq = taken.rxSeq
        /\ fed.rxbuf = taken.rxbuf /\ fed.recq = taken.recq
    BY <1>4, <2>2, FedTypes
  <2>. HIDE DEF fed
  <2>6. /\ mc' \in ClientState /\ mc'.hFinal = tr /\ mc'.txSeq = 1 /\ mc'.hsHash = mc.hsHash
        /\ mc'.hCertV = mc.hCertV /\ mc'.rxSeq = n /\ mc'.rxbuf = mc.rxbuf
        /\ mc'.recq = Tail(mc.recq)
    <3>1. tr \in Hash /\ mc' = [fed EXCEPT !.hFinal = tr]
      BY <2>1, <2>3, <2>4
    <3>. QED  BY <1>4, <2>5, <3>1 DEF ClientState
  <2>7. MmtlsTypeOK' /\ ServerAt' /\ UpAt' /\ Stream' /\ fault' # "own"
    <3>1. hpc' \in ClientLabel /\ fault' # "own" /\ mc'.rxSeq = mc.rxSeq + 1 /\ mc'.txSeq = mc.txSeq
          /\ ~(mc.txSeq >= 2)
      BY <1>1, <2>4, <2>6 DEF ClientLabel, n
    <3>. QED  BY <1>1, <2>6, <3>1, Takes
  <2>8. ClientAt'
    <3>1. ~(mc'.txSeq >= 2) /\ mc'.txSeq = 1 /\ mc'.rxSeq = Len(srv'.transcript)
      BY <1>1, <1>7, <2>6 DEF tr
    <3>2. hpc' = "sendFinished" /\ srv'.transcript # <<>> /\ mc'.hsHash = srv'.hsHash
          /\ mc'.hFinal = srv'.transcript /\ CertHash(mc'.hCertV, srv'.transcript)
      BY <1>1, <2>3, <2>4, <2>6 DEF tr
    <3>. QED  BY <3>1, <3>2 DEF ClientAt, Agreed
  <2>. QED  BY <2>7, <2>8 DEF MmtlsInv
<1>. QED  BY <1>2, <1>6, <1>7

LEMMA AnswerStep ==
    ASSUME MmtlsInv, RecvApp
    PROVE  MmtlsInv'
<1> DEFINE tr == srv.transcript
           r == Head(mc.recq)
<1>1. /\ hpc = "answer" /\ mc.recq # <<>> /\ UNCHANGED <<srv, wire, up, cut>>
      /\ mc.txSeq = 3 /\ Agreed /\ mc.rxSeq = Len(tr) /\ CertHash(mc.hCertV, tr) /\ fault # "own"
  BY DEF MmtlsInv, ClientAt, RecvApp, receiving
<1>2. r = ServerSent[Len(tr) + 1] /\ Len(tr) + 1 \in 1..Len(ServerSent)
  BY <1>1, AtHand
<1>3. /\ tr # <<>> /\ tr \in Transcript /\ Len(tr) \in Nat /\ srv.refused \in BOOLEAN
      /\ Len(ServerSent) = Len(tr) + (IF srv.st = "served" THEN 1 ELSE 0)
      /\ srv.st = "served" => ServerSent[Len(tr) + 1] = lastRecord(tr, srv.refused)
  BY <1>1, SentType, ClientTypes DEF MmtlsInv, Agreed
<1>4. srv.st = "served"
  <2>1. ASSUME srv.st # "served"  PROVE FALSE
    <3>1. Len(ServerSent) = Len(tr) + 0
      BY <1>3, <2>1
    <3>. HIDE DEF tr
    <3>2. Len(ServerSent) = Len(tr)
      BY <1>3, <3>1
    <3>3. ~(Len(tr) + 1 \in 1..Len(tr))
      BY <1>3
    <3>. QED  BY <1>2, <3>2, <3>3
  <2>. QED  BY <2>1
<1>5. r = lastRecord(tr, srv.refused)
  BY <1>2, <1>3, <1>4
<1>6. CASE srv.refused
  <2>1. r.ct = "alert"
    BY <1>5, <1>6 DEF lastRecord, record
  <2>2. hpc' = "failed" /\ fault' = "peer" /\ UNCHANGED mc
    BY <1>6, <2>1 DEF RecvApp, unexpected, fail
  <2>. QED  BY <1>1, <2>2, GivesUp
<1>7. CASE ~srv.refused
  <2>1. r.ct = "appData" /\ r.key = key("app", "server", tr) /\ r.seq = Len(tr)
    BY <1>5, <1>7 DEF lastRecord, record
  <2>2. opens(r, key("app", "server", mc.hFinal))
    BY <1>1, <2>1 DEF opens, Agreed
  <2>3. mc' = taken /\ hpc' = "answered" /\ fault' = fault
    BY <2>1, <2>2 DEF RecvApp
  <2>4. /\ mc' \in ClientState /\ mc'.recq = Tail(mc.recq) /\ mc'.rxSeq = mc.rxSeq + 1
        /\ mc'.hsHash = mc.hsHash /\ mc'.hFinal = mc.hFinal /\ mc'.hCertV = mc.hCertV
        /\ mc'.txSeq = mc.txSeq /\ mc'.rxbuf = mc.rxbuf
    BY <1>1, <2>3, TakenTypes
  <2>5. MmtlsTypeOK' /\ ServerAt' /\ UpAt' /\ Stream' /\ fault' # "own"
    <3>1. hpc' \in ClientLabel /\ fault' # "own"
      BY <1>1, <2>3 DEF ClientLabel
    <3>. QED  BY <1>1, <2>4, <3>1, Takes
  <2>6. ClientAt'
    BY <1>1, <1>4, <1>7, <2>3, <2>4 DEF ClientAt, Agreed
  <2>. QED  BY <2>5, <2>6 DEF MmtlsInv
<1>. QED  BY <1>3, <1>6, <1>7
------------------------------------------------------------------------------
(* Each step of the server and of the connection.                            *)

\* What comes first of what is under way to the server.
LEMMA FirstUp ==
    ASSUME MmtlsInv, up # <<>>
    PROVE  /\ ~cut /\ srv.st # "served"
           /\ Head(up) = clientRecord(srv.rx)
           /\ mc.txSeq = srv.rx + Len(up) /\ Len(up) \in Nat \ {0} /\ srv.rx \in Nat
           /\ mc.txSeq \in 0..3
           /\ Tail(up) \in Seq(Record) /\ Len(Tail(up)) = Len(up) - 1
           /\ \A i \in 1..Len(Tail(up)) : Tail(up)[i] = clientRecord(srv.rx + 1 + i - 1)
<1>1. /\ ~cut /\ srv.st # "served" /\ mc.txSeq = srv.rx + Len(up)
      /\ \A i \in 1..Len(up) : up[i] = clientRecord(srv.rx + i - 1)
  BY DEF MmtlsInv, UpAt
<1>2. up \in Seq(Record) /\ srv.rx \in Nat /\ mc.txSeq \in 0..3
  BY ClientTypes DEF MmtlsInv
<1>3. Len(up) \in Nat \ {0} /\ Head(up) = up[1]
  BY <1>2, EmptySeq
<1>4. /\ Tail(up) \in Seq(Record) /\ Len(Tail(up)) = Len(up) - 1
      /\ \A i \in 1..Len(Tail(up)) : Tail(up)[i] = up[i + 1]
  BY <1>2, HeadTailProperties
<1>5. srv.rx + 1 - 1 = srv.rx /\ 1 \in 1..Len(up)
  BY <1>2, <1>3
<1>6. \A i \in 1..(Len(up) - 1) : i + 1 \in 1..Len(up) /\ srv.rx + (i + 1) - 1 = srv.rx + 1 + i - 1
  BY <1>2, <1>3
<1>. QED  BY <1>1, <1>2, <1>3, <1>4, <1>5, <1>6

LEMMA OneLeft ==
    \A x \in 0..3, y \in Nat \ {0} :
        /\ x = 0 + y /\ ~(x >= 2) => x = 1 /\ y = 1
        /\ x = 2 + y => x = 3 /\ y = 1
  OBVIOUS

\* The key a record of the client is sealed with is the one the server has.
LEMMA SameKeys ==
    ASSUME MmtlsInv, up # <<>>
    PROVE  /\ Head(up).key = serverKey("client") /\ Head(up).seq = srv.rx
           /\ srv.st = "hello" => Head(up) = record("handshake", Nil, 0, clientHello) /\ mc.txSeq = 1 /\ Len(up) = 1
           /\ srv.st = "finished" => Head(up).msg = msg("Finished", srv.transcript)
           /\ srv.st = "auth" => mc.txSeq = 3 /\ Len(up) = 1
<1>1. /\ srv.st # "served" /\ Head(up) = clientRecord(srv.rx) /\ mc.txSeq = srv.rx + Len(up)
      /\ Len(up) \in Nat \ {0} /\ srv.rx \in Nat /\ mc.txSeq \in 0..3
  BY FirstUp
<1>2. /\ srv.st \in {"hello", "finished", "auth"}
      /\ srv.st = "hello" => srv.rx = 0 /\ srv.transcript = <<>>
      /\ srv.st = "finished" => srv.rx = 1
      /\ srv.st = "auth" => srv.rx = 2
      /\ mc.txSeq >= 2 => Agreed
  BY <1>1, ClientTypes DEF MmtlsInv, ServerAt, ClientAt
<1>3. CASE srv.st = "hello"
  <2>1. ~(mc.txSeq >= 2)
    BY <1>2, <1>3 DEF Agreed
  <2>2. mc.txSeq = 1 /\ Len(up) = 1
    <3>1. mc.txSeq = 0 + Len(up)
      BY <1>1, <1>2, <1>3
    <3>. QED  BY <1>1, <2>1, <3>1, OneLeft
  <2>3. Head(up) = record("handshake", Nil, 0, clientHello) /\ serverKey("client") = Nil
    BY <1>1, <1>2, <1>3 DEF clientRecord, serverKey
  <2>. QED  BY <1>2, <1>3, <2>2, <2>3 DEF record
<1>4. CASE srv.st = "finished"
  <2>1. Agreed
    BY <1>1, <1>2, <1>4
  <2>2. Head(up) = record("handshake", key("handshake", "client", srv.hsHash), 1, msg("Finished", srv.transcript))
    BY <1>1, <1>2, <1>4, <2>1 DEF clientRecord, Agreed
  <2>3. serverKey("client") = key("handshake", "client", srv.hsHash)
    BY <1>4 DEF serverKey
  <2>. QED  BY <1>2, <1>4, <2>2, <2>3 DEF record
<1>5. CASE srv.st = "auth"
  <2>1. mc.txSeq = 3 /\ Len(up) = 1
    <3>1. mc.txSeq = 2 + Len(up)
      BY <1>1, <1>2, <1>5
    <3>. QED  BY <1>1, <3>1, OneLeft
  <2>2. Agreed
    BY <1>2, <2>1
  <2>3. Head(up) = record("appData", key("app", "client", srv.transcript), 2, msg("ManualAuth", Nil))
    BY <1>1, <1>2, <1>5, <2>2 DEF clientRecord, Agreed
  <2>4. serverKey("client") = key("app", "client", srv.transcript)
    BY <1>5 DEF serverKey
  <2>. QED  BY <1>2, <1>5, <2>1, <2>3, <2>4 DEF record
<1>. QED  BY <1>2, <1>3, <1>4, <1>5

\* No record is rejected.
LEMMA NothingRejected ==
    ASSUME MmtlsInv
    PROVE  ~ServerRejects
  BY SameKeys DEF ServerRejects

LEMMA CutStep ==
    ASSUME MmtlsInv, Cut
    PROVE  MmtlsInv'
<1>1. hpc \notin {"closed", "failed"} /\ cut' = TRUE /\ up' = <<>> /\ UNCHANGED <<mc, hpc, srv, wire, fault>>
  BY DEF Cut
<1>2. MmtlsTypeOK'
  BY <1>1 DEF MmtlsInv, MmtlsTypeOK
<1>3. ClientAt'
  BY <1>1 DEF MmtlsInv, ClientAt, Agreed
<1>4. ServerAt' /\ UpAt'
  BY <1>1, ServerKept DEF MmtlsInv, UpAt
<1>5. Stream'
  BY <1>1, SentKept DEF MmtlsInv, Stream
<1>. QED  BY <1>1, <1>2, <1>3, <1>4, <1>5 DEF MmtlsInv

LEMMA DialStep ==
    ASSUME freshConnection, hpc' = "sendHello"
    PROVE  MmtlsInv'
<1>1. /\ mc' = newMmtlsClient /\ srv' = newServer /\ wire' = <<>> /\ up' = <<>> /\ cut' = FALSE
      /\ fault' = "none"
  BY DEF freshConnection
<1>2. MmtlsTypeOK'
  <2>1. /\ <<>> \in Seq(Message) /\ <<>> \in Seq(Ticket) /\ <<>> \in Seq(Unit) /\ <<>> \in Seq(Record)
        /\ <<>> \in Transcript /\ Nil \in Hash
    BY EmptySeq DEF Transcript, Hash
  <2>2. newMmtlsClient \in ClientState
    BY <2>1 DEF newMmtlsClient, ClientState
  <2>3. newServer \in ServerState
    BY <2>1 DEF newServer, ServerState
  <2>. QED  BY <1>1, <2>1, <2>2, <2>3 DEF MmtlsTypeOK, ClientLabel
<1>3. ClientAt' /\ ServerAt'
  BY <1>1 DEF ClientAt, ServerAt, newMmtlsClient, newServer, Agreed
<1>4. UpAt'
  BY <1>1 DEF UpAt, newMmtlsClient, newServer
<1>5. Stream'
  <2>1. ServerSent' = <<>> /\ Len(<<>>) = 0
    BY <1>1, EmptySeq DEF ServerSent, newServer
  <2>2. mc'.rxSeq = 0 /\ mc'.recq = <<>> /\ mc'.rxbuf = <<>>
    BY <1>1 DEF newMmtlsClient
  <2>. QED  BY <1>1, <2>1, <2>2 DEF Stream, Flow
<1>. QED  BY <1>1, <1>2, <1>3, <1>4, <1>5 DEF MmtlsInv

\* The server adds records to what it has sent.
LEMMA SendsMore ==
    ASSUME MmtlsInv, NEW T \in Seq(Record), mc' = mc, wire' = wire \o units(T),
           ServerSent' = ServerSent \o T
    PROVE  wire' \in Seq(Unit) /\ Stream'
<1>1. ServerSent \in Seq(Record)
  BY SentType DEF MmtlsInv
<1>2. /\ mc.rxSeq \in Nat /\ mc.recq \in Seq(Record) /\ mc.rxbuf \in Seq(UnitsOf(Record))
      /\ wire \in Seq(UnitsOf(Record))
  BY ClientTypes DEF MmtlsInv, Unit
<1>3. Flow(ServerSent, mc.rxSeq, mc.recq, mc.rxbuf, wire)
  BY DEF MmtlsInv, Stream
<1>4. /\ wire' \in Seq(UnitsOf(Record))
      /\ Flow(ServerSent \o T, mc.rxSeq, mc.recq, mc.rxbuf, wire')
  BY <1>1, <1>2, <1>3, FlowSend
<1>. QED  BY <1>4 DEF Stream, Unit

\* The server takes the record that comes next, and does not end.
LEMMA ServerTakes ==
    ASSUME MmtlsInv, up # <<>>, up' = Tail(up), mc' = mc, cut' = cut,
           srv'.rx = srv.rx + 1, srv'.st # "served"
    PROVE  UpAt'
<1>1. /\ ~cut /\ mc.txSeq = srv.rx + Len(up) /\ Len(up) \in Nat \ {0} /\ srv.rx \in Nat
      /\ Len(Tail(up)) = Len(up) - 1
      /\ \A i \in 1..Len(Tail(up)) : Tail(up)[i] = clientRecord(srv.rx + 1 + i - 1)
  BY FirstUp
<1>2. \A n : clientRecord(n)' = clientRecord(n)
  BY DEF clientRecord
<1>3. mc'.txSeq = srv'.rx + Len(up')
  BY <1>1
<1>4. ASSUME NEW i \in 1..Len(up')  PROVE up'[i] = clientRecord(srv.rx + i - 1)'
  <2>1. i \in 1..Len(Tail(up)) /\ up'[i] = Tail(up)[i]
    BY <1>4
  <2>2. up'[i] = clientRecord(srv'.rx + i - 1)
    BY <1>1, <2>1
  <2>. QED  BY <2>2 DEF clientRecord
<1>5. ~cut' /\ srv'.st # "served"
  BY <1>1
<1>. QED  BY <1>3, <1>4, <1>5 DEF UpAt

\* What the server's steps do to its state.
LEMMA ServerFlightStep ==
    ASSUME MmtlsInv, ServerFlight
    PROVE  MmtlsInv'
<1>1. /\ srv.st = "hello" /\ up # <<>> /\ ~cut /\ up' = Tail(up)
      /\ UNCHANGED <<mc, hpc, cut, fault>>
  BY DEF ServerFlight, serverReads
<1>2. /\ Head(up) = record("handshake", Nil, 0, clientHello) /\ mc.txSeq = 1
      /\ Tail(up) \in Seq(Record)
      /\ srv.transcript = <<>> /\ srv.rx = 0 /\ ~srv.refused /\ srv \in ServerState
  BY <1>1, SameKeys, FirstUp DEF MmtlsInv, ServerAt, MmtlsTypeOK
<1>3. Head(up).msg = clientHello
  BY <1>2 DEF record
<1>4. PICK f \in Flight, group \in {"P256", "other"} :
          LET hello == msg("ServerHello", group)
              hs == <<Head(up).msg, hello>>
              tr == hs \o f
              certs == {n \in DOMAIN f : f[n].mt = "CertVerify"}
              sealed == Append(f, msg("Finished", tr))
              records == <<record("handshake", Nil, 0, hello)>>
                         \o [n \in DOMAIN sealed |->
                                record("handshake", key("handshake", "server", hs), n, sealed[n])]
          IN /\ wire' = wire \o units(records)
             /\ srv' = [srv EXCEPT !.st = "finished", !.transcript = tr, !.hsHash = hs,
                          !.hCertV = IF certs = {} THEN Nil ELSE hs \o SubSeq(f, 1, Max(certs)),
                          !.tx = Len(records), !.rx = 1]
  BY DEF ServerFlight
<1> DEFINE hello == msg("ServerHello", group)
           hs == <<clientHello, hello>>
           tr == hs \o f
           certs == {n \in DOMAIN f : f[n].mt = "CertVerify"}
           h == IF certs = {} THEN Nil ELSE hs \o SubSeq(f, 1, Max(certs))
           fr == flightRecords(tr, hs)
<1>5. f \in Seq(FlightMessage) /\ clientHello \in HsMessage /\ clientHello.mt = "ClientHello"
      /\ hello \in HsMessage /\ hello.mt = "ServerHello" /\ hello.data \in {"P256", "other"}
  BY FlightAssumption, MessageTypes
<1>6. /\ wire' = wire \o units(fr)
      /\ srv' = [srv EXCEPT !.st = "finished", !.transcript = tr, !.hsHash = hs, !.hCertV = h,
                   !.tx = Len(fr), !.rx = 1]
  BY <1>3, <1>4, <1>5, FlightIsWhole
<1>7. /\ hs \in Transcript /\ tr \in Transcript /\ Len(tr) = Len(f) + 2 /\ Len(f) \in Nat
      /\ tr[1] = clientHello /\ tr[2] = hello
      /\ \A n \in 3..(Len(f) + 2) : tr[n] \in FlightMessage
  BY <1>5, FlightTranscript
<1>8. CertHash(h, tr) /\ h \in Hash
  BY <1>5, CertOfFlight
<1>. HIDE DEF hello, hs, tr, certs, h, fr
<1>9. hs \in Hash /\ Len(tr) \in Nat /\ Len(tr) >= 2 /\ tr # <<>>
  <2>1. Len(<<>>) = 0
    BY EmptySeq
  <2>. QED  BY <1>7, <2>1 DEF Hash
<1>10. fr \in Seq(Record) /\ Len(fr) = Len(tr)
  BY <1>7, <1>9, FlightRecordTypes DEF fr
<1>11. /\ srv' \in ServerState /\ srv'.st = "finished" /\ srv'.transcript = tr /\ srv'.hsHash = hs
       /\ srv'.hCertV = h /\ srv'.tx = Len(tr) /\ srv'.rx = 1 /\ srv'.refused = srv.refused
  <2>1. Len(fr) = Len(tr) /\ Len(tr) \in Nat
    BY <1>9, <1>10
  <2>2. PICK n \in Nat : n = Len(tr)
    BY <2>1
  <2>3. srv' = [srv EXCEPT !.st = "finished", !.transcript = tr, !.hsHash = hs, !.hCertV = h,
                           !.tx = n, !.rx = 1]
    BY <1>6, <2>1, <2>2
  <2>4. 1 \in 0..3
    OBVIOUS
  <2>. QED  BY <1>2, <1>7, <1>8, <1>9, <2>2, <2>3, <2>4 DEF ServerState
<1>12. wire' \in Seq(Unit) /\ Stream'
  <2>1. ServerSent = <<>>
    BY <1>2 DEF ServerSent
  <2>2. ServerSent' = fr \o <<>>
    BY <1>9, <1>11 DEF ServerSent, fr
  <2>3. fr \o <<>> = fr /\ <<>> \o fr = fr
    BY <1>10, ConcatEmptySeq
  <2>. QED  BY <1>1, <1>6, <1>10, <2>1, <2>2, <2>3, SendsMore
<1>13. MmtlsTypeOK'
  BY <1>1, <1>2, <1>11, <1>12 DEF MmtlsInv, MmtlsTypeOK
<1>14. ClientAt'
  <2>1. hpc \notin {"closed", "sendHello", "flight", "sendFinished", "connected", "sendApp", "answer", "answered"}
        /\ ~(mc.txSeq >= 2)
    BY <1>1, <1>2 DEF MmtlsInv, ClientAt, Agreed
  <2>. QED  BY <1>1, <2>1 DEF MmtlsInv, ClientAt
<1>15. ServerAt'
  <2>1. FlightSent'
    BY <1>5, <1>7, <1>8, <1>9, <1>11 DEF FlightSent, hs
  <2>. QED  BY <1>1, <1>2, <1>9, <1>11, <2>1 DEF ServerAt
<1>16. UpAt'
  BY <1>1, <1>2, <1>11, ServerTakes
<1>. QED  BY <1>1, <1>12, <1>13, <1>14, <1>15, <1>16 DEF MmtlsInv

LEMMA ServerReadsFinishedStep ==
    ASSUME MmtlsInv, ServerReadsFinished
    PROVE  MmtlsInv'
<1>1. /\ srv.st = "finished" /\ up # <<>> /\ up' = Tail(up) /\ UNCHANGED <<mc, hpc, cut, fault, wire>>
      /\ srv' = [srv EXCEPT !.st = "auth", !.rx = srv.rx + 1]
  BY DEF ServerReadsFinished, serverReads
<1>2. /\ srv \in ServerState /\ srv.rx = 1 /\ srv.transcript # <<>> /\ srv.tx = Len(srv.transcript)
      /\ ~srv.refused /\ FlightSent
  BY <1>1 DEF MmtlsInv, MmtlsTypeOK, ServerAt
<1>3. /\ srv' \in ServerState /\ srv'.st = "auth" /\ srv'.rx = 2 /\ srv'.transcript = srv.transcript
      /\ srv'.hsHash = srv.hsHash /\ srv'.hCertV = srv.hCertV /\ srv'.tx = srv.tx
      /\ srv'.refused = srv.refused
  <2>1. srv.rx + 1 = 2 /\ 2 \in 0..3 /\ srv.tx \in Nat
    BY <1>2 DEF ServerState
  <2>2. srv' = [srv EXCEPT !.st = "auth", !.rx = 2]
    BY <1>1, <2>1
  <2>. QED  BY <1>2, <2>1, <2>2 DEF ServerState
<1>4. Tail(up) \in Seq(Record) /\ mc.txSeq = 1 + Len(up) /\ Len(up) \in Nat \ {0}
  BY <1>1, <1>2, FirstUp
<1>5. MmtlsTypeOK'
  BY <1>1, <1>3, <1>4 DEF MmtlsInv, MmtlsTypeOK
<1>6. ClientAt'
  <2>1. hpc \notin {"closed", "sendHello", "answered"}
    BY <1>1 DEF MmtlsInv, ClientAt
  <2>. QED  BY <1>1, <1>3, <2>1 DEF MmtlsInv, ClientAt, Agreed
<1>7. ServerAt'
  <2>1. FlightSent'
    BY <1>2, <1>3 DEF FlightSent
  <2>2. srv'.rx <= mc'.txSeq
    BY <1>1, <1>3, <1>4
  <2>. QED  BY <1>2, <1>3, <2>1, <2>2 DEF ServerAt
<1>8. UpAt'
  <2>1. srv'.rx = srv.rx + 1 /\ srv'.st # "served"
    BY <1>2, <1>3
  <2>. QED  BY <1>1, <2>1, ServerTakes
<1>9. Stream'
  <2>1. ServerSent' = ServerSent
    BY <1>1, <1>2, <1>3 DEF ServerSent
  <2>. QED  BY <1>1, <2>1 DEF MmtlsInv, Stream
<1>. QED  BY <1>1, <1>5, <1>6, <1>7, <1>8, <1>9 DEF MmtlsInv

LEMMA OneRecord ==
    ASSUME NEW ct, NEW k, NEW t \in Nat, NEW m
    PROVE  [n \in DOMAIN <<m>> |-> record(ct, k, t + n - 1, <<m>>[n])] = <<record(ct, k, t, m)>>
<1> DEFINE f == [n \in DOMAIN <<m>> |-> record(ct, k, t + n - 1, <<m>>[n])]
           g == <<record(ct, k, t, m)>>
           x == record(ct, k, t, m)
<1>1. DOMAIN f = 1..1 /\ f[1] = x
  BY DEF record
<1>2. f \in [1..1 -> {x}]
  BY <1>1
<1>3. f \in Seq({x}) /\ Len(f) = 1
  BY <1>2, IsSeq
<1>4. g \in Seq({x}) /\ Len(g) = 1 /\ g[1] = x
  OBVIOUS
<1>. HIDE DEF f, g, x
<1>5. \A i \in 1..1 : f[i] = g[i]
  BY <1>1, <1>4
<1>. QED  BY <1>3, <1>4, <1>5, SeqEqual DEF f, g

LEMMA SendsOne ==
    ASSUME NEW ct, NEW k, NEW m, NEW t \in Nat, srv.tx = t, serverSends(ct, k, <<m>>)
    PROVE  wire' = wire \o units(<<record(ct, k, t, m)>>)
<1>1. wire' = wire \o units([n \in DOMAIN <<m>> |-> record(ct, k, t + n - 1, <<m>>[n])])
  BY DEF serverSends
<1>2. [n \in DOMAIN <<m>> |-> record(ct, k, t + n - 1, <<m>>[n])] = <<record(ct, k, t, m)>>
  BY OneRecord
<1>. QED  BY <1>1, <1>2

\* The last record of the server on a connection whose flight is sent.
LEMMA LastSent ==
    ASSUME MmtlsInv, srv.st = "auth", NEW x \in Record, srv'.transcript = srv.transcript,
           srv'.hsHash = srv.hsHash, srv'.st = "served",
           x = lastRecord(srv.transcript, srv'.refused),
           mc' = mc, wire' = wire \o units(<<x>>)
    PROVE  wire' \in Seq(Unit) /\ Stream'
<1> DEFINE fr == flightRecords(srv.transcript, srv.hsHash)
<1>1. srv.transcript # <<>>
  BY DEF MmtlsInv, ServerAt
<1>2. srv.transcript \in Transcript /\ Len(srv.transcript) >= 2 /\ srv.hsHash \in Hash
  BY <1>1, SentType DEF MmtlsInv
<1>3. fr \in Seq(Record)
  BY <1>2, FlightRecordTypes
<1>4. ServerSent = fr \o <<>> /\ fr \o <<>> = fr
  BY <1>1, <1>3, ConcatEmptySeq DEF ServerSent
<1>5. ServerSent' = fr \o <<x>>
  BY <1>1 DEF ServerSent
<1>6. <<x>> \in Seq(Record)
  OBVIOUS
<1>. HIDE DEF fr
<1>. QED  BY <1>4, <1>5, <1>6, SendsMore

\* After the last record nothing is read any more.
LEMMA LastStep ==
    ASSUME MmtlsInv, up # <<>>, srv.st = "auth", up' = Tail(up), UNCHANGED <<mc, hpc, cut, fault>>,
           srv' \in ServerState, srv'.st = "served",
           srv'.transcript = srv.transcript, srv'.hsHash = srv.hsHash, srv'.hCertV = srv.hCertV,
           srv'.rx = (IF srv'.refused THEN 2 ELSE 3), wire' \in Seq(Unit), Stream'
    PROVE  MmtlsInv'
<1>1. mc.txSeq = 3 /\ Len(up) = 1 /\ Tail(up) \in Seq(Record) /\ Len(Tail(up)) = Len(up) - 1
  BY SameKeys, FirstUp
<1>2. Tail(up) = <<>>
  <2>1. \A s \in Seq(Record) : s # <<>> => Len(s) \in Nat \ {0}
    BY EmptySeq
  <2>2. Len(Tail(up)) = 0
    BY <1>1
  <2>. QED  BY <1>1, <2>1, <2>2
<1>3. srv.transcript # <<>> /\ FlightSent
  BY DEF MmtlsInv, ServerAt
<1>4. MmtlsTypeOK'
  BY <1>1 DEF MmtlsInv, MmtlsTypeOK
<1>5. ClientAt'
  <2>1. hpc \notin {"closed", "sendHello", "answered"}
    BY DEF MmtlsInv, ClientAt
  <2>. QED  BY <2>1 DEF MmtlsInv, ClientAt, Agreed
<1>6. ServerAt'
  <2>1. FlightSent'
    BY <1>3 DEF FlightSent
  <2>. QED  BY <1>1, <1>3, <2>1 DEF ServerAt
<1>7. UpAt'
  BY <1>2 DEF UpAt
<1>. QED  BY <1>4, <1>5, <1>6, <1>7 DEF MmtlsInv

LEMMA ServerAnswersStep ==
    ASSUME MmtlsInv, ServerAnswers
    PROVE  MmtlsInv'
<1> DEFINE tr == srv.transcript
           x == lastRecord(tr, FALSE)
<1>1. /\ srv.st = "auth" /\ up # <<>> /\ up' = Tail(up) /\ UNCHANGED <<mc, hpc, cut, fault>>
      /\ serverSends("appData", serverKey("server"), <<msg("Answer", Nil)>>)
      /\ srv' = [srv EXCEPT !.st = "served", !.rx = srv.rx + 1, !.tx = srv.tx + 1]
  BY DEF ServerAnswers, serverReads
<1>2. /\ srv \in ServerState /\ srv.rx = 2 /\ tr # <<>> /\ srv.tx = Len(tr) /\ ~srv.refused
      /\ srv.refused \in BOOLEAN /\ srv.tx \in Nat /\ tr \in Transcript
  BY <1>1, ClientTypes DEF MmtlsInv, MmtlsTypeOK, ServerAt
<1>3. /\ srv' \in ServerState /\ srv'.st = "served" /\ srv'.rx = 3 /\ srv'.transcript = tr
      /\ srv'.hsHash = srv.hsHash /\ srv'.hCertV = srv.hCertV /\ srv'.refused = FALSE
  <2>1. srv.rx + 1 = 3 /\ 3 \in 0..3 /\ srv.tx + 1 \in Nat
    BY <1>2
  <2>2. PICK n \in Nat : n = srv.tx + 1
    BY <2>1
  <2>3. srv' = [srv EXCEPT !.st = "served", !.rx = 3, !.tx = n]
    BY <1>1, <2>1, <2>2
  <2>. QED  BY <1>2, <2>1, <2>2, <2>3 DEF ServerState
<1>4. wire' = wire \o units(<<record("appData", key("app", "server", tr), Len(tr), msg("Answer", Nil))>>)
  <2>1. serverKey("server") = key("app", "server", tr)
    BY <1>1 DEF serverKey
  <2>. QED  BY <1>1, <1>2, <2>1, SendsOne
<1>5. wire' = wire \o units(<<x>>) /\ x \in Record
  BY <1>2, <1>4, LastRecordTypes DEF lastRecord
<1>. HIDE DEF x
<1>6. wire' \in Seq(Unit) /\ Stream'
  <2>1. x = lastRecord(srv.transcript, srv'.refused)
    BY <1>3 DEF x
  <2>. QED  BY <1>1, <1>3, <1>5, <2>1, LastSent
<1>7. srv'.rx = (IF srv'.refused THEN 2 ELSE 3)
  BY <1>3
<1>. QED  BY <1>1, <1>3, <1>6, <1>7, LastStep

LEMMA ServerRefusesStep ==
    ASSUME MmtlsInv, ServerRefuses
    PROVE  MmtlsInv'
<1> DEFINE tr == srv.transcript
<1>1. /\ srv.st \in {"hello", "auth"} /\ up # <<>> /\ up' = Tail(up)
      /\ UNCHANGED <<mc, hpc, cut, fault>>
      /\ serverSends("alert", serverKey("server"), <<msg("Alert", Nil)>>)
      /\ srv' = [srv EXCEPT !.st = "served", !.refused = TRUE]
  BY DEF ServerRefuses
<1>2. srv \in ServerState /\ tr \in Transcript /\ srv.tx \in Nat
  BY ClientTypes DEF MmtlsInv, MmtlsTypeOK
<1>3. /\ srv' \in ServerState /\ srv'.st = "served" /\ srv'.rx = srv.rx /\ srv'.transcript = tr
      /\ srv'.hsHash = srv.hsHash /\ srv'.hCertV = srv.hCertV /\ srv'.refused = TRUE
  BY <1>1, <1>2 DEF ServerState
<1>4. CASE srv.st = "auth"
  <2> DEFINE x == lastRecord(tr, TRUE)
  <2>1. srv.rx = 2 /\ tr # <<>> /\ srv.tx = Len(tr)
    BY <1>4 DEF MmtlsInv, ServerAt
  <2>2. wire' = wire \o units(<<record("alert", key("app", "server", tr), Len(tr), msg("Alert", Nil))>>)
    <3>1. serverKey("server") = key("app", "server", tr)
      BY <1>4 DEF serverKey
    <3>. QED  BY <1>1, <1>2, <2>1, <3>1, SendsOne
  <2>3. wire' = wire \o units(<<x>>) /\ x \in Record
    BY <1>2, <2>2, LastRecordTypes DEF lastRecord
  <2>. HIDE DEF x
  <2>4. wire' \in Seq(Unit) /\ Stream'
    <3>1. x = lastRecord(srv.transcript, srv'.refused)
      BY <1>3 DEF x
    <3>. QED  BY <1>1, <1>3, <1>4, <2>3, <3>1, LastSent
  <2>5. srv'.rx = (IF srv'.refused THEN 2 ELSE 3)
    BY <1>3, <2>1
  <2>. QED  BY <1>1, <1>3, <1>4, <2>4, <2>5, LastStep
<1>5. CASE srv.st = "hello"
  <2> DEFINE x == record("alert", Nil, 0, msg("Alert", Nil))
  <2>1. srv.rx = 0 /\ tr = <<>> /\ srv.tx = 0 /\ ~srv.refused
    BY <1>5 DEF MmtlsInv, ServerAt
  <2>2. wire' = wire \o units(<<x>>)
    <3>1. serverKey("server") = Nil
      BY <1>5 DEF serverKey
    <3>. QED  BY <1>1, <1>2, <2>1, <3>1, SendsOne
  <2>3. x \in Record
    BY KeyTypes, RecordTypes, MessageTypes
  <2>4. ServerSent = <<>> /\ ServerSent' = <<x>>
    BY <1>3, <2>1 DEF ServerSent
  <2>. HIDE DEF x
  <2>5. <<x>> \in Seq(Record) /\ <<>> \o <<x>> = <<x>>
    BY <2>3, ConcatEmptySeq
  <2>6. wire' \in Seq(Unit) /\ Stream'
    BY <1>1, <2>2, <2>4, <2>5, SendsMore
  <2>7. mc.txSeq = 1 /\ Len(up) = 1 /\ Tail(up) \in Seq(Record) /\ Len(Tail(up)) = Len(up) - 1
    BY <1>1, <1>5, SameKeys, FirstUp
  <2>8. Tail(up) = <<>>
    <3>1. \A s \in Seq(Record) : s # <<>> => Len(s) \in Nat \ {0}
      BY EmptySeq
    <3>2. Len(Tail(up)) = 0
      BY <2>7
    <3>. QED  BY <2>7, <3>1, <3>2
  <2>9. MmtlsTypeOK'
    BY <1>1, <1>3, <2>6, <2>7 DEF MmtlsInv, MmtlsTypeOK
  <2>10. ClientAt'
    <3>1. hpc \notin {"closed", "sendHello", "flight", "sendFinished", "connected", "sendApp", "answer", "answered"}
          /\ ~(mc.txSeq >= 2)
      BY <1>1, <2>1, <2>7 DEF MmtlsInv, ClientAt, Agreed
    <3>. QED  BY <1>1, <3>1 DEF MmtlsInv, ClientAt
  <2>11. ServerAt'
    BY <1>1, <1>3, <2>1, <2>7 DEF ServerAt
  <2>12. UpAt'
    BY <1>1, <1>3, <2>8 DEF UpAt
  <2>. QED  BY <1>1, <2>6, <2>9, <2>10, <2>11, <2>12 DEF MmtlsInv
<1>. QED  BY <1>1, <1>4, <1>5
------------------------------------------------------------------------------
(* The inductive invariant of a login.                                       *)

DnsInv ==
    /\ time \in 0..MaxTime
    /\ dpc \in [Lookup -> DnsLabel] /\ now \in [Lookup -> 0..MaxTime]
    /\ parsed \in [Lookup -> Parsed \cup {None}]
    /\ \A l \in Lookup : dpc[l] # "returned" => parsed[l] = None
    /\ dnsCache # None =>
          dnsCache \in Entry /\ dnsCache.expiresAt = dnsCache.parsed.asked + CacheTTL
    /\ AnswersAreFresh

\* What is open is waiting for a deferred close, or is the handshake's own.
Connections ==
    /\ lpc \in {"lookup", "loop", "handshake", "auth", "short", "returned"}
    /\ open \subseteq deferred \cup (IF lpc = "handshake" THEN {tried} ELSE {})
    /\ lpc = "returned" => open = {}

\* The session of a login, once TakePSK has made it.
IsSession(s) ==
    /\ s = [psk |-> [ticket |-> s.psk.ticket, hash |-> srv.hCertV], shortlinks |-> s.shortlinks]
    /\ s.psk.ticket.type = 1 /\ s.psk.ticket.alive

SessionAt ==
    /\ lpc \notin {"short", "returned"} => session = None
    /\ lpc = "short" => srv.st = "served" /\ ~srv.refused /\ IsSession(session)
    /\ lpc = "returned" /\ session # None =>
          srv.st = "served" /\ ~srv.refused /\ IsSession(session) /\ session.shortlinks # <<>>

LoginInv == MmtlsInv /\ DnsInv /\ Connections /\ SessionAt

LEMMA MmtlsStart ==
    ASSUME MmtlsInit
    PROVE  MmtlsInv
<1>1. /\ mc = newMmtlsClient /\ srv = newServer /\ wire = <<>> /\ up = <<>> /\ cut = FALSE
      /\ fault = "none" /\ hpc = "closed"
  BY DEF MmtlsInit
<1>2. MmtlsTypeOK
  <2>1. /\ <<>> \in Seq(Message) /\ <<>> \in Seq(Ticket) /\ <<>> \in Seq(Unit) /\ <<>> \in Seq(Record)
        /\ <<>> \in Transcript /\ Nil \in Hash
    BY EmptySeq DEF Transcript, Hash
  <2>2. newMmtlsClient \in ClientState
    BY <2>1 DEF newMmtlsClient, ClientState
  <2>3. newServer \in ServerState
    BY <2>1 DEF newServer, ServerState
  <2>. QED  BY <1>1, <2>1, <2>2, <2>3 DEF MmtlsTypeOK, ClientLabel
<1>3. ClientAt /\ ServerAt
  BY <1>1 DEF ClientAt, ServerAt, newMmtlsClient, newServer, Agreed
<1>4. UpAt
  BY <1>1 DEF UpAt, newMmtlsClient, newServer
<1>5. Stream
  <2>1. ServerSent = <<>> /\ Len(<<>>) = 0
    BY <1>1, EmptySeq DEF ServerSent, newServer
  <2>2. mc.rxSeq = 0 /\ mc.recq = <<>> /\ mc.rxbuf = <<>>
    BY <1>1 DEF newMmtlsClient
  <2>. QED  BY <1>1, <2>1, <2>2 DEF Stream, Flow
<1>. QED  BY <1>1, <1>2, <1>3, <1>4, <1>5 DEF MmtlsInv

\* What the login does between two steps of its connection.
LEMMA MmtlsKept ==
    ASSUME MmtlsInv, UNCHANGED <<mc, srv, wire, up, cut, fault>>,
           hpc' = hpc \/ (hpc = "connected" /\ hpc' = "sendApp")
    PROVE  MmtlsInv'
<1>1. MmtlsTypeOK'
  BY DEF MmtlsInv, MmtlsTypeOK, ClientLabel
<1>2. ClientAt'
  BY DEF MmtlsInv, ClientAt, Agreed
<1>3. ServerAt' /\ UpAt'
  BY ServerKept, UpKept DEF MmtlsInv
<1>4. Stream'
  BY SentKept DEF MmtlsInv, Stream
<1>. QED  BY <1>1, <1>2, <1>3, <1>4 DEF MmtlsInv

LEMMA ConnectionStep ==
    ASSUME MmtlsInv, ClientStep
    PROVE  MmtlsInv'
  BY HelloStep, FinishedStep, SendFailsStep, ReadStep, ReadFailsStep, ServerHelloStep, FlightStep,
     AnswerStep DEF ClientStep

LEMMA PeerStep ==
    ASSUME MmtlsInv, ServerStep
    PROVE  MmtlsInv'
  BY ServerFlightStep, ServerReadsFinishedStep, ServerAnswersStep, ServerRefusesStep,
     NothingRejected DEF ServerStep

LEMMA MmtlsNext ==
    ASSUME MmtlsInv, [LoginNext]_loginVars
    PROVE  MmtlsInv'
<1>1. ASSUME UNCHANGED mmtlsVars  PROVE MmtlsInv'
  <2>1. hpc' = hpc /\ UNCHANGED <<mc, srv, wire, up, cut, fault>>
    BY <1>1 DEF mmtlsVars
  <2>2. hpc' = hpc \/ (hpc = "connected" /\ hpc' = "sendApp")
    BY <2>1
  <2>. QED  BY <2>1, <2>2, MmtlsKept
<1>2. CASE UNCHANGED loginVars
  BY <1>1, <1>2 DEF loginVars
<1>3. CASE LoginStep
  <2>1. CASE \/ LookupLong \/ GotTargets \/ LookupFailed \/ NoTargetLeft \/ DialFails
             \/ HandshakeFailed \/ BadLoginBuffer \/ AuthFailed \/ AnswerUseless \/ TakePSK
             \/ LookupShort \/ LoginSucceeds
    BY <1>1, <2>1 DEF LookupLong, GotTargets, LookupFailed, NoTargetLeft, DialFails,
       HandshakeFailed, BadLoginBuffer, AuthFailed, AnswerUseless, TakePSK, LookupShort, LoginSucceeds
  <2>2. CASE Dial
    BY <2>2, DialStep DEF Dial
  <2>3. CASE Connected
    BY <2>3, MmtlsKept DEF Connected
  <2>4. CASE Authenticate
    BY <2>4, AppStep DEF Authenticate
  <2>. QED  BY <1>3, <2>1, <2>2, <2>3, <2>4 DEF LoginStep
<1>4. CASE OwnLookup \/ Rival \/ ContextEnds \/ Time \/ Returned
  BY <1>1, <1>4 DEF OwnLookup, Rival, ContextEnds, Time, Returned, loginVars
<1>5. CASE Connection
  BY <1>5, ConnectionStep DEF Connection
<1>6. CASE Peer
  BY <1>6, PeerStep DEF Peer
<1>7. CASE Break
  BY <1>7, CutStep DEF Break
<1>. QED  BY <1>2, <1>3, <1>4, <1>5, <1>6, <1>7 DEF LoginNext
------------------------------------------------------------------------------
(* The DNS cache.                                                            *)

LEMMA DnsStart ==
    ASSUME DnsInit
    PROVE  DnsInv
<1>1. 0 \in 0..MaxTime
  BY MaxTimeAssumption
<1>. QED  BY <1>1 DEF DnsInit, DnsInv, DnsLabel, AnswersAreFresh

LEMMA DnsKept ==
    ASSUME DnsInv, UNCHANGED dnsVars
    PROVE  DnsInv'
  BY DEF DnsInv, dnsVars, AnswersAreFresh

LEMMA BeginStep ==
    ASSUME DnsInv, NEW l \in Lookup, Begin(l)
    PROVE  DnsInv'
<1>1. parsed[l] = None /\ parsed' = parsed
  BY DEF DnsInv, Begin
<1>2. /\ dpc' \in [Lookup -> DnsLabel] /\ now' \in [Lookup -> 0..MaxTime]
      /\ \A k \in Lookup : k # l => dpc'[k] = dpc[k] /\ now'[k] = now[k]
  BY DEF DnsInv, Begin, dnsAt, DnsLabel
<1>3. AnswersAreFresh'
  BY <1>1, <1>2 DEF DnsInv, AnswersAreFresh
<1>. QED  BY <1>1, <1>2, <1>3 DEF DnsInv, Begin

LEMMA ReadCacheStep ==
    ASSUME DnsInv, NEW l \in Lookup, ReadCache(l)
    PROVE  DnsInv'
<1>1. CASE dnsCache # None /\ dnsCache.expiresAt > now[l]
  <2>1. /\ dnsCache \in Entry /\ dnsCache.parsed \in Parsed
        /\ dnsCache.expiresAt = dnsCache.parsed.asked + CacheTTL
    BY <1>1 DEF DnsInv, Entry
  <2>2. /\ parsed' = [parsed EXCEPT ![l] = dnsCache.parsed] /\ dpc' = [dpc EXCEPT ![l] = "returned"]
        /\ UNCHANGED <<time, dnsCache, now>>
    BY <1>1 DEF ReadCache, dnsAt
  <2>3. now[l] < dnsCache.parsed.asked + CacheTTL
    BY <1>1, <2>1, CacheTTLAssumption, MaxTimeAssumption DEF DnsInv, Entry, Parsed
  <2>4. AnswersAreFresh'
    BY <2>1, <2>2, <2>3 DEF DnsInv, AnswersAreFresh
  <2>. QED  BY <2>1, <2>2, <2>4 DEF DnsInv, DnsLabel
<1>2. CASE ~(dnsCache # None /\ dnsCache.expiresAt > now[l])
  BY <1>2 DEF DnsInv, DnsLabel, ReadCache, dnsAt, AnswersAreFresh
<1>. QED  BY <1>1, <1>2

LEMMA AnsweredStep ==
    ASSUME DnsInv, NEW l \in Lookup, Answered(l)
    PROVE  DnsInv'
<1>1. PICK a \in Answer :
         /\ parsed' = [parsed EXCEPT ![l] = [answer |-> a, asked |-> now[l]]]
         /\ dnsCache' = IF CacheTTL > 0 THEN entry(l, [answer |-> a, asked |-> now[l]]) ELSE dnsCache
  BY DEF Answered
<1> DEFINE p == [answer |-> a, asked |-> now[l]]
<1>2. now[l] \in 0..MaxTime /\ p \in Parsed /\ p.asked = now[l]
  BY DEF DnsInv, Parsed
<1>3. entry(l, p) \in Entry /\ entry(l, p).expiresAt = p.asked + CacheTTL /\ entry(l, p).parsed = p
  BY <1>2, CacheTTLAssumption, MaxTimeAssumption DEF entry, Entry
<1>4. dpc' = [dpc EXCEPT ![l] = "returned"] /\ UNCHANGED <<time, now>>
  BY DEF Answered, dnsAt
<1>. HIDE DEF p
<1>5. parsed' = [parsed EXCEPT ![l] = p]
      /\ dnsCache' = IF CacheTTL > 0 THEN entry(l, p) ELSE dnsCache
  BY <1>1 DEF p
<1>6. AnswersAreFresh'
  BY <1>2, <1>4, <1>5 DEF DnsInv, AnswersAreFresh
<1>7. dnsCache' # None => dnsCache' \in Entry /\ dnsCache'.expiresAt = dnsCache'.parsed.asked + CacheTTL
  BY <1>3, <1>5 DEF DnsInv
<1>. QED  BY <1>2, <1>4, <1>5, <1>6, <1>7 DEF DnsInv, DnsLabel

LEMMA DnsStepKeeps ==
    ASSUME DnsInv, NEW l \in Lookup, DnsStep(l)
    PROVE  DnsInv'
<1>1. CASE Ask(l) \/ Unanswered(l)
  BY <1>1 DEF DnsInv, DnsLabel, Ask, Unanswered, dnsAt, AnswersAreFresh
<1>. QED  BY <1>1, ReadCacheStep, AnsweredStep DEF DnsStep

LEMMA DnsNext ==
    ASSUME DnsInv, [LoginNext]_loginVars
    PROVE  DnsInv'
<1>1. CASE UNCHANGED dnsVars
  BY <1>1, DnsKept
<1>2. CASE LookupLong \/ LookupShort
  BY <1>2, BeginStep, LookupAssumption DEF LookupLong, LookupShort
<1>3. CASE OwnLookup
  <2>1. PICK l \in {Long, Short} : ReadCache(l) \/ (~left /\ Ask(l)) \/ Answered(l) \/ Unanswered(l)
    BY <1>3 DEF OwnLookup
  <2>. QED  BY <2>1, LookupAssumption, DnsStepKeeps DEF DnsStep
<1>4. CASE Rival
  <2>1. PICK l \in Lookup \ {Long, Short} : Begin(l) \/ DnsStep(l)
    BY <1>4 DEF Rival
  <2>. QED  BY <2>1, BeginStep, DnsStepKeeps
<1>5. CASE Time
  <2>1. time' \in 0..MaxTime /\ UNCHANGED <<dnsCache, dpc, now, parsed>>
    BY <1>5, MaxTimeAssumption DEF Time, Tick, DnsInv
  <2>. QED  BY <2>1 DEF DnsInv, AnswersAreFresh
<1>6. ASSUME \/ GotTargets \/ LookupFailed \/ NoTargetLeft \/ Dial \/ DialFails \/ HandshakeFailed
             \/ Connected \/ Authenticate \/ BadLoginBuffer \/ AuthFailed \/ AnswerUseless
             \/ TakePSK \/ LoginSucceeds
      PROVE  UNCHANGED dnsVars
  BY <1>6 DEF GotTargets, LookupFailed, NoTargetLeft, Dial, DialFails, HandshakeFailed, Connected,
     Authenticate, BadLoginBuffer, AuthFailed, AnswerUseless, TakePSK, LoginSucceeds
<1>7. ASSUME \/ Connection \/ Peer \/ Break \/ ContextEnds \/ Returned \/ UNCHANGED loginVars
      PROVE  UNCHANGED dnsVars
  BY <1>7 DEF Connection, Peer, Break, ContextEnds, Returned, loginVars
<1>. QED  BY <1>1, <1>2, <1>3, <1>4, <1>5, <1>6, <1>7 DEF LoginNext, LoginStep
------------------------------------------------------------------------------
(* Connections and sessions.                                                 *)

LEMMA ConnectionsNext ==
    ASSUME Connections, [LoginNext]_loginVars
    PROVE  Connections'
<1>1. ASSUME UNCHANGED <<lpc, open, deferred, tried>>  PROVE Connections'
  BY <1>1 DEF Connections
<1>2. CASE \/ LookupLong \/ LookupShort \/ Authenticate \/ OwnLookup \/ Rival \/ Connection \/ Peer
           \/ Break \/ ContextEnds \/ Time \/ Returned \/ UNCHANGED loginVars
  BY <1>1, <1>2 DEF LookupLong, LookupShort, Authenticate, OwnLookup, Rival, Connection, Peer,
     Break, ContextEnds, Time, Returned, ownVars, loginVars
<1>3. CASE LookupFailed \/ NoTargetLeft \/ BadLoginBuffer \/ LoginSucceeds
  BY <1>3 DEF Connections, LookupFailed, NoTargetLeft, BadLoginBuffer, LoginSucceeds, return, loginAt
<1>4. CASE GotTargets \/ DialFails \/ AuthFailed \/ AnswerUseless \/ TakePSK
  BY <1>4 DEF Connections, GotTargets, DialFails, AuthFailed, AnswerUseless, TakePSK, loginAt, next
<1>5. CASE Dial
  BY <1>5 DEF Connections, Dial, loginAt, next
<1>6. CASE HandshakeFailed
  BY <1>6 DEF Connections, HandshakeFailed, loginAt, closed
<1>7. CASE Connected
  BY <1>7 DEF Connections, Connected, loginAt
<1>. QED  BY <1>2, <1>3, <1>4, <1>5, <1>6, <1>7 DEF LoginNext, LoginStep

\* The targets for the short link: never none.
LEMMA ShortTargets ==
    ASSUME DnsInv, NEW l \in Lookup
    PROVE  shortTargets(l) # <<>>
<1> DEFINE ts == IF parsed[l] = None THEN <<>> ELSE parsed[l].answer.short
           first == {i \in DOMAIN ts : ts[i].port = 80 /\ \A j \in 1..(i - 1) : ts[j] # ts[i]}
           place(k) == CHOOSE i \in first : Cardinality({j \in first : j <= i}) = k
           n == Cardinality(first)
           res == [k \in 1..n |-> ts[place(k)]]
<1>1. shortTargets(l) = IF first = {} THEN <<FallbackTarget>> ELSE res
  BY DEF shortTargets
<1>2. DOMAIN ts = 1..Len(ts) /\ Len(ts) \in Nat
  <2>1. ts \in Seq(Target)
    BY AnswerAssumption, EmptySeq DEF DnsInv, Parsed
  <2>. HIDE DEF ts
  <2>. QED  BY <2>1, LenProperties
<1>3. first \subseteq 1..Len(ts)
  BY <1>2
<1>. HIDE DEF first, ts
<1>4. IsFiniteSet(first)
  <2>1. 1 \in Int /\ Len(ts) \in Int
    BY <1>2
  <2>2. IsFiniteSet(1..Len(ts))
    BY <2>1, FS_Interval
  <2>. QED  BY <1>3, <2>2, FS_Subset
<1>5. CASE first # {}
  <2>1. n \in Nat \ {0}
    BY <1>4, <1>5, FS_CardinalityType, FS_EmptySet
  <2>. HIDE DEF n
  <2>2. DOMAIN res = 1..n /\ 1 \in 1..n /\ DOMAIN <<>> = {}
    BY <2>1
  <2>. HIDE DEF res
  <2>. QED  BY <1>1, <1>5, <2>2
<1>6. CASE first = {}
  <2>. HIDE DEF res
  <2>1. shortTargets(l) = <<FallbackTarget>> /\ DOMAIN <<FallbackTarget>> = 1..1 /\ DOMAIN <<>> = {}
    BY <1>1, <1>6
  <2>2. 1 \in 1..1
    OBVIOUS
  <2>. QED  BY <2>1, <2>2
<1>. QED  BY <1>5, <1>6

LEMMA SessionNext ==
    ASSUME LoginInv, [LoginNext]_loginVars
    PROVE  SessionAt'
<1>. USE DEF LoginInv
<1>1. ASSUME UNCHANGED <<lpc, session, srv>>  PROVE SessionAt'
  BY <1>1 DEF SessionAt, IsSession
<1>2. CASE \/ LookupLong \/ LookupShort \/ OwnLookup \/ Rival \/ Break \/ ContextEnds \/ Time
           \/ Returned \/ UNCHANGED loginVars
  BY <1>1, <1>2 DEF LookupLong, LookupShort, OwnLookup, Rival, Break, Cut, ContextEnds, Time,
     Returned, ownVars, loginVars, mmtlsVars
<1>3. ASSUME lpc \notin {"short", "returned"}, UNCHANGED <<lpc, session>>  PROVE SessionAt'
  BY <1>3 DEF SessionAt
<1>4. CASE Authenticate \/ Connection
  <2>1. lpc \notin {"short", "returned"} /\ UNCHANGED <<lpc, session>>
    BY <1>4 DEF Authenticate, Connection, ownVars
  <2>. QED  BY <1>3, <2>1
<1>5. CASE Peer
  <2>1. srv.st # "served"
    BY <1>5, NothingRejected DEF Peer, ServerStep, ServerFlight, ServerReadsFinished, ServerAnswers,
       ServerRefuses, serverReads
  <2>2. UNCHANGED <<lpc, session>>
    BY <1>5 DEF Peer, ownVars
  <2>. QED  BY <2>1, <2>2 DEF SessionAt
<1>6. CASE \/ GotTargets \/ LookupFailed \/ NoTargetLeft \/ Dial \/ DialFails \/ HandshakeFailed
           \/ Connected \/ BadLoginBuffer \/ AuthFailed \/ AnswerUseless
  <2>1. lpc \notin {"short", "returned"} /\ session' = session /\ lpc' # "short"
    BY <1>6 DEF GotTargets, LookupFailed, NoTargetLeft, Dial, DialFails, HandshakeFailed, Connected,
       BadLoginBuffer, AuthFailed, AnswerUseless, return, loginAt
  <2>. QED  BY <2>1 DEF SessionAt
<1>7. CASE TakePSK
  <2>1. lpc = "auth" /\ hpc = "answered" /\ session = None /\ srv' = srv
    BY <1>7 DEF TakePSK, mmtlsVars, SessionAt
  <2>2. CASE pskAvailable
    <3> DEFINE t == mc.nst[Min(accessTickets)]
    <3>1. Agreed /\ CertHash(mc.hCertV, srv.transcript) /\ srv.st = "served" /\ ~srv.refused
      BY <2>1 DEF MmtlsInv, ClientAt
    <3>2. mc.hCertV = srv.hCertV
      <4>1. CertHash(srv.hCertV, srv.transcript) /\ srv.transcript \in Seq(HsMessage)
        BY <3>1 DEF MmtlsInv, ServerAt, FlightSent, Agreed, MmtlsTypeOK, ServerState, Transcript
      <4>. QED  BY <3>1, <4>1, CertUnique
    <3>3. t.type = 1 /\ t.alive
      <4>1. accessTickets \in SUBSET Nat /\ accessTickets # {}
        <5>1. mc.nst \in Seq(Ticket)
          BY DEF MmtlsInv, MmtlsTypeOK, ClientState
        <5>2. DOMAIN mc.nst \subseteq Nat
          BY <5>1, LenProperties
        <5>. QED  BY <2>2, <5>2 DEF accessTickets, pskAvailable
      <4>2. Min(accessTickets) \in accessTickets
        BY <4>1, FirstPlace
      <4>. QED  BY <4>2 DEF accessTickets
    <3>4. /\ session' = [psk |-> [ticket |-> t, hash |-> srv.hCertV], shortlinks |-> <<>>]
          /\ lpc' = "short"
      BY <1>7, <2>2, <3>2 DEF TakePSK, loginAt
    <3>. HIDE DEF t
    <3>. QED  BY <2>1, <3>1, <3>3, <3>4 DEF SessionAt, IsSession
  <2>3. CASE ~pskAvailable
    BY <1>7, <2>1, <2>3 DEF TakePSK, loginAt, SessionAt
  <2>. QED  BY <2>2, <2>3
<1>8. CASE LoginSucceeds
  <2>1. /\ lpc = "short" /\ lpc' = "returned" /\ srv' = srv
        /\ session' = [session EXCEPT !.shortlinks = shortTargets(Short)]
    BY <1>8 DEF LoginSucceeds, return, loginAt, mmtlsVars
  <2>2. srv.st = "served" /\ ~srv.refused /\ IsSession(session) /\ shortTargets(Short) # <<>>
    BY <2>1, ShortTargets, LookupAssumption DEF SessionAt
  <2> DEFINE p == session.psk
             ts == shortTargets(Short)
  <2>3. session' = [psk |-> p, shortlinks |-> ts]
    BY <2>1, <2>2 DEF IsSession
  <2>4. p = [ticket |-> p.ticket, hash |-> srv.hCertV] /\ p.ticket.type = 1 /\ p.ticket.alive
    BY <2>2 DEF IsSession
  <2>. HIDE DEF p, ts
  <2>5. IsSession(session)'
    <3>1. session'.psk = p /\ session'.shortlinks = ts
      BY <2>3
    <3>. QED  BY <2>1, <2>3, <2>4, <3>1 DEF IsSession
  <2>6. session'.shortlinks # <<>>
    BY <2>2, <2>3 DEF ts
  <2>. QED  BY <2>1, <2>2, <2>5, <2>6 DEF SessionAt
<1>. QED  BY <1>2, <1>4, <1>5, <1>6, <1>7, <1>8 DEF LoginNext, LoginStep
------------------------------------------------------------------------------
(* The theorems.                                                             *)

LEMMA LoginAlways == LoginSpec => []LoginInv
<1>1. LoginInit => LoginInv
  <2> SUFFICES ASSUME LoginInit PROVE LoginInv
    OBVIOUS
  <2>1. MmtlsInv /\ DnsInv
    BY MmtlsStart, DnsStart DEF LoginInit
  <2>. QED  BY <2>1 DEF LoginInit, LoginInv, Connections, SessionAt
<1>2. LoginInv /\ [LoginNext]_loginVars => LoginInv'
  BY MmtlsNext, DnsNext, ConnectionsNext, SessionNext DEF LoginInv
<1>. QED  BY <1>1, <1>2, PTL DEF LoginSpec

\* The server takes every record of the client: keys and numbers of the two
\* sides stay the same over the handshake, however the stream is cut into reads.
THEOREM EveryRecordIsTaken == LoginSpec => []RecordsAccepted
<1>1. LoginInv => RecordsAccepted
  BY DEF LoginInv, MmtlsInv, MmtlsTypeOK, ServerState, RecordsAccepted
<1>. QED  BY <1>1, LoginAlways, PTL

\* With an honest server the client gives up because of the server or of the
\* connection only: no record fails to open, no Finished differs from the one
\* expected, and no wait is for what will not come.
THEOREM ClientIsNotAtFault == LoginSpec => []NeverOwnFault
<1>1. LoginInv => NeverOwnFault
  BY DEF LoginInv, MmtlsInv, NeverOwnFault
<1>. QED  BY <1>1, LoginAlways, PTL

\* The session a login returns is one its server can serve.
THEOREM SessionsAreUsable == LoginSpec => []SessionIsUsable
<1>1. ASSUME LoginInv, session # None  PROVE SessionIsUsable
  <2>1. lpc \in {"short", "returned"}
    BY <1>1 DEF LoginInv, SessionAt
  <2>2. srv.st = "served" /\ ~srv.refused /\ IsSession(session)
        /\ (lpc = "returned" => session.shortlinks # <<>>)
    BY <1>1, <2>1 DEF LoginInv, SessionAt
  <2>3. session.psk.hash = srv.hCertV
    BY <2>2 DEF IsSession
  <2>. QED  BY <2>2, <2>3 DEF SessionIsUsable, IsSession
<1>2. LoginInv => SessionIsUsable
  BY <1>1 DEF SessionIsUsable
<1>. QED  BY <1>2, LoginAlways, PTL

\* A login closes every connection it opened, wherever it fails or succeeds.
THEOREM NoConnectionIsLeftOpen == LoginSpec => []ConnectionsClosed
<1>1. LoginInv => ConnectionsClosed
  BY DEF LoginInv, Connections, ConnectionsClosed
<1>. QED  BY <1>1, LoginAlways, PTL

\* No lookup returns an answer that was too old when the lookup began, however
\* the lookups that share the cache overtake each other.
THEOREM NoStaleAnswer == LoginSpec => []AnswersAreFresh
<1>1. LoginInv => AnswersAreFresh
  BY DEF LoginInv, DnsInv
<1>. QED  BY <1>1, LoginAlways, PTL
=============================================================================
