---------------------------- MODULE CodecsProofs ----------------------------
(***************************************************************************)
(* What is encoded is decoded to what it was, for any bytes, lists,        *)
(* structures, answers and sizes of pieces.                                *)
(*                                                                         *)
(* A decoder is a loop.  Each is proved the same way: FlattenSeq of the    *)
(* entries has a running sum (Splits), what the loop has found after n     *)
(* turns is named by the entries themselves, and the run of the loop and   *)
(* that sequence are equal by induction over the turns (RunsEqual).  What a *)
(* decoder finds in E with one entry more is then a fact about one turn    *)
(* (FoundGrows, Decode: AddKept), and a value that was divided into many   *)
(* entries is found as a whole by induction over them (PieceByPiece,       *)
(* FoundDivided).                                                          *)
(***************************************************************************)
EXTENDS Codecs, FiniteSetTheorems, SequenceTheorems, WellFoundedInduction, TLAPS

-----------------------------------------------------------------------------
(* Induction over numbers, for a set of them, and what recursive functions   *)
(* over the numbers are.                                                     *)

LEMMA LeastNumber ==
  ASSUME NEW T \in SUBSET Nat, T # {}
  PROVE  \E m \in T : \A k \in T : m <= k
<1> DEFINE R == OpToRel(<, Nat)
<1>1. IsWellFoundedOn(R, Nat)
  BY NatLessThanWellFounded, Zenon
<1>2. \A x, y \in Nat : x < y => <<x, y>> \in R
  BY DEF OpToRel
<1> HIDE DEF R
<1>3. \E x \in T : \A y \in T : ~ (<<y, x>> \in R)
  BY <1>1, WFMin
<1>4. PICK m \in T : \A y \in T : ~ (<<y, m>> \in R)
  BY <1>3
<1>5. ASSUME NEW k \in T PROVE m <= k
  <2>1. m \in Nat /\ k \in Nat /\ ~(k < m)
    BY <1>2, <1>4
  <2> QED BY <2>1
<1> QED BY <1>4, <1>5

LEMMA InductionOverSet ==
  ASSUME NEW S, 0 \in S, \A n \in Nat : n \in S => n + 1 \in S
  PROVE  \A n \in Nat : n \in S
<1> DEFINE T == Nat \ S
<1> SUFFICES ASSUME T # {} PROVE FALSE
  OBVIOUS
<1>1. PICK m \in T : \A k \in T : m <= k
  BY LeastNumber
<1>2. m - 1 \in Nat /\ m - 1 \notin T
  BY <1>1
<1> QED BY <1>1, <1>2

(* F from x on, for l turns.                                                 *)
Runs(a, x, F, l) ==
  a[0] = x /\ \A i \in 1..l : a[i] = F[<<i, a[i - 1]>>]

LEMMA RunExists ==
  ASSUME NEW X, NEW x \in X, NEW F, NEW l \in Nat, \A i \in 1..l, v \in X : F[<<i, v>>] \in X
  PROVE  \E a \in [0..l -> X] : Runs(a, x, F, l)
<1> DEFINE S == {n \in Nat : n <= l => \E a \in [0..n -> X] : Runs(a, x, F, n)}
<1>1. 0 \in S
  <2> DEFINE a == [i \in 0..0 |-> x]
  <2>1. a \in [0..0 -> X] /\ Runs(a, x, F, 0)
    BY DEF Runs
  <2> QED BY <2>1
<1>2. \A n \in Nat : n \in S => n + 1 \in S
  <2> SUFFICES ASSUME NEW n \in Nat, n \in S, n + 1 <= l
               PROVE  \E b \in [0..(n + 1) -> X] : Runs(b, x, F, n + 1)
    OBVIOUS
  <2>1. PICK a \in [0..n -> X] : Runs(a, x, F, n)
    OBVIOUS
  <2> DEFINE b == [i \in 0..(n + 1) |-> IF i <= n THEN a[i] ELSE F[<<i, a[n]>>]]
  <2>2. b[0] = x
    BY <2>1 DEF Runs
  <2>3. b \in [0..(n + 1) -> X]
    <3> SUFFICES ASSUME NEW i \in 0..(n + 1), ~(i <= n) PROVE F[<<i, a[n]>>] \in X
      OBVIOUS
    <3>1. i \in 1..l /\ a[n] \in X
      OBVIOUS
    <3> QED BY <3>1
  <2>4. \A i \in 1..(n + 1) : b[i] = F[<<i, b[i - 1]>>]
    <3> TAKE i \in 1..(n + 1)
    <3>1. CASE i <= n
      <4>1. b[i] = a[i] /\ b[i - 1] = a[i - 1] /\ i \in 1..n
        BY <3>1
      <4> HIDE DEF b
      <4> QED BY <2>1, <4>1 DEF Runs
    <3>2. CASE i = n + 1
      <4>1. b[i] = F[<<i, a[n]>>] /\ b[i - 1] = a[n]
        BY <3>2
      <4> HIDE DEF b
      <4> QED BY <4>1
    <3> QED BY <3>1, <3>2
  <2> HIDE DEF b
  <2>5. Runs(b, x, F, n + 1)
    BY <2>2, <2>4 DEF Runs
  <2> QED BY <2>3, <2>5
<1> HIDE DEF S
<1>3. \A n \in Nat : n \in S
  BY <1>1, <1>2, InductionOverSet
<1> QED BY <1>3 DEF S

-----------------------------------------------------------------------------
(* FlattenSeq.                                                               *)

Join(s, t) == s \o t

(* f joins the members of ss up to the l-th.                                 *)
Flattens(f, ss, l) == f = [i \in 1..l |-> IF i = 1 THEN ss[i] ELSE Join(f[i - 1], ss[i])]

LEMMA FlattenedBy ==
  ASSUME NEW ss, Len(ss) # 0, \E f : Flattens(f, ss, Len(ss))
  PROVE  \E f : Flattens(f, ss, Len(ss)) /\ FlattenSeq(ss) = f[Len(ss)]
<1> DEFINE f == CHOOSE f : Flattens(f, ss, Len(ss))
<1>1. Flattens(f, ss, Len(ss))
  BY Zenon
<1>2. FlattenSeq(ss) = f[Len(ss)]
  BY Zenon DEF FlattenSeq, Flattens, Join
<1> QED BY <1>1, <1>2, Zenon

(* B is a set of sequences, of which a joins the members of ss.              *)
Joinable(B) ==
  <<>> \in B /\ (\A b \in B : Join(<<>>, b) = b) /\ \A b, c \in B : Join(b, c) \in B
Joining(B, ss, a) ==
  /\ a \in [0..Len(ss) -> B] /\ a[0] = <<>>
  /\ \A i \in 1..Len(ss) : a[i] = Join(a[i - 1], ss[i])

LEMMA FlatEmpty == FlattenSeq(<<>>) = <<>>
  BY DEF FlattenSeq

LEMMA FlatIs ==
  ASSUME NEW B, NEW ss \in Seq(B), Joinable(B), NEW a, Joining(B, ss, a)
  PROVE  FlattenSeq(ss) = a[Len(ss)]
<1>0. /\ \A b \in B : Join(<<>>, b) = b
      /\ a \in [0..Len(ss) -> B] /\ a[0] = <<>>
      /\ \A i \in 1..Len(ss) : a[i] = Join(a[i - 1], ss[i])
  BY DEF Joinable, Joining
<1>1. CASE Len(ss) = 0
  <2>1. ss = <<>>
    BY <1>1, EmptySeq
  <2> QED BY <1>0, <1>1, <2>1, FlatEmpty
<1>2. CASE Len(ss) # 0
  <2>1. PICK l \in Nat : l = Len(ss) /\ l # 0
    BY <1>2
  <2>2. a[1] = ss[1]
    <3>1. PICK i \in 1..Len(ss) : i = 1
      BY <2>1
    <3>2. i - 1 = 0
      BY <3>1
    <3>3. a[i] = Join(a[i - 1], ss[i]) /\ ss[i] \in B
      BY <1>0
    <3> QED BY <1>0, <3>1, <3>2, <3>3
  <2>3. \A i \in 1..l : a[i] = IF i = 1 THEN ss[i] ELSE Join(a[i - 1], ss[i])
    <3> TAKE i \in 1..l
    <3>1. CASE i = 1
      BY <2>2, <3>1
    <3>2. CASE i # 1
      BY <1>0, <2>1, <3>2
    <3> QED BY <3>1, <3>2
  <2>4. \E f : Flattens(f, ss, l)
    <3> DEFINE g == [i \in 1..l |-> a[i]]
    <3>1. \A i \in 1..l : g[i] = a[i] /\ (i # 1 => g[i - 1] = a[i - 1])
      OBVIOUS
    <3>2. g = [i \in 1..l |-> g[i]]
      OBVIOUS
    <3> HIDE DEF g
    <3>3. \A i \in 1..l : g[i] = IF i = 1 THEN ss[i] ELSE Join(g[i - 1], ss[i])
      BY <2>3, <3>1
    <3>4. Flattens(g, ss, l)
      BY <3>2, <3>3 DEF Flattens
    <3> QED BY <3>4
  <2>5. PICK f : Flattens(f, ss, l) /\ FlattenSeq(ss) = f[l]
    BY <2>1, <2>4, FlattenedBy
  <2>6. \A i \in 1..l : f[i] = IF i = 1 THEN ss[i] ELSE Join(f[i - 1], ss[i])
    BY <2>5 DEF Flattens
  <2> DEFINE S == {n \in Nat : n + 1 \in 1..l => f[n + 1] = a[n + 1]}
  <2>7. 0 \in S
    BY <2>3, <2>6
  <2>8. \A n \in Nat : n \in S => n + 1 \in S
    <3> SUFFICES ASSUME NEW n \in Nat, n \in S, n + 2 \in 1..l PROVE f[n + 2] = a[n + 2]
      OBVIOUS
    <3>1. f[n + 1] = a[n + 1] /\ (n + 2) - 1 = n + 1 /\ n + 2 # 1
      OBVIOUS
    <3>2. f[n + 2] = Join(f[(n + 2) - 1], ss[n + 2])
      BY <2>6, <3>1
    <3>3. a[n + 2] = Join(a[(n + 2) - 1], ss[n + 2])
      BY <2>3, <3>1
    <3> QED BY <3>1, <3>2, <3>3
  <2> HIDE DEF S
  <2>9. \A n \in Nat : n \in S
    BY <2>7, <2>8, InductionOverSet
  <2>10. PICK n \in Nat : n + 1 = l
    <3>1. l - 1 \in Nat /\ (l - 1) + 1 = l
      BY <2>1
    <3> QED BY <3>1
  <2>11. n + 1 \in 1..l /\ n \in S
    BY <2>9, <2>10
  <2>12. f[n + 1] = a[n + 1]
    BY <2>11 DEF S
  <2> QED BY <2>1, <2>5, <2>10, <2>12
<1> QED BY <1>1, <1>2

LEMMA FlatExists ==
  ASSUME NEW B, NEW ss \in Seq(B), Joinable(B)
  PROVE  \E a : Joining(B, ss, a)
<1>1. PICK l \in Nat : l = Len(ss)
  OBVIOUS
<1>2. PICK x \in B : x = <<>>
  BY Zenon DEF Joinable
<1> DEFINE F == [p \in (1..l) \X B |-> Join(p[2], ss[p[1]])]
<1>3. \A i \in 1..l, b \in B : F[<<i, b>>] = Join(b, ss[i]) /\ F[<<i, b>>] \in B
  BY <1>1 DEF Joinable
<1> HIDE DEF F
<1>4. \E a \in [0..l -> B] : Runs(a, x, F, l)
  BY <1>3, RunExists
<1>5. PICK a \in [0..l -> B] : Runs(a, x, F, l)
  BY <1>4
<1>6. ASSUME NEW i \in 1..l
      PROVE  a[i] = Join(a[i - 1], ss[i])
  <2>1. i - 1 \in 0..l
    OBVIOUS
  <2> QED BY <1>3, <1>5, <2>1 DEF Runs
<1>7. a[0] = <<>>
  BY <1>2, <1>5 DEF Runs
<1> QED BY <1>1, <1>5, <1>6, <1>7 DEF Joining

LEMMA FlatGrows ==
  ASSUME NEW B, Joinable(B), NEW ss \in Seq(B), NEW s \in B
  PROVE  FlattenSeq(ss) \in B /\ FlattenSeq(Append(ss, s)) = Join(FlattenSeq(ss), s)
<1>1. PICK l \in Nat : l = Len(ss)
  OBVIOUS
<1>2. PICK tt \in Seq(B) :
        /\ tt = Append(ss, s)
        /\ Len(tt) = l + 1 /\ tt[l + 1] = s /\ \A i \in 1..l : tt[i] = ss[i]
  <2>1. /\ Append(ss, s) \in Seq(B) /\ Len(Append(ss, s)) = l + 1
        /\ Append(ss, s)[l + 1] = s /\ \A i \in 1..l : Append(ss, s)[i] = ss[i]
    BY <1>1, AppendProperties
  <2> QED BY <2>1, Zenon
<1>3. PICK a : Joining(B, tt, a)
  BY FlatExists
<1>4. FlattenSeq(tt) = a[l + 1]
  BY <1>2, <1>3, FlatIs
<1>5. a \in [0..(l + 1) -> B] /\ a[0] = <<>> /\ \A i \in 1..(l + 1) : a[i] = Join(a[i - 1], tt[i])
  BY <1>2, <1>3 DEF Joining
<1> DEFINE b == [i \in 0..l |-> a[i]]
<1>6. \A i \in 0..l : b[i] = a[i] /\ a[i] \in B
  BY <1>5
<1>7. b \in [0..l -> B]
  BY <1>6
<1> HIDE DEF b
<1>8. \A i \in 1..l : b[i] = Join(b[i - 1], ss[i])
  <2> TAKE i \in 1..l
  <2>1. i \in 1..(l + 1) /\ i \in 0..l /\ i - 1 \in 0..l
    OBVIOUS
  <2>2. b[i] = a[i] /\ b[i - 1] = a[i - 1] /\ tt[i] = ss[i]
    BY <1>2, <1>6, <2>1
  <2>3. a[i] = Join(a[i - 1], tt[i])
    BY <1>5, <2>1
  <2> QED BY <2>2, <2>3
<1>9. Joining(B, ss, b)
  BY <1>1, <1>5, <1>6, <1>7, <1>8 DEF Joining
<1>10. FlattenSeq(ss) = b[l]
  BY <1>1, <1>9, FlatIs
<1>11. a[l + 1] = Join(a[l], s) /\ b[l] = a[l] /\ a[l] \in B
  <2>1. PICK i \in 1..(l + 1) : i = l + 1 /\ i - 1 = l
    OBVIOUS
  <2> QED BY <1>2, <1>5, <1>6, <2>1
<1> QED BY <1>2, <1>4, <1>10, <1>11

(* What is flattened, for sequences over T.                                  *)
LEMMA Joins ==
  ASSUME NEW T
  PROVE  Joinable(Seq(T))
<1>1. <<>> \in Seq(T)
  BY EmptySeq
<1>2. ASSUME NEW b \in Seq(T) PROVE <<>> \o b = b
  BY ConcatEmptySeq
<1>3. ASSUME NEW b \in Seq(T), NEW c \in Seq(T) PROVE b \o c \in Seq(T)
  BY ConcatProperties
<1> QED BY <1>1, <1>2, <1>3 DEF Joinable, Join

LEMMA FlatAppend ==
  ASSUME NEW T, NEW ss \in Seq(Seq(T)), NEW s \in Seq(T)
  PROVE  /\ FlattenSeq(ss) \in Seq(T)
         /\ FlattenSeq(Append(ss, s)) = FlattenSeq(ss) \o s
<1> DEFINE B == Seq(T)
<1>1. Joinable(B) /\ ss \in Seq(B) /\ s \in B
  BY Joins
<1> HIDE DEF B
<1>2. FlattenSeq(ss) \in B /\ FlattenSeq(Append(ss, s)) = Join(FlattenSeq(ss), s)
  BY <1>1, FlatGrows
<1> QED BY <1>2 DEF B, Join

LEMMA FlatOf ==
  ASSUME NEW T, NEW ss \in Seq(Seq(T)), NEW a \in [0..Len(ss) -> Seq(T)], a[0] = <<>>,
         \A i \in 1..Len(ss) : a[i] = a[i - 1] \o ss[i]
  PROVE  FlattenSeq(ss) = a[Len(ss)]
<1> DEFINE B == Seq(T)
<1>1. Joinable(B) /\ ss \in Seq(B) /\ Joining(B, ss, a)
  BY Joins DEF Joining, Join
<1> HIDE DEF B
<1> QED BY <1>1, FlatIs

-----------------------------------------------------------------------------
(* Pieces.                                                                   *)

LEMMA Ceiling ==
  ASSUME NEW k \in Nat, NEW n \in Nat, n # 0
  PROVE  \E c \in Nat : /\ c = (k + n - 1) \div n /\ c * n >= k
                        /\ (c = 0 => k = 0) /\ (c # 0 => k > 0 /\ (c - 1) * n < k)
<1>1. PICK m \in Nat : m = k + n - 1
  OBVIOUS
<1>2. PICK c \in Nat : c = m \div n
  BY <1>1
<1>3. PICK r \in Nat : r = m % n /\ r < n /\ m = n * c + r
  BY <1>1, <1>2
<1>4. (c - 1) * n = c * n - n /\ n * c = c * n
  OBVIOUS
<1>5. c = 0 => c * n = 0
  OBVIOUS
<1>6. c # 0 => c * n >= n
  OBVIOUS
<1> QED BY <1>1, <1>2, <1>3, <1>4, <1>5, <1>6

LEMMA TimesGrows ==
  ASSUME NEW a \in Nat, NEW b \in Nat, NEW n \in Nat, a <= b
  PROVE  a * n <= b * n
<1>1. PICK d \in Nat : b = a + d
  <2>1. b - a \in Nat /\ b = a + (b - a)
    OBVIOUS
  <2> QED BY <2>1
<1>2. b * n = a * n + d * n /\ d * n \in Nat /\ a * n \in Nat
  BY <1>1
<1> QED BY <1>2

(* Where the pieces of s end: each has a byte at least, and n at most.       *)
Cuts(s, n, c, cut) ==
  /\ cut \in [0..c -> 0..Len(s)] /\ cut[0] = 0 /\ cut[c] = Len(s)
  /\ \A i \in 1..c : cut[i - 1] < cut[i] /\ cut[i] <= cut[i - 1] + n
  /\ \A i \in 1..c : i # c => cut[i] = cut[i - 1] + n

LEMMA SliceIs ==
  ASSUME NEW T, NEW s \in Seq(T), NEW a \in Nat, NEW b \in Nat, a <= b, b <= Len(s)
  PROVE  /\ SubSeq(s, a + 1, b) \in Seq(T) /\ Len(SubSeq(s, a + 1, b)) = b - a
         /\ \A i \in 1..(b - a) : SubSeq(s, a + 1, b)[i] = s[a + i]
<1>1. PICK m \in Int : m = a + 1
  OBVIOUS
<1>2. \A i \in m..b : s[i] \in T
  BY <1>1
<1>3. /\ SubSeq(s, m, b) \in Seq(T)
      /\ Len(SubSeq(s, m, b)) = IF m <= b THEN b - m + 1 ELSE 0
      /\ \A i \in 1..(b - m + 1) : SubSeq(s, m, b)[i] = s[m + i - 1]
  BY <1>2, SubSeqProperties
<1>4. (IF m <= b THEN b - m + 1 ELSE 0) = b - a /\ b - m + 1 = b - a /\ \A i \in Nat : m + i - 1 = a + i
  BY <1>1
<1> QED BY <1>1, <1>3, <1>4

LEMMA PieceIs ==
  ASSUME NEW T, NEW s \in Seq(T), NEW n \in Nat, NEW p \in Nat, NEW q \in Nat,
         p < Len(s), q = IF p + n < Len(s) THEN p + n ELSE Len(s)
  PROVE  Take(From(s, p + 1), n) = SubSeq(s, p + 1, q)
<1>1. PICK l \in Nat : l = Len(s)
  OBVIOUS
<1> DEFINE t == From(s, p + 1)
           m == IF n < Len(t) THEN n ELSE Len(t)
           u == SubSeq(t, 1, m)
           v == SubSeq(s, p + 1, q)
<1>2. t \in Seq(T) /\ Len(t) = l - p /\ \A i \in 1..(l - p) : t[i] = s[p + i]
  <2>1. p <= l /\ t = SubSeq(s, p + 1, l)
    BY <1>1 DEF From
  <2> HIDE DEF t
  <2> QED BY <1>1, <2>1, SliceIs
<1>3. v \in Seq(T) /\ Len(v) = q - p /\ \A i \in 1..(q - p) : v[i] = s[p + i]
  <2>1. p <= q /\ q <= Len(s)
    OBVIOUS
  <2>2. v = SubSeq(s, p + 1, q)
    OBVIOUS
  <2> HIDE DEF v
  <2> QED BY <2>1, <2>2, SliceIs
<1> HIDE DEF t
<1>4. m \in Nat /\ m = q - p /\ m <= Len(t)
  BY <1>1, <1>2
<1> HIDE DEF m, v
<1>5. u \in Seq(T) /\ Len(u) = m /\ \A i \in 1..m : u[i] = t[i]
  <2>1. PICK z \in Nat : z = 0 /\ z + 1 = 1
    OBVIOUS
  <2>2. z <= m
    BY <1>4, <2>1
  <2>3. /\ SubSeq(t, z + 1, m) \in Seq(T) /\ Len(SubSeq(t, z + 1, m)) = m - z
        /\ \A i \in 1..(m - z) : SubSeq(t, z + 1, m)[i] = t[z + i]
    <3>1. t \in Seq(T) /\ m \in Nat /\ m <= Len(t)
      BY <1>2, <1>4
    <3> QED BY <2>2, <3>1, SliceIs
  <2>4. m - z = m /\ \A i \in 1..m : z + i = i
    BY <1>4, <2>1
  <2>5. u = SubSeq(t, z + 1, m)
    BY <2>1
  <2> HIDE DEF u
  <2>6. u \in Seq(T) /\ Len(u) = m - z /\ \A i \in 1..(m - z) : u[i] = t[z + i]
    BY <2>3, <2>5
  <2> QED BY <2>4, <2>6
<1> HIDE DEF u
<1>8. \A i \in 1..m : u[i] = v[i]
  <2> TAKE i \in 1..m
  <2>1. i \in 1..(l - p) /\ i \in 1..(q - p)
    BY <1>1, <1>2, <1>4
  <2> QED BY <1>2, <1>3, <1>5, <2>1
<1>9. u = v
  <2>1. Len(u) = Len(v) /\ \A i \in 1..Len(u) : u[i] = v[i]
    BY <1>3, <1>4, <1>5, <1>8
  <2> QED BY <1>3, <1>5, <2>1, SeqEqual
<1>10. Take(From(s, p + 1), n) = u
  BY DEF Take, t, m, u
<1> QED BY <1>9, <1>10 DEF v

LEMMA PiecesAre ==
  ASSUME NEW T, NEW s \in Seq(T), NEW n \in Nat, n # 0
  PROVE  \E c \in Nat : \E cut :
           /\ Cuts(s, n, c, cut) /\ (Len(s) # 0 => c # 0)
           /\ Pieces(s, n) = [i \in 1..c |-> SubSeq(s, cut[i - 1] + 1, cut[i])]
<1>1. PICK l \in Nat : l = Len(s)
  OBVIOUS
<1>2. PICK c \in Nat : /\ c = (l + n - 1) \div n /\ c * n >= l
                       /\ (c = 0 => l = 0) /\ (c # 0 => l > 0 /\ (c - 1) * n < l)
  BY Ceiling
<1> DEFINE cut == [i \in 0..c |-> IF i * n < l THEN i * n ELSE l]
<1>3. \A i \in 0..c : cut[i] = IF i * n < l THEN i * n ELSE l
  OBVIOUS
<1>4. \A i \in 0..c : i * n \in Nat
  OBVIOUS
<1>5. cut \in [0..c -> 0..l]
  BY <1>4
<1> HIDE DEF cut
<1>6. cut[0] = 0
  <2>1. 0 \in 0..c /\ 0 * n = 0
    OBVIOUS
  <2> QED BY <1>3, <2>1
<1>7. cut[c] = l
  <2>1. c \in 0..c
    OBVIOUS
  <2> QED BY <1>2, <1>3, <1>4, <2>1
<1>8. ASSUME NEW i \in 1..c
      PROVE  /\ cut[i - 1] < l /\ cut[i - 1] \in Nat /\ cut[i] \in Nat
             /\ cut[i] = IF cut[i - 1] + n < l THEN cut[i - 1] + n ELSE l
             /\ cut[i - 1] = (i - 1) * n
  <2>1. PICK j \in Nat : j = i - 1 /\ j <= c - 1 /\ j \in 0..c /\ i \in 0..c
    <3>1. i - 1 \in Nat
      OBVIOUS
    <3> QED BY <3>1
  <2>2. PICK k \in Nat : k = c - 1
    BY <2>1
  <2>3. j * n <= k * n
    BY <2>1, <2>2, TimesGrows
  <2>4. c # 0
    BY <2>1
  <2>5. j * n \in Nat /\ k * n \in Nat /\ j * n < l
    BY <1>2, <2>2, <2>3, <2>4
  <2>6. i * n = j * n + n /\ i * n \in Nat
    BY <2>1
  <2>7. cut[j] = j * n /\ cut[i] = IF i * n < l THEN i * n ELSE l
    BY <1>3, <2>1, <2>5
  <2> QED BY <2>1, <2>5, <2>6, <2>7
<1>9. Cuts(s, n, c, cut)
  <2>1. \A i \in 1..c : cut[i - 1] < cut[i] /\ cut[i] <= cut[i - 1] + n
    <3> TAKE i \in 1..c
    <3>1. PICK p \in Nat : p = cut[i - 1]
      BY <1>8
    <3>2. p < l /\ cut[i] = IF p + n < l THEN p + n ELSE l
      BY <1>8, <3>1
    <3> QED BY <3>1, <3>2
  <2>2. ASSUME NEW i \in 1..c, i # c PROVE cut[i] = cut[i - 1] + n
    <3>1. i + 1 \in 1..c /\ (i + 1) - 1 = i
      BY <2>2
    <3>2. cut[(i + 1) - 1] < l
      BY <1>8, <3>1
    <3>3. cut[i] < l
      BY <3>1, <3>2
    <3> QED BY <1>8, <3>3
  <2> QED BY <1>1, <1>5, <1>6, <1>7, <2>1, <2>2 DEF Cuts
<1>10. \A i \in 1..c : Take(From(s, (i - 1) * n + 1), n) = SubSeq(s, cut[i - 1] + 1, cut[i])
  <2> TAKE i \in 1..c
  <2>1. PICK p \in Nat : p = cut[i - 1] /\ p = (i - 1) * n /\ p < Len(s)
    BY <1>1, <1>8
  <2>2. PICK q \in Nat : q = cut[i] /\ q = IF p + n < Len(s) THEN p + n ELSE Len(s)
    BY <1>1, <1>8, <2>1
  <2>3. Take(From(s, p + 1), n) = SubSeq(s, p + 1, q)
    <3>1. p < Len(s)
      BY <2>1
    <3>2. q = IF p + n < Len(s) THEN p + n ELSE Len(s)
      BY <2>2
    <3> QED BY <3>1, <3>2, PieceIs
  <2> QED BY <2>1, <2>2, <2>3
<1>11. Pieces(s, n) = [i \in 1..c |-> SubSeq(s, cut[i - 1] + 1, cut[i])]
  <2>1. Pieces(s, n) = [i \in 1..c |-> Take(From(s, (i - 1) * n + 1), n)]
    BY <1>1, <1>2, Zenon DEF Pieces
  <2> QED BY <1>10, <2>1, Zenon
<1> QED BY <1>1, <1>2, <1>9, <1>11

LEMMA SliceSplit ==
  ASSUME NEW T, NEW s \in Seq(T), NEW a \in Nat, NEW b \in Nat, NEW c \in Nat,
         a <= b, b <= c, c <= Len(s)
  PROVE  SubSeq(s, a + 1, c) = SubSeq(s, a + 1, b) \o SubSeq(s, b + 1, c)
<1> DEFINE x == SubSeq(s, a + 1, b)
           y == SubSeq(s, b + 1, c)
           z == SubSeq(s, a + 1, c)
<1>1. x \in Seq(T) /\ Len(x) = b - a /\ \A i \in 1..(b - a) : x[i] = s[a + i]
  <2>1. b <= Len(s) /\ x = SubSeq(s, a + 1, b)
    OBVIOUS
  <2> HIDE DEF x
  <2> QED BY <2>1, SliceIs
<1>2. y \in Seq(T) /\ Len(y) = c - b /\ \A i \in 1..(c - b) : y[i] = s[b + i]
  <2>1. y = SubSeq(s, b + 1, c)
    OBVIOUS
  <2> HIDE DEF y
  <2> QED BY <2>1, SliceIs
<1>3. z \in Seq(T) /\ Len(z) = c - a /\ \A i \in 1..(c - a) : z[i] = s[a + i]
  <2>1. a <= c /\ z = SubSeq(s, a + 1, c)
    OBVIOUS
  <2> HIDE DEF z
  <2> QED BY <2>1, SliceIs
<1> HIDE DEF x, y, z
<1>4. x \o y \in Seq(T) /\ Len(x \o y) = c - a
      /\ \A i \in 1..(c - a) : (x \o y)[i] = IF i <= b - a THEN x[i] ELSE y[i - (b - a)]
  <2>1. x \o y \in Seq(T) /\ Len(x \o y) = Len(x) + Len(y)
        /\ \A i \in 1..(Len(x) + Len(y)) : (x \o y)[i] = IF i <= Len(x) THEN x[i] ELSE y[i - Len(x)]
    BY <1>1, <1>2, ConcatProperties
  <2>2. Len(x) + Len(y) = c - a
    BY <1>1, <1>2
  <2> QED BY <1>1, <2>1, <2>2
<1>5. \A i \in 1..(c - a) : z[i] = (x \o y)[i]
  <2> TAKE i \in 1..(c - a)
  <2>1. CASE i <= b - a
    BY <1>1, <1>3, <1>4, <2>1
  <2>2. CASE ~(i <= b - a)
    <3>1. PICK j \in 1..(c - b) : j = i - (b - a) /\ b + j = a + i
      <4>1. i - (b - a) \in 1..(c - b) /\ b + (i - (b - a)) = a + i
        BY <2>2
      <4> QED BY <4>1
    <3>2. y[j] = s[b + j]
      BY <1>2
    <3> QED BY <1>3, <1>4, <2>2, <3>1, <3>2
  <2> QED BY <2>1, <2>2
<1>6. z = x \o y
  BY <1>3, <1>4, <1>5, SeqEqual
<1> QED BY <1>6 DEF x, y, z

LEMMA SliceNone ==
  ASSUME NEW T, NEW s \in Seq(T), NEW a \in Nat
  PROVE  SubSeq(s, a + 1, a) = <<>>
<1>1. a + 1 \in Int /\ a \in Int /\ a < a + 1
  OBVIOUS
<1> QED BY <1>1, SubSeqEmpty

LEMMA SliceAll ==
  ASSUME NEW T, NEW s \in Seq(T), NEW z \in Nat, z = 0
  PROVE  SubSeq(s, z + 1, Len(s)) = s
<1>1. z + 1 = 1
  OBVIOUS
<1> QED BY <1>1, SubSeqFull

(* What is cut in slices is their concatenation.                             *)
LEMMA SlicesUpTo ==
  ASSUME NEW T, NEW s \in Seq(T), NEW c \in Nat, NEW cut \in [0..c -> 0..Len(s)],
         cut[0] = 0, \A i \in 1..c : cut[i - 1] <= cut[i]
  PROVE  FlattenSeq([i \in 1..c |-> SubSeq(s, cut[i - 1] + 1, cut[i])]) = SubSeq(s, 1, cut[c])
<1> DEFINE ss == [i \in 1..c |-> SubSeq(s, cut[i - 1] + 1, cut[i])]
           a == [i \in 0..c |-> SubSeq(s, 1, cut[i])]
<1>1. PICK z \in Nat : z = 0 /\ z + 1 = 1
  OBVIOUS
<1>2. \A i \in 0..c : cut[i] \in Nat /\ cut[i] <= Len(s)
  OBVIOUS
<1>3. ASSUME NEW i \in 0..c
      PROVE  a[i] \in Seq(T) /\ a[i] = SubSeq(s, z + 1, cut[i])
  <2>1. a[i] = SubSeq(s, z + 1, cut[i])
    BY <1>1
  <2> HIDE DEF a
  <2>2. PICK q \in Nat : q = cut[i] /\ z <= q /\ q <= Len(s)
    BY <1>1, <1>2
  <2>3. SubSeq(s, z + 1, q) \in Seq(T)
    BY <2>2, SliceIs
  <2> QED BY <2>1, <2>2, <2>3
<1>4. ASSUME NEW i \in 1..c
      PROVE  ss[i] \in Seq(T) /\ a[i] = a[i - 1] \o ss[i]
  <2>8. ss[i] = SubSeq(s, cut[i - 1] + 1, cut[i])
    BY Zenon
  <2> HIDE DEF ss, a
  <2>1. i - 1 \in 0..c /\ i \in 0..c /\ ss[i] = SubSeq(s, cut[i - 1] + 1, cut[i])
    BY <2>8
  <2>2. PICK p \in Nat : p = cut[i - 1]
    BY <1>2, <2>1
  <2>3. PICK q \in Nat : q = cut[i]
    BY <1>2, <2>1
  <2>4. z <= p /\ p <= q /\ q <= Len(s)
    BY <1>1, <1>2, <2>1, <2>2, <2>3
  <2>5. SubSeq(s, z + 1, q) = SubSeq(s, z + 1, p) \o SubSeq(s, p + 1, q)
    BY <2>4, SliceSplit
  <2>6. SubSeq(s, p + 1, q) \in Seq(T)
    BY <2>4, SliceIs
  <2>7. a[i] = SubSeq(s, z + 1, q) /\ a[i - 1] = SubSeq(s, z + 1, p) /\ ss[i] = SubSeq(s, p + 1, q)
    BY <1>3, <2>1, <2>2, <2>3
  <2> QED BY <2>5, <2>6, <2>7
<1>5. ss = [i \in 1..c |-> ss[i]] /\ a = [i \in 0..c |-> a[i]]
  <2>1. ss = [i \in 1..c |-> ss[i]]
    OBVIOUS
  <2>2. a = [i \in 0..c |-> a[i]]
    OBVIOUS
  <2> QED BY <2>1, <2>2, Zenon
<1>6. a[0] = <<>> /\ a[c] = SubSeq(s, 1, cut[c])
  <2> HIDE DEF a, ss
  <2>1. 0 \in 0..c /\ c \in 0..c
    OBVIOUS
  <2>2. a[0] = SubSeq(s, z + 1, z) /\ a[c] = SubSeq(s, z + 1, cut[c])
    BY <1>1, <1>3, <2>1
  <2> QED BY <1>1, <2>2, SliceNone
<1> HIDE DEF ss, a
<1>7. ss \in Seq(Seq(T)) /\ Len(ss) = c
  <2> DEFINE B == Seq(T)
  <2>1. \A i \in 1..c : ss[i] \in B
    BY <1>4
  <2> HIDE DEF B
  <2>2. ss \in [1..c -> B]
    BY <1>5, <2>1
  <2>3. ss \in Seq(B) /\ Len(ss) = c
    BY <2>2
  <2> QED BY <2>3 DEF B
<1>8. a \in [0..c -> Seq(T)]
  <2> DEFINE B == Seq(T)
  <2>1. \A i \in 0..c : a[i] \in B
    BY <1>3
  <2> HIDE DEF B
  <2>2. a \in [0..c -> B]
    BY <1>5, <2>1
  <2> QED BY <2>2 DEF B
<1>9. FlattenSeq(ss) = a[c]
  BY <1>4, <1>6, <1>7, <1>8, FlatOf
<1> QED BY <1>6, <1>9 DEF ss

LEMMA SlicesJoined ==
  ASSUME NEW T, NEW s \in Seq(T), NEW c \in Nat, NEW cut \in [0..c -> 0..Len(s)],
         cut[0] = 0, cut[c] = Len(s), \A i \in 1..c : cut[i - 1] <= cut[i]
  PROVE  FlattenSeq([i \in 1..c |-> SubSeq(s, cut[i - 1] + 1, cut[i])]) = s
<1>1. FlattenSeq([i \in 1..c |-> SubSeq(s, cut[i - 1] + 1, cut[i])]) = SubSeq(s, 1, cut[c])
  BY SlicesUpTo
<1> QED BY <1>1, SubSeqFull

LEMMA SliceOfSlice ==
  ASSUME NEW T, NEW s \in Seq(T), NEW k \in Nat, NEW p \in Nat, NEW q \in Nat,
         p <= q, k + q <= Len(s)
  PROVE  SubSeq(SubSeq(s, k + 1, Len(s)), p + 1, q) = SubSeq(s, (k + p) + 1, k + q)
<1> DEFINE r == SubSeq(s, k + 1, Len(s))
           u == SubSeq(r, p + 1, q)
           v == SubSeq(s, (k + p) + 1, k + q)
<1>1. PICK l \in Nat : l = Len(s)
  OBVIOUS
<1>2. r \in Seq(T) /\ Len(r) = l - k /\ \A i \in 1..(l - k) : r[i] = s[k + i]
  <2>1. k <= l /\ r = SubSeq(s, k + 1, l)
    BY <1>1
  <2> HIDE DEF r
  <2> QED BY <1>1, <2>1, SliceIs
<1>3. v \in Seq(T) /\ Len(v) = q - p /\ \A i \in 1..(q - p) : v[i] = s[(k + p) + i]
  <2>1. PICK a \in Nat, b \in Nat : a = k + p /\ b = k + q /\ a <= b /\ b - a = q - p
    OBVIOUS
  <2>2. v = SubSeq(s, a + 1, b)
    BY <2>1
  <2> HIDE DEF v, r, u
  <2>3. v \in Seq(T) /\ Len(v) = b - a /\ \A i \in 1..(b - a) : v[i] = s[a + i]
    BY <2>1, <2>2, SliceIs
  <2> QED BY <2>1, <2>3
<1> HIDE DEF r, v
<1>4. u \in Seq(T) /\ Len(u) = q - p /\ \A i \in 1..(q - p) : u[i] = r[p + i]
  <2>1. q <= Len(r) /\ u = SubSeq(r, p + 1, q)
    BY <1>1, <1>2
  <2> HIDE DEF u
  <2> QED BY <1>2, <2>1, SliceIs
<1> HIDE DEF u
<1>5. \A i \in 1..(q - p) : u[i] = v[i]
  <2> TAKE i \in 1..(q - p)
  <2>1. PICK j \in 1..(l - k) : j = p + i /\ k + j = (k + p) + i
    <3>1. p + i \in 1..(l - k) /\ k + (p + i) = (k + p) + i
      BY <1>1
    <3> QED BY <3>1
  <2>2. r[j] = s[k + j]
    BY <1>2
  <2> QED BY <1>3, <1>4, <2>1, <2>2
<1>6. Len(u) = Len(v) /\ \A i \in 1..Len(u) : u[i] = v[i]
  BY <1>3, <1>4, <1>5
<1>7. u = v
  BY <1>3, <1>4, <1>6, SeqEqual
<1> QED BY <1>7 DEF r, u, v

-----------------------------------------------------------------------------
(* Encodings one after the other: what is before the (i + 1)-th of them, a[i], *)
(* and what is left, tl[i].                                                  *)
Rests(ss, a, tl, l) ==
  /\ tl[l] = <<>> /\ \A i \in 1..l : tl[i - 1] = Join(ss[i], tl[i])
  /\ \A i \in 0..l : Join(a[i], tl[i]) = tl[0]

Associates(B) ==
  /\ \A b \in B : Join(b, <<>>) = b
  /\ \A b, c, d \in B : Join(Join(b, c), d) = Join(b, Join(c, d))

LEMMA JoinsAssociate ==
  ASSUME NEW T
  PROVE  Associates(Seq(T))
<1>1. ASSUME NEW b \in Seq(T) PROVE b \o <<>> = b
  BY ConcatEmptySeq
<1>2. ASSUME NEW b \in Seq(T), NEW c \in Seq(T), NEW d \in Seq(T)
      PROVE  (b \o c) \o d = b \o (c \o d)
  BY ConcatAssociative
<1> QED BY <1>1, <1>2 DEF Associates, Join

LEMMA RestsExist ==
  ASSUME NEW B, NEW ss \in Seq(B), Joinable(B), Associates(B), NEW a, Joining(B, ss, a)
  PROVE  \E tl \in [0..Len(ss) -> B] : Rests(ss, a, tl, Len(ss)) /\ tl[0] = FlattenSeq(ss)
<1>1. PICK l \in Nat : l = Len(ss)
  OBVIOUS
<1>2. PICK x \in B : x = <<>>
  BY Zenon DEF Joinable
<1> DEFINE F == [p \in (1..l) \X B |-> Join(ss[l + 1 - p[1]], p[2])]
<1>3. \A i \in 1..l, b \in B : F[<<i, b>>] = Join(ss[l + 1 - i], b) /\ F[<<i, b>>] \in B
  <2> TAKE i \in 1..l, b \in B
  <2>1. PICK j \in 1..l : j = l + 1 - i
    <3>1. l + 1 - i \in 1..l
      OBVIOUS
    <3> QED BY <3>1
  <2>2. ss[j] \in B
    BY <1>1
  <2>3. Join(ss[j], b) \in B
    BY <2>2 DEF Joinable
  <2>4. F[<<i, b>>] = Join(ss[l + 1 - i], b)
    OBVIOUS
  <2> HIDE DEF F
  <2> QED BY <2>1, <2>3, <2>4
<1> HIDE DEF F
<1>4. \E t \in [0..l -> B] : Runs(t, x, F, l)
  BY <1>3, RunExists
<1>5. PICK t \in [0..l -> B] : Runs(t, x, F, l)
  BY <1>4
<1> DEFINE tl == [i \in 0..l |-> t[l - i]]
<1>6. ASSUME NEW i \in 0..l PROVE tl[i] = t[l - i] /\ tl[i] \in B
  OBVIOUS
<1>7. tl = [i \in 0..l |-> tl[i]]
  OBVIOUS
<1> HIDE DEF tl
<1>8. tl \in [0..l -> B]
  BY <1>6, <1>7
<1>9. tl[l] = <<>>
  <2>1. l \in 0..l /\ l - l = 0
    OBVIOUS
  <2> QED BY <1>2, <1>5, <1>6, <2>1 DEF Runs
<1>10. ASSUME NEW i \in 1..l PROVE tl[i - 1] = Join(ss[i], tl[i])
  <2>1. PICK j \in 1..l : j = l + 1 - i /\ j = l - (i - 1) /\ j - 1 = l - i /\ l + 1 - j = i
    <3>1. l + 1 - i \in 1..l
      OBVIOUS
    <3> QED BY <3>1
  <2>2. i \in 0..l /\ i - 1 \in 0..l /\ j - 1 \in 0..l
    BY <2>1
  <2>3. tl[i - 1] = t[j] /\ tl[i] = t[j - 1] /\ t[j - 1] \in B
    BY <1>6, <2>1, <2>2
  <2>4. t[j] = F[<<j, t[j - 1]>>]
    BY <1>5 DEF Runs
  <2> QED BY <1>3, <2>1, <2>3, <2>4
<1>11. a \in [0..l -> B] /\ a[0] = <<>> /\ \A i \in 1..l : a[i] = Join(a[i - 1], ss[i])
  BY <1>1 DEF Joining
<1> DEFINE S == {n \in Nat : n <= l => Join(a[n], tl[n]) = tl[0]}
<1>12. 0 \in S
  <2>1. 0 \in 0..l
    OBVIOUS
  <2>2. tl[0] \in B
    BY <1>8, <2>1
  <2> QED BY <1>11, <2>2 DEF Joinable
<1>13. \A n \in Nat : n \in S => n + 1 \in S
  <2> SUFFICES ASSUME NEW n \in Nat, n \in S, n + 1 <= l
               PROVE  Join(a[n + 1], tl[n + 1]) = tl[0]
    OBVIOUS
  <2>1. PICK i \in 1..l : i = n + 1 /\ i - 1 = n /\ i \in 0..l /\ n \in 0..l
    OBVIOUS
  <2>2. a[i] = Join(a[n], ss[i]) /\ tl[n] = Join(ss[i], tl[i])
    BY <1>10, <1>11, <2>1
  <2>3. a[n] \in B /\ ss[i] \in B /\ tl[i] \in B
    BY <1>1, <1>6, <1>11, <2>1
  <2>4. Join(Join(a[n], ss[i]), tl[i]) = Join(a[n], Join(ss[i], tl[i]))
    BY <2>3 DEF Associates
  <2> QED BY <2>1, <2>2, <2>4
<1> HIDE DEF S
<1>14. \A n \in Nat : n \in S
  BY <1>12, <1>13, InductionOverSet
<1>15. \A i \in 0..l : Join(a[i], tl[i]) = tl[0]
  BY <1>14 DEF S
<1>16. tl[0] = FlattenSeq(ss)
  <2>1. l \in 0..l
    OBVIOUS
  <2>2. Join(a[l], tl[l]) = tl[0] /\ a[l] \in B
    BY <1>11, <1>15, <2>1
  <2>3. FlattenSeq(ss) = a[l]
    BY <1>1, FlatIs
  <2> QED BY <1>9, <2>2, <2>3 DEF Associates
<1>17. Rests(ss, a, tl, l)
  BY <1>9, <1>10, <1>15 DEF Rests
<1> QED BY <1>1, <1>8, <1>16, <1>17

(* The same for sequences over T.                                            *)
Splits(T, ss, a, tl) ==
  /\ a \in [0..Len(ss) -> Seq(T)] /\ tl \in [0..Len(ss) -> Seq(T)]
  /\ a[0] = <<>> /\ \A i \in 1..Len(ss) : a[i] = a[i - 1] \o ss[i]
  /\ tl[Len(ss)] = <<>> /\ \A i \in 1..Len(ss) : tl[i - 1] = ss[i] \o tl[i]
  /\ \A i \in 0..Len(ss) : FlattenSeq(ss) = a[i] \o tl[i]
  /\ tl[0] = FlattenSeq(ss)

LEMMA RestsOf ==
  ASSUME NEW T, NEW ss \in Seq(Seq(T))
  PROVE  \E a, tl : Splits(T, ss, a, tl)
<1> DEFINE B == Seq(T)
<1>1. Joinable(B) /\ Associates(B) /\ ss \in Seq(B)
  BY Joins, JoinsAssociate
<1> HIDE DEF B
<1>2. PICK a : Joining(B, ss, a)
  BY <1>1, FlatExists
<1>3. PICK tl \in [0..Len(ss) -> B] : Rests(ss, a, tl, Len(ss)) /\ tl[0] = FlattenSeq(ss)
  BY <1>1, <1>2, RestsExist
<1>4. a \in [0..Len(ss) -> B]
  BY <1>2 DEF Joining
<1>5. Splits(T, ss, a, tl)
  BY <1>2, <1>3, <1>4, Zenon DEF B, Joining, Rests, Join, Splits
<1> QED BY <1>5

SameRuns(f, g, N) ==
  f[0] = g[0] /\ \A n \in 1..N : f[n - 1] = g[n - 1] => f[n] = g[n]

LEMMA RunsEqual ==
  ASSUME NEW N \in Nat, NEW f, NEW g, SameRuns(f, g, N)
  PROVE  \A n \in 0..N : f[n] = g[n]
<1> DEFINE S == {n \in Nat : n <= N => f[n] = g[n]}
<1>0. f[0] = g[0] /\ \A n \in 1..N : f[n - 1] = g[n - 1] => f[n] = g[n]
  BY DEF SameRuns
<1>1. 0 \in S
  BY <1>0
<1>2. \A n \in Nat : n \in S => n + 1 \in S
  <2> SUFFICES ASSUME NEW n \in Nat, n <= N => f[n] = g[n], n + 1 <= N PROVE f[n + 1] = g[n + 1]
    OBVIOUS
  <2>1. n + 1 \in 1..N /\ (n + 1) - 1 = n /\ n <= N
    OBVIOUS
  <2> QED BY <1>0, <2>1
<1> HIDE DEF S
<1>3. \A n \in Nat : n \in S
  BY <1>1, <1>2, InductionOverSet
<1> QED BY <1>3 DEF S

-----------------------------------------------------------------------------
(* TLV lists: what Decode makes of entries.                                  *)

LEMMA SecondPart ==
  ASSUME NEW T, NEW p \in Seq(T), NEW q \in Seq(T)
  PROVE  From(p \o q, Len(p) + 1) = q /\ Len(p \o q) = Len(p) + Len(q)
<1> DEFINE s == p \o q
           u == SubSeq(s, Len(p) + 1, Len(s))
<1>1. PICK k \in Nat : k = Len(p)
  OBVIOUS
<1>2. PICK m \in Nat : m = Len(q)
  OBVIOUS
<1>3. s \in Seq(T) /\ Len(s) = Len(p) + Len(q)
      /\ \A i \in 1..(Len(p) + Len(q)) : s[i] = IF i <= Len(p) THEN p[i] ELSE q[i - Len(p)]
  BY ConcatProperties
<1> HIDE DEF s
<1>4. k <= k + m /\ Len(s) = k + m
  BY <1>1, <1>2, <1>3
<1>5. u = SubSeq(s, k + 1, k + m)
  BY <1>1, <1>4
<1> HIDE DEF u
<1>6. u \in Seq(T) /\ Len(u) = (k + m) - k /\ \A i \in 1..((k + m) - k) : u[i] = s[k + i]
  BY <1>3, <1>4, <1>5, SliceIs
<1>7. \A i \in 1..m : u[i] = q[i]
  <2> TAKE i \in 1..m
  <2>1. i \in 1..((k + m) - k) /\ k + i \in 1..(k + m) /\ ~(k + i <= k) /\ (k + i) - k = i
    OBVIOUS
  <2>2. s[k + i] = IF k + i <= k THEN p[k + i] ELSE q[(k + i) - k]
    BY <1>1, <1>2, <1>3, <2>1
  <2> QED BY <1>6, <2>1, <2>2
<1>8. u = q
  <2>1. Len(u) = Len(q) /\ \A i \in 1..Len(u) : u[i] = q[i]
    BY <1>2, <1>6, <1>7
  <2> QED BY <1>6, <2>1, SeqEqual
<1> QED BY <1>3, <1>8 DEF From, u, s

(* A header, what it is of, and the rest.                                    *)
Headed(b, h, v, r) ==
  /\ Len(b) = Len(h) + Len(v) + Len(r) /\ \A i \in 1..Len(h) : b[i] = h[i]
  /\ SubSeq(b, Len(h) + 1, Len(h) + Len(v)) = v /\ From(b, Len(h) + Len(v) + 1) = r

LEMMA HeadAndRest ==
  ASSUME NEW T, NEW h \in Seq(T), NEW v \in Seq(T), NEW r \in Seq(T)
  PROVE  Headed((h \o v) \o r, h, v, r)
<1> DEFINE e == h \o v
           b == e \o r
           u == SubSeq(b, Len(h) + 1, Len(h) + Len(v))
<1>1. PICK j \in Nat : j = Len(h)
  OBVIOUS
<1>2. PICK k \in Nat : k = Len(v)
  OBVIOUS
<1>3. PICK m \in Nat : m = Len(r)
  OBVIOUS
<1>4. e \in Seq(T) /\ Len(e) = Len(h) + Len(v)
      /\ \A i \in 1..(Len(h) + Len(v)) : e[i] = IF i <= Len(h) THEN h[i] ELSE v[i - Len(h)]
  BY ConcatProperties
<1> HIDE DEF e
<1>5. b \in Seq(T) /\ Len(b) = Len(e) + Len(r)
      /\ \A i \in 1..(Len(e) + Len(r)) : b[i] = IF i <= Len(e) THEN e[i] ELSE r[i - Len(e)]
  <2>1. e \in Seq(T) /\ r \in Seq(T)
    BY <1>4
  <2> QED BY <2>1, ConcatProperties
<1>6. From(b, Len(e) + 1) = r
  BY <1>4, SecondPart
<1> HIDE DEF b
<1>7. Len(b) = j + k + m /\ Len(e) = j + k
  BY <1>1, <1>2, <1>3, <1>4, <1>5
<1>8. ASSUME NEW i \in 1..(j + k)
      PROVE  b[i] = e[i]
  <2>1. i \in 1..(Len(e) + Len(r)) /\ i <= Len(e)
    BY <1>3, <1>7
  <2> QED BY <1>5, <2>1
<1>9. ASSUME NEW i \in 1..j
      PROVE  b[i] = h[i]
  <2>1. i \in 1..(j + k) /\ i \in 1..(Len(h) + Len(v)) /\ i <= Len(h)
    BY <1>1, <1>2
  <2> QED BY <1>4, <1>8, <2>1
<1>10. ASSUME NEW i \in 1..k
       PROVE  b[j + i] = v[i]
  <2>1. PICK n \in 1..(j + k) : n = j + i
    <3>1. j + i \in 1..(j + k)
      OBVIOUS
    <3> QED BY <3>1
  <2>2. n \in 1..(Len(h) + Len(v)) /\ ~(n <= Len(h)) /\ n - Len(h) = i
    BY <1>1, <1>2, <2>1
  <2> QED BY <1>4, <1>8, <2>1, <2>2
<1>11. u = v
  <2>1. j <= j + k /\ j + k <= Len(b) /\ (j + k) - j = k /\ j + k \in Nat
    BY <1>3, <1>7
  <2>2. u = SubSeq(b, j + 1, j + k)
    BY <1>1, <1>2
  <2> HIDE DEF u
  <2>3. u \in Seq(T) /\ Len(u) = (j + k) - j /\ \A i \in 1..((j + k) - j) : u[i] = b[j + i]
    BY <1>5, <2>1, <2>2, SliceIs
  <2>4. \A i \in 1..k : u[i] = v[i]
    BY <1>10, <2>1, <2>3
  <2>5. Len(u) = Len(v) /\ \A i \in 1..Len(u) : u[i] = v[i]
    BY <1>2, <2>1, <2>3, <2>4
  <2> QED BY <2>3, <2>5, SeqEqual
<1>12. Len(b) = Len(h) + Len(v) + Len(r) /\ \A i \in 1..Len(h) : b[i] = h[i]
  BY <1>1, <1>2, <1>3, <1>7, <1>9
<1>13. From(b, Len(h) + Len(v) + 1) = r
  BY <1>4, <1>6
<1>14. Headed(b, h, v, r)
  BY <1>11, <1>12, <1>13 DEF Headed, u
<1> QED BY <1>14 DEF b, e

LEMMA EntryHeaded ==
  ASSUME NEW e \in TlvItems, NEW rest \in Bytes
  PROVE  LET b == Entry(e) \o rest
         IN /\ b # <<>> /\ b[1] = e[1] /\ b[2] = Len(e[2]) /\ Len(b) = Len(e[2]) + 2 + Len(rest)
            /\ SubSeq(b, 3, b[2] + 2) = e[2] /\ From(b, b[2] + 3) = rest /\ Entry(e) \in Seq(Nat)
<1> DEFINE h == <<e[1], Len(e[2])>>
           v == e[2]
           b == (h \o v) \o rest
<1>1. v \in Seq(Nat) /\ e[1] \in Nat /\ rest \in Seq(Nat)
  BY DEF TlvItems, Bytes
<1>2. PICK k \in Nat : k = Len(v)
  BY <1>1
<1>3. PICK m \in Nat : m = Len(rest)
  BY <1>1
<1>4. h \in Seq(Nat) /\ Len(h) = 2 /\ h[1] = e[1] /\ h[2] = k
  BY <1>1, <1>2
<1>5. b = Entry(e) \o rest
  BY DEF Entry
<1>6. h \o v \in Seq(Nat) /\ Entry(e) = h \o v
  BY <1>1, <1>4, ConcatProperties DEF Entry
<1> HIDE DEF h, v
<1>7. Headed(b, h, v, rest)
  BY <1>1, <1>4, HeadAndRest
<1>8. b \in Seq(Nat)
  BY <1>1, <1>6, ConcatProperties
<1> HIDE DEF b
<1>9. /\ Len(b) = 2 + k + m /\ b[1] = h[1] /\ b[2] = h[2]
      /\ SubSeq(b, 2 + 1, 2 + k) = v /\ From(b, 2 + k + 1) = rest
  BY <1>2, <1>3, <1>4, <1>7 DEF Headed
<1>10. b # <<>>
  <2>1. Len(b) # 0
    BY <1>9
  <2> QED BY <2>1, EmptySeq
<1>11. 2 + 1 = 3 /\ 2 + k = k + 2 /\ 2 + k + 1 = k + 3 /\ 2 + k + m = k + 2 + m
  OBVIOUS
<1>12. /\ b[1] = e[1] /\ b[2] = k /\ Len(b) = k + 2 + m
       /\ SubSeq(b, 3, k + 2) = v /\ From(b, k + 3) = rest
  BY <1>4, <1>9, <1>11
<1> QED BY <1>2, <1>3, <1>5, <1>6, <1>10, <1>12, Zenon DEF v

LEMMA EntryTaken ==
  ASSUME NEW e \in TlvItems, NEW rest \in Bytes, NEW result
  PROVE  TakeItem([tail |-> Entry(e) \o rest, result |-> result], {}) =
           [tail |-> rest, result |-> AddItem(result, e)]
<1> DEFINE b == Entry(e) \o rest
           s == [tail |-> b, result |-> result]
<1>1. PICK k \in Nat : k = Len(e[2])
  BY DEF TlvItems, Bytes
<1>2. PICK m \in Nat : m = Len(rest)
  BY DEF Bytes
<1>3. /\ b # <<>> /\ b[1] = e[1] /\ b[2] = k /\ Len(b) = k + 2 + m
      /\ SubSeq(b, 3, b[2] + 2) = e[2] /\ From(b, b[2] + 3) = rest
  BY <1>1, <1>2, EntryHeaded
<1> HIDE DEF b
<1>4. ~(Len(b) < b[2] + 2)
  BY <1>3
<1>5. s.tail = b /\ s.result = result
  OBVIOUS
<1> HIDE DEF s
<1>6. TakeItem(s, {}) = [tail |-> rest, result |-> AddItem(result, <<e[1], e[2]>>)]
  BY <1>3, <1>4, <1>5 DEF TakeItem
<1>7. e = <<e[1], e[2]>>
  BY DEF TlvItems
<1> QED BY <1>6, <1>7 DEF s, b

LEMMA WrittenEntries ==
  ASSUME NEW E \in Seq(TlvItems)
  PROVE  LET ss == [i \in DOMAIN E |-> Entry(E[i])]
         IN ss \in Seq(Seq(Nat)) /\ Len(ss) = Len(E) /\ \A i \in 1..Len(E) : ss[i] = Entry(E[i])
<1> DEFINE ss == [i \in DOMAIN E |-> Entry(E[i])]
           B == Seq(Nat)
<1>1. PICK l \in Nat : l = Len(E) /\ DOMAIN E = 1..l
  BY LenProperties
<1>2. ASSUME NEW i \in 1..l
      PROVE  Entry(E[i]) \in B
  <2>1. E[i] \in TlvItems
    BY <1>1, ElementOfSeq
  <2>2. PICK r \in Bytes : r = <<>>
    BY EmptySeq DEF Bytes
  <2> QED BY <2>1, <2>2, EntryHeaded
<1> HIDE DEF B
<1>3. ss \in [1..l -> B] /\ \A i \in 1..l : ss[i] = Entry(E[i])
  BY <1>1, <1>2
<1> HIDE DEF ss
<1>4. ss \in Seq(B) /\ Len(ss) = l
  BY <1>3
<1> QED BY <1>1, <1>3, <1>4 DEF ss, B

(* The result of a list of entries is what AddItem makes of them in turn.    *)
LEMMA DecodeWritten ==
  ASSUME NEW E \in Seq(TlvItems), NEW R, R[0] = <<>>,
         \A i \in 1..Len(E) : R[i] = AddItem(R[i - 1], E[i])
  PROVE  Decode(Written(E), {}) = R[Len(E)] /\ Written(E) \in Bytes
<1> DEFINE ss == [i \in DOMAIN E |-> Entry(E[i])]
           b == Written(E)
<1>1. PICK l \in Nat : l = Len(E)
  OBVIOUS
<1>2. ss \in Seq(Seq(Nat)) /\ Len(ss) = l /\ \A i \in 1..l : ss[i] = Entry(E[i])
  BY <1>1, WrittenEntries
<1>3. b = FlattenSeq(ss)
  BY DEF Written
<1> HIDE DEF ss, b
<1>22. PICK a, tl : Splits(Nat, ss, a, tl)
  BY <1>2, RestsOf
<1>4. /\ tl[l] = <<>> /\ \A i \in 1..l : tl[i - 1] = ss[i] \o tl[i]
      /\ \A i \in 0..l : tl[i] \in Seq(Nat)
      /\ tl[0] = b
  BY <1>2, <1>3, <1>22 DEF Splits
<1>5. \A i \in 0..l : tl[i] \in Bytes
  BY <1>4 DEF Bytes
<1>6. ASSUME NEW i \in 1..l
      PROVE  /\ TakeItem([tail |-> tl[i - 1], result |-> R[i - 1]], {}) = [tail |-> tl[i], result |-> R[i]]
             /\ Len(tl[i - 1]) >= Len(tl[i]) + 2
  <2>1. E[i] \in TlvItems
    BY <1>1, ElementOfSeq
  <2>2. i \in 0..l /\ tl[i] \in Bytes
    BY <1>5
  <2>3. tl[i - 1] = Entry(E[i]) \o tl[i] /\ R[i] = AddItem(R[i - 1], E[i])
    BY <1>1, <1>2, <1>4
  <2>4. PICK e \in TlvItems : e = E[i]
    BY <2>1
  <2>5. PICK rest \in Bytes : rest = tl[i]
    BY <2>2
  <2>6. TakeItem([tail |-> Entry(e) \o rest, result |-> R[i - 1]], {}) =
           [tail |-> rest, result |-> AddItem(R[i - 1], e)]
    BY EntryTaken
  <2>7. Len(Entry(e) \o rest) >= Len(rest) + 2
    <3>1. PICK k \in Nat : k = Len(e[2])
      BY DEF TlvItems, Bytes
    <3>2. PICK m \in Nat : m = Len(rest)
      BY DEF Bytes
    <3>3. Len(Entry(e) \o rest) = k + 2 + m
      BY <3>1, <3>2, EntryHeaded
    <3> QED BY <3>2, <3>3
  <2> QED BY <2>3, <2>4, <2>5, <2>6, <2>7
<1>7. b \in Bytes /\ Len(b) >= l
  <2> DEFINE S == {n \in Nat : n <= l => Len(tl[l - n]) >= n}
  <2>1. 0 \in S
    <3>1. l - 0 = l /\ l \in 0..l
      OBVIOUS
    <3>2. Len(tl[l]) \in Nat
      BY <1>5, <3>1 DEF Bytes
    <3> QED BY <3>1, <3>2
  <2>2. \A n \in Nat : n \in S => n + 1 \in S
    <3> SUFFICES ASSUME NEW n \in Nat, n \in S, n + 1 <= l PROVE Len(tl[l - (n + 1)]) >= n + 1
      OBVIOUS
    <3>1. PICK i \in 1..l : i = l - n /\ i - 1 = l - (n + 1) /\ i \in 0..l /\ i - 1 \in 0..l
      <4>1. l - n \in 1..l
        OBVIOUS
      <4> QED BY <4>1
    <3>2. Len(tl[i]) \in Nat /\ Len(tl[i - 1]) \in Nat
      BY <1>5, <3>1 DEF Bytes
    <3>3. Len(tl[l - n]) >= n
      BY <3>1
    <3>4. Len(tl[i]) >= n
      BY <3>1, <3>3, Zenon
    <3>5. Len(tl[i - 1]) >= Len(tl[i]) + 2
      BY <1>6, Zenon
    <3>6. Len(tl[i - 1]) >= n + 1
      BY <3>2, <3>4, <3>5
    <3> QED BY <3>1, <3>6, Zenon
  <2> HIDE DEF S
  <2>3. l \in S
    BY <2>1, <2>2, InductionOverSet
  <2>4. l - l = 0 /\ 0 \in 0..l
    OBVIOUS
  <2> QED BY <1>4, <1>5, <2>3, <2>4 DEF S
<1>8. PICK N \in Nat : N = Len(b)
  BY <1>7 DEF Bytes
<1>9. N >= l
  BY <1>7, <1>8
<1> DEFINE st == [n \in 0..N |-> IF n <= l THEN [tail |-> tl[n], result |-> R[n]]
                                           ELSE [tail |-> <<>>, result |-> R[l]]]
           IsRun(f) == f = [n \in 0..N |-> IF n = 0 THEN [tail |-> b, result |-> <<>>]
                                                    ELSE TakeItem(f[n - 1], {})]
           after == CHOOSE f : IsRun(f)
<1>10. ASSUME NEW n \in 0..N
       PROVE  st[n] = IF n = 0 THEN [tail |-> b, result |-> <<>>] ELSE TakeItem(st[n - 1], {})
  <2>1. CASE n = 0
    <3>1. st[n] = [tail |-> tl[n], result |-> R[n]]
      BY <2>1
    <3> HIDE DEF st
    <3> QED BY <1>4, <2>1, <3>1
  <2>2. CASE n # 0 /\ n <= l
    <3>1. n \in 1..l /\ n - 1 \in 0..N
      BY <2>2
    <3>2. st[n] = [tail |-> tl[n], result |-> R[n]]
      BY <2>2
    <3>3. st[n - 1] = [tail |-> tl[n - 1], result |-> R[n - 1]]
      BY <2>2, <3>1
    <3> HIDE DEF st
    <3> QED BY <1>6, <2>2, <3>1, <3>2, <3>3
  <2>3. CASE n > l
    <3>1. n - 1 \in 0..N /\ n # 0
      BY <2>3
    <3>2. st[n] = [tail |-> <<>>, result |-> R[l]]
      BY <2>3
    <3>3. st[n - 1] = [tail |-> <<>>, result |-> R[l]]
      <4>1. CASE n - 1 <= l
        <5>1. n - 1 = l
          BY <2>3, <4>1
        <5>2. st[n - 1] = [tail |-> tl[n - 1], result |-> R[n - 1]]
          BY <3>1, <4>1
        <5> HIDE DEF st
        <5> QED BY <1>4, <5>1, <5>2
      <4>2. CASE ~(n - 1 <= l)
        BY <3>1, <4>2
      <4> QED BY <4>1, <4>2
    <3> HIDE DEF st
    <3> DEFINE s == st[n - 1]
    <3>4. s.tail = <<>>
      BY <3>3
    <3> HIDE DEF s
    <3>5. TakeItem(s, {}) = s
      BY <3>4 DEF TakeItem
    <3> QED BY <3>1, <3>2, <3>3, <3>5 DEF s
  <2> QED BY <2>1, <2>2, <2>3
<1>11. st = [n \in 0..N |-> st[n]]
  OBVIOUS
<1>12. st[N] = [tail |-> IF N <= l THEN tl[N] ELSE <<>>, result |-> R[l]]
  BY <1>9
<1> HIDE DEF st
<1>13. IsRun(st)
  BY <1>10, <1>11, Zenon
<1>14. IsRun(after)
  <2> HIDE DEF IsRun
  <2>1. \E f : IsRun(f)
    BY <1>13
  <2> QED BY <2>1, Zenon
<1>15. Decode(b, {}) = after[N].result
  BY <1>8, Zenon DEF Decode
<1> HIDE DEF after
<1>16. \A n \in 0..N : after[n] = IF n = 0 THEN [tail |-> b, result |-> <<>>] ELSE TakeItem(after[n - 1], {})
  BY <1>14
<1> HIDE DEF IsRun
<1>17. after[0] = st[0]
  <2>1. 0 \in 0..N
    OBVIOUS
  <2> QED BY <1>10, <1>16, <2>1
<1>18. ASSUME NEW n \in 1..N, after[n - 1] = st[n - 1] PROVE after[n] = st[n]
  <2>1. n \in 0..N /\ n # 0
    OBVIOUS
  <2>2. after[n] = TakeItem(after[n - 1], {}) /\ st[n] = TakeItem(st[n - 1], {})
    BY <1>10, <1>16, <2>1
  <2> QED BY <1>18, <2>2
<1>19. N \in 0..N
  OBVIOUS
<1>20. after[N] = st[N]
  <2>1. SameRuns(after, st, N)
    BY <1>17, <1>18 DEF SameRuns
  <2>2. \A n \in 0..N : after[n] = st[n]
    BY <2>1, RunsEqual
  <2> QED BY <1>19, <2>2
<1>21. Decode(b, {}) = R[l]
  BY <1>12, <1>15, <1>20
<1> QED BY <1>1, <1>7, <1>21 DEF b

-----------------------------------------------------------------------------
(* What AddItem makes of the pieces of a value, one after the other.         *)

GoesOn(r, e) == r # <<>> /\ Last(r)[1] = e[1]

LEMMA AddedTo ==
  ASSUME NEW r \in Seq(TlvItems), NEW e \in TlvItems, GoesOn(r, e)
  PROVE  /\ AddItem(r, e) \in Seq(TlvItems) /\ Len(AddItem(r, e)) = Len(r) /\ Len(r) # 0
         /\ AddItem(r, e)[Len(r)] = <<e[1], r[Len(r)][2] \o e[2]>>
         /\ \A i \in 1..Len(r) : i # Len(r) => AddItem(r, e)[i] = r[i]
<1>1. PICK l \in Nat : l = Len(r) /\ l # 0 /\ l \in 1..Len(r)
  <2>1. Len(r) \in Nat /\ Len(r) # 0
    BY EmptySeq DEF GoesOn
  <2> QED BY <2>1
<1>2. r[l] \in TlvItems
  BY <1>1, ElementOfSeq
<1>3. r[l][2] \o e[2] \in Bytes /\ e[1] \in Nat
  <2>1. r[l][2] \in Seq(Nat) /\ e[2] \in Seq(Nat) /\ e[1] \in Nat
    BY <1>2 DEF TlvItems, Bytes
  <2> QED BY <2>1, ConcatProperties DEF Bytes
<1>4. PICK x \in TlvItems : x = <<e[1], r[l][2] \o e[2]>>
  BY <1>3 DEF TlvItems
<1>5. AddItem(r, e) = [r EXCEPT ![l] = x]
  BY <1>1, <1>4 DEF AddItem, GoesOn
<1>6. /\ [r EXCEPT ![l] = x] \in Seq(TlvItems) /\ Len([r EXCEPT ![l] = x]) = Len(r)
      /\ \A j \in 1..Len(r) : [r EXCEPT ![l] = x][j] = IF j = l THEN x ELSE r[j]
  BY <1>1, ExceptSeq
<1> QED BY <1>1, <1>4, <1>5, <1>6

LEMMA AddedAfter ==
  ASSUME NEW r \in Seq(TlvItems), NEW e \in TlvItems, ~GoesOn(r, e)
  PROVE  /\ AddItem(r, e) \in Seq(TlvItems) /\ Len(AddItem(r, e)) = Len(r) + 1
         /\ AddItem(r, e)[Len(r) + 1] = e
         /\ \A i \in 1..Len(r) : AddItem(r, e)[i] = r[i]
<1>1. AddItem(r, e) = Append(r, e)
  BY DEF AddItem, GoesOn
<1> QED BY <1>1, AppendProperties

LEMMA AddItemTyped ==
  ASSUME NEW r \in Seq(TlvItems), NEW e \in TlvItems
  PROVE  AddItem(r, e) \in Seq(TlvItems)
  BY AddedTo, AddedAfter

LEMMA AddTwice ==
  ASSUME NEW r \in Seq(TlvItems), NEW x \in Nat, NEW p \in Bytes, NEW q \in Bytes
  PROVE  AddItem(AddItem(r, <<x, p>>), <<x, q>>) = AddItem(r, <<x, p \o q>>)
<1> DEFINE e == <<x, p>>
           f == <<x, q>>
           g == <<x, p \o q>>
<1>3. p \o q \in Bytes
  BY ConcatProperties DEF Bytes
<1>1. e \in TlvItems /\ e[1] = x /\ e[2] = p
  BY DEF TlvItems
<1>2. f \in TlvItems /\ f[1] = x /\ f[2] = q
  BY DEF TlvItems
<1>4. g \in TlvItems /\ g[1] = x /\ g[2] = p \o q
  BY <1>3 DEF TlvItems
<1>9. g = <<x, p \o q>>
  OBVIOUS
<1> HIDE DEF e, f, g
<1> DEFINE a == AddItem(r, e)
           b == AddItem(a, f)
           c == AddItem(r, g)
<1>5. PICK l \in Nat : l = Len(r)
  OBVIOUS
<1>10. a = AddItem(r, e)
  OBVIOUS
<1>11. c = AddItem(r, g)
  OBVIOUS
<1>12. b = AddItem(a, f)
  OBVIOUS
<1> HIDE DEF a, b, c
<1>6. a \in Seq(TlvItems) /\ b \in Seq(TlvItems) /\ c \in Seq(TlvItems)
  <2>1. a \in Seq(TlvItems) /\ c \in Seq(TlvItems)
    BY <1>1, <1>4, <1>10, <1>11, AddItemTyped
  <2> QED BY <1>2, <1>12, <2>1, AddItemTyped
<1>7. CASE GoesOn(r, e)
  <2>1. GoesOn(r, g)
    BY <1>1, <1>4, <1>7 DEF GoesOn
  <2>2. /\ Len(a) = l /\ l # 0 /\ a[l] = <<x, r[l][2] \o p>>
        /\ \A i \in 1..l : i # l => a[i] = r[i]
    BY <1>1, <1>5, <1>7, <1>10, AddedTo
  <2>3. Len(c) = l /\ c[l] = <<x, r[l][2] \o (p \o q)>> /\ \A i \in 1..l : i # l => c[i] = r[i]
    BY <1>4, <1>5, <1>11, <2>1, AddedTo
  <2>4. GoesOn(a, f)
    <3>1. a # <<>>
      BY <1>6, <2>2, EmptySeq
    <3> QED BY <1>2, <2>2, <3>1 DEF GoesOn, Last
  <2>5. Len(b) = l /\ b[l] = <<x, (r[l][2] \o p) \o q>> /\ \A i \in 1..l : i # l => b[i] = a[i]
    <3>1. /\ Len(b) = Len(a) /\ b[Len(a)] = <<f[1], a[Len(a)][2] \o f[2]>>
          /\ \A i \in 1..Len(a) : i # Len(a) => b[i] = a[i]
      BY <1>2, <1>6, <1>12, <2>4, AddedTo
    <3>2. a[l][2] = r[l][2] \o p
      BY <2>2
    <3> QED BY <1>2, <2>2, <3>1, <3>2
  <2>6. (r[l][2] \o p) \o q = r[l][2] \o (p \o q)
    <3>1. l \in 1..Len(r)
      BY <1>5, <2>2
    <3>2. r[l] \in TlvItems
      BY <3>1, ElementOfSeq
    <3>3. PICK T : T = Nat
      OBVIOUS
    <3>4. PICK y : y = r[l][2]
      OBVIOUS
    <3>5. y \in Seq(T) /\ p \in Seq(T) /\ q \in Seq(T)
      BY <3>2, <3>3, <3>4 DEF TlvItems, Bytes
    <3>6. (y \o p) \o q = y \o (p \o q)
      BY <3>5, ConcatAssociative
    <3> QED BY <3>4, <3>6
  <2>7. \A i \in 1..l : b[i] = c[i]
    BY <2>2, <2>3, <2>5, <2>6
  <2>8. b = c
    <3>1. Len(b) = Len(c) /\ \A i \in 1..Len(b) : b[i] = c[i]
      BY <2>3, <2>5, <2>7
    <3> QED BY <1>6, <3>1, SeqEqual
  <2> QED BY <2>8 DEF a, b, c, e, f, g
<1>8. CASE ~GoesOn(r, e)
  <2>1. ~GoesOn(r, g)
    BY <1>1, <1>4, <1>8 DEF GoesOn
  <2>2. Len(a) = l + 1 /\ a[l + 1] = e /\ \A i \in 1..l : a[i] = r[i]
    BY <1>1, <1>5, <1>8, <1>10, AddedAfter
  <2>3. Len(c) = l + 1 /\ c[l + 1] = g /\ \A i \in 1..l : c[i] = r[i]
    BY <1>4, <1>5, <1>11, <2>1, AddedAfter
  <2>4. GoesOn(a, f)
    <3>1. a # <<>>
      BY <1>5, <1>6, <2>2, EmptySeq
    <3> QED BY <1>1, <1>2, <2>2, <3>1 DEF GoesOn, Last
  <2>5. Len(b) = l + 1 /\ b[l + 1] = <<x, p \o q>> /\ \A i \in 1..(l + 1) : i # l + 1 => b[i] = a[i]
    <3>1. /\ Len(b) = Len(a) /\ b[Len(a)] = <<f[1], a[Len(a)][2] \o f[2]>>
          /\ \A i \in 1..Len(a) : i # Len(a) => b[i] = a[i]
      BY <1>2, <1>6, <1>12, <2>4, AddedTo
    <3> QED BY <1>1, <1>2, <2>2, <3>1
  <2>6. \A i \in 1..(l + 1) : b[i] = c[i]
    <3> TAKE i \in 1..(l + 1)
    <3>1. CASE i = l + 1
      BY <1>4, <1>9, <2>3, <2>5, <3>1
    <3>2. CASE i # l + 1
      <4>1. i \in 1..l
        BY <3>2
      <4> QED BY <2>2, <2>3, <2>5, <3>2, <4>1
    <3> QED BY <3>1, <3>2
  <2>7. b = c
    <3>1. Len(b) = Len(c) /\ \A i \in 1..Len(b) : b[i] = c[i]
      BY <2>3, <2>5, <2>6
    <3> QED BY <1>6, <3>1, SeqEqual
  <2> QED BY <2>7 DEF a, b, c, e, f, g
<1> QED BY <1>7, <1>8

LEMMA DecodeNone == Decode(Written(<<>>), {}) = <<>>
<1>1. PICK E \in Seq(TlvItems) : E = <<>>
  BY EmptySeq
<1> DEFINE R == [i \in {0} |-> <<>>]
<1>2. R[0] = <<>>
  OBVIOUS
<1> HIDE DEF R
<1>3. Len(E) = 0
  BY <1>1
<1>4. \A i \in 1..Len(E) : R[i] = AddItem(R[i - 1], E[i])
  BY <1>3
<1>5. Decode(Written(E), {}) = R[Len(E)]
  BY <1>2, <1>4, DecodeWritten
<1> QED BY <1>1, <1>2, <1>3, <1>5

LEMMA DecodeGrows ==
  ASSUME NEW E \in Seq(TlvItems), NEW e \in TlvItems
  PROVE  /\ Decode(Written(E), {}) \in Seq(TlvItems) /\ Written(E) \in Bytes
         /\ Decode(Written(Append(E, e)), {}) = AddItem(Decode(Written(E), {}), e)
<1> DEFINE G == Append(E, e)
           X == Seq(TlvItems)
<1>1. PICK l \in Nat : l = Len(E)
  OBVIOUS
<1>2. G \in Seq(TlvItems) /\ Len(G) = l + 1 /\ G[l + 1] = e /\ \A i \in 1..l : G[i] = E[i]
  BY <1>1, AppendProperties
<1> HIDE DEF G
<1>3. PICK x \in X : x = <<>>
  BY EmptySeq
<1>12. PICK N \in Nat : N = l + 1
  OBVIOUS
<1> DEFINE F == [p \in (1..N) \X X |-> AddItem(p[2], G[p[1]])]
<1>4. \A i \in 1..N, r \in X : F[<<i, r>>] = AddItem(r, G[i]) /\ F[<<i, r>>] \in X
  <2> TAKE i \in 1..N, r \in X
  <2>1. G[i] \in TlvItems
    BY <1>2, <1>12, ElementOfSeq
  <2>2. AddItem(r, G[i]) \in X
    BY <2>1, AddItemTyped
  <2> HIDE DEF X
  <2> QED BY <2>2
<1> HIDE DEF F, X
<1>5. \E R \in [0..N -> X] : Runs(R, x, F, N)
  BY <1>4, RunExists
<1>6. PICK R \in [0..(l + 1) -> X] : Runs(R, x, F, l + 1)
  BY <1>5, <1>12
<1>7. R[0] = <<>>
  BY <1>3, <1>6 DEF Runs
<1>8. ASSUME NEW i \in 1..(l + 1) PROVE R[i] = AddItem(R[i - 1], G[i])
  <2>1. i - 1 \in 0..(l + 1)
    OBVIOUS
  <2> QED BY <1>4, <1>6, <1>12, <2>1 DEF Runs
<1>9. Decode(Written(G), {}) = R[l + 1]
  BY <1>2, <1>7, <1>8, DecodeWritten
<1>10. Decode(Written(E), {}) = R[l] /\ Written(E) \in Bytes
  <2>1. \A i \in 1..l : R[i] = AddItem(R[i - 1], E[i])
    <3> TAKE i \in 1..l
    <3>1. i \in 1..(l + 1)
      OBVIOUS
    <3> QED BY <1>2, <1>8, <3>1
  <2>2. \A i \in 1..Len(E) : R[i] = AddItem(R[i - 1], E[i])
    BY <1>1, <2>1
  <2> QED BY <1>1, <1>7, <2>2, DecodeWritten
<1>11. R[l + 1] = AddItem(R[l], e) /\ R[l] \in X
  <2>1. PICK i \in 1..(l + 1) : i = l + 1 /\ i - 1 = l /\ i - 1 \in 0..(l + 1)
    OBVIOUS
  <2> QED BY <1>2, <1>6, <1>8, <2>1
<1> QED BY <1>9, <1>10, <1>11 DEF G, X

(* The entries of a value, one by one: P[i] is E and the first i of them,    *)
(* which hold w[1] to w[i], together W[i].  All but the last are full.       *)
PieceByPiece(E, x, v, c, P, w, W) ==
  /\ P \in [0..c -> Seq(TlvItems)] /\ w \in [1..c -> Bytes] /\ W \in [0..c -> Bytes]
  /\ P[0] = E /\ P[c] = E \o Divided(x, v) /\ W[0] = <<>> /\ W[c] = v
  /\ (c = 0) <=> (v = <<>>)
  /\ \A i \in 1..c : P[i] = Append(P[i - 1], <<x, w[i]>>)
  /\ \A i \in 1..c : W[i] = W[i - 1] \o w[i]
  /\ \A i \in 1..c : i # c => Len(w[i]) = MaxChunk

LEMMA Pieced ==
  ASSUME NEW E \in Seq(TlvItems), NEW x \in Nat, NEW v \in Bytes
  PROVE  /\ Divided(x, v) \in Seq(TlvItems)
         /\ \E c \in Nat : \E P, w, W : PieceByPiece(E, x, v, c, P, w, W)
<1>1. v \in Seq(Nat) /\ MaxChunk \in Nat /\ MaxChunk # 0
  BY LengthsAssumption DEF Bytes
<1>2. PICK c \in Nat : \E cut :
           /\ Cuts(v, MaxChunk, c, cut) /\ (Len(v) # 0 => c # 0)
           /\ Pieces(v, MaxChunk) = [i \in 1..c |-> SubSeq(v, cut[i - 1] + 1, cut[i])]
  BY <1>1, PiecesAre
<1>3. PICK cut : /\ Cuts(v, MaxChunk, c, cut) /\ (Len(v) # 0 => c # 0)
                 /\ Pieces(v, MaxChunk) = [i \in 1..c |-> SubSeq(v, cut[i - 1] + 1, cut[i])]
  BY <1>2
<1>4. PICK l \in Nat : l = Len(v)
  BY <1>1
<1>5. /\ cut \in [0..c -> 0..l] /\ cut[0] = 0 /\ cut[c] = l
      /\ \A i \in 1..c : cut[i - 1] < cut[i]
  BY <1>3, <1>4 DEF Cuts
<1> DEFINE dd == Divided(x, v)
           G == E \o dd
<1>6. dd = [i \in 1..c |-> <<x, SubSeq(v, cut[i - 1] + 1, cut[i])>>]
  <2> DEFINE ps == Pieces(v, MaxChunk)
  <2>1. DOMAIN ps = 1..c /\ \A i \in 1..c : ps[i] = SubSeq(v, cut[i - 1] + 1, cut[i])
    BY <1>3
  <2>2. dd = [i \in DOMAIN ps |-> <<x, ps[i]>>]
    BY Zenon DEF Divided
  <2> HIDE DEF ps, dd
  <2> QED BY <2>1, <2>2
<1> HIDE DEF dd
<1>7. ASSUME NEW i \in 1..c
      PROVE  /\ dd[i] \in TlvItems /\ dd[i] = <<x, SubSeq(v, cut[i - 1] + 1, cut[i])>>
             /\ SubSeq(v, cut[i - 1] + 1, cut[i]) \in Bytes
  <2>1. PICK p \in Nat : p = cut[i - 1]
    <3>1. i - 1 \in 0..c
      OBVIOUS
    <3> QED BY <1>5, <3>1
  <2>2. PICK q \in Nat : q = cut[i] /\ q <= l
    BY <1>5
  <2>3. p <= q
    BY <1>5, <2>1, <2>2
  <2>4. SubSeq(v, p + 1, q) \in Seq(Nat)
    BY <1>1, <1>4, <2>2, <2>3, SliceIs
  <2>5. dd[i] = <<x, SubSeq(v, p + 1, q)>>
    BY <1>6, <2>1, <2>2
  <2>6. PICK w \in Bytes : w = SubSeq(v, p + 1, q)
    BY <2>4 DEF Bytes
  <2>7. <<x, w>> \in TlvItems
    BY DEF TlvItems
  <2> QED BY <2>1, <2>2, <2>5, <2>6, <2>7
<1>8. dd \in Seq(TlvItems) /\ Len(dd) = c
  <2>1. dd = [i \in 1..c |-> dd[i]]
    BY <1>6
  <2>2. dd \in [1..c -> TlvItems]
    BY <1>7, <2>1
  <2> QED BY <2>2
<1>9. PICK m \in Nat : m = Len(E)
  OBVIOUS
<1>10. /\ G \in Seq(TlvItems) /\ Len(G) = m + c
       /\ \A i \in 1..(m + c) : G[i] = IF i <= m THEN E[i] ELSE dd[i - m]
  BY <1>8, <1>9, ConcatProperties
<1> HIDE DEF G
(* The first i pieces.                                                       *)
<1> DEFINE P(i) == SubSeq(G, 1, m + i)
           D(i) == Decode(Written(P(i)), {})
<1>11. ASSUME NEW i \in 0..c
       PROVE  P(i) \in Seq(TlvItems) /\ Len(P(i)) = m + i /\ \A j \in 1..(m + i) : P(i)[j] = G[j]
  <2>1. PICK z \in Nat : z = 0 /\ z + 1 = 1
    OBVIOUS
  <2>2. PICK n \in Nat : n = m + i
    OBVIOUS
  <2>3. z <= n /\ n <= Len(G) /\ n - z = n /\ \A j \in 1..n : z + j = j
    BY <1>10, <2>1, <2>2
  <2>4. P(i) = SubSeq(G, z + 1, n)
    BY <2>1, <2>2
  <2> HIDE DEF P
  <2>5. P(i) \in Seq(TlvItems) /\ Len(P(i)) = n - z /\ \A j \in 1..(n - z) : P(i)[j] = G[z + j]
    BY <1>10, <2>3, <2>4, SliceIs
  <2> QED BY <2>2, <2>3, <2>5
<1> HIDE DEF P
<1>12. P(0) = E /\ P(c) = G
  <2>1. 0 \in 0..c /\ c \in 0..c /\ m + 0 = m
    OBVIOUS
  <2>2. Len(P(0)) = Len(E) /\ \A i \in 1..Len(P(0)) : P(0)[i] = E[i]
    <3>1. P(0) \in Seq(TlvItems) /\ Len(P(0)) = m /\ \A j \in 1..m : P(0)[j] = G[j]
      BY <1>11, <2>1
    <3>2. \A j \in 1..m : G[j] = E[j]
      BY <1>10
    <3> QED BY <1>9, <3>1, <3>2
  <2>3. Len(P(c)) = Len(G) /\ \A i \in 1..Len(P(c)) : P(c)[i] = G[i]
    BY <1>10, <1>11, <2>1
  <2>4. P(0) \in Seq(TlvItems) /\ P(c) \in Seq(TlvItems)
    BY <1>11, <2>1
  <2>5. P(0) = E
    BY <2>2, <2>4, SeqEqual
  <2>6. P(c) = G
    BY <1>10, <2>3, <2>4, SeqEqual
  <2> QED BY <2>5, <2>6
<1>13. ASSUME NEW i \in 1..c
       PROVE  P(i) = Append(P(i - 1), dd[i])
  <2>1. i \in 0..c /\ i - 1 \in 0..c
    OBVIOUS
  <2>2. PICK k \in Nat : k = m + (i - 1) /\ m + i = k + 1
    OBVIOUS
  <2>3. P(i - 1) \in Seq(TlvItems) /\ Len(P(i - 1)) = k /\ \A j \in 1..k : P(i - 1)[j] = G[j]
    BY <1>11, <2>1, <2>2
  <2>4. P(i) \in Seq(TlvItems) /\ Len(P(i)) = k + 1 /\ \A j \in 1..(k + 1) : P(i)[j] = G[j]
    BY <1>11, <2>1, <2>2
  <2>5. G[k + 1] = dd[i]
    <3>1. k + 1 \in 1..(m + c) /\ ~(k + 1 <= m) /\ (k + 1) - m = i
      BY <2>2
    <3> QED BY <1>10, <3>1
  <2> DEFINE A == Append(P(i - 1), dd[i])
  <2>6. A \in Seq(TlvItems) /\ Len(A) = k + 1 /\ A[k + 1] = dd[i] /\ \A j \in 1..k : A[j] = P(i - 1)[j]
    <3>1. PICK B : B = TlvItems
      OBVIOUS
    <3>2. PICK s, e : s = P(i - 1) /\ e = dd[i]
      OBVIOUS
    <3>3. s \in Seq(B) /\ e \in B /\ Len(s) = k
      BY <1>7, <2>3, <3>1, <3>2
    <3>4. /\ Append(s, e) \in Seq(B) /\ Len(Append(s, e)) = k + 1 /\ Append(s, e)[k + 1] = e
          /\ \A j \in 1..k : Append(s, e)[j] = s[j]
      BY <3>3, AppendProperties
    <3> QED BY <3>1, <3>2, <3>4
  <2> HIDE DEF A
  <2>7. \A j \in 1..(k + 1) : P(i)[j] = A[j]
    <3> TAKE j \in 1..(k + 1)
    <3>1. CASE j = k + 1
      BY <2>4, <2>5, <2>6, <3>1
    <3>2. CASE j # k + 1
      <4>1. j \in 1..k
        BY <3>2
      <4> QED BY <2>3, <2>4, <2>6, <4>1
    <3> QED BY <3>1, <3>2
  <2>8. Len(P(i)) = Len(A) /\ \A j \in 1..Len(P(i)) : P(i)[j] = A[j]
    BY <2>4, <2>6, <2>7
  <2>9. P(i) = A
    BY <2>4, <2>6, <2>8, SeqEqual
  <2> QED BY <2>9 DEF A
<1> DEFINE PP == [i \in 0..c |-> P(i)]
           ww == [i \in 1..c |-> SubSeq(v, cut[i - 1] + 1, cut[i])]
           WW == [i \in 0..c |-> SubSeq(v, 1, cut[i])]
<1>14. PP \in [0..c -> Seq(TlvItems)] /\ \A i \in 0..c : PP[i] = P(i)
  BY <1>11
<1>15. ww \in [1..c -> Bytes] /\ \A i \in 1..c : dd[i] = <<x, ww[i]>>
  BY <1>7
<1>16. ASSUME NEW i \in 0..c
       PROVE  SubSeq(v, 1, cut[i]) \in Bytes
  <2>1. PICK z \in Nat : z = 0 /\ z + 1 = 1
    OBVIOUS
  <2>2. PICK q \in Nat : q = cut[i] /\ z <= q /\ q <= l
    BY <1>5, <2>1
  <2>3. SubSeq(v, z + 1, q) \in Seq(Nat)
    BY <1>1, <1>4, <2>2, SliceIs
  <2> QED BY <2>1, <2>2, <2>3 DEF Bytes
<1>17. WW \in [0..c -> Bytes] /\ \A i \in 0..c : WW[i] = SubSeq(v, 1, cut[i])
  BY <1>16
<1>18. ASSUME NEW i \in 1..c
       PROVE  WW[i] = WW[i - 1] \o ww[i]
  <2>1. PICK z \in Nat : z = 0 /\ z + 1 = 1
    OBVIOUS
  <2>2. i - 1 \in 0..c /\ i \in 0..c
    OBVIOUS
  <2>3. PICK p \in Nat : p = cut[i - 1]
    BY <1>5, <2>2
  <2>4. PICK q \in Nat : q = cut[i] /\ q <= l /\ p <= q /\ z <= p
    BY <1>5, <2>1, <2>3
  <2>5. SubSeq(v, z + 1, q) = SubSeq(v, z + 1, p) \o SubSeq(v, p + 1, q)
    <3>1. PICK T : T = Nat
      OBVIOUS
    <3>2. v \in Seq(T) /\ z <= p /\ p <= q /\ q <= Len(v)
      BY <1>1, <1>4, <2>4, <3>1
    <3> HIDE <3>1
    <3> QED BY <3>2, SliceSplit
  <2>6. WW[i] = SubSeq(v, 1, q) /\ WW[i - 1] = SubSeq(v, 1, p)
    BY <1>17, <2>2, <2>3, <2>4
  <2>7. ww[i] = SubSeq(v, p + 1, q)
    BY <2>3, <2>4
  <2> HIDE DEF ww, WW
  <2> QED BY <2>1, <2>5, <2>6, <2>7
<1>19. WW[0] = <<>> /\ WW[c] = v
  <2>1. 0 \in 0..c /\ c \in 0..c
    OBVIOUS
  <2>2. WW[0] = SubSeq(v, 1, 0) /\ WW[c] = SubSeq(v, 1, l)
    BY <1>5, <1>17, <2>1
  <2> HIDE DEF WW
  <2>3. SubSeq(v, 1, 0) = <<>>
    <3>1. PICK z \in Nat : z = 0 /\ z + 1 = 1
      OBVIOUS
    <3>2. SubSeq(v, z + 1, z) = <<>>
      BY <1>1, SliceNone
    <3> QED BY <3>1, <3>2
  <2>4. SubSeq(v, 1, l) = v
    BY <1>1, <1>4, SubSeqFull
  <2> QED BY <2>2, <2>3, <2>4
<1>20. ASSUME NEW i \in 1..c, i # c
       PROVE  Len(ww[i]) = MaxChunk
  <2>1. i - 1 \in 0..c /\ i \in 0..c
    OBVIOUS
  <2>2. PICK p \in Nat : p = cut[i - 1]
    BY <1>5, <2>1
  <2>3. PICK q \in Nat : q = cut[i] /\ q <= l /\ p <= q
    BY <1>5, <2>2
  <2>4. q = p + MaxChunk
    BY <1>3, <1>20, <2>2, <2>3 DEF Cuts
  <2>5. Len(SubSeq(v, p + 1, q)) = q - p
    BY <1>1, <1>4, <2>3, SliceIs
  <2>6. ww[i] = SubSeq(v, p + 1, q)
    BY <2>2, <2>3
  <2>7. q - p = MaxChunk
    BY <1>1, <2>4
  <2> QED BY <2>5, <2>6, <2>7
<1> HIDE DEF PP, ww, WW
<1>21. (c = 0) <=> (v = <<>>)
  <2>1. CASE v = <<>>
    <3>1. l = 0
      BY <1>4, <2>1
    <3> SUFFICES ASSUME c # 0 PROVE FALSE
      BY <2>1
    <3>2. c \in 1..c /\ c - 1 \in 0..c
      OBVIOUS
    <3>3. cut[c - 1] < cut[c] /\ cut[c - 1] \in 0..l
      BY <1>5, <3>2
    <3> QED BY <1>5, <3>1, <3>3
  <2>2. CASE v # <<>>
    <3>1. l # 0
      BY <1>1, <1>4, <2>2, EmptySeq
    <3> QED BY <1>3, <1>4, <2>2, <3>1
  <2> QED BY <2>1, <2>2
<1>22. PP[0] = E /\ PP[c] = E \o Divided(x, v)
  <2>1. 0 \in 0..c /\ c \in 0..c
    OBVIOUS
  <2> QED BY <1>12, <1>14, <2>1 DEF G, dd
<1>23. \A i \in 1..c : PP[i] = Append(PP[i - 1], <<x, ww[i]>>)
  <2> TAKE i \in 1..c
  <2>1. i - 1 \in 0..c /\ i \in 0..c
    OBVIOUS
  <2> QED BY <1>13, <1>14, <1>15, <2>1
<1>24. PieceByPiece(E, x, v, c, PP, ww, WW)
  BY <1>14, <1>15, <1>17, <1>18, <1>19, <1>20, <1>21, <1>22, <1>23, Zenon DEF PieceByPiece
<1> QED BY <1>8, <1>24 DEF dd

LEMMA DecodeDivided ==
  ASSUME NEW E \in Seq(TlvItems), NEW x \in Nat, NEW v \in Bytes
  PROVE  /\ Divided(x, v) \in Seq(TlvItems)
         /\ Decode(Written(E \o Divided(x, v)), {}) =
              IF v = <<>> THEN Decode(Written(E), {}) ELSE AddItem(Decode(Written(E), {}), <<x, v>>)
<1>1. Divided(x, v) \in Seq(TlvItems)
  BY Pieced
<1>2. PICK c \in Nat : \E P, w, W : PieceByPiece(E, x, v, c, P, w, W)
  BY Pieced
<1>3. PICK P, w, W : PieceByPiece(E, x, v, c, P, w, W)
  BY <1>2
<1>4. /\ P \in [0..c -> Seq(TlvItems)] /\ w \in [1..c -> Bytes] /\ W \in [0..c -> Bytes]
      /\ P[0] = E /\ P[c] = E \o Divided(x, v) /\ W[0] = <<>> /\ W[c] = v
      /\ (c = 0) <=> (v = <<>>)
      /\ \A i \in 1..c : P[i] = Append(P[i - 1], <<x, w[i]>>)
      /\ \A i \in 1..c : W[i] = W[i - 1] \o w[i]
  BY <1>3, Zenon DEF PieceByPiece
<1> DEFINE D(i) == Decode(Written(P[i]), {})
<1>5. ASSUME NEW i \in 1..c
      PROVE  D(i) = AddItem(D(i - 1), <<x, w[i]>>)
  <2>1. i - 1 \in 0..c
    OBVIOUS
  <2>2. PICK E0 \in Seq(TlvItems) : E0 = P[i - 1]
    BY <1>4, <2>1
  <2>3. PICK u \in Bytes : u = w[i]
    BY <1>4
  <2>4. PICK e \in TlvItems : e = <<x, u>>
    BY DEF TlvItems
  <2>5. Decode(Written(Append(E0, e)), {}) = AddItem(Decode(Written(E0), {}), e)
    BY DecodeGrows
  <2> QED BY <1>4, <2>2, <2>3, <2>4, <2>5
<1>6. D(0) = Decode(Written(E), {}) /\ D(c) = Decode(Written(E \o Divided(x, v)), {}) /\ D(0) \in Seq(TlvItems)
  <2>1. PICK e \in TlvItems : e = <<x, v>>
    BY DEF TlvItems
  <2>2. Decode(Written(E), {}) \in Seq(TlvItems)
    BY <2>1, DecodeGrows
  <2> QED BY <1>4, <2>2
<1> HIDE DEF D
<1>7. CASE v = <<>>
  BY <1>1, <1>4, <1>6, <1>7
<1>8. CASE v # <<>>
  <2> DEFINE S == {n \in Nat : n + 1 <= c => D(n + 1) = AddItem(D(0), <<x, W[n + 1]>>)}
  <2>1. 0 \in S
    <3>1. PICK i \in 1..c : i = 1 /\ i - 1 = 0 /\ 0 + 1 = i
      BY <1>4, <1>8
    <3>2. PICK u \in Seq(Nat) : u = w[i]
      BY <1>4 DEF Bytes
    <3>3. <<>> \o u = u
      BY ConcatEmptySeq
    <3>4. W[i] = W[i - 1] \o w[i]
      BY <1>4
    <3>5. W[i] = w[i]
      BY <1>4, <3>1, <3>2, <3>3, <3>4
    <3>6. D(i) = AddItem(D(i - 1), <<x, w[i]>>)
      BY <1>5
    <3> QED BY <3>1, <3>5, <3>6
  <2>2. ASSUME NEW n \in Nat, n \in S PROVE n + 1 \in S
    <3> SUFFICES ASSUME (n + 1) + 1 <= c PROVE D((n + 1) + 1) = AddItem(D(0), <<x, W[(n + 1) + 1]>>)
      OBVIOUS
    <3>1. PICK i \in 1..c : i = (n + 1) + 1 /\ i - 1 = n + 1 /\ n + 1 <= c /\ n + 1 \in 0..c
      OBVIOUS
    <3>2. D(n + 1) = AddItem(D(0), <<x, W[n + 1]>>)
      BY <2>2, <3>1
    <3>3. D(i) = AddItem(D(n + 1), <<x, w[i]>>)
      BY <1>5, <3>1
    <3>4. PICK p \in Bytes : p = W[n + 1]
      BY <1>4, <3>1
    <3>5. PICK q \in Bytes : q = w[i]
      BY <1>4
    <3>6. PICK r \in Seq(TlvItems) : r = D(0)
      BY <1>6
    <3>7. AddItem(AddItem(r, <<x, p>>), <<x, q>>) = AddItem(r, <<x, p \o q>>)
      BY AddTwice
    <3>8. W[i] = p \o q
      BY <1>4, <3>1, <3>4, <3>5
    <3> HIDE DEF S
    <3> QED BY <3>1, <3>2, <3>3, <3>4, <3>5, <3>6, <3>7, <3>8
  <2> HIDE DEF S
  <2>3. \A n \in Nat : n \in S
    BY <2>1, <2>2, InductionOverSet
  <2>4. PICK n \in Nat : n + 1 = c
    <3>1. c - 1 \in Nat /\ (c - 1) + 1 = c
      BY <1>4, <1>8
    <3> QED BY <3>1
  <2>5. D(c) = AddItem(D(0), <<x, v>>)
    <3>1. n \in S
      BY <2>3
    <3>2. n + 1 <= c => D(n + 1) = AddItem(D(0), <<x, W[n + 1]>>)
      BY <3>1 DEF S
    <3>3. n + 1 <= c /\ W[c] = v
      BY <1>4, <2>4
    <3>4. D(n + 1) = AddItem(D(0), <<x, W[n + 1]>>)
      BY <3>2, <3>3
    <3> QED BY <2>4, <3>3, <3>4, Zenon
  <2> QED BY <1>1, <1>6, <1>8, <2>5
<1> QED BY <1>7, <1>8
(* A separator has no value.                                                 *)

LEMMA EncodedItem ==
  ASSUME NEW E \in Seq(TlvItems), NEW e \in TlvItems, e[1] = Separator => e[2] = <<>>
  PROVE  /\ EncodeItem(e[1], e[2]) \in Seq(TlvItems)
         /\ Decode(Written(E \o EncodeItem(e[1], e[2])), {}) = AddKept(Decode(Written(E), {}), e)
<1>1. e[1] \in Nat /\ e[2] \in Bytes /\ e = <<e[1], e[2]>>
  BY DEF TlvItems
<1>2. CASE e[1] = Separator
  <2>1. e = <<e[1], <<>>>>
    BY <1>1, <1>2
  <2>2. EncodeItem(e[1], e[2]) = <<e>>
    BY <1>2, <2>1 DEF EncodeItem
  <2>3. E \o <<e>> = Append(E, e) /\ <<e>> \in Seq(TlvItems)
    BY AppendIsConcat
  <2>4. Decode(Written(Append(E, e)), {}) = AddItem(Decode(Written(E), {}), e)
    BY DecodeGrows
  <2>5. AddKept(Decode(Written(E), {}), e) = AddItem(Decode(Written(E), {}), e)
    BY <1>2 DEF AddKept
  <2> QED BY <2>2, <2>3, <2>4, <2>5
<1>3. CASE e[1] # Separator
  <2>1. EncodeItem(e[1], e[2]) = Divided(e[1], e[2])
    BY <1>3 DEF EncodeItem
  <2>2. /\ Divided(e[1], e[2]) \in Seq(TlvItems)
        /\ Decode(Written(E \o Divided(e[1], e[2])), {}) =
              IF e[2] = <<>> THEN Decode(Written(E), {})
              ELSE AddItem(Decode(Written(E), {}), <<e[1], e[2]>>)
    BY <1>1, DecodeDivided
  <2>3. AddKept(Decode(Written(E), {}), e) =
          IF e[2] = <<>> THEN Decode(Written(E), {}) ELSE AddItem(Decode(Written(E), {}), e)
    BY <1>3 DEF AddKept
  <2> QED BY <1>1, <2>1, <2>2, <2>3
<1> QED BY <1>2, <1>3

(* What a list is decoded to, on to the end of it.                           *)
LEMMA ListDecoded ==
  ASSUME NEW d, Listable(d)
  PROVE  \E M : /\ M[0] = <<>> /\ \A i \in 1..Len(d) : M[i] = AddKept(M[i - 1], d[i])
                /\ M \in [0..Len(d) -> Seq(TlvItems)]
                /\ Decode(EncodeList(d), {}) = M[Len(d)] /\ EncodeList(d) \in Bytes
<1>1. PICK l \in Nat : l = Len(d) /\ DOMAIN d = 1..l
  BY LenProperties DEF Listable
<1>2. \A i \in 1..l : d[i] \in TlvItems /\ (d[i][1] = Separator => d[i][2] = <<>>)
  BY <1>1, ElementOfSeq DEF Listable
<1> DEFINE ss == [i \in DOMAIN d |-> EncodeItem(d[i][1], d[i][2])]
           B == Seq(TlvItems)
<1>3. PICK e0 \in B : e0 = <<>>
  BY EmptySeq
<1> HIDE DEF B
<1>4. ASSUME NEW i \in 1..l PROVE EncodeItem(d[i][1], d[i][2]) \in B
  <2>1. EncodeItem(d[i][1], d[i][2]) \in Seq(TlvItems)
    BY <1>2, <1>3, EncodedItem DEF B
  <2> QED BY <2>1 DEF B
<1>5. ss \in [1..l -> B] /\ \A i \in 1..l : ss[i] = EncodeItem(d[i][1], d[i][2])
  BY <1>1, <1>4
<1>6. EncodeList(d) = Written(FlattenSeq(ss))
  BY DEF EncodeList
<1> HIDE DEF ss
<1>7. ss \in Seq(B) /\ Len(ss) = l
  BY <1>5
<1>8. PICK a, tl : Splits(TlvItems, ss, a, tl)
  BY <1>7, RestsOf DEF B
<1>9. /\ a \in [0..l -> B] /\ a[0] = <<>> /\ \A i \in 1..l : a[i] = a[i - 1] \o ss[i]
      /\ FlattenSeq(ss) = a[l]
  <2>1. a \in [0..l -> B] /\ a[0] = <<>> /\ \A i \in 1..l : a[i] = a[i - 1] \o ss[i]
    BY <1>7, <1>8 DEF Splits, B
  <2>2. ss \in Seq(Seq(TlvItems)) /\ a \in [0..Len(ss) -> Seq(TlvItems)]
        /\ \A i \in 1..Len(ss) : a[i] = a[i - 1] \o ss[i]
    BY <1>7, <2>1 DEF B
  <2>3. FlattenSeq(ss) = a[Len(ss)]
    BY <2>1, <2>2, FlatOf
  <2> QED BY <1>7, <2>1, <2>3
<1> DEFINE M == [i \in 0..l |-> Decode(Written(a[i]), {})]
<1>10. \A i \in 0..l : M[i] = Decode(Written(a[i]), {})
  OBVIOUS
<1>11. ASSUME NEW i \in 0..l PROVE M[i] \in B /\ Written(a[i]) \in Bytes
  <2>1. PICK E \in Seq(TlvItems) : E = a[i]
    BY <1>9 DEF B
  <2>2. PICK e \in TlvItems : TRUE
    <3>1. <<0, <<>>>> \in TlvItems
      BY EmptySeq DEF TlvItems, Bytes
    <3> QED BY <3>1
  <2>3. Decode(Written(E), {}) \in Seq(TlvItems) /\ Written(E) \in Bytes
    BY <2>2, DecodeGrows
  <2> QED BY <1>10, <2>1, <2>3 DEF B
<1>12. M = [i \in 0..l |-> M[i]]
  OBVIOUS
<1> HIDE DEF M
<1>13. M \in [0..l -> B]
  BY <1>11, <1>12
<1>14. M[0] = <<>>
  <2>1. 0 \in 0..l
    OBVIOUS
  <2> QED BY <1>9, <1>10, <2>1, DecodeNone
<1>15. ASSUME NEW i \in 1..l PROVE M[i] = AddKept(M[i - 1], d[i])
  <2>1. i \in 0..l /\ i - 1 \in 0..l
    OBVIOUS
  <2>2. PICK E \in Seq(TlvItems) : E = a[i - 1]
    BY <1>9, <2>1 DEF B
  <2>3. PICK e \in TlvItems : e = d[i] /\ (e[1] = Separator => e[2] = <<>>)
    BY <1>2
  <2>4. Decode(Written(E \o EncodeItem(e[1], e[2])), {}) = AddKept(Decode(Written(E), {}), e)
    BY <2>3, EncodedItem
  <2>5. a[i] = E \o EncodeItem(e[1], e[2])
    BY <1>5, <1>9, <2>2, <2>3
  <2> QED BY <1>10, <2>1, <2>2, <2>3, <2>4, <2>5
<1>16. l \in 0..l
  OBVIOUS
<1>17. Decode(EncodeList(d), {}) = M[l] /\ EncodeList(d) \in Bytes
  BY <1>6, <1>9, <1>10, <1>11, <1>16
<1> QED BY <1>1, <1>13, <1>14, <1>15, <1>17 DEF B

(* A TLV list is decoded to what was encoded, without its empty values and   *)
(* with neighbours of one key put together (TLV.encode_list, decode_bytes),  *)
(* whatever the keys and the lengths of the values.                          *)
THEOREM TlvKept ==
  ASSUME NEW d, Listable(d)
  PROVE  TlvRoundTrip(d)
<1>1. PICK M : /\ M[0] = <<>> /\ \A i \in 1..Len(d) : M[i] = AddKept(M[i - 1], d[i])
               /\ M \in [0..Len(d) -> Seq(TlvItems)]
               /\ Decode(EncodeList(d), {}) = M[Len(d)]
  BY ListDecoded, Zenon
<1>2. PICK l \in Nat : l = Len(d)
  BY DEF Listable
<1> DEFINE IsRun(f) == f = [n \in 0..Len(d) |-> IF n = 0 THEN <<>> ELSE AddKept(f[n - 1], d[n])]
           after == CHOOSE f : IsRun(f)
<1>3. M = [n \in 0..l |-> M[n]]
  BY <1>1, <1>2
<1>4. \A n \in 0..l : M[n] = IF n = 0 THEN <<>> ELSE AddKept(M[n - 1], d[n])
  BY <1>1, <1>2
<1>5. IsRun(M)
  BY <1>2, <1>3, <1>4, Zenon
<1>6. IsRun(after)
  <2> HIDE DEF IsRun
  <2>1. \E f : IsRun(f)
    BY <1>5
  <2> QED BY <2>1, Zenon
<1>7. Merged(d) = after[Len(d)]
  BY Zenon DEF Merged
<1> HIDE DEF after
<1>8. \A n \in 0..l : after[n] = IF n = 0 THEN <<>> ELSE AddKept(after[n - 1], d[n])
  BY <1>2, <1>6
<1> HIDE DEF IsRun
<1>9. after[0] = M[0]
  <2>1. 0 \in 0..l
    OBVIOUS
  <2> QED BY <1>4, <1>8, <2>1
<1>10. \A n \in 1..l : after[n - 1] = M[n - 1] => after[n] = M[n]
  <2> TAKE n \in 1..l
  <2>1. n \in 0..l /\ n # 0
    OBVIOUS
  <2>2. after[n] = AddKept(after[n - 1], d[n]) /\ M[n] = AddKept(M[n - 1], d[n])
    BY <1>4, <1>8, <2>1
  <2> QED BY <2>2
<1>11. l \in 0..l
  OBVIOUS
<1>12. after[l] = M[l]
  <2>1. SameRuns(after, M, l)
    BY <1>9, <1>10 DEF SameRuns
  <2>2. \A n \in 0..l : after[n] = M[n]
    BY <2>1, RunsEqual
  <2> QED BY <1>11, <2>2
<1> QED BY <1>1, <1>2, <1>7, <1>12 DEF TlvRoundTrip

LEMMA FragmentKeys ==
  /\ FragmentData \in Nat /\ FragmentLast \in Nat
  /\ FragmentData # Separator /\ FragmentLast # Separator
  BY DEF FragmentData, FragmentLast, Separator

LEMMA OneItem ==
  ASSUME NEW x \in Nat, NEW v \in Bytes, x # Separator, v # <<>>
  PROVE  Decode(Written(EncodeItem(x, v)), {}) = <<<<x, v>>>>
<1>1. PICK E \in Seq(TlvItems) : E = <<>>
  BY EmptySeq
<1>2. PICK e \in TlvItems : e = <<x, v>>
  <2>1. <<x, v>> \in TlvItems
    BY DEF TlvItems
  <2> QED BY <2>1
<1>3. Divided(x, v) \in Seq(TlvItems)
      /\ Decode(Written(E \o Divided(x, v)), {}) = AddItem(Decode(Written(E), {}), <<x, v>>)
  BY DecodeDivided
<1>4. <<>> \o Divided(x, v) = Divided(x, v)
  BY <1>3, ConcatEmptySeq
<1>5. Decode(Written(E), {}) = <<>>
  BY <1>1, DecodeNone
<1>6. AddItem(<<>>, e) = <<e>>
  <2>1. Append(<<>>, e) = <<e>>
    OBVIOUS
  <2> QED BY <2>1 DEF AddItem
<1>7. EncodeItem(x, v) = Divided(x, v)
  BY DEF EncodeItem
<1> QED BY <1>1, <1>2, <1>3, <1>4, <1>5, <1>6, <1>7

(* The answer to a pairing request comes in fragments, one exchange each, of *)
(* which all are put together (_pairing_char_write), whatever their length.  *)
THEOREM FragmentsKept ==
  ASSUME NEW d, Listable(d), NEW n \in Nat, n # 0
  PROVE  FragmentsRoundTrip(d, n)
<1> DEFINE pieces == Pieces(EncodeList(d), n)
           key(i) == IF i = Len(pieces) THEN FragmentLast ELSE FragmentData
           answers == [i \in DOMAIN pieces |-> Written(EncodeItem(key(i), pieces[i]))]
<1>1. PICK b \in Seq(Nat) : b = EncodeList(d)
  BY ListDecoded DEF Bytes
<1>2. PICK c \in Nat : \E cut :
           /\ Cuts(b, n, c, cut) /\ (Len(b) # 0 => c # 0)
           /\ Pieces(b, n) = [i \in 1..c |-> SubSeq(b, cut[i - 1] + 1, cut[i])]
  BY PiecesAre
<1>3. PICK cut : /\ Cuts(b, n, c, cut)
                 /\ Pieces(b, n) = [i \in 1..c |-> SubSeq(b, cut[i - 1] + 1, cut[i])]
  BY <1>2
<1>4. PICK l \in Nat : l = Len(b)
  OBVIOUS
<1>5. /\ cut \in [0..c -> 0..l] /\ cut[0] = 0 /\ cut[c] = l
      /\ \A i \in 1..c : cut[i - 1] < cut[i]
  BY <1>3, <1>4 DEF Cuts
<1>6. pieces = [i \in 1..c |-> SubSeq(b, cut[i - 1] + 1, cut[i])]
  BY <1>1, <1>3
<1>7. FlattenSeq(pieces) = b
  <2>1. \A i \in 1..c : cut[i - 1] <= cut[i]
    <3> TAKE i \in 1..c
    <3>1. i - 1 \in 0..c /\ i \in 0..c
      OBVIOUS
    <3>2. cut[i - 1] \in 0..l /\ cut[i] \in 0..l /\ cut[i - 1] < cut[i]
      BY <1>5, <3>1
    <3> QED BY <3>2
  <2>2. cut \in [0..c -> 0..Len(b)] /\ cut[c] = Len(b)
    BY <1>4, <1>5
  <2>3. FlattenSeq([i \in 1..c |-> SubSeq(b, cut[i - 1] + 1, cut[i])]) = b
    BY <1>5, <2>1, <2>2, SlicesJoined
  <2> QED BY <1>6, <2>3
<1>8. ASSUME NEW i \in 1..c PROVE pieces[i] \in Bytes /\ pieces[i] # <<>>
  <2>1. i - 1 \in 0..c
    OBVIOUS
  <2>2. PICK p \in Nat : p = cut[i - 1]
    BY <1>5, <2>1
  <2>7. cut[i] \in 0..l /\ p < cut[i]
    BY <1>5, <2>2
  <2>3. PICK q \in Nat : q = cut[i] /\ q <= l /\ p < q /\ p <= q
    BY <2>7
  <2>4. SubSeq(b, p + 1, q) \in Seq(Nat) /\ Len(SubSeq(b, p + 1, q)) = q - p
    BY <1>4, <2>3, SliceIs
  <2>5. pieces[i] = SubSeq(b, p + 1, q)
    BY <1>6, <2>2, <2>3
  <2>6. Len(pieces[i]) # 0
    BY <2>3, <2>4, <2>5
  <2> QED BY <2>4, <2>5, <2>6, EmptySeq DEF Bytes
<1>9. DOMAIN pieces = 1..c
  BY <1>6
<1>10. c = 0 => pieces = <<>>
  BY <1>6
<1>11. pieces = [i \in 1..c |-> pieces[i]]
  BY <1>6
<1> HIDE DEF pieces
<1> SUFFICES ASSUME c # 0 PROVE Reassembled(answers) = Decode(b, {})
  BY <1>1, <1>10, Zenon DEF FragmentsRoundTrip, pieces
<1>12. \A i : key(i) \in Nat /\ key(i) # Separator /\ key(i) \in {FragmentData, FragmentLast}
  BY FragmentKeys
<1>13. answers = [i \in 1..c |-> Written(EncodeItem(key(i), pieces[i]))]
  BY <1>9
<1> HIDE DEF key, answers
<1> DEFINE items == [i \in DOMAIN answers |-> Decode(answers[i], {})]
<1>14. DOMAIN answers = 1..c /\ DOMAIN items = 1..c
  BY <1>13
<1>15. ASSUME NEW i \in 1..c PROVE items[i] = <<<<key(i), pieces[i]>>>>
  <2>1. items[i] = Decode(Written(EncodeItem(key(i), pieces[i])), {})
    BY <1>13, <1>14
  <2> HIDE DEF items
  <2> QED BY <1>8, <1>12, <2>1, OneItem
<1> DEFINE Fragment(i) == items[i] # <<>> /\ items[i][1][1] \in {FragmentData, FragmentLast}
<1>16. Reassembled(answers) =
         IF Fragment(1) THEN Decode(FlattenSeq([i \in DOMAIN items |-> items[i][1][2]]), {})
         ELSE items[1]
  BY Zenon DEF Reassembled
<1> HIDE DEF items
<1>17. Fragment(1)
  <2>1. PICK i \in 1..c : i = 1
    OBVIOUS
  <2>2. items[i] = <<<<key(i), pieces[i]>>>> /\ key(i) \in {FragmentData, FragmentLast}
    BY <1>12, <1>15
  <2>3. items[i] # <<>> /\ items[i][1][1] = key(i)
    BY <2>2
  <2> QED BY <2>1, <2>2, <2>3
<1>18. [i \in DOMAIN items |-> items[i][1][2]] = pieces
  <2>1. \A i \in 1..c : items[i][1][2] = pieces[i]
    BY <1>15
  <2> QED BY <1>11, <1>14, <2>1
<1> HIDE DEF Fragment
<1> QED BY <1>7, <1>16, <1>17, <1>18

-----------------------------------------------------------------------------
(* The PDUs of BLE.                                                          *)

LEMMA LeastOf ==
  ASSUME NEW n \in Nat, NEW S, n \in S, \A m \in S : m = n
  PROVE  Min(S) = n
<1> DEFINE Least(x) == x \in S /\ \A y \in S : x <= y
<1>1. Least(n)
  OBVIOUS
<1>2. \A x : Least(x) => x = n
  OBVIOUS
<1>3. Min(S) = CHOOSE x \in S : \A y \in S : x <= y
  BY Zenon DEF Min
<1>4. (CHOOSE x \in S : \A y \in S : x <= y) \in S
  BY <1>1, Zenon
<1> QED BY <1>3, <1>4

(* Where the data of the fragments ends: the i-th is slice i of the data.    *)
Fragments(data, tid, size, fragments, c, ends) ==
  /\ c # 0 /\ ends \in [0..c -> 0..Len(data)] /\ ends[0] = 0 /\ ends[c] = Len(data)
  /\ \A i \in 1..c : ends[i - 1] <= ends[i]
  /\ \A i \in 1..c : i # 1 => ends[i - 1] < ends[i]
  /\ DOMAIN fragments = 1..c /\ Len(fragments) = c
  /\ fragments[1].length = Len(data)
  /\ \A i \in 1..c : /\ fragments[i].data = SubSeq(data, ends[i - 1] + 1, ends[i])
                     /\ fragments[i].tid = tid /\ (fragments[i].first <=> i = 1)
                     /\ PduSize(fragments[i]) <= size

LEMMA FragmentsRead ==
  ASSUME NEW T, NEW data \in Seq(T), NEW tid, NEW size, NEW fragments, NEW c \in Nat, NEW ends,
         Fragments(data, tid, size, fragments, c, ends)
  PROVE  ReadPdu(tid, fragments) = [data |-> data, unread |-> <<>>]
<1>1. PICK l \in Nat : l = Len(data)
  OBVIOUS
<1>2. /\ c # 0 /\ ends \in [0..c -> 0..l] /\ ends[0] = 0 /\ ends[c] = l
      /\ \A i \in 1..c : ends[i - 1] <= ends[i]
      /\ \A i \in 1..c : i # 1 => ends[i - 1] < ends[i]
      /\ DOMAIN fragments = 1..c /\ Len(fragments) = c /\ fragments[1].length = l
      /\ \A i \in 1..c : /\ fragments[i].data = SubSeq(data, ends[i - 1] + 1, ends[i])
                         /\ fragments[i].tid = tid /\ (fragments[i].first <=> i = 1)
  BY <1>1, Zenon DEF Fragments
<1>3. ASSUME NEW n \in 1..c
      PROVE  DataOf(fragments, n) = SubSeq(data, 1, ends[n]) /\ Len(DataOf(fragments, n)) = ends[n]
  <2> DEFINE e == [i \in 0..n |-> ends[i]]
  <2>1. e \in [0..n -> 0..Len(data)] /\ \A i \in 0..n : e[i] = ends[i]
    <3>1. \A i \in 0..n : ends[i] \in 0..Len(data)
      <4> TAKE i \in 0..n
      <4>1. i \in 0..c
        OBVIOUS
      <4> QED BY <1>1, <1>2, <4>1
    <3> QED BY <3>1
  <2> HIDE DEF e
  <2>2. e[0] = 0 /\ e[n] = ends[n]
    <3>1. 0 \in 0..n /\ n \in 0..n
      OBVIOUS
    <3> QED BY <1>2, <2>1, <3>1
  <2>3. ASSUME NEW i \in 1..n
        PROVE  /\ e[i - 1] <= e[i]
               /\ fragments[i].data = SubSeq(data, e[i - 1] + 1, e[i])
    <3>1. i - 1 \in 0..n /\ i \in 0..n /\ i \in 1..c
      OBVIOUS
    <3>2. e[i - 1] = ends[i - 1] /\ e[i] = ends[i]
      BY <2>1, <3>1
    <3> QED BY <1>2, <3>1, <3>2
  <2>4. FlattenSeq([i \in 1..n |-> SubSeq(data, e[i - 1] + 1, e[i])]) = SubSeq(data, 1, e[n])
    <3>1. PICK k \in Nat : k = n
      OBVIOUS
    <3>2. FlattenSeq([i \in 1..k |-> SubSeq(data, e[i - 1] + 1, e[i])]) = SubSeq(data, 1, e[k])
      BY <2>1, <2>2, <2>3, <3>1, SlicesUpTo
    <3> QED BY <3>1, <3>2
  <2>5. [i \in 1..n |-> fragments[i].data] = [i \in 1..n |-> SubSeq(data, e[i - 1] + 1, e[i])]
    BY <2>3, Zenon
  <2>6. DataOf(fragments, n) = SubSeq(data, 1, ends[n])
    BY <2>2, <2>4, <2>5, Zenon DEF DataOf
  <2>7. Len(SubSeq(data, 1, ends[n])) = ends[n]
    <3>1. PICK z \in Nat : z = 0 /\ z + 1 = 1
      OBVIOUS
    <3>2. ends[n] \in 0..l
      BY <1>2
    <3>3. PICK q \in Nat : q = ends[n] /\ q <= l /\ z <= q /\ q - z = q
      BY <3>1, <3>2
    <3>4. Len(SubSeq(data, z + 1, q)) = q - z
      BY <1>1, <3>3, SliceIs
    <3> QED BY <3>1, <3>3, <3>4
  <2> QED BY <2>6, <2>7
<1> DEFINE enough == {n \in DOMAIN fragments : Len(DataOf(fragments, n)) >= fragments[1].length}
<1>4. c \in enough
  <2>1. c \in 1..c
    BY <1>2
  <2> QED BY <1>2, <1>3, <2>1
<1>5. ASSUME NEW m \in enough PROVE m = c
  <2>1. m \in 1..c /\ Len(DataOf(fragments, m)) >= l
    BY <1>2
  <2> HIDE DEF enough
  <2>2. ends[m] >= l
    BY <1>3, <2>1
  <2> SUFFICES ASSUME m # c PROVE FALSE
    OBVIOUS
  <2>3. PICK i \in 1..c : i = m + 1 /\ i - 1 = m /\ i # 1 /\ m \in 0..c /\ i \in 0..c
    <3>1. m + 1 \in 1..c /\ (m + 1) - 1 = m /\ m + 1 # 1
      BY <2>1
    <3> QED BY <2>1, <3>1
  <2>4. ends[i - 1] < ends[i] /\ ends[m] \in 0..l /\ ends[i] \in 0..l
    BY <1>2, <2>3
  <2> QED BY <2>2, <2>3, <2>4
<1>6. Min(enough) = c
  <2> HIDE DEF enough
  <2>1. \A m \in enough : m = c
    BY <1>5
  <2>2. PICK S : S = enough
    OBVIOUS
  <2>3. c \in S /\ \A m \in S : m = c
    BY <1>4, <2>1, <2>2
  <2>4. Min(S) = c
    BY <2>3, LeastOf
  <2> QED BY <2>2, <2>4
<1>7. ends[c] = l /\ c \in 1..c
  BY <1>2
<1>8. DataOf(fragments, c) = data
  <2>1. SubSeq(data, 1, l) = data
    BY <1>1, SubSeqFull
  <2> QED BY <1>3, <1>7, <2>1
<1>9. From(fragments, c + 1) = <<>>
  <2>1. c + 1 \in Int /\ c \in Int /\ c < c + 1
    OBVIOUS
  <2>2. SubSeq(fragments, c + 1, c) = <<>>
    BY <2>1, SubSeqEmpty
  <2> QED BY <1>2, <2>2 DEF From
<1>10. Accepted(tid, fragments[1]) /\ ~\E i \in 2..c : ~Continues(tid, fragments[i])
  <2>1. PICK i \in 1..c : i = 1
    BY <1>2
  <2>2. fragments[1].tid = tid
    BY <1>2, <2>1
  <2>3. ASSUME NEW j \in 2..c PROVE Continues(tid, fragments[j])
    <3>1. j \in 1..c /\ j # 1
      OBVIOUS
    <3> QED BY <1>2, <3>1 DEF Continues
  <2> QED BY <2>2, <2>3 DEF Accepted
<1>11. ReadPdu(tid, fragments) =
         IF ~Accepted(tid, fragments[1]) \/ \E i \in 2..Min(enough) : ~Continues(tid, fragments[i])
         THEN Failed
         ELSE [data |-> DataOf(fragments, Min(enough)), unread |-> From(fragments, Min(enough) + 1)]
  BY Zenon DEF ReadPdu
<1> HIDE DEF enough
<1>12. ReadPdu(tid, fragments) = [data |-> DataOf(fragments, c), unread |-> From(fragments, c + 1)]
  BY <1>6, <1>10, <1>11, Zenon
<1> QED BY <1>8, <1>9, <1>12

(* The first k, of n, and the others.                                        *)
Halves(s, n, k) ==
  /\ k <= n /\ k <= Len(s) /\ Take(s, n) = SubSeq(s, 1, k)
  /\ From(s, n + 1) = SubSeq(s, k + 1, Len(s)) /\ (Len(s) # 0 /\ n # 0 => k # 0)

LEMMA TakeIs ==
  ASSUME NEW T, NEW s \in Seq(T), NEW n \in Nat
  PROVE  \E k \in Nat : Halves(s, n, k)
<1>1. PICK l \in Nat : l = Len(s)
  OBVIOUS
<1>2. PICK k \in Nat : k = IF n < l THEN n ELSE l
  OBVIOUS
<1>3. Take(s, n) = SubSeq(s, 1, k)
  BY <1>1, <1>2 DEF Take
<1>4. From(s, n + 1) = SubSeq(s, k + 1, l)
  <2>1. CASE n <= l
    <3>1. k = n
      BY <1>2, <2>1
    <3> QED BY <1>1, <3>1 DEF From
  <2>2. CASE ~(n <= l)
    <3>1. k = l /\ l < n + 1 /\ l < l + 1 /\ n + 1 \in Int /\ l + 1 \in Int /\ l \in Int
      BY <1>2, <2>2
    <3>2. SubSeq(s, n + 1, l) = <<>> /\ SubSeq(s, l + 1, l) = <<>>
      BY <3>1, SubSeqEmpty
    <3> QED BY <1>1, <3>1, <3>2 DEF From
  <2> QED BY <2>1, <2>2
<1>5. k <= n /\ k <= l /\ (l # 0 /\ n # 0 => k # 0)
  BY <1>2
<1>6. Halves(s, n, k)
  BY <1>1, <1>3, <1>4, <1>5, Zenon DEF Halves
<1> QED BY <1>6, Zenon

LEMMA Emptied ==
  ASSUME NEW T, NEW data \in Seq(T), NEW tid, NEW size \in Nat, size > 7, data = <<>>
  PROVE  PduRoundTrip(tid, data, size)
<1> DEFINE f == [first |-> TRUE, tid |-> tid, length |-> 0, data |-> <<>>]
           fragments == EncodePdu(tid, data, size)
           ends == [i \in 0..1 |-> 0]
<1>1. fragments = <<f>>
  BY DEF EncodePdu
<1>2. PICK c \in Nat : c = 1
  OBVIOUS
<1>3. Len(data) = 0 /\ DOMAIN fragments = 1..c /\ Len(fragments) = c /\ fragments[1] = f
  <2> HIDE DEF f, fragments
  <2>1. DOMAIN <<f>> = 1..1 /\ Len(<<f>>) = 1 /\ <<f>>[1] = f
    OBVIOUS
  <2>2. Len(data) = 0
    OBVIOUS
  <2> QED BY <1>1, <1>2, <2>1, <2>2
<1> HIDE DEF fragments
<1>4. f.length = 0 /\ f.data = <<>> /\ f.tid = tid /\ f.first
  OBVIOUS
<1> HIDE DEF f
<1>5. PduSize(f) <= size
  <2>1. Len(f.data) = 0
    BY <1>4
  <2>2. PduSize(f) = 5 + 0
    BY <1>4, <2>1 DEF PduSize
  <2> QED BY <2>2
<1>6. ends \in [0..c -> {0}] /\ \A i \in 0..c : ends[i] = 0
  BY <1>2
<1> HIDE DEF ends
<1>7. SubSeq(data, 0 + 1, 0) = <<>>
  <2>1. PICK z \in Nat : z = 0
    OBVIOUS
  <2>2. SubSeq(data, z + 1, z) = <<>>
    BY <2>1, SliceNone
  <2> QED BY <2>1, <2>2
<1>8. ASSUME NEW i \in 1..c
      PROVE  /\ fragments[i].data = SubSeq(data, ends[i - 1] + 1, ends[i])
             /\ fragments[i].tid = tid /\ (fragments[i].first <=> i = 1)
             /\ PduSize(fragments[i]) <= size
             /\ ends[i - 1] <= ends[i] /\ i = 1
  <2>1. i = 1 /\ i - 1 \in 0..c /\ i \in 0..c
    BY <1>2
  <2>2. ends[i - 1] = 0 /\ ends[i] = 0
    BY <1>6, <2>1
  <2>3. fragments[i] = f
    BY <1>3, <2>1
  <2>4. SubSeq(data, ends[i - 1] + 1, ends[i]) = <<>>
    BY <1>7, <2>2
  <2>5. ends[i - 1] <= ends[i]
    BY <2>2
  <2> QED BY <1>4, <1>5, <2>1, <2>3, <2>4, <2>5
<1>9. Fragments(data, tid, size, fragments, c, ends)
  <2>1. /\ ends \in [0..c -> 0..Len(data)] /\ ends[0] = 0 /\ ends[c] = Len(data) /\ c # 0
    <3>1. 0 \in 0..c /\ c \in 0..c /\ {0} = 0..0
      OBVIOUS
    <3> QED BY <1>2, <1>3, <1>6, <3>1
  <2> QED BY <1>3, <1>4, <1>8, <2>1 DEF Fragments
<1>10. ReadPdu(tid, fragments) = [data |-> data, unread |-> <<>>]
  BY <1>9, FragmentsRead
<1>11. \A i \in DOMAIN fragments : PduSize(fragments[i]) <= size
  BY <1>3, <1>8
<1> QED BY <1>10, <1>11, Zenon DEF PduRoundTrip, fragments

CutInto(s, n, c) ==
  \E cut : /\ Cuts(s, n, c, cut)
           /\ Pieces(s, n) = [i \in 1..c |-> SubSeq(s, cut[i - 1] + 1, cut[i])]

LEMMA SomeCut ==
  ASSUME NEW T, NEW s \in Seq(T), NEW n \in Nat, n # 0
  PROVE  \E c \in Nat : CutInto(s, n, c)
<1>1. PICK c \in Nat : \E cut :
           /\ Cuts(s, n, c, cut) /\ (Len(s) # 0 => c # 0)
           /\ Pieces(s, n) = [i \in 1..c |-> SubSeq(s, cut[i - 1] + 1, cut[i])]
  BY PiecesAre
<1>2. CutInto(s, n, c)
  BY <1>1, Zenon DEF CutInto
<1> QED BY <1>2, Zenon

LEMMA Divides ==
  ASSUME NEW T, NEW data \in Seq(T), NEW tid, NEW size \in Nat, size > 7, data # <<>>
  PROVE  PduRoundTrip(tid, data, size)
<1>1. PICK l \in Nat : l = Len(data) /\ l # 0
  <2>1. Len(data) \in Nat /\ Len(data) # 0
    BY EmptySeq
  <2> QED BY <2>1
<1>2. PICK n \in Nat : n = size - 7 /\ n # 0 /\ size - 6 = n + 1
  <2>1. size - 7 \in Nat /\ size - 7 # 0 /\ size - 6 = (size - 7) + 1
    OBVIOUS
  <2> QED BY <2>1
<1>3. PICK k \in Nat :
        /\ k <= n /\ k <= l /\ Take(data, n) = SubSeq(data, 1, k)
        /\ From(data, n + 1) = SubSeq(data, k + 1, l) /\ k # 0
  <2>1. PICK k \in Nat : Halves(data, n, k)
    BY TakeIs
  <2>2. /\ k <= n /\ k <= l /\ Take(data, n) = SubSeq(data, 1, k)
        /\ From(data, n + 1) = SubSeq(data, k + 1, l) /\ (l # 0 /\ n # 0 => k # 0)
    BY <1>1, <2>1 DEF Halves
  <2> QED BY <1>1, <1>2, <2>2
<1>4. PICK m \in Nat : m = size - 2 /\ m # 0
  <2>1. size - 2 \in Nat /\ size - 2 # 0
    OBVIOUS
  <2> QED BY <2>1
<1> DEFINE r == SubSeq(data, k + 1, l)
           rest == Pieces(r, m)
           h == [first |-> TRUE, tid |-> tid, length |-> Len(data), data |-> SubSeq(data, 1, k)]
           t == [i \in DOMAIN rest |-> [first |-> FALSE, tid |-> tid, length |-> 0, data |-> rest[i]]]
           fragments == EncodePdu(tid, data, size)
<1>5. r \in Seq(T) /\ Len(r) = l - k
  <2>1. r = SubSeq(data, k + 1, l) /\ l <= Len(data)
    BY <1>1
  <2> HIDE DEF r
  <2> QED BY <1>1, <1>3, <2>1, SliceIs
<1>6. fragments = <<h>> \o t
  <2>1. fragments = <<[first |-> TRUE, tid |-> tid, length |-> Len(data), data |-> Take(data, size - 7)]>> \o
       LET rr == Pieces(From(data, size - 6), size - 2)
       IN [i \in DOMAIN rr |-> [first |-> FALSE, tid |-> tid, length |-> 0, data |-> rr[i]]]
    BY Zenon DEF EncodePdu
  <2>2. Take(data, size - 7) = SubSeq(data, 1, k) /\ From(data, size - 6) = r /\ size - 2 = m
    BY <1>2, <1>3, <1>4
  <2> QED BY <2>1, <2>2, Zenon
<1> HIDE DEF r
<1>7. PICK c \in Nat : CutInto(r, m, c)
  <2> HIDE DEF h, t, rest, fragments
  <2>1. m \in Nat /\ m # 0 /\ r \in Seq(T)
    BY <1>4, <1>5
  <2> QED BY <2>1, SomeCut
<1>8. PICK cut : /\ Cuts(r, m, c, cut)
                 /\ rest = [i \in 1..c |-> SubSeq(r, cut[i - 1] + 1, cut[i])]
  BY <1>7, Zenon DEF CutInto
<1>9. PICK w \in Nat : w = Len(r) /\ w = l - k /\ k + w = l
  <2>1. l - k \in Nat /\ k + (l - k) = l
    BY <1>3
  <2> QED BY <1>5, <2>1
<1>10. /\ cut \in [0..c -> 0..w] /\ cut[0] = 0 /\ cut[c] = w
       /\ \A i \in 1..c : cut[i - 1] < cut[i] /\ cut[i] <= cut[i - 1] + m
  BY <1>8, <1>9 DEF Cuts
<1>11. DOMAIN rest = 1..c /\ \A i \in 1..c : rest[i] = SubSeq(r, cut[i - 1] + 1, cut[i])
  BY <1>8
<1> HIDE DEF rest
<1> DEFINE q == [first |-> FALSE, tid |-> tid, length |-> 0, data |-> <<>>]
           U == {h} \cup {t[i] : i \in 1..c}
<1>12. DOMAIN t = 1..c /\ \A i \in 1..c : t[i] = [first |-> FALSE, tid |-> tid, length |-> 0, data |-> rest[i]]
  BY <1>11
<1>13. t \in Seq(U) /\ Len(t) = c
  <2> HIDE DEF h
  <2>1. t = [i \in 1..c |-> t[i]]
    BY <1>12
  <2> HIDE DEF t
  <2>2. t \in [1..c -> U]
    BY <2>1
  <2> HIDE DEF U
  <2> QED BY <2>2
<1>14. <<h>> \in Seq(U) /\ Len(<<h>>) = 1 /\ <<h>>[1] = h
  <2> HIDE DEF h, t
  <2>1. h \in U
    OBVIOUS
  <2> HIDE DEF U
  <2> QED BY <2>1
<1> DEFINE N == c + 1
<1>15. /\ fragments \in Seq(U) /\ Len(fragments) = N /\ DOMAIN fragments = 1..N
       /\ fragments[1] = h /\ \A i \in 2..N : fragments[i] = t[i - 1]
  <2> HIDE DEF h, t, U, fragments
  <2>1. /\ fragments \in Seq(U) /\ Len(fragments) = Len(<<h>>) + Len(t)
        /\ \A i \in 1..(Len(<<h>>) + Len(t)) :
              fragments[i] = IF i <= Len(<<h>>) THEN <<h>>[i] ELSE t[i - Len(<<h>>)]
    BY <1>6, <1>13, <1>14, ConcatProperties
  <2>2. Len(<<h>>) + Len(t) = N
    BY <1>13, <1>14
  <2>3. \A i \in 1..N : fragments[i] = IF i <= 1 THEN <<h>>[i] ELSE t[i - 1]
    BY <1>14, <2>1, <2>2
  <2>4. fragments[1] = h
    <3>1. PICK i \in 1..N : i = 1
      OBVIOUS
    <3> QED BY <1>14, <2>3, <3>1
  <2>5. \A i \in 2..N : fragments[i] = t[i - 1]
    BY <2>3
  <2>6. DOMAIN fragments = 1..Len(fragments)
    BY <2>1, LenProperties
  <2> QED BY <2>1, <2>2, <2>4, <2>5, <2>6
<1> HIDE DEF fragments
<1>16. h.length = l /\ h.data = SubSeq(data, 1, k) /\ h.tid = tid /\ h.first
  BY <1>1
<1>17. \A i \in 1..c : /\ t[i].data = SubSeq(r, cut[i - 1] + 1, cut[i]) /\ t[i].tid = tid
                       /\ ~t[i].first
  BY <1>11, <1>12
<1> HIDE DEF h, t, U
<1> DEFINE ends == [i \in 0..N |-> IF i = 0 THEN 0 ELSE k + cut[i - 1]]
<1>18. ends[0] = 0 /\ \A i \in 1..N : ends[i] = k + cut[i - 1]
  OBVIOUS
<1>19. ends \in [0..N -> 0..l]
  <2>1. \A i \in 0..N : i # 0 => i - 1 \in 0..c
    OBVIOUS
  <2>2. \A j \in 0..c : k + cut[j] \in 0..l
    <3> TAKE j \in 0..c
    <3>1. cut[j] \in 0..w
      BY <1>10
    <3> QED BY <1>9, <3>1
  <2> QED BY <2>1, <2>2
<1> HIDE DEF ends
<1>20. ends[N] = l
  <2>1. N \in 1..N /\ N - 1 = c
    OBVIOUS
  <2> QED BY <1>9, <1>10, <1>18, <2>1
<1>21. PICK z \in Nat : z = 0 /\ z + 1 = 1
  OBVIOUS
<1>22. PICK e \in 1..N : e = 1 /\ e - 1 = 0
  OBVIOUS
<1>23. ends[e] = k /\ ends[e - 1] = 0
  BY <1>10, <1>18, <1>22
(* The first fragment.                                                       *)
<1>24. /\ fragments[e].data = SubSeq(data, ends[e - 1] + 1, ends[e]) /\ fragments[e].tid = tid
       /\ fragments[e].first /\ PduSize(fragments[e]) <= size /\ ends[e - 1] <= ends[e]
  <2>1. fragments[e] = h
    BY <1>15, <1>22
  <2>2. SubSeq(data, ends[e - 1] + 1, ends[e]) = SubSeq(data, 1, k)
    BY <1>23
  <2>3. Len(h.data) = k
    <3>1. z <= k /\ k <= Len(data) /\ k - z = k
      BY <1>1, <1>3, <1>21
    <3>2. Len(SubSeq(data, z + 1, k)) = k - z
      BY <3>1, SliceIs
    <3> QED BY <1>16, <1>21, <3>1, <3>2
  <2>4. PduSize(h) = 7 + k
    BY <1>1, <1>16, <2>3 DEF PduSize
  <2>5. 7 + k <= size
    BY <1>2, <1>3
  <2>6. ends[e - 1] <= ends[e]
    BY <1>23
  <2> QED BY <1>16, <2>1, <2>2, <2>4, <2>5, <2>6
(* The others.                                                               *)
<1>25. ASSUME NEW i \in 1..N, i # 1
       PROVE  /\ fragments[i].data = SubSeq(data, ends[i - 1] + 1, ends[i]) /\ fragments[i].tid = tid
              /\ ~fragments[i].first /\ PduSize(fragments[i]) <= size /\ ends[i - 1] < ends[i]
  <2>1. PICK j \in 1..c : j = i - 1 /\ j \in 0..c /\ j - 1 \in 0..c /\ j \in 1..N
    <3>1. i - 1 \in 1..c
      BY <1>25
    <3> QED BY <3>1
  <2>2. fragments[i] = t[j]
    <3>1. i \in 2..N
      BY <1>25
    <3> QED BY <1>15, <2>1, <3>1
  <2>3. PICK a \in Nat : a = cut[j - 1]
    BY <1>10, <2>1
  <2>4. PICK b \in Nat : b = cut[j] /\ a < b /\ b <= a + m /\ b <= w /\ a <= b
    <3>1. cut[j] \in 0..w /\ cut[j - 1] < cut[j] /\ cut[j] <= cut[j - 1] + m
      BY <1>10, <2>1
    <3> QED BY <2>3, <3>1
  <2>5. ends[i] = k + b /\ ends[i - 1] = k + a
    BY <1>18, <2>1, <2>3, <2>4
  <2>6. fragments[i].data = SubSeq(r, a + 1, b) /\ fragments[i].tid = tid /\ ~fragments[i].first
    BY <1>17, <2>1, <2>2, <2>3, <2>4
  <2>7. SubSeq(r, a + 1, b) = SubSeq(data, (k + a) + 1, k + b)
    <3>1. a <= b /\ k + b <= Len(data)
      BY <1>1, <1>9, <2>4
    <3>2. SubSeq(SubSeq(data, k + 1, Len(data)), a + 1, b) = SubSeq(data, (k + a) + 1, k + b)
      BY <3>1, SliceOfSlice
    <3> QED BY <1>1, <3>2 DEF r
  <2>8. Len(SubSeq(r, a + 1, b)) = b - a
    BY <1>5, <1>9, <2>4, SliceIs
  <2>9. PduSize(fragments[i]) = 2 + (b - a)
    BY <2>6, <2>8 DEF PduSize
  <2>10. 2 + (b - a) <= size
    BY <1>4, <2>4
  <2>11. ends[i - 1] < ends[i]
    BY <2>4, <2>5
  <2> QED BY <2>5, <2>6, <2>7, <2>9, <2>10, <2>11
<1>26. \A i \in 1..N : i # 1 => ends[i - 1] < ends[i]
  BY <1>25
<1>27. \A i \in 1..N : ends[i - 1] <= ends[i]
  <2> TAKE i \in 1..N
  <2>1. CASE i = 1
    BY <1>22, <1>24, <2>1
  <2>2. CASE i # 1
    <3>1. i - 1 \in 0..N /\ i \in 0..N
      OBVIOUS
    <3>2. ends[i - 1] \in 0..l /\ ends[i] \in 0..l
      BY <1>19, <3>1
    <3> QED BY <1>26, <2>2, <3>2
  <2> QED BY <2>1, <2>2
<1>28. \A i \in 1..N : /\ fragments[i].data = SubSeq(data, ends[i - 1] + 1, ends[i])
                       /\ fragments[i].tid = tid /\ (fragments[i].first <=> i = 1)
                       /\ PduSize(fragments[i]) <= size
  <2> TAKE i \in 1..N
  <2>1. CASE i = 1
    BY <1>22, <1>24, <2>1
  <2>2. CASE i # 1
    BY <1>25, <2>2
  <2> QED BY <2>1, <2>2
<1>29. N \in Nat /\ N # 0
  OBVIOUS
<1> HIDE DEF N
<1>30. ends \in [0..N -> 0..Len(data)] /\ ends[N] = Len(data) /\ fragments[1].length = Len(data)
  BY <1>1, <1>15, <1>16, <1>19, <1>20
<1>31. Fragments(data, tid, size, fragments, N, ends)
  BY <1>15, <1>18, <1>26, <1>27, <1>28, <1>29, <1>30, Zenon DEF Fragments
<1>32. ReadPdu(tid, fragments) = [data |-> data, unread |-> <<>>]
  BY <1>29, <1>31, FragmentsRead
<1>33. \A i \in DOMAIN fragments : PduSize(fragments[i]) <= size
  BY <1>15, <1>28
<1> QED BY <1>32, <1>33, Zenon DEF PduRoundTrip, fragments

(* A request of any length fits the link in pieces, whatever the MTU and the *)
(* size of writes the link states, and is read as it was (encode_pdu,        *)
(* _read_pdu, _determine_fragment_size).                                     *)
THEOREM PdusKept ==
  ASSUME NEW T, NEW data \in Seq(T), NEW tid,
         NEW mtu \in Nat, NEW maxWrite \in Nat, NEW secure \in BOOLEAN
  PROVE  PduRoundTrip(tid, data, FragmentSize(mtu, maxWrite, secure))
<1>1. PICK size \in Nat : size = FragmentSize(mtu, maxWrite, secure) /\ size > 7
  <2>1. LargerOf(mtu, MinMtu) \in Nat /\ LargerOf(mtu, MinMtu) > 26
    BY LengthsAssumption DEF LargerOf
  <2>2. PICK a \in Nat : a = LargerOf(mtu, MinMtu) /\ a > 26
    BY <2>1
  <2>3. LargerOf(maxWrite, a - 3) \in Nat /\ LargerOf(maxWrite, a - 3) > 23
    BY <2>2 DEF LargerOf
  <2>4. PICK b \in Nat : b = LargerOf(maxWrite, a - 3) /\ b > 23
    BY <2>3
  <2>5. FragmentSize(mtu, maxWrite, secure) = b - (IF secure THEN 16 ELSE 0)
    BY <2>2, <2>4 DEF FragmentSize
  <2>6. b - (IF secure THEN 16 ELSE 0) \in Nat /\ b - (IF secure THEN 16 ELSE 0) > 7
    BY <2>4
  <2> QED BY <2>5, <2>6
<1> QED BY <1>1, Emptied, Divides

-----------------------------------------------------------------------------
(* The batch of CoAP.                                                        *)

Packed(a) == <<a.control, a.tid, a.status, Len(a.body)>> \o a.body
(* What is made of answer a to the request with transaction tid.             *)
Taken(a, tid) ==
  IF a.tid # tid \/ a.status # Success \/ a.control # Response THEN Failed ELSE a.body

LEMMA PackedRead ==
  ASSUME NEW a \in Replies, NEW rest \in Bytes, NEW tid, NEW b, b = Packed(a) \o rest
  PROVE  /\ DecodePdu(tid, b) = [length |-> Len(a.body), body |-> Taken(a, tid)]
         /\ Packed(a) \in Seq(Nat) /\ Len(Packed(a)) = 4 + Len(a.body)
<1> DEFINE h == <<a.control, a.tid, a.status, Len(a.body)>>
           v == a.body
           d == (h \o v) \o rest
<1>1. v \in Seq(Nat) /\ a.control \in Nat /\ a.tid \in Nat /\ a.status \in Nat /\ rest \in Seq(Nat)
  BY DEF Replies, Bytes
<1>2. PICK k \in Nat : k = Len(v)
  BY <1>1
<1>3. PICK m \in Nat : m = Len(rest)
  BY <1>1
<1>4. /\ h \in Seq(Nat) /\ Len(h) = 4
      /\ h[1] = a.control /\ h[2] = a.tid /\ h[3] = a.status /\ h[4] = k
  BY <1>1, <1>2
<1>5. d = b
  BY DEF Packed
<1>6. h \o v \in Seq(Nat) /\ Packed(a) = h \o v /\ Len(h \o v) = Len(h) + Len(v)
  BY <1>1, <1>4, ConcatProperties DEF Packed
<1> HIDE DEF h, v
<1>7. Headed(d, h, v, rest)
  BY <1>1, <1>4, HeadAndRest
<1> HIDE DEF d
<1>8. /\ d[1] = h[1] /\ d[2] = h[2] /\ d[3] = h[3] /\ d[4] = h[4] /\ SubSeq(d, 4 + 1, 4 + k) = v
  BY <1>2, <1>4, <1>7 DEF Headed
<1>9. /\ b[1] = a.control /\ b[2] = a.tid /\ b[3] = a.status /\ b[4] = k
      /\ SubSeq(b, 5, 4 + k) = v
  <2>1. 4 + 1 = 5
    OBVIOUS
  <2> QED BY <1>4, <1>5, <1>8, <2>1
<1>10. DecodePdu(tid, b) = [length |-> k, body |-> Taken(a, tid)]
  BY <1>9 DEF DecodePdu, Taken, v
<1> QED BY <1>2, <1>4, <1>6, <1>10 DEF v

LEMMA PackedAnswers ==
  ASSUME NEW A \in Seq(Replies)
  PROVE  LET ss == [i \in DOMAIN A |-> Packed(A[i])]
         IN ss \in Seq(Seq(Nat)) /\ Len(ss) = Len(A) /\ \A i \in 1..Len(A) : ss[i] = Packed(A[i])
<1> DEFINE ss == [i \in DOMAIN A |-> Packed(A[i])]
           B == Seq(Nat)
<1>1. PICK l \in Nat : l = Len(A) /\ DOMAIN A = 1..l
  BY LenProperties
<1>2. ASSUME NEW i \in 1..l
      PROVE  Packed(A[i]) \in B
  <2>1. A[i] \in Replies
    BY <1>1, ElementOfSeq
  <2>2. PICK r \in Bytes : r = <<>>
    BY EmptySeq DEF Bytes
  <2>3. PICK p : p = Packed(A[i]) \o r
    OBVIOUS
  <2> QED BY <2>1, <2>3, PackedRead
<1> HIDE DEF B
<1>3. ss \in [1..l -> B] /\ \A i \in 1..l : ss[i] = Packed(A[i])
  BY <1>1, <1>2
<1> HIDE DEF ss
<1>4. ss \in Seq(B) /\ Len(ss) = l
  BY <1>3
<1> QED BY <1>1, <1>3, <1>4 DEF ss, B

(* The first n of what is made of the answers.                               *)
TakenUpTo(A, n) == [i \in 1..n |-> Taken(A[i], i - 1)]

LEMMA TakenNext ==
  ASSUME NEW A, NEW n \in Nat
  PROVE  /\ Append(TakenUpTo(A, n), Taken(A[n + 1], n)) = TakenUpTo(A, n + 1)
         /\ Len(TakenUpTo(A, n)) = n /\ (n # 0 => TakenUpTo(A, n) # <<>>)
<1> DEFINE X == {Taken(A[i], i - 1) : i \in Nat}
           p == TakenUpTo(A, n)
           q == TakenUpTo(A, n + 1)
           e == Taken(A[n + 1], n)
<1>1. ASSUME NEW m \in Nat
      PROVE  TakenUpTo(A, m) \in [1..m -> X] /\ \A i \in 1..m : TakenUpTo(A, m)[i] = Taken(A[i], i - 1)
  BY DEF TakenUpTo
<1>2. e \in X /\ (n + 1) - 1 = n
  <2>1. n + 1 \in Nat /\ (n + 1) - 1 = n
    OBVIOUS
  <2>2. Taken(A[n + 1], (n + 1) - 1) \in X
    BY <2>1, Zenon
  <2> QED BY <2>1, <2>2
<1> HIDE DEF X
<1>3. ASSUME NEW m \in Nat
      PROVE  TakenUpTo(A, m) \in Seq(X) /\ Len(TakenUpTo(A, m)) = m
  <2>1. PICK f \in [1..m -> X] : f = TakenUpTo(A, m)
    BY <1>1
  <2>2. f \in Seq(X) /\ Len(f) = m
    OBVIOUS
  <2> QED BY <2>1, <2>2
<1>4. n + 1 \in Nat
  OBVIOUS
<1>5. p \in Seq(X) /\ Len(p) = n /\ q \in Seq(X) /\ Len(q) = n + 1
  BY <1>3, <1>4
<1>6. q[n + 1] = e
  <2>1. n + 1 \in 1..(n + 1)
    OBVIOUS
  <2>2. q[n + 1] = Taken(A[n + 1], (n + 1) - 1)
    BY <1>1, <1>4, <2>1
  <2> QED BY <1>2, <2>2
<1>7. \A i \in 1..n : p[i] = q[i]
  <2> TAKE i \in 1..n
  <2>1. i \in 1..(n + 1)
    OBVIOUS
  <2>2. p[i] = Taken(A[i], i - 1) /\ q[i] = Taken(A[i], i - 1)
    BY <1>1, <1>4, <2>1
  <2> QED BY <2>2
<1> HIDE DEF p, q, e
<1> DEFINE r == Append(p, e)
<1>8. /\ r \in Seq(X) /\ Len(r) = n + 1 /\ r[n + 1] = e
      /\ \A i \in 1..n : r[i] = p[i]
  BY <1>2, <1>5, AppendProperties
<1> HIDE DEF r
<1>9. \A i \in 1..Len(r) : r[i] = q[i]
  <2> TAKE i \in 1..Len(r)
  <2>1. i \in 1..n \/ i = n + 1
    BY <1>8
  <2> QED BY <1>6, <1>7, <1>8, <2>1
<1>10. r = q
  <2>1. Len(r) = Len(q)
    BY <1>5, <1>8
  <2> QED BY <1>5, <1>8, <1>9, <2>1, SeqEqual
<1>11. n # 0 => p # <<>>
  BY <1>5, EmptySeq
<1> QED BY <1>5, <1>10, <1>11 DEF p, q, e, r

(* One turn: the PDU that begins at the offset, if there is one.             *)
AtTurn(A, data, before, rest, n) ==
  data = before \o (Packed(A[n]) \o rest) /\ (n # 1 => Len(before) # 0)
AfterTurn(A, data, before, n) ==
  TakePdu([offset |-> Len(before), bodies |-> TakenUpTo(A, n - 1)], 0, data) =
    [offset |-> Len(before) + 4 + Len(A[n].body), bodies |-> TakenUpTo(A, n)]

LEMMA TurnTaken ==
  ASSUME NEW A \in Seq(Replies), NEW data \in Bytes, NEW before \in Bytes, NEW rest \in Bytes,
         NEW n \in 1..Len(A), AtTurn(A, data, before, rest, n)
  PROVE  AfterTurn(A, data, before, n)
<1> USE DEF AtTurn
<1> SUFFICES TakePdu([offset |-> Len(before), bodies |-> TakenUpTo(A, n - 1)], 0, data) =
               [offset |-> Len(before) + 4 + Len(A[n].body), bodies |-> TakenUpTo(A, n)]
  BY DEF AfterTurn
<1>1. PICK a \in Replies : a = A[n]
  <2>1. A[n] \in Replies
    BY ElementOfSeq
  <2> QED BY <2>1
<1>2. PICK j \in Nat : j = n - 1 /\ j + 1 = n
  <2>1. n - 1 \in Nat /\ (n - 1) + 1 = n
    OBVIOUS
  <2> QED BY <2>1
<1>3. PICK b : b = Packed(a) \o rest
  OBVIOUS
<1>4. /\ DecodePdu(j, b) = [length |-> Len(a.body), body |-> Taken(a, j)]
      /\ Packed(a) \in Seq(Nat) /\ Len(Packed(a)) = 4 + Len(a.body)
  BY <1>3, PackedRead
<1>5. b \in Seq(Nat) /\ Len(b) = Len(Packed(a)) + Len(rest)
  BY <1>3, <1>4, ConcatProperties DEF Bytes
<1>6. From(data, Len(before) + 1) = b /\ Len(data) = Len(before) + Len(b)
  <2>1. PICK T : T = Nat
    OBVIOUS
  <2>2. before \in Seq(T) /\ data = before \o b /\ b \in Seq(T)
    BY <1>1, <1>3, <1>5, <2>1 DEF Bytes
  <2>3. From(before \o b, Len(before) + 1) = b /\ Len(before \o b) = Len(before) + Len(b)
    BY <2>2, SecondPart
  <2> QED BY <2>2, <2>3, Zenon
<1>7. PICK k \in Nat : k = Len(a.body)
  <2>1. a.body \in Seq(Nat)
    BY DEF Replies, Bytes
  <2> QED BY <2>1
<1>8. Len(data) > Len(before)
  <2>1. Len(rest) \in Nat /\ Len(before) \in Nat
    BY DEF Bytes
  <2> QED BY <1>4, <1>5, <1>6, <1>7, <2>1
<1>9. Len(before) \in Nat /\ Len(data) \in Nat
  BY DEF Bytes
<1> DEFINE s == [offset |-> Len(before), bodies |-> TakenUpTo(A, j)]
<1>10. s.offset = Len(before) /\ s.bodies = TakenUpTo(A, j)
  OBVIOUS
<1> HIDE DEF s
<1>11. /\ Append(TakenUpTo(A, j), Taken(A[j + 1], j)) = TakenUpTo(A, j + 1)
       /\ Len(TakenUpTo(A, j)) = j
  BY TakenNext
<1>12. Append(s.bodies, Taken(a, j)) = TakenUpTo(A, n) /\ 0 + Len(s.bodies) = j
  BY <1>1, <1>2, <1>10, <1>11
<1>13. ~(s.offset >= Len(data))
  BY <1>8, <1>9, <1>10
<1>14. DecodePdu(0 + Len(s.bodies), From(data, s.offset + 1)) =
         [length |-> Len(a.body), body |-> Taken(a, j)]
  BY <1>4, <1>6, <1>10, <1>12
<1> DEFINE pdu == DecodePdu(0 + Len(s.bodies), From(data, s.offset + 1))
<1>15. pdu.length = Len(a.body) /\ pdu.body = Taken(a, j)
  BY <1>14
<1>16. TakePdu(s, 0, data) =
         IF s.bodies # <<>> /\ s.offset >= Len(data) THEN s
         ELSE [offset |-> s.offset + 4 + pdu.length, bodies |-> Append(s.bodies, pdu.body)]
  BY Zenon DEF TakePdu
<1> HIDE DEF pdu
<1>17. TakePdu(s, 0, data) = [offset |-> s.offset + 4 + pdu.length, bodies |-> Append(s.bodies, pdu.body)]
  BY <1>13, <1>16, Zenon
<1>18. TakePdu(s, 0, data) = [offset |-> Len(before) + 4 + Len(a.body), bodies |-> TakenUpTo(A, n)]
  BY <1>10, <1>12, <1>15, <1>17, Zenon
<1> QED BY <1>1, <1>2, <1>18 DEF s

LEMMA BatchDecoded ==
  ASSUME NEW A \in Seq(Replies), A # <<>>
  PROVE  DecodeAllPdus(0, FlattenSeq([i \in DOMAIN A |-> Packed(A[i])])) = TakenUpTo(A, Len(A))
<1> DEFINE ss == [i \in DOMAIN A |-> Packed(A[i])]
           data == FlattenSeq(ss)
<1>1. PICK l \in Nat : l = Len(A) /\ l # 0
  <2>1. Len(A) \in Nat /\ Len(A) # 0
    BY EmptySeq
  <2> QED BY <2>1
<1>2. ss \in Seq(Seq(Nat)) /\ Len(ss) = l /\ \A i \in 1..l : ss[i] = Packed(A[i])
  BY <1>1, PackedAnswers
<1> HIDE DEF ss
<1>3. PICK a, tl : Splits(Nat, ss, a, tl)
  BY <1>2, RestsOf
<1>4. /\ a[0] = <<>> /\ \A i \in 1..l : a[i] = a[i - 1] \o ss[i]
      /\ tl[l] = <<>> /\ \A i \in 1..l : tl[i - 1] = ss[i] \o tl[i]
      /\ \A i \in 0..l : /\ a[i] \in Seq(Nat) /\ tl[i] \in Seq(Nat)
                         /\ data = a[i] \o tl[i]
      /\ tl[0] = data
  BY <1>2, <1>3 DEF Splits
<1> HIDE DEF data
<1>5. data \in Bytes /\ \A i \in 0..l : a[i] \in Bytes /\ tl[i] \in Bytes /\ Len(a[i]) \in Nat
  <2>1. 0 \in 0..l
    OBVIOUS
  <2>2. data \in Bytes
    BY <1>4, <2>1, Zenon DEF Bytes
  <2>3. ASSUME NEW i \in 0..l
        PROVE  a[i] \in Bytes /\ tl[i] \in Bytes /\ Len(a[i]) \in Nat
    <3>1. PICK s \in Seq(Nat) : s = a[i]
      BY <1>4, Zenon
    <3>2. Len(s) \in Nat
      OBVIOUS
    <3>3. a[i] \in Bytes /\ tl[i] \in Bytes
      BY <1>4, Zenon DEF Bytes
    <3> QED BY <3>1, <3>2, <3>3
  <2> QED BY <2>2, <2>3
<1>6. ASSUME NEW i \in 1..l
      PROVE  Len(a[i]) = Len(a[i - 1]) + 4 + Len(A[i].body) /\ Len(A[i].body) \in Nat
  <2>1. A[i] \in Replies
    BY <1>1, ElementOfSeq
  <2>2. A[i].body \in Seq(Nat)
    BY <2>1 DEF Replies, Bytes
  <2>3. PICK r \in Bytes : r = <<>>
    BY EmptySeq DEF Bytes
  <2>4. PICK p : p = Packed(A[i]) \o r
    OBVIOUS
  <2>5. Packed(A[i]) \in Seq(Nat) /\ Len(Packed(A[i])) = 4 + Len(A[i].body)
    BY <2>1, <2>4, PackedRead
  <2>6. i - 1 \in 0..l
    OBVIOUS
  <2>7. a[i] = a[i - 1] \o Packed(A[i]) /\ a[i - 1] \in Seq(Nat)
    BY <1>2, <1>4, <2>6
  <2>8. Len(a[i]) = Len(a[i - 1]) + Len(Packed(A[i]))
    BY <2>5, <2>7, ConcatProperties
  <2>9. Len(a[i - 1]) \in Nat /\ Len(A[i].body) \in Nat
    BY <1>5, <2>2, <2>6
  <2>10. PICK u \in Nat : u = Len(a[i - 1])
    BY <2>9
  <2>11. PICK w \in Nat : w = Len(A[i].body)
    BY <2>9
  <2>12. u + (4 + w) = u + 4 + w
    OBVIOUS
  <2> QED BY <2>5, <2>8, <2>10, <2>11, <2>12
<1>7. \A n \in 0..l : Len(a[n]) >= n
  <2> DEFINE S == {n \in Nat : n <= l => Len(a[n]) >= n}
  <2>1. 0 \in S
    <3>1. 0 \in 0..l
      OBVIOUS
    <3>2. Len(a[0]) \in Nat
      BY <1>5, <3>1
    <3> QED BY <3>2
  <2>2. \A n \in Nat : n \in S => n + 1 \in S
    <3> SUFFICES ASSUME NEW n \in Nat, n \in S, n + 1 <= l PROVE Len(a[n + 1]) >= n + 1
      OBVIOUS
    <3>1. PICK i \in 1..l : i = n + 1 /\ i - 1 = n /\ n \in 0..l
      OBVIOUS
    <3>2. Len(a[n]) >= n /\ Len(a[n]) \in Nat
      BY <1>5, <3>1
    <3>3. Len(a[i]) = Len(a[n]) + 4 + Len(A[i].body) /\ Len(A[i].body) \in Nat
      BY <1>6, <3>1
    <3>4. PICK u \in Nat : u = Len(a[n]) /\ u >= n
      BY <3>2
    <3>5. PICK w \in Nat : w = Len(A[i].body)
      BY <3>3
    <3>6. u + 4 + w >= n + 1
      BY <3>4
    <3>7. Len(a[i]) >= n + 1
      BY <3>3, <3>4, <3>5, <3>6
    <3> QED BY <3>1, <3>7
  <2> HIDE DEF S
  <2>3. \A n \in Nat : n \in S
    BY <2>1, <2>2, InductionOverSet
  <2> QED BY <2>3 DEF S
<1>8. PICK N \in Nat : N = Len(data) /\ N = Len(a[l]) /\ N >= l
  <2>1. l \in 0..l
    OBVIOUS
  <2>2. data = a[l]
    <3>1. PICK T : T = Nat
      OBVIOUS
    <3>2. PICK s \in Seq(T) : s = a[l]
      BY <1>4, <2>1, <3>1
    <3>3. s \o <<>> = s
      BY ConcatEmptySeq
    <3>4. data = a[l] \o tl[l]
      BY <1>4, <2>1
    <3> QED BY <1>4, <3>2, <3>3, <3>4
  <2> QED BY <1>5, <1>7, <2>1, <2>2
<1>9. ASSUME NEW n \in 1..l
      PROVE  TakePdu([offset |-> Len(a[n - 1]), bodies |-> TakenUpTo(A, n - 1)], 0, data) =
               [offset |-> Len(a[n]), bodies |-> TakenUpTo(A, n)]
  <2>1. n - 1 \in 0..l /\ n \in 0..l /\ n \in 1..Len(A)
    BY <1>1
  <2>2. PICK before \in Bytes : before = a[n - 1]
    BY <1>5, <2>1
  <2>3. PICK rest \in Bytes : rest = tl[n]
    BY <1>5, <2>1
  <2>4. data = before \o (Packed(A[n]) \o rest)
    BY <1>2, <1>4, <2>1, <2>2, <2>3
  <2>5. n # 1 => Len(before) # 0
    <3>1. Len(a[n - 1]) >= n - 1
      BY <1>7, <2>1
    <3> QED BY <2>2, <3>1
  <2>6. data \in Bytes
    BY <1>5
  <2>7. TakePdu([offset |-> Len(before), bodies |-> TakenUpTo(A, n - 1)], 0, data) =
          [offset |-> Len(before) + 4 + Len(A[n].body), bodies |-> TakenUpTo(A, n)]
    <3>1. PICK k \in 1..Len(A) : k = n
      BY <2>1
    <3>2. PICK d \in Bytes : d = data
      BY <2>6
    <3>3. AtTurn(A, d, before, rest, k)
      BY <2>4, <2>5, <3>1, <3>2 DEF AtTurn
    <3>4. TakePdu([offset |-> Len(before), bodies |-> TakenUpTo(A, k - 1)], 0, d) =
            [offset |-> Len(before) + 4 + Len(A[k].body), bodies |-> TakenUpTo(A, k)]
      <4>1. AfterTurn(A, d, before, k)
        BY <3>3, TurnTaken
      <4> QED BY <4>1 DEF AfterTurn
    <3> QED BY <3>1, <3>2, <3>4
  <2> QED BY <1>6, <2>2, <2>7
<1> DEFINE st == [n \in 0..N |-> IF n <= l THEN [offset |-> Len(a[n]), bodies |-> TakenUpTo(A, n)]
                                           ELSE [offset |-> N, bodies |-> TakenUpTo(A, l)]]
           IsRun(f) == f = [n \in 0..N |-> IF n = 0 THEN [offset |-> 0, bodies |-> <<>>]
                                                    ELSE TakePdu(f[n - 1], 0, data)]
           after == CHOOSE f : IsRun(f)
<1>10. ASSUME NEW n \in 0..N
       PROVE  st[n] = IF n = 0 THEN [offset |-> 0, bodies |-> <<>>] ELSE TakePdu(st[n - 1], 0, data)
  <2>1. CASE n = 0
    <3>1. st[n] = [offset |-> Len(a[n]), bodies |-> TakenUpTo(A, n)]
      BY <2>1
    <3> HIDE DEF st
    <3>2. Len(a[n]) = 0
      BY <1>4, <2>1
    <3>3. TakenUpTo(A, n) = <<>>
      <4>1. 1..n = {}
        BY <2>1
      <4> QED BY <4>1 DEF TakenUpTo
    <3> QED BY <2>1, <3>1, <3>2, <3>3
  <2>2. CASE n # 0 /\ n <= l
    <3>1. n \in 1..l /\ n - 1 \in 0..N
      BY <2>2
    <3>2. st[n] = [offset |-> Len(a[n]), bodies |-> TakenUpTo(A, n)]
      BY <2>2
    <3>3. st[n - 1] = [offset |-> Len(a[n - 1]), bodies |-> TakenUpTo(A, n - 1)]
      BY <2>2, <3>1
    <3> HIDE DEF st
    <3> QED BY <1>9, <2>2, <3>1, <3>2, <3>3
  <2>3. CASE n > l
    <3>1. n - 1 \in 0..N /\ n # 0
      BY <2>3
    <3>2. st[n] = [offset |-> N, bodies |-> TakenUpTo(A, l)]
      BY <2>3
    <3>3. st[n - 1] = [offset |-> N, bodies |-> TakenUpTo(A, l)]
      <4>1. CASE n - 1 <= l
        <5>1. n - 1 = l
          BY <2>3, <4>1
        <5>2. st[n - 1] = [offset |-> Len(a[n - 1]), bodies |-> TakenUpTo(A, n - 1)]
          BY <3>1, <4>1
        <5> HIDE DEF st
        <5> QED BY <1>8, <5>1, <5>2
      <4>2. CASE ~(n - 1 <= l)
        BY <3>1, <4>2
      <4> QED BY <4>1, <4>2
    <3> HIDE DEF st
    <3> DEFINE s == st[n - 1]
    <3>4. s.offset = N /\ s.bodies = TakenUpTo(A, l)
      BY <3>3
    <3> HIDE DEF s
    <3>5. s.bodies # <<>>
      BY <1>1, <3>4, TakenNext
    <3>6. TakePdu(s, 0, data) = s
      BY <1>8, <3>4, <3>5 DEF TakePdu
    <3> QED BY <3>1, <3>2, <3>3, <3>6 DEF s
  <2> QED BY <2>1, <2>2, <2>3
<1>11. st = [n \in 0..N |-> st[n]]
  OBVIOUS
<1>12. st[N].bodies = TakenUpTo(A, l)
  <2>1. CASE N <= l
    <3>1. N = l
      BY <1>8, <2>1
    <3>2. st[N] = [offset |-> Len(a[N]), bodies |-> TakenUpTo(A, N)]
      BY <2>1
    <3> HIDE DEF st
    <3> QED BY <3>1, <3>2
  <2>2. CASE ~(N <= l)
    <3>1. st[N] = [offset |-> N, bodies |-> TakenUpTo(A, l)]
      BY <2>2
    <3> HIDE DEF st
    <3> QED BY <3>1
  <2> QED BY <2>1, <2>2
<1> HIDE DEF st
<1>13. IsRun(st)
  BY <1>10, <1>11, Zenon
<1>14. IsRun(after)
  <2> HIDE DEF IsRun
  <2>1. \E f : IsRun(f)
    BY <1>13
  <2> QED BY <2>1, Zenon
<1>15. DecodeAllPdus(0, data) = after[N].bodies
  BY <1>8, Zenon DEF DecodeAllPdus
<1> HIDE DEF after
<1>16. \A n \in 0..N : after[n] = IF n = 0 THEN [offset |-> 0, bodies |-> <<>>] ELSE TakePdu(after[n - 1], 0, data)
  BY <1>14
<1> HIDE DEF IsRun
<1>17. after[0] = st[0]
  <2>1. 0 \in 0..N
    OBVIOUS
  <2> QED BY <1>10, <1>16, <2>1
<1>18. ASSUME NEW n \in 1..N, after[n - 1] = st[n - 1] PROVE after[n] = st[n]
  <2>1. n \in 0..N /\ n # 0
    OBVIOUS
  <2>2. after[n] = TakePdu(after[n - 1], 0, data) /\ st[n] = TakePdu(st[n - 1], 0, data)
    BY <1>10, <1>16, <2>1
  <2> QED BY <1>18, <2>2
<1>19. N \in 0..N
  OBVIOUS
<1>20. after[N] = st[N]
  <2>1. PICK f : f = after
    OBVIOUS
  <2>2. PICK g : g = st
    OBVIOUS
  <2>3. SameRuns(f, g, N)
    BY <1>17, <1>18, <2>1, <2>2 DEF SameRuns
  <2>4. \A n \in 0..N : f[n] = g[n]
    BY <2>3, RunsEqual
  <2> QED BY <1>19, <2>1, <2>2, <2>4
<1>21. DecodeAllPdus(0, data) = TakenUpTo(A, l)
  BY <1>12, <1>15, <1>20
<1> QED BY <1>1, <1>21 DEF data, ss

(* Every answer of a batch of any length stays in its place, whichever of    *)
(* them fail, and whatever their bodies are (decode_all_pdus).               *)
THEOREM BatchKept ==
  ASSUME NEW answers \in Seq(Replies), answers # <<>>
  PROVE  BatchRoundTrip(answers)
<1> DEFINE packed == FlattenSeq([i \in DOMAIN answers |-> Packed(answers[i])])
<1>1. DecodeAllPdus(0, packed) = TakenUpTo(answers, Len(answers))
  BY BatchDecoded
<1>2. DOMAIN answers = 1..Len(answers)
  BY LenProperties
<1>3. packed = FlattenSeq([i \in DOMAIN answers |->
                 <<answers[i].control, answers[i].tid, answers[i].status, Len(answers[i].body)>> \o
                 answers[i].body])
  BY Zenon DEF Packed
<1> HIDE DEF packed
<1>4. TakenUpTo(answers, Len(answers)) =
        [i \in DOMAIN answers |->
           IF answers[i].tid # i - 1 \/ answers[i].status # Success \/ answers[i].control # Response
           THEN Failed ELSE answers[i].body]
  BY <1>2, Zenon DEF TakenUpTo, Taken
<1> QED BY <1>1, <1>3, <1>4, Zenon DEF BatchRoundTrip

-----------------------------------------------------------------------------
(* Lists of pairings.                                                        *)

Records == [id : Bytes, key : Bytes, permissions : Bytes]

Extended(f, m, x, l) ==
  /\ Len(m) = l /\ f = [i \in 1..(l + 1) |-> f[i]]
  /\ (\A i \in 1..l : f[i] = m[i]) /\ f[l + 1] = x

LEMMA AppendIs ==
  ASSUME NEW X, NEW m \in Seq(X), NEW x \in X, NEW l \in Nat, NEW f, Extended(f, m, x, l)
  PROVE  f = Append(m, x) /\ f \in Seq(X)
<1>0. /\ Len(m) = l /\ f = [i \in 1..(l + 1) |-> f[i]]
      /\ \A i \in 1..l : f[i] = m[i]
      /\ f[l + 1] = x
  BY DEF Extended
<1> DEFINE a == Append(m, x)
<1>1. a \in Seq(X) /\ Len(a) = l + 1 /\ a[l + 1] = x /\ \A i \in 1..l : a[i] = m[i]
  BY <1>0, AppendProperties
<1> HIDE DEF a
<1>2. a = [i \in 1..(l + 1) |-> a[i]]
  <2>1. DOMAIN a = 1..Len(a) /\ a = [i \in DOMAIN a |-> a[i]]
    BY <1>1
  <2> QED BY <1>1, <2>1
<1>3. \A i \in 1..(l + 1) : f[i] = a[i]
  <2> TAKE i \in 1..(l + 1)
  <2>1. i \in 1..l \/ i = l + 1
    OBVIOUS
  <2> QED BY <1>0, <1>1, <2>1
<1>4. f = a
  BY <1>0, <1>2, <1>3, Zenon
<1> QED BY <1>1, <1>4 DEF a

(* One item more is decoded.                                                 *)
LEMMA ListGrows ==
  ASSUME NEW d \in Seq(TlvItems), NEW e \in TlvItems, Listable(Append(d, e)), Listable(d)
  PROVE  Decode(EncodeList(Append(d, e)), {}) = AddKept(Decode(EncodeList(d), {}), e)
<1> DEFINE g == Append(d, e)
           B == Seq(TlvItems)
           ss == [i \in DOMAIN d |-> EncodeItem(d[i][1], d[i][2])]
           tt == [i \in DOMAIN g |-> EncodeItem(g[i][1], g[i][2])]
<1>1. PICK l \in Nat : l = Len(d) /\ DOMAIN d = 1..l
  BY LenProperties
<1>2. /\ g \in Seq(TlvItems) /\ Len(g) = l + 1 /\ DOMAIN g = 1..(l + 1)
      /\ g[l + 1] = e /\ \A i \in 1..l : g[i] = d[i]
  BY <1>1, AppendProperties
<1> HIDE DEF g
<1>3. ASSUME NEW i \in 1..(l + 1)
      PROVE  EncodeItem(g[i][1], g[i][2]) \in B
  <2>1. g[i] \in TlvItems /\ (g[i][1] = Separator => g[i][2] = <<>>)
    BY <1>2, ElementOfSeq DEF Listable, g
  <2>2. PICK E \in Seq(TlvItems) : E = <<>>
    BY EmptySeq
  <2> QED BY <2>1, EncodedItem
<1> HIDE DEF B
<1>4. ss \in [1..l -> B] /\ \A i \in 1..l : ss[i] = EncodeItem(d[i][1], d[i][2])
  <2>1. ASSUME NEW i \in 1..l PROVE EncodeItem(d[i][1], d[i][2]) \in B
    <3>1. i \in 1..(l + 1) /\ g[i] = d[i]
      BY <1>2
    <3> QED BY <1>3, <3>1
  <2> QED BY <1>1, <2>1
<1>5. /\ tt = [i \in 1..(l + 1) |-> tt[i]]
      /\ \A i \in 1..(l + 1) : tt[i] = EncodeItem(g[i][1], g[i][2])
  BY <1>2
<1> HIDE DEF ss, tt
<1>6. ss \in Seq(B) /\ Len(ss) = l
  BY <1>4
<1> DEFINE w == EncodeItem(e[1], e[2])
<1>7. w \in B
  <2>1. l + 1 \in 1..(l + 1)
    OBVIOUS
  <2> QED BY <1>2, <1>3, <2>1
<1>8. tt = Append(ss, w)
  <2>1. \A i \in 1..l : tt[i] = ss[i]
    <3> TAKE i \in 1..l
    <3>1. i \in 1..(l + 1)
      OBVIOUS
    <3> QED BY <1>2, <1>4, <1>5, <3>1
  <2>2. tt[l + 1] = w
    <3>1. l + 1 \in 1..(l + 1)
      OBVIOUS
    <3> QED BY <1>2, <1>5, <3>1
  <2> HIDE DEF w
  <2>3. Extended(tt, ss, w, l)
    BY <1>5, <1>6, <2>1, <2>2, Zenon DEF Extended
  <2> QED BY <1>6, <1>7, <2>3, AppendIs
<1>9. FlattenSeq(ss) \in Seq(TlvItems) /\ FlattenSeq(tt) = FlattenSeq(ss) \o w
  <2>1. ss \in Seq(Seq(TlvItems)) /\ w \in Seq(TlvItems)
    BY <1>6, <1>7 DEF B
  <2> HIDE DEF w
  <2>2. FlattenSeq(ss) \in Seq(TlvItems) /\ FlattenSeq(Append(ss, w)) = FlattenSeq(ss) \o w
    BY <2>1, FlatAppend
  <2> QED BY <1>8, <2>2
<1>10. EncodeList(d) = Written(FlattenSeq(ss)) /\ EncodeList(g) = Written(FlattenSeq(tt))
  BY DEF EncodeList, ss, tt
<1>11. e[1] = Separator => e[2] = <<>>
  <2>1. l + 1 \in 1..(l + 1)
    OBVIOUS
  <2> QED BY <1>2, <2>1 DEF Listable, g
<1>12. PICK E \in Seq(TlvItems) : E = FlattenSeq(ss)
  BY <1>9
<1>13. Decode(Written(E \o w), {}) = AddKept(Decode(Written(E), {}), e)
  BY <1>11, EncodedItem
<1> HIDE DEF w
<1> QED BY <1>9, <1>10, <1>12, <1>13, Zenon DEF g

LEMMA AllGrows ==
  ASSUME NEW d \in Seq(TlvItems), NEW e \in TlvItems, NEW key
  PROVE  /\ AllOf(Append(d, e), key) =
              IF e[1] = key THEN Append(AllOf(d, key), e[2]) ELSE AllOf(d, key)
         /\ AllOf(d, key) \in Seq(Bytes)
<1> DEFINE g == Append(d, e)
           B == Seq(Bytes)
           one(x) == IF x[1] = key THEN <<x[2]>> ELSE <<>>
           ss == [i \in DOMAIN d |-> one(d[i])]
           tt == [i \in DOMAIN g |-> one(g[i])]
<1>1. PICK l \in Nat : l = Len(d) /\ DOMAIN d = 1..l
  BY LenProperties
<1>2. /\ g \in Seq(TlvItems) /\ Len(g) = l + 1 /\ DOMAIN g = 1..(l + 1)
      /\ g[l + 1] = e /\ \A i \in 1..l : g[i] = d[i]
  BY <1>1, AppendProperties
<1> HIDE DEF g
<1>3. ASSUME NEW x \in TlvItems
      PROVE  one(x) \in B
  <2>1. x[2] \in Bytes
    BY DEF TlvItems
  <2> HIDE DEF one
  <2>2. <<>> \in Seq(Bytes) /\ <<x[2]>> \in Seq(Bytes)
    BY <2>1
  <2> QED BY <2>2 DEF one
<1>4. \A i \in 1..l : d[i] \in TlvItems
  BY <1>1, ElementOfSeq
<1>5. AllOf(d, key) = FlattenSeq(ss) /\ AllOf(g, key) = FlattenSeq(tt)
  BY Zenon DEF AllOf
<1> DEFINE w == one(e)
<1>6. w \in B
  BY <1>3
<1> HIDE DEF one, B
<1>7. ss \in [1..l -> B] /\ \A i \in 1..l : ss[i] = one(d[i])
  BY <1>1, <1>3, <1>4
<1>8. /\ tt = [i \in 1..(l + 1) |-> tt[i]]
      /\ \A i \in 1..(l + 1) : tt[i] = one(g[i])
  BY <1>2
<1> HIDE DEF ss, tt
<1>9. ss \in Seq(B) /\ Len(ss) = l
  BY <1>7
<1>10. tt = Append(ss, w)
  <2>1. \A i \in 1..l : tt[i] = ss[i]
    <3> TAKE i \in 1..l
    <3>1. i \in 1..(l + 1)
      OBVIOUS
    <3> QED BY <1>2, <1>7, <1>8, <3>1
  <2>2. tt[l + 1] = w
    <3>1. l + 1 \in 1..(l + 1)
      OBVIOUS
    <3> QED BY <1>2, <1>8, <3>1
  <2> HIDE DEF w
  <2>3. Extended(tt, ss, w, l)
    BY <1>8, <1>9, <2>1, <2>2, Zenon DEF Extended
  <2> QED BY <1>6, <1>9, <2>3, AppendIs
<1> HIDE DEF w
<1>11. FlattenSeq(ss) \in Seq(Bytes) /\ FlattenSeq(tt) = FlattenSeq(ss) \o w
  <2>1. PICK T : T = Bytes
    OBVIOUS
  <2>2. ss \in Seq(Seq(T)) /\ w \in Seq(T)
    BY <1>6, <1>9, <2>1 DEF B
  <2>3. FlattenSeq(ss) \in Seq(T) /\ FlattenSeq(Append(ss, w)) = FlattenSeq(ss) \o w
    BY <2>2, FlatAppend
  <2> QED BY <1>10, <2>1, <2>3
<1>12. PICK F \in Seq(Bytes) : F = FlattenSeq(ss)
  BY <1>11
<1>13. CASE e[1] = key
  <2>1. w = <<e[2]>> /\ e[2] \in Bytes
    BY <1>13 DEF w, one, TlvItems
  <2>2. F \o <<e[2]>> = Append(F, e[2])
    <3>1. PICK x \in Bytes : x = e[2]
      BY <2>1
    <3>2. F \o <<x>> = Append(F, x)
      OBVIOUS
    <3> QED BY <3>1, <3>2
  <2> QED BY <1>5, <1>11, <1>12, <1>13, <2>1, <2>2 DEF g
<1>14. CASE e[1] # key
  <2>1. w = <<>>
    BY <1>14 DEF w, one
  <2>2. F \o <<>> = F
    BY ConcatEmptySeq
  <2> QED BY <1>5, <1>11, <1>12, <1>14, <2>1, <2>2 DEF g
<1> QED BY <1>13, <1>14

LEMMA PairingAdded ==
  ASSUME NEW list \in Seq(Records), NEW e \in TlvItems
  PROVE  AddPairing(list, e) \in Seq(Records)
<1>1. e[2] \in Bytes /\ <<>> \in Bytes
  BY EmptySeq DEF TlvItems, Bytes
<1>2. PICK l \in Nat : l = Len(list)
  OBVIOUS
<1>3. CASE e[1] = Identifier
  <2>1. PICK r \in Records : r = [id |-> e[2], key |-> <<>>, permissions |-> <<>>]
    BY <1>1 DEF Records
  <2>2. AddPairing(list, e) = Append(list, r)
    BY <1>3, <2>1 DEF AddPairing, PublicKey, Identifier, Permissions
  <2> QED BY <2>2, AppendProperties
<1>4. CASE list = <<>>
  <2>1. DOMAIN list = {} /\ l = 0
    BY <1>2, <1>4
  <2>2. CASE e[1] = PublicKey
    <3>1. AddPairing(list, e) = [list EXCEPT ![l].key = e[2]]
      BY <1>2, <2>2 DEF AddPairing, PublicKey, Identifier, Permissions
    <3>2. [list EXCEPT ![l].key = e[2]] = list
      BY <1>4, <2>1
    <3> QED BY <3>1, <3>2
  <2>3. CASE e[1] = Permissions
    <3>1. AddPairing(list, e) = [list EXCEPT ![l].permissions = e[2]]
      BY <1>2, <2>3 DEF AddPairing, PublicKey, Identifier, Permissions
    <3>2. [list EXCEPT ![l].permissions = e[2]] = list
      BY <1>4, <2>1
    <3> QED BY <3>1, <3>2
  <2>4. CASE e[1] # PublicKey /\ e[1] # Permissions /\ e[1] # Identifier
    BY <2>4 DEF AddPairing
  <2> QED BY <1>3, <2>2, <2>3, <2>4
<1>5. CASE list # <<>>
  <2>1. l \in 1..Len(list)
    BY <1>2, <1>5, EmptySeq
  <2>2. list[l] \in Records
    BY <2>1, ElementOfSeq
  <2>3. CASE e[1] = PublicKey
    <3>1. PICK r \in Records : r = [list[l] EXCEPT !.key = e[2]]
      BY <1>1, <2>2 DEF Records
    <3>2. AddPairing(list, e) = [list EXCEPT ![l] = r]
      BY <1>2, <2>3, <3>1 DEF AddPairing, PublicKey, Identifier, Permissions
    <3> QED BY <2>1, <3>2, ExceptSeq
  <2>4. CASE e[1] = Permissions
    <3>1. PICK r \in Records : r = [list[l] EXCEPT !.permissions = e[2]]
      BY <1>1, <2>2 DEF Records
    <3>2. AddPairing(list, e) = [list EXCEPT ![l] = r]
      BY <1>2, <2>4, <3>1 DEF AddPairing, PublicKey, Identifier, Permissions
    <3> QED BY <2>1, <3>2, ExceptSeq
  <2>5. CASE e[1] # PublicKey /\ e[1] # Permissions /\ e[1] # Identifier
    BY <2>5 DEF AddPairing
  <2> QED BY <1>3, <2>3, <2>4, <2>5
<1> QED BY <1>4, <1>5

(* The last record of a list is what an item is put in.                      *)
LEMMA LastSet ==
  ASSUME NEW P \in Seq(Records), NEW r \in Records, NEW v \in Bytes
  PROVE  /\ AddPairing(Append(P, r), <<PublicKey, v>>) = Append(P, [r EXCEPT !.key = v])
         /\ AddPairing(Append(P, r), <<Permissions, v>>) = Append(P, [r EXCEPT !.permissions = v])
<1>1. PICK l \in Nat : l = Len(P)
  OBVIOUS
<1> DEFINE g == Append(P, r)
<1>2. g \in Seq(Records) /\ Len(g) = l + 1 /\ g[l + 1] = r /\ \A i \in 1..l : g[i] = P[i]
  BY <1>1, AppendProperties
<1> HIDE DEF g
<1>3. ASSUME NEW q \in Records
      PROVE  [g EXCEPT ![l + 1] = q] = Append(P, q)
  <2>1. l + 1 \in 1..Len(g)
    BY <1>2
  <2>2. PICK k \in 1..Len(g) : k = l + 1
    BY <2>1
  <2> DEFINE f == [g EXCEPT ![k] = q]
             h == Append(P, q)
  <2>3. f \in Seq(Records) /\ Len(f) = Len(g) /\ \A j \in 1..Len(g) : f[j] = IF j = k THEN q ELSE g[j]
    BY ExceptSeq, <1>2
  <2>4. h \in Seq(Records) /\ Len(h) = l + 1 /\ h[l + 1] = q /\ \A i \in 1..l : h[i] = P[i]
    BY <1>1, AppendProperties
  <2> HIDE DEF f, h
  <2>5. Len(f) = Len(h) /\ \A j \in 1..Len(f) : f[j] = h[j]
    <3>1. Len(f) = l + 1 /\ Len(h) = l + 1
      BY <1>2, <2>3, <2>4
    <3>2. ASSUME NEW j \in 1..(l + 1) PROVE f[j] = h[j]
      <4>1. CASE j = l + 1
        BY <1>2, <2>2, <2>3, <2>4, <4>1
      <4>2. CASE j # l + 1
        <5>1. j \in 1..l /\ j \in 1..Len(g) /\ j # k
          BY <1>2, <2>2, <4>2
        <5>2. f[j] = g[j] /\ h[j] = P[j]
          BY <2>3, <2>4, <5>1
        <5> QED BY <1>2, <5>1, <5>2
      <4> QED BY <4>1, <4>2
    <3> QED BY <3>1, <3>2
  <2>6. f = h
    BY <2>3, <2>4, <2>5, SeqEqual
  <2> QED BY <2>2, <2>6 DEF f, h
<1>4. PICK q1 \in Records : q1 = [r EXCEPT !.key = v]
  BY DEF Records
<1>5. PICK q2 \in Records : q2 = [r EXCEPT !.permissions = v]
  BY DEF Records
<1>6. AddPairing(g, <<PublicKey, v>>) = [g EXCEPT ![l + 1] = q1]
  <2>1. l + 1 \in DOMAIN g
    BY <1>2
  <2>2. AddPairing(g, <<PublicKey, v>>) = [g EXCEPT ![Len(g)].key = v]
    BY DEF AddPairing, PublicKey, Identifier, Permissions
  <2> QED BY <1>2, <1>4, <2>1, <2>2
<1>7. AddPairing(g, <<Permissions, v>>) = [g EXCEPT ![l + 1] = q2]
  <2>1. l + 1 \in DOMAIN g
    BY <1>2
  <2>2. AddPairing(g, <<Permissions, v>>) = [g EXCEPT ![Len(g)].permissions = v]
    BY DEF AddPairing, PublicKey, Identifier, Permissions
  <2> QED BY <1>2, <1>5, <2>1, <2>2
<1> QED BY <1>3, <1>4, <1>5, <1>6, <1>7 DEF g

LEMMA InTurnIs ==
  ASSUME NEW d \in Seq(TlvItems), NEW N \in Nat, Len(d) = N + 1, NEW R \in [0..N -> Seq(Records)],
         R[0] = <<>>, \A n \in 1..N : R[n] = AddPairing(R[n - 1], d[n + 1])
  PROVE  InTurn(d) = R[N]
<1> DEFINE IsRun(f) == f = [n \in 0..(Len(d) - 1) |-> IF n = 0 THEN <<>> ELSE AddPairing(f[n - 1], d[n + 1])]
           after == CHOOSE f : IsRun(f)
<1>1. Len(d) - 1 = N
  OBVIOUS
<1>3. R = [n \in 0..N |-> R[n]]
  OBVIOUS
<1>4. \A n \in 0..N : R[n] = IF n = 0 THEN <<>> ELSE AddPairing(R[n - 1], d[n + 1])
  OBVIOUS
<1>5. IsRun(R)
  BY <1>1, <1>3, <1>4, Zenon
<1>6. IsRun(after)
  <2> HIDE DEF IsRun
  <2>1. \E f : IsRun(f)
    BY <1>5
  <2> QED BY <2>1, Zenon
<1>7. InTurn(d) = after[Len(d) - 1]
  BY Zenon DEF InTurn
<1> HIDE DEF after
<1>8. \A n \in 0..N : after[n] = IF n = 0 THEN <<>> ELSE AddPairing(after[n - 1], d[n + 1])
  BY <1>1, <1>6
<1> HIDE DEF IsRun
<1>9. after[0] = R[0]
  <2>1. 0 \in 0..N
    OBVIOUS
  <2> QED BY <1>4, <1>8, <2>1
<1>10. \A n \in 1..N : after[n - 1] = R[n - 1] => after[n] = R[n]
  <2> TAKE n \in 1..N
  <2>1. n \in 0..N /\ n # 0
    OBVIOUS
  <2>2. after[n] = AddPairing(after[n - 1], d[n + 1]) /\ R[n] = AddPairing(R[n - 1], d[n + 1])
    BY <1>4, <1>8, <2>1
  <2> QED BY <2>2
<1>11. N \in 0..N
  OBVIOUS
<1>12. after[N] = R[N]
  <2>1. SameRuns(after, R, N)
    BY <1>9, <1>10 DEF SameRuns
  <2>2. \A n \in 0..N : after[n] = R[n]
    BY <2>1, RunsEqual
  <2> QED BY <1>11, <2>2
<1> QED BY <1>1, <1>7, <1>12

LEMMA InTurnGrows ==
  ASSUME NEW d \in Seq(TlvItems), NEW e \in TlvItems, d # <<>>
  PROVE  InTurn(Append(d, e)) = AddPairing(InTurn(d), e) /\ InTurn(d) \in Seq(Records)
<1> DEFINE G == Append(d, e)
           X == Seq(Records)
<1>1. PICK l \in Nat : Len(d) = l + 1
  <2>1. Len(d) \in Nat /\ Len(d) # 0
    BY EmptySeq
  <2>2. Len(d) - 1 \in Nat /\ Len(d) = (Len(d) - 1) + 1
    BY <2>1
  <2> QED BY <2>2
<1>12. PICK N \in Nat : N = l + 1
  OBVIOUS
<1>2. G \in Seq(TlvItems) /\ Len(G) = N + 1 /\ G[N + 1] = e /\ \A i \in 1..N : G[i] = d[i]
  BY <1>1, <1>12, AppendProperties
<1> HIDE DEF G
<1>3. PICK x \in X : x = <<>>
  BY EmptySeq
<1> DEFINE F == [p \in (1..N) \X X |-> AddPairing(p[2], G[p[1] + 1])]
<1>4. \A i \in 1..N, r \in X : F[<<i, r>>] = AddPairing(r, G[i + 1]) /\ F[<<i, r>>] \in X
  <2> TAKE i \in 1..N, r \in X
  <2>1. i + 1 \in 1..Len(G)
    BY <1>2
  <2>2. G[i + 1] \in TlvItems
    BY <1>2, <2>1, ElementOfSeq
  <2>3. AddPairing(r, G[i + 1]) \in X
    BY <2>2, PairingAdded
  <2> HIDE DEF X
  <2> QED BY <2>3
<1> HIDE DEF F, X
<1>5. \E R \in [0..N -> X] : Runs(R, x, F, N)
  BY <1>4, RunExists
<1>6. PICK R \in [0..N -> X] : Runs(R, x, F, N)
  BY <1>5
<1>7. R[0] = <<>>
  BY <1>3, <1>6 DEF Runs
<1>8. \A i \in 1..N : R[i] = AddPairing(R[i - 1], G[i + 1])
  <2> TAKE i \in 1..N
  <2>1. i - 1 \in 0..N
    OBVIOUS
  <2> QED BY <1>4, <1>6, <2>1 DEF Runs
<1>9. InTurn(G) = R[N]
  BY <1>2, <1>7, <1>8, InTurnIs DEF X
<1> DEFINE Q == [i \in 0..l |-> R[i]]
<1>10. Q \in [0..l -> X] /\ \A i \in 0..l : Q[i] = R[i]
  <2>1. \A i \in 0..l : i \in 0..N
    BY <1>12
  <2> QED BY <2>1
<1> HIDE DEF Q
<1>11. InTurn(d) = Q[l]
  <2>1. Q[0] = <<>>
    <3>1. 0 \in 0..l
      OBVIOUS
    <3> QED BY <1>7, <1>10, <3>1
  <2>2. \A i \in 1..l : Q[i] = AddPairing(Q[i - 1], d[i + 1])
    <3> TAKE i \in 1..l
    <3>1. i \in 1..N /\ i \in 0..l /\ i - 1 \in 0..l /\ i + 1 \in 1..N
      BY <1>12
    <3>2. Q[i] = R[i] /\ Q[i - 1] = R[i - 1] /\ G[i + 1] = d[i + 1]
      BY <1>2, <1>10, <3>1
    <3>3. R[i] = AddPairing(R[i - 1], G[i + 1])
      BY <1>8, <3>1
    <3> QED BY <3>2, <3>3
  <2> QED BY <1>1, <1>10, <2>1, <2>2, InTurnIs DEF X
<1>13. R[N] = AddPairing(R[l], e) /\ Q[l] = R[l] /\ R[l] \in X
  <2>1. PICK i \in 1..N : i = N /\ i - 1 = l /\ i - 1 \in 0..N /\ l \in 0..l
    BY <1>12
  <2> QED BY <1>2, <1>6, <1>8, <1>10, <2>1
<1> QED BY <1>9, <1>11, <1>13 DEF G, X

(* The list L is decoded as it is; it is read as P in turn, and its items    *)
(* side by side are I, K and Q.                                              *)
Reads(L, P, I, K, Q) ==
  /\ L \in Seq(TlvItems) /\ L # <<>> /\ Listable(L) /\ Decode(EncodeList(L), {}) = L
  /\ InTurn(L) = P
  /\ AllOf(L, Identifier) = I /\ AllOf(L, PublicKey) = K /\ AllOf(L, Permissions) = Q

LEMMA LastOf ==
  ASSUME NEW X, NEW s \in Seq(X), NEW x \in X
  PROVE  Last(Append(s, x)) = x /\ Append(s, x) # <<>> /\ Append(s, x) \in Seq(X)
<1> DEFINE a == Append(s, x)
<1>1. PICK l \in Nat : l = Len(s)
  OBVIOUS
<1>2. a \in Seq(X) /\ Len(a) = l + 1 /\ a[l + 1] = x
  BY <1>1, AppendProperties
<1> HIDE DEF a
<1>3. Last(a) = x
  BY <1>2 DEF Last
<1>4. a # <<>>
  BY <1>2, EmptySeq
<1> QED BY <1>2, <1>3, <1>4 DEF a

LEMMA ItemRead ==
  ASSUME NEW L, NEW P, NEW I, NEW K, NEW Q, Reads(L, P, I, K, Q),
         NEW e \in TlvItems, Last(L)[1] # e[1], (e[1] = Separator) <=> (e[2] = <<>>)
  PROVE  Reads(Append(L, e), AddPairing(P, e),
               IF e[1] = Identifier THEN Append(I, e[2]) ELSE I,
               IF e[1] = PublicKey THEN Append(K, e[2]) ELSE K,
               IF e[1] = Permissions THEN Append(Q, e[2]) ELSE Q)
<1>1. /\ L \in Seq(TlvItems) /\ L # <<>> /\ Listable(L) /\ Decode(EncodeList(L), {}) = L
      /\ InTurn(L) = P
      /\ AllOf(L, Identifier) = I /\ AllOf(L, PublicKey) = K /\ AllOf(L, Permissions) = Q
  BY DEF Reads
<1> DEFINE a == Append(L, e)
<1>2. a \in Seq(TlvItems) /\ a # <<>>
  BY <1>1, LastOf
<1>3. Listable(a)
  <2>1. PICK l \in Nat : l = Len(L)
    BY <1>1
  <2>2. a \in Seq(TlvItems) /\ Len(a) = l + 1 /\ a[l + 1] = e /\ \A i \in 1..l : a[i] = L[i]
    BY <1>1, <2>1, AppendProperties
  <2> HIDE DEF a
  <2>3. ASSUME NEW i \in 1..Len(a), a[i][1] = Separator PROVE a[i][2] = <<>>
    <3>1. CASE i = l + 1
      BY <2>2, <2>3, <3>1
    <3>2. CASE i # l + 1
      <4>1. i \in 1..Len(L) /\ a[i] = L[i]
        BY <2>1, <2>2, <3>2
      <4> QED BY <1>1, <2>3, <4>1 DEF Listable
    <3> QED BY <3>1, <3>2
  <2> QED BY <2>2, <2>3 DEF Listable
<1>4. Decode(EncodeList(a), {}) = a
  <2>1. Decode(EncodeList(a), {}) = AddKept(L, e)
    BY <1>1, <1>3, ListGrows
  <2>2. AddKept(L, e) = AddItem(L, e)
    BY DEF AddKept
  <2>3. AddItem(L, e) = Append(L, e)
    BY DEF AddItem
  <2> QED BY <2>1, <2>2, <2>3
<1>5. InTurn(a) = AddPairing(P, e)
  BY <1>1, InTurnGrows
<1>6. ASSUME NEW k
      PROVE  AllOf(a, k) = IF e[1] = k THEN Append(AllOf(L, k), e[2]) ELSE AllOf(L, k)
  BY <1>1, AllGrows
<1> HIDE DEF a
<1>7. /\ AllOf(a, Identifier) = IF e[1] = Identifier THEN Append(I, e[2]) ELSE I
      /\ AllOf(a, PublicKey) = IF e[1] = PublicKey THEN Append(K, e[2]) ELSE K
      /\ AllOf(a, Permissions) = IF e[1] = Permissions THEN Append(Q, e[2]) ELSE Q
  BY <1>1, <1>6, Zenon
<1>8. Reads(a, AddPairing(P, e),
               IF e[1] = Identifier THEN Append(I, e[2]) ELSE I,
               IF e[1] = PublicKey THEN Append(K, e[2]) ELSE K,
               IF e[1] = Permissions THEN Append(Q, e[2]) ELSE Q)
  BY <1>2, <1>3, <1>4, <1>5, <1>7, Zenon DEF Reads
<1> QED BY <1>8 DEF a

IdItem(p) == <<Identifier, p.id>>
KeyItem(p) == <<PublicKey, p.key>>
PermissionsItem(p) == <<Permissions, p.permissions>>
WithPairing(L, p) == Append(Append(Append(L, IdItem(p)), KeyItem(p)), PermissionsItem(p))

LEMMA ItemsOf ==
  ASSUME NEW p \in Pairings
  PROVE  /\ IdItem(p) \in TlvItems /\ KeyItem(p) \in TlvItems /\ PermissionsItem(p) \in TlvItems
         /\ IdItem(p)[1] = Identifier /\ KeyItem(p)[1] = PublicKey
         /\ PermissionsItem(p)[1] = Permissions
         /\ IdItem(p)[2] = p.id /\ KeyItem(p)[2] = p.key /\ PermissionsItem(p)[2] = p.permissions
         /\ p.id # <<>> /\ p.key # <<>> /\ p.permissions # <<>>
         /\ Identifier # PublicKey /\ PublicKey # Permissions /\ Identifier # Permissions
         /\ Identifier # Separator /\ PublicKey # Separator /\ Permissions # Separator
         /\ p.id \in Bytes /\ p.key \in Bytes /\ p.permissions \in Bytes
<1>1. /\ p.id \in Bytes /\ p.key \in Bytes /\ p.permissions \in Bytes
      /\ p.id # <<>> /\ p.key # <<>> /\ p.permissions # <<>>
  BY DEF Pairings
<1>2. Identifier = 1 /\ PublicKey = 3 /\ Permissions = 11 /\ Separator = 255
  BY DEF Identifier, PublicKey, Permissions, Separator
<1> QED BY <1>1, <1>2 DEF TlvItems, IdItem, KeyItem, PermissionsItem

LEMMA GroupRead ==
  ASSUME NEW L, NEW P \in Seq(Records), NEW I, NEW K, NEW Q, Reads(L, P, I, K, Q),
         NEW p \in Pairings, Last(L)[1] # Identifier
  PROVE  /\ Reads(WithPairing(L, p), Append(P, p), Append(I, p.id), Append(K, p.key),
                  Append(Q, p.permissions))
         /\ Last(WithPairing(L, p))[1] = Permissions
<1> DEFINE e1 == IdItem(p)
           e2 == KeyItem(p)
           e3 == PermissionsItem(p)
           r == [id |-> p.id, key |-> <<>>, permissions |-> <<>>]
           A == Append(L, e1)
           B == Append(A, e2)
           C == Append(B, e3)
<1>1. /\ e1 \in TlvItems /\ e2 \in TlvItems /\ e3 \in TlvItems
      /\ e1[1] = Identifier /\ e2[1] = PublicKey /\ e3[1] = Permissions
      /\ e1[2] = p.id /\ e2[2] = p.key /\ e3[2] = p.permissions
      /\ p.id # <<>> /\ p.key # <<>> /\ p.permissions # <<>>
      /\ Identifier # PublicKey /\ PublicKey # Permissions /\ Identifier # Permissions
      /\ Identifier # Separator /\ PublicKey # Separator /\ Permissions # Separator
      /\ p.id \in Bytes /\ p.key \in Bytes /\ p.permissions \in Bytes
  BY ItemsOf
<1>2. AddPairing(P, e1) = Append(P, r)
  BY <1>1 DEF AddPairing
<1>3. r \in Records /\ [r EXCEPT !.key = p.key] \in Records
      /\ [[r EXCEPT !.key = p.key] EXCEPT !.permissions = p.permissions] = p
  <2>1. <<>> \in Bytes
    BY EmptySeq DEF Bytes
  <2>2. r \in Records /\ [r EXCEPT !.key = p.key] \in Records
    BY <1>1, <2>1 DEF Records
  <2>3. [[r EXCEPT !.key = p.key] EXCEPT !.permissions = p.permissions] =
           [id |-> p.id, key |-> p.key, permissions |-> p.permissions]
    <3>1. [r EXCEPT !.key = p.key] = [id |-> p.id, key |-> p.key, permissions |-> <<>>]
      BY DEF r
    <3>2. PICK i, k, w : i = p.id /\ k = p.key /\ w = p.permissions
      OBVIOUS
    <3>3. [[id |-> i, key |-> k, permissions |-> <<>>] EXCEPT !.permissions = w] =
             [id |-> i, key |-> k, permissions |-> w]
      OBVIOUS
    <3> QED BY <3>1, <3>2, <3>3
  <2>4. p = [id |-> p.id, key |-> p.key, permissions |-> p.permissions]
    BY DEF Pairings
  <2> QED BY <2>2, <2>3, <2>4
<1>4. e2 = <<PublicKey, p.key>> /\ e3 = <<Permissions, p.permissions>>
  BY DEF KeyItem, PermissionsItem
<1> HIDE DEF e1, e2, e3, r
<1>5. AddPairing(Append(P, r), e2) = Append(P, [r EXCEPT !.key = p.key])
  <2>1. PICK x \in Records : x = r
    BY <1>3
  <2>2. AddPairing(Append(P, x), <<PublicKey, p.key>>) = Append(P, [x EXCEPT !.key = p.key])
    BY <1>1, LastSet
  <2> QED BY <1>4, <2>1, <2>2
<1>6. PICK q \in Records : q = [r EXCEPT !.key = p.key] /\ [q EXCEPT !.permissions = p.permissions] = p
  BY <1>3
<1>7. AddPairing(Append(P, q), e3) = Append(P, p)
  <2>1. AddPairing(Append(P, q), <<Permissions, p.permissions>>) = Append(P, [q EXCEPT !.permissions = p.permissions])
    BY <1>1, LastSet
  <2> QED BY <1>4, <1>6, <2>1
<1>8. Reads(A, Append(P, r), Append(I, p.id), K, Q) /\ Last(A)[1] = Identifier
  <2>1. Reads(A, AddPairing(P, e1),
               IF e1[1] = Identifier THEN Append(I, e1[2]) ELSE I,
               IF e1[1] = PublicKey THEN Append(K, e1[2]) ELSE K,
               IF e1[1] = Permissions THEN Append(Q, e1[2]) ELSE Q)
    BY <1>1, ItemRead
  <2>2. Last(A) = e1
    BY <1>1, LastOf DEF Reads
  <2> HIDE DEF A
  <2> QED BY <1>1, <1>2, <2>1, <2>2
<1> HIDE DEF A
<1>9. Reads(B, Append(P, q), Append(I, p.id), Append(K, p.key), Q) /\ Last(B)[1] = PublicKey
  <2>1. PICK PP, II : PP = Append(P, r) /\ II = Append(I, p.id)
    OBVIOUS
  <2>2. Reads(A, PP, II, K, Q)
    BY <1>8, <2>1
  <2>3. Reads(B, AddPairing(PP, e2),
               IF e2[1] = Identifier THEN Append(II, e2[2]) ELSE II,
               IF e2[1] = PublicKey THEN Append(K, e2[2]) ELSE K,
               IF e2[1] = Permissions THEN Append(Q, e2[2]) ELSE Q)
    BY <1>1, <1>8, <2>2, ItemRead
  <2>4. Last(B) = e2
    BY <1>1, <1>8, LastOf DEF Reads
  <2> HIDE DEF B
  <2> QED BY <1>1, <1>5, <1>6, <2>1, <2>3, <2>4
<1> HIDE DEF B
<1>10. Reads(C, Append(P, p), Append(I, p.id), Append(K, p.key), Append(Q, p.permissions))
       /\ Last(C)[1] = Permissions
  <2>1. PICK PP, II, KK : PP = Append(P, q) /\ II = Append(I, p.id) /\ KK = Append(K, p.key)
    OBVIOUS
  <2>2. Reads(B, PP, II, KK, Q)
    BY <1>9, <2>1
  <2>3. Reads(C, AddPairing(PP, e3),
               IF e3[1] = Identifier THEN Append(II, e3[2]) ELSE II,
               IF e3[1] = PublicKey THEN Append(KK, e3[2]) ELSE KK,
               IF e3[1] = Permissions THEN Append(Q, e3[2]) ELSE Q)
    BY <1>1, <1>9, <2>2, ItemRead
  <2>4. Last(C) = e3
    BY <1>1, <1>9, LastOf DEF Reads
  <2> HIDE DEF C
  <2> QED BY <1>1, <1>7, <2>1, <2>3, <2>4
<1> QED BY <1>10 DEF A, B, C, WithPairing, e1, e2, e3

SeparatorItem == <<Separator, <<>>>>
WithSeparator(P, L) == IF P = <<>> THEN L ELSE Append(L, SeparatorItem)

LEMMA ItemsJoined ==
  ASSUME NEW a \in Seq(TlvItems), NEW b \in Seq(TlvItems), NEW c \in Seq(TlvItems)
  PROVE  (a \o b) \o c = a \o (b \o c)
<1>1. PICK T : T = TlvItems
  OBVIOUS
<1>2. a \in Seq(T) /\ b \in Seq(T) /\ c \in Seq(T)
  BY <1>1
<1> QED BY <1>2, ConcatAssociative

LEMMA ThreeMore ==
  ASSUME NEW L \in Seq(TlvItems), NEW a \in TlvItems, NEW b \in TlvItems, NEW c \in TlvItems
  PROVE  L \o <<a, b, c>> = Append(Append(Append(L, a), b), c)
<1>1. PICK l \in Nat : l = Len(L)
  OBVIOUS
<1>2. PICK z \in Seq(TlvItems) : z = <<a, b, c>> /\ Len(z) = 3 /\ z[1] = a /\ z[2] = b /\ z[3] = c
  <2>1. /\ <<a, b, c>> \in Seq(TlvItems) /\ Len(<<a, b, c>>) = 3
        /\ <<a, b, c>>[1] = a /\ <<a, b, c>>[2] = b /\ <<a, b, c>>[3] = c
    OBVIOUS
  <2> QED BY <2>1
<1> DEFINE s == L \o z
           p == Append(L, a)
           q == Append(p, b)
           r == Append(q, c)
<1>3. /\ s \in Seq(TlvItems) /\ Len(s) = Len(L) + Len(z)
      /\ \A i \in 1..(Len(L) + Len(z)) : s[i] = IF i <= Len(L) THEN L[i] ELSE z[i - Len(L)]
  BY ConcatProperties
<1>4. p \in Seq(TlvItems) /\ Len(p) = l + 1 /\ p[l + 1] = a /\ \A i \in 1..l : p[i] = L[i]
  BY <1>1, AppendProperties
<1> HIDE DEF s, p
<1>5. q \in Seq(TlvItems) /\ Len(q) = l + 2 /\ q[l + 2] = b /\ \A i \in 1..(l + 1) : q[i] = p[i]
  BY <1>4, AppendProperties
<1> HIDE DEF q
<1>6. r \in Seq(TlvItems) /\ Len(r) = l + 3 /\ r[l + 3] = c /\ \A i \in 1..(l + 2) : r[i] = q[i]
  BY <1>5, AppendProperties
<1> HIDE DEF r
<1>7. Len(s) = l + 3 /\ \A i \in 1..(l + 3) : s[i] = IF i <= l THEN L[i] ELSE z[i - l]
  BY <1>1, <1>2, <1>3
<1>8. ASSUME NEW i \in 1..(l + 3) PROVE s[i] = r[i]
  <2>1. CASE i <= l
    <3>1. i \in 1..l /\ i \in 1..(l + 1) /\ i \in 1..(l + 2)
      BY <2>1
    <3> QED BY <1>4, <1>5, <1>6, <1>7, <2>1, <3>1
  <2>2. CASE i = l + 1
    <3>1. i - l = 1 /\ ~(i <= l) /\ i \in 1..(l + 1) /\ i \in 1..(l + 2)
      BY <2>2
    <3> QED BY <1>2, <1>4, <1>5, <1>6, <1>7, <2>2, <3>1
  <2>3. CASE i = l + 2
    <3>1. i - l = 2 /\ ~(i <= l) /\ i \in 1..(l + 2)
      BY <2>3
    <3> QED BY <1>2, <1>5, <1>6, <1>7, <2>3, <3>1
  <2>4. CASE i = l + 3
    <3>1. i - l = 3 /\ ~(i <= l)
      BY <2>4
    <3> QED BY <1>2, <1>6, <1>7, <2>4, <3>1
  <2>5. i <= l \/ i = l + 1 \/ i = l + 2 \/ i = l + 3
    OBVIOUS
  <2> QED BY <2>1, <2>2, <2>3, <2>4, <2>5
<1>9. s = r
  <2>1. Len(s) = Len(r) /\ \A i \in 1..Len(s) : s[i] = r[i]
    BY <1>6, <1>7, <1>8
  <2> QED BY <1>3, <1>6, <2>1, SeqEqual
<1> QED BY <1>2, <1>9 DEF p, q, r, s

(* An accessory's list with one more pairing.                                *)
LEMMA ListedGrows ==
  ASSUME NEW P \in Seq(Pairings), NEW p \in Pairings
  PROVE  /\ Listed(P) \in Seq(TlvItems)
         /\ Listed(Append(P, p)) = WithPairing(WithSeparator(P, Listed(P)), p)
<1> DEFINE B == Seq(TlvItems)
           three(x) == <<IdItem(x), KeyItem(x), PermissionsItem(x)>>
           lead(i) == IF i = 1 THEN <<>> ELSE <<SeparatorItem>>
           g == Append(P, p)
           ss == [i \in DOMAIN P |-> lead(i) \o three(P[i])]
           tt == [i \in DOMAIN g |-> lead(i) \o three(g[i])]
<1>1. PICK l \in Nat : l = Len(P) /\ DOMAIN P = 1..l
  BY LenProperties
<1>2. /\ g \in Seq(Pairings) /\ Len(g) = l + 1 /\ DOMAIN g = 1..(l + 1)
      /\ g[l + 1] = p /\ \A i \in 1..l : g[i] = P[i]
  BY <1>1, AppendProperties
<1> HIDE DEF g
<1>3. SeparatorItem \in TlvItems /\ <<>> \in B /\ <<SeparatorItem>> \in B
  <2>1. Separator \in Nat /\ <<>> \in Bytes
    BY EmptySeq DEF Separator, Bytes
  <2>2. SeparatorItem \in TlvItems
    BY <2>1 DEF SeparatorItem, TlvItems
  <2> QED BY <2>2
<1>4. ASSUME NEW x \in Pairings PROVE three(x) \in B
  <2>1. IdItem(x) \in TlvItems /\ KeyItem(x) \in TlvItems /\ PermissionsItem(x) \in TlvItems
    BY ItemsOf
  <2> QED BY <2>1
<1>5. ASSUME NEW x \in Pairings, NEW i PROVE lead(i) \o three(x) \in B
  <2>1. lead(i) \in B
    BY <1>3
  <2>2. PICK u \in Seq(TlvItems) : u = lead(i)
    BY <2>1
  <2>3. PICK v \in Seq(TlvItems) : v = three(x)
    BY <1>4
  <2>4. u \o v \in Seq(TlvItems)
    BY ConcatProperties
  <2> HIDE DEF lead, three
  <2> QED BY <2>2, <2>3, <2>4
<1>6. Listed(P) = <<Stated>> \o FlattenSeq(ss) /\ Listed(g) = <<Stated>> \o FlattenSeq(tt)
  BY Zenon DEF Listed, IdItem, KeyItem, PermissionsItem, SeparatorItem
<1> DEFINE w == lead(l + 1) \o three(p)
<1>7. w \in B
  BY <1>5
<1> HIDE DEF lead, three, B
<1>8. ss \in [1..l -> B] /\ \A i \in 1..l : ss[i] = lead(i) \o three(P[i])
  <2>1. \A i \in 1..l : P[i] \in Pairings
    BY <1>1, ElementOfSeq
  <2> QED BY <1>1, <1>5, <2>1
<1>9. /\ tt = [i \in 1..(l + 1) |-> tt[i]]
      /\ \A i \in 1..(l + 1) : tt[i] = lead(i) \o three(g[i])
  BY <1>2
<1> HIDE DEF ss, tt
<1>10. ss \in Seq(B) /\ Len(ss) = l
  BY <1>8
<1>11. tt = Append(ss, w)
  <2>1. \A i \in 1..l : tt[i] = ss[i]
    <3> TAKE i \in 1..l
    <3>1. i \in 1..(l + 1)
      OBVIOUS
    <3> QED BY <1>2, <1>8, <1>9, <3>1
  <2>2. tt[l + 1] = w
    <3>1. l + 1 \in 1..(l + 1)
      OBVIOUS
    <3> QED BY <1>2, <1>9, <3>1
  <2> HIDE DEF w
  <2>3. Extended(tt, ss, w, l)
    BY <1>9, <1>10, <2>1, <2>2, Zenon DEF Extended
  <2> QED BY <1>7, <1>10, <2>3, AppendIs
<1> HIDE DEF w
<1>12. FlattenSeq(ss) \in Seq(TlvItems) /\ FlattenSeq(tt) = FlattenSeq(ss) \o w
  <2>1. ss \in Seq(Seq(TlvItems)) /\ w \in Seq(TlvItems)
    BY <1>7, <1>10 DEF B
  <2>2. FlattenSeq(ss) \in Seq(TlvItems) /\ FlattenSeq(Append(ss, w)) = FlattenSeq(ss) \o w
    BY <2>1, FlatAppend
  <2> QED BY <1>11, <2>2
<1>13. PICK F \in Seq(TlvItems) : F = FlattenSeq(ss)
  BY <1>12
<1>14. PICK s \in Seq(TlvItems) : s = <<Stated>>
  <2>1. Stated \in TlvItems
    <3>1. Stated = <<6, <<2>>>> /\ <<2>> \in Seq(Nat)
      BY DEF Stated
    <3>2. PICK x \in Bytes : x = <<2>>
      BY <3>1 DEF Bytes
    <3> QED BY <3>1, <3>2 DEF TlvItems
  <2>2. <<Stated>> \in Seq(TlvItems)
    BY <2>1
  <2> QED BY <2>2
<1>15. PICK L \in Seq(TlvItems) : L = s \o F
  <2>1. s \o F \in Seq(TlvItems)
    BY ConcatProperties
  <2> QED BY <2>1
<1>16. PICK u \in Seq(TlvItems) : u = three(p)
  BY <1>4 DEF B
<1>17. PICK v \in Seq(TlvItems) : v = lead(l + 1)
  BY <1>3 DEF B, lead
<1>18. Listed(g) = (L \o v) \o u
  <2>1. PICK y \in Seq(TlvItems) : y = v \o u
    <3>1. v \o u \in Seq(TlvItems)
      BY ConcatProperties
    <3> QED BY <3>1
  <2>2. (s \o F) \o y = s \o (F \o y)
    BY ItemsJoined
  <2>3. (L \o v) \o u = L \o (v \o u)
    BY ItemsJoined
  <2>4. w = y
    BY <1>16, <1>17, <2>1 DEF w
  <2>5. Listed(g) = s \o (F \o y)
    BY <1>6, <1>12, <1>13, <1>14, <2>4
  <2> QED BY <1>15, <2>1, <2>2, <2>3, <2>5
<1>19. L \o v = WithSeparator(P, L) /\ WithSeparator(P, L) \in Seq(TlvItems)
  <2>1. CASE P = <<>>
    <3>1. l = 0
      BY <1>1, <2>1
    <3>2. v = <<>>
      BY <1>17, <3>1 DEF lead
    <3>3. L \o <<>> = L
      BY ConcatEmptySeq
    <3> QED BY <2>1, <3>2, <3>3 DEF WithSeparator
  <2>2. CASE P # <<>>
    <3>1. l # 0
      BY <1>1, <2>2, EmptySeq
    <3>2. v = <<SeparatorItem>>
      <4>1. l + 1 # 1
        BY <3>1
      <4> QED BY <1>17, <4>1 DEF lead
    <3>3. PICK e \in TlvItems : e = SeparatorItem
      BY <1>3
    <3>4. L \o <<e>> = Append(L, e) /\ Append(L, e) \in Seq(TlvItems)
      BY AppendProperties
    <3> QED BY <2>2, <3>2, <3>3, <3>4 DEF WithSeparator
  <2> QED BY <2>1, <2>2
<1>20. PICK M \in Seq(TlvItems) : M = WithSeparator(P, L)
  BY <1>19
<1>21. M \o u = WithPairing(M, p)
  <2>1. PICK a \in TlvItems : a = IdItem(p)
    BY ItemsOf
  <2>2. PICK b \in TlvItems : b = KeyItem(p)
    BY ItemsOf
  <2>3. PICK c \in TlvItems : c = PermissionsItem(p)
    BY ItemsOf
  <2>4. M \o <<a, b, c>> = Append(Append(Append(M, a), b), c)
    BY ThreeMore
  <2> QED BY <1>16, <2>1, <2>2, <2>3, <2>4 DEF WithPairing, three
<1>22. Listed(P) = L
  BY <1>6, <1>13, <1>14, <1>15
<1>23. Listed(g) = WithPairing(WithSeparator(P, Listed(P)), p)
  BY <1>18, <1>19, <1>20, <1>21, <1>22
<1> QED BY <1>22, <1>23 DEF g

IdsOf(P) == [i \in DOMAIN P |-> P[i].id]
KeysOf(P) == [i \in DOMAIN P |-> P[i].key]
PermissionsOf(P) == [i \in DOMAIN P |-> P[i].permissions]
ReadAs(P) ==
  /\ Reads(Listed(P), P, IdsOf(P), KeysOf(P), PermissionsOf(P))
  /\ IF P = <<>> THEN Last(Listed(P))[1] = 6 ELSE Last(Listed(P))[1] = Permissions

LEMMA NoneRead == ReadAs(<<>>)
<1> DEFINE L == Listed(<<>>)
<1>1. PICK e \in TlvItems : e = Stated
  <2>1. Stated = <<6, <<2>>>> /\ <<2>> \in Seq(Nat)
    BY DEF Stated
  <2>2. PICK x \in Bytes : x = <<2>>
    BY <2>1 DEF Bytes
  <2>3. Stated \in TlvItems
    BY <2>1, <2>2 DEF TlvItems
  <2> QED BY <2>3
<1>2. e[1] = 6 /\ e[2] # <<>>
  BY <1>1 DEF Stated
<1>3. PICK z \in Seq(TlvItems) : z = <<>>
  BY EmptySeq
<1>4. L = Append(z, e)
  <2> DEFINE ss == [i \in DOMAIN <<>> |->
               (IF i = 1 THEN <<>> ELSE <<<<Separator, <<>>>>>>) \o
               <<<<Identifier, <<>>[i].id>>, <<PublicKey, <<>>[i].key>>,
                 <<Permissions, <<>>[i].permissions>>>>]
  <2>1. L = <<Stated>> \o FlattenSeq(ss)
    BY Zenon DEF Listed
  <2>2. ss = <<>>
    OBVIOUS
  <2>3. FlattenSeq(ss) = <<>>
    BY <2>2, FlatEmpty
  <2>4. PICK y \in Seq(TlvItems) : y = <<e>>
    <3>1. <<e>> \in Seq(TlvItems)
      OBVIOUS
    <3> QED BY <3>1
  <2>5. y \o <<>> = y
    BY ConcatEmptySeq
  <2>6. <<e>> = Append(<<>>, e)
    OBVIOUS
  <2> HIDE DEF ss, L
  <2> QED BY <1>1, <1>3, <2>1, <2>3, <2>4, <2>5, <2>6
<1> HIDE DEF L
<1>5. L \in Seq(TlvItems) /\ L # <<>> /\ Last(L) = e /\ Len(L) = 1 /\ L[1] = e
  <2>1. L \in Seq(TlvItems) /\ L # <<>> /\ Last(L) = e
    BY <1>4, LastOf
  <2>2. Len(L) = Len(z) + 1 /\ L[Len(z) + 1] = e
    BY <1>4, AppendProperties
  <2>3. Len(z) = 0
    BY <1>3
  <2> QED BY <2>1, <2>2, <2>3
<1>6. Listable(z) /\ Listable(L)
  <2>1. Len(z) = 0
    BY <1>3
  <2>2. \A i \in 1..Len(L) : L[i][1] # Separator
    BY <1>2, <1>5 DEF Separator
  <2> QED BY <1>5, <2>1, <2>2 DEF Listable
<1>7. Decode(EncodeList(z), {}) = <<>>
  <2>1. EncodeList(z) = Written(<<>>)
    <3>1. [i \in DOMAIN z |-> EncodeItem(z[i][1], z[i][2])] = <<>>
      BY <1>3
    <3> QED BY <3>1, FlatEmpty DEF EncodeList
  <2> QED BY <2>1, DecodeNone
<1>8. Decode(EncodeList(L), {}) = L
  <2>1. Decode(EncodeList(L), {}) = AddKept(<<>>, e)
    BY <1>4, <1>6, <1>7, ListGrows
  <2>2. AddKept(<<>>, e) = Append(<<>>, e)
    BY <1>2 DEF AddKept, AddItem
  <2> QED BY <1>3, <1>4, <2>1, <2>2
<1>9. InTurn(L) = <<>>
  <2>1. PICK N \in Nat : N = 0
    OBVIOUS
  <2>2. PICK X : X = Seq(Records)
    OBVIOUS
  <2>3. PICK x \in X : x = <<>>
    BY <2>2, EmptySeq
  <2>4. PICK R \in [0..N -> X] : R[0] = x
    <3> DEFINE R == [i \in 0..N |-> x]
    <3>1. R \in [0..N -> X] /\ R[0] = x
      BY <2>1
    <3> QED BY <3>1
  <2>5. InTurn(L) = R[N]
    <3>1. \A n \in 1..N : R[n] = AddPairing(R[n - 1], L[n + 1])
      BY <2>1
    <3>2. Len(L) = N + 1 /\ R[0] = <<>> /\ R \in [0..N -> Seq(Records)]
      BY <1>5, <2>1, <2>2, <2>3, <2>4
    <3> QED BY <1>5, <3>1, <3>2, InTurnIs
  <2> QED BY <2>1, <2>3, <2>4, <2>5
<1>10. ASSUME NEW k, k # 6 PROVE AllOf(L, k) = <<>>
  <2>1. AllOf(L, k) = AllOf(z, k)
    BY <1>2, <1>4, <1>10, AllGrows
  <2>2. AllOf(z, k) = <<>>
    <3>1. [i \in DOMAIN z |-> IF z[i][1] = k THEN <<z[i][2]>> ELSE <<>>] = <<>>
      BY <1>3
    <3> QED BY <3>1, FlatEmpty DEF AllOf
  <2> QED BY <2>1, <2>2
<1>11. AllOf(L, Identifier) = <<>> /\ AllOf(L, PublicKey) = <<>> /\ AllOf(L, Permissions) = <<>>
  <2>1. Identifier # 6 /\ PublicKey # 6 /\ Permissions # 6
    BY DEF Identifier, PublicKey, Permissions
  <2> QED BY <1>10, <2>1
<1>12. IdsOf(<<>>) = <<>> /\ KeysOf(<<>>) = <<>> /\ PermissionsOf(<<>>) = <<>>
  BY DEF IdsOf, KeysOf, PermissionsOf
<1>13. Reads(L, <<>>, IdsOf(<<>>), KeysOf(<<>>), PermissionsOf(<<>>))
  BY <1>5, <1>6, <1>8, <1>9, <1>11, <1>12, Zenon DEF Reads
<1> QED BY <1>2, <1>5, <1>13 DEF ReadAs, L

LEMMA OneMoreRead ==
  ASSUME NEW P \in Seq(Pairings), NEW p \in Pairings, ReadAs(P)
  PROVE  ReadAs(Append(P, p))
<1> DEFINE L == Listed(P)
           M == WithSeparator(P, L)
           g == Append(P, p)
<1>1. L \in Seq(TlvItems) /\ Listed(g) = WithPairing(M, p)
  BY ListedGrows
<1> HIDE DEF L
<1>2. Reads(L, P, IdsOf(P), KeysOf(P), PermissionsOf(P))
  BY DEF ReadAs, L
<1>3. SeparatorItem \in TlvItems /\ SeparatorItem[1] = Separator /\ SeparatorItem[2] = <<>>
  <2>1. Separator \in Nat /\ <<>> \in Bytes
    BY EmptySeq DEF Separator, Bytes
  <2> QED BY <2>1 DEF SeparatorItem, TlvItems
<1>4. /\ Separator # 6 /\ Separator # Permissions /\ Separator # Identifier /\ Separator # PublicKey
      /\ 6 # Identifier
  BY DEF Separator, Permissions, Identifier, PublicKey
<1>5. Reads(M, P, IdsOf(P), KeysOf(P), PermissionsOf(P)) /\ Last(M)[1] # Identifier
  <2>1. CASE P = <<>>
    <3>1. M = L
      BY <2>1 DEF WithSeparator
    <3>2. Last(L)[1] = 6
      BY <2>1 DEF ReadAs, L
    <3> QED BY <1>2, <1>4, <3>1, <3>2
  <2>2. CASE P # <<>>
    <3>1. M = Append(L, SeparatorItem)
      BY <2>2 DEF WithSeparator
    <3>2. Last(L)[1] = Permissions
      BY <2>2 DEF ReadAs, L
    <3>3. PICK e \in TlvItems : e = SeparatorItem
      BY <1>3
    <3>4. PICK I, K, Q : I = IdsOf(P) /\ K = KeysOf(P) /\ Q = PermissionsOf(P)
      OBVIOUS
    <3>5. Reads(L, P, I, K, Q) /\ Last(L)[1] # e[1] /\ ((e[1] = Separator) <=> (e[2] = <<>>))
      BY <1>2, <1>3, <1>4, <3>2, <3>3, <3>4
    <3>6. Reads(Append(L, e), AddPairing(P, e),
               IF e[1] = Identifier THEN Append(I, e[2]) ELSE I,
               IF e[1] = PublicKey THEN Append(K, e[2]) ELSE K,
               IF e[1] = Permissions THEN Append(Q, e[2]) ELSE Q)
      BY <3>5, ItemRead
    <3>7. AddPairing(P, e) = P
      BY <1>3, <1>4, <3>3 DEF AddPairing
    <3>8. Last(Append(L, e)) = e
      BY <1>1, LastOf
    <3> QED BY <1>3, <1>4, <3>1, <3>3, <3>4, <3>6, <3>7, <3>8
  <2> QED BY <2>1, <2>2
<1> HIDE DEF M
<1>6. P \in Seq(Records) /\ Pairings \in SUBSET Records
  <2>1. Pairings \in SUBSET Records
    BY DEF Pairings, Records
  <2> QED BY <2>1
<1>7. /\ Reads(WithPairing(M, p), g, Append(IdsOf(P), p.id), Append(KeysOf(P), p.key),
               Append(PermissionsOf(P), p.permissions))
      /\ Last(WithPairing(M, p))[1] = Permissions
  <2>1. PICK I, K, Q : I = IdsOf(P) /\ K = KeysOf(P) /\ Q = PermissionsOf(P)
    OBVIOUS
  <2>2. PICK N : N = M
    OBVIOUS
  <2>3. Reads(N, P, I, K, Q) /\ Last(N)[1] # Identifier
    BY <1>5, <2>1, <2>2
  <2>4. /\ Reads(WithPairing(N, p), Append(P, p), Append(I, p.id), Append(K, p.key),
                  Append(Q, p.permissions))
         /\ Last(WithPairing(N, p))[1] = Permissions
    BY <1>6, <2>3, GroupRead
  <2> QED BY <2>1, <2>2, <2>4
<1>8. PICK l \in Nat : l = Len(P) /\ DOMAIN P = 1..l
  BY LenProperties
<1>9. /\ g \in Seq(Pairings) /\ Len(g) = l + 1 /\ DOMAIN g = 1..(l + 1)
      /\ g[l + 1] = p /\ \A i \in 1..l : g[i] = P[i] /\ P[i] \in Pairings
  <2>1. g \in Seq(Pairings) /\ Len(g) = l + 1 /\ g[l + 1] = p /\ \A i \in 1..l : g[i] = P[i]
    BY <1>8, AppendProperties
  <2>2. \A i \in 1..l : P[i] \in Pairings
    BY <1>8, ElementOfSeq
  <2> HIDE DEF g
  <2>3. DOMAIN g = 1..(l + 1)
    BY <2>1
  <2> QED BY <2>1, <2>2, <2>3
<1>10. g # <<>>
  BY <1>9, EmptySeq
<1> HIDE DEF g
<1>11. Append(IdsOf(P), p.id) = IdsOf(g)
  <2> DEFINE m == IdsOf(P)
             f == IdsOf(g)
  <2>1. m \in [1..l -> Bytes] /\ \A i \in 1..l : m[i] = P[i].id
    BY <1>8, <1>9 DEF IdsOf, Pairings
  <2>2. f = [i \in 1..(l + 1) |-> f[i]] /\ \A i \in 1..(l + 1) : f[i] = g[i].id
    BY <1>9 DEF IdsOf
  <2>3. p.id \in Bytes
    BY DEF Pairings
  <2> HIDE DEF m, f
  <2>4. m \in Seq(Bytes) /\ Len(m) = l
    BY <2>1
  <2>5. Extended(f, m, p.id, l)
    <3>1. \A i \in 1..l : f[i] = m[i]
      <4> TAKE i \in 1..l
      <4>1. i \in 1..(l + 1)
        OBVIOUS
      <4> QED BY <1>9, <2>1, <2>2, <4>1
    <3>2. f[l + 1] = p.id
      <4>1. l + 1 \in 1..(l + 1)
        OBVIOUS
      <4> QED BY <1>9, <2>2, <4>1
    <3> QED BY <2>2, <2>4, <3>1, <3>2, Zenon DEF Extended
  <2> QED BY <2>3, <2>4, <2>5, AppendIs DEF m, f
<1>12. Append(KeysOf(P), p.key) = KeysOf(g)
  <2> DEFINE m == KeysOf(P)
             f == KeysOf(g)
  <2>1. m \in [1..l -> Bytes] /\ \A i \in 1..l : m[i] = P[i].key
    BY <1>8, <1>9 DEF KeysOf, Pairings
  <2>2. f = [i \in 1..(l + 1) |-> f[i]] /\ \A i \in 1..(l + 1) : f[i] = g[i].key
    BY <1>9 DEF KeysOf
  <2>3. p.key \in Bytes
    BY DEF Pairings
  <2> HIDE DEF m, f
  <2>4. m \in Seq(Bytes) /\ Len(m) = l
    BY <2>1
  <2>5. Extended(f, m, p.key, l)
    <3>1. \A i \in 1..l : f[i] = m[i]
      <4> TAKE i \in 1..l
      <4>1. i \in 1..(l + 1)
        OBVIOUS
      <4> QED BY <1>9, <2>1, <2>2, <4>1
    <3>2. f[l + 1] = p.key
      <4>1. l + 1 \in 1..(l + 1)
        OBVIOUS
      <4> QED BY <1>9, <2>2, <4>1
    <3> QED BY <2>2, <2>4, <3>1, <3>2, Zenon DEF Extended
  <2> QED BY <2>3, <2>4, <2>5, AppendIs DEF m, f
<1>13. Append(PermissionsOf(P), p.permissions) = PermissionsOf(g)
  <2> DEFINE m == PermissionsOf(P)
             f == PermissionsOf(g)
  <2>1. m \in [1..l -> Bytes] /\ \A i \in 1..l : m[i] = P[i].permissions
    BY <1>8, <1>9 DEF PermissionsOf, Pairings
  <2>2. f = [i \in 1..(l + 1) |-> f[i]] /\ \A i \in 1..(l + 1) : f[i] = g[i].permissions
    BY <1>9 DEF PermissionsOf
  <2>3. p.permissions \in Bytes
    BY DEF Pairings
  <2> HIDE DEF m, f
  <2>4. m \in Seq(Bytes) /\ Len(m) = l
    BY <2>1
  <2>5. Extended(f, m, p.permissions, l)
    <3>1. \A i \in 1..l : f[i] = m[i]
      <4> TAKE i \in 1..l
      <4>1. i \in 1..(l + 1)
        OBVIOUS
      <4> QED BY <1>9, <2>1, <2>2, <4>1
    <3>2. f[l + 1] = p.permissions
      <4>1. l + 1 \in 1..(l + 1)
        OBVIOUS
      <4> QED BY <1>9, <2>2, <4>1
    <3> QED BY <2>2, <2>4, <3>1, <3>2, Zenon DEF Extended
  <2> QED BY <2>3, <2>4, <2>5, AppendIs DEF m, f
<1>14. Reads(Listed(g), g, IdsOf(g), KeysOf(g), PermissionsOf(g)) /\ Last(Listed(g))[1] = Permissions
  BY <1>1, <1>7, <1>11, <1>12, <1>13, Zenon
<1>15. ReadAs(g)
  BY <1>10, <1>14 DEF ReadAs
<1> QED BY <1>15 DEF g

(* What the accessory lists of its pairings is what list_pairings returns,   *)
(* in their order and each with its own key and permissions, on IP and BLE,  *)
(* which read the items in turn, and on CoAP, which puts them side by side:  *)
(* for any number of pairings and values of any length.                      *)
THEOREM PairingsKept ==
  ASSUME NEW pairings \in Seq(Pairings)
  PROVE  PairingsRoundTrip(pairings)
<1>1. PICK l \in Nat : l = Len(pairings) /\ DOMAIN pairings = 1..l
  BY LenProperties
<1> DEFINE P(n) == SubSeq(pairings, 1, n)
           S == {n \in Nat : n <= l => ReadAs(P(n))}
<1>2. ASSUME NEW n \in Nat, n <= l
      PROVE  P(n) \in Seq(Pairings) /\ Len(P(n)) = n /\ \A i \in 1..n : P(n)[i] = pairings[i]
  <2>1. PICK z \in Nat : z = 0 /\ z + 1 = 1 /\ z <= n /\ n - z = n /\ \A i \in 1..n : z + i = i
    OBVIOUS
  <2>2. n <= Len(pairings)
    BY <1>1, <1>2
  <2>3. SubSeq(pairings, z + 1, n) \in Seq(Pairings) /\ Len(SubSeq(pairings, z + 1, n)) = n - z
         /\ \A i \in 1..(n - z) : SubSeq(pairings, z + 1, n)[i] = pairings[z + i]
    BY <2>1, <2>2, SliceIs
  <2>4. SubSeq(pairings, z + 1, n) = P(n)
    BY <2>1
  <2> HIDE DEF P
  <2> QED BY <2>1, <2>3, <2>4
<1> HIDE DEF P
<1>3. 0 \in S
  <2>1. P(0) \in Seq(Pairings) /\ Len(P(0)) = 0
    BY <1>2
  <2>2. P(0) = <<>>
    BY <2>1, EmptySeq
  <2> QED BY <2>2, NoneRead
<1>4. \A n \in Nat : n \in S => n + 1 \in S
  <2> SUFFICES ASSUME NEW n \in Nat, n \in S, n + 1 <= l PROVE ReadAs(P(n + 1))
    OBVIOUS
  <2>1. n <= l /\ n + 1 \in Nat /\ n + 1 \in 1..l
    OBVIOUS
  <2>2. ReadAs(P(n))
    BY <2>1
  <2>3. P(n) \in Seq(Pairings) /\ Len(P(n)) = n /\ \A i \in 1..n : P(n)[i] = pairings[i]
    BY <1>2, <2>1
  <2>4. P(n + 1) \in Seq(Pairings) /\ Len(P(n + 1)) = n + 1 /\ \A i \in 1..(n + 1) : P(n + 1)[i] = pairings[i]
    BY <1>2, <2>1
  <2>5. PICK p \in Pairings : p = pairings[n + 1]
    <3>1. pairings[n + 1] \in Pairings
      BY <1>1, <2>1, ElementOfSeq
    <3> QED BY <3>1
  <2> DEFINE m == P(n)
             f == P(n + 1)
  <2>6. m \in Seq(Pairings) /\ f = [i \in 1..(n + 1) |-> f[i]]
    BY <2>3, <2>4
  <2>7. Extended(f, m, p, n)
    <3>1. \A i \in 1..n : f[i] = m[i]
      <4> TAKE i \in 1..n
      <4>1. i \in 1..(n + 1)
        OBVIOUS
      <4> QED BY <2>3, <2>4, <4>1
    <3>2. f[n + 1] = p
      <4>1. n + 1 \in 1..(n + 1)
        OBVIOUS
      <4> QED BY <2>4, <2>5, <4>1
    <3> QED BY <2>3, <2>6, <3>1, <3>2, Zenon DEF Extended
  <2> HIDE DEF m, f
  <2>8. f = Append(m, p)
    <3>1. PICK mm, ff, X : mm = m /\ ff = f /\ X = Pairings
      OBVIOUS
    <3>2. Extended(ff, mm, p, n) /\ mm \in Seq(X) /\ p \in X
      BY <2>6, <2>7, <3>1
    <3>3. ff = Append(mm, p)
      BY <3>2, AppendIs
    <3> QED BY <3>1, <3>3
  <2>9. ReadAs(Append(m, p))
    BY <2>2, <2>6, OneMoreRead DEF m
  <2> QED BY <2>8, <2>9 DEF f
<1> HIDE DEF S
<1>5. \A n \in Nat : n \in S
  BY <1>3, <1>4, InductionOverSet
<1>6. ReadAs(pairings)
  <2>1. ReadAs(P(l))
    BY <1>5 DEF S
  <2>2. P(l) = pairings
    BY <1>1, SubSeqFull DEF P
  <2> QED BY <2>1, <2>2
<1> DEFINE items == Decode(EncodeList(Listed(pairings)), {})
<1>7. /\ items = Listed(pairings) /\ InTurn(items) = pairings
      /\ AllOf(items, Identifier) = IdsOf(pairings) /\ AllOf(items, PublicKey) = KeysOf(pairings)
      /\ AllOf(items, Permissions) = PermissionsOf(pairings)
  BY <1>6 DEF ReadAs, Reads
<1> HIDE DEF items
<1>8. SideBySide(items) = pairings
  <2> DEFINE I == IdsOf(pairings)
             K == KeysOf(pairings)
             Q == PermissionsOf(pairings)
  <2>1. /\ DOMAIN I = 1..l /\ DOMAIN K = 1..l /\ DOMAIN Q = 1..l
        /\ \A i \in 1..l : /\ I[i] = pairings[i].id /\ K[i] = pairings[i].key
                           /\ Q[i] = pairings[i].permissions
    BY <1>1 DEF IdsOf, KeysOf, PermissionsOf
  <2>2. SideBySide(items) = [i \in DOMAIN I \cap DOMAIN K \cap DOMAIN Q |->
                               [id |-> I[i], key |-> K[i], permissions |-> Q[i]]]
    BY <1>7, Zenon DEF SideBySide
  <2> HIDE DEF I, K, Q
  <2>3. SideBySide(items) = [i \in 1..l |-> [id |-> I[i], key |-> K[i], permissions |-> Q[i]]]
    BY <2>1, <2>2
  <2>4. \A i \in 1..l : [id |-> I[i], key |-> K[i], permissions |-> Q[i]] = pairings[i]
    <3> TAKE i \in 1..l
    <3>1. pairings[i] \in Pairings
      BY <1>1, ElementOfSeq
    <3>2. pairings[i] = [id |-> pairings[i].id, key |-> pairings[i].key,
                         permissions |-> pairings[i].permissions]
      BY <3>1 DEF Pairings
    <3> QED BY <2>1, <3>2
  <2>5. pairings = [i \in 1..l |-> pairings[i]]
    BY <1>1
  <2> QED BY <2>3, <2>4, <2>5, Zenon
<1> QED BY <1>7, <1>8 DEF PairingsRoundTrip, items

-----------------------------------------------------------------------------
(* TLV8 structures: what Iterate makes of entries.                           *)

Places == [offset : Nat, type : Nat, value : Bytes]
Place(o, e) == [offset |-> o, type |-> e[1], value |-> e[2]]

(* The last entry of E is full.                                              *)
EndsFull(E) == E # <<>> /\ Len(Last(E)[2]) = MaxChunk

LEMMA PlacePut ==
  ASSUME NEW r \in Seq(Places), NEW full, NEW p \in Places
  PROVE  AddEntry(r, full, p) \in Seq(Places)
<1>1. PICK l \in Nat : l = Len(r)
  OBVIOUS
<1>2. CASE ~(full /\ Last(r).type = p.type)
  <2>1. AddEntry(r, full, p) = Append(r, p)
    BY <1>2 DEF AddEntry
  <2> QED BY <2>1, AppendProperties
<1>3. CASE full /\ Last(r).type = p.type
  <2> DEFINE q == [p EXCEPT !.value = r[Len(r)].value \o @]
  <2>1. AddEntry(r, full, p) = [r EXCEPT ![l] = q]
    BY <1>1, <1>3, Zenon DEF AddEntry
  <2>2. CASE r = <<>>
    <3>1. DOMAIN r = {}
      BY <2>2
    <3> HIDE DEF q
    <3>2. [r EXCEPT ![l] = q] = r
      BY <2>2, <3>1
    <3> QED BY <2>1, <3>2
  <2>3. CASE r # <<>>
    <3>1. l \in 1..Len(r)
      BY <1>1, <2>3, EmptySeq
    <3>2. r[l] \in Places
      BY <3>1, ElementOfSeq
    <3>3. r[l].value \in Seq(Nat) /\ p.value \in Seq(Nat)
      BY <3>2 DEF Places, Bytes
    <3>4. PICK v \in Bytes : v = r[Len(r)].value \o p.value
      BY <1>1, <3>3, ConcatProperties DEF Bytes
    <3>5. q = [p EXCEPT !.value = v]
      BY <3>4
    <3>6. q \in Places
      BY <3>5 DEF Places
    <3> HIDE DEF q
    <3> QED BY <2>1, <3>1, <3>6, ExceptSeq
  <2> QED BY <2>2, <2>3
<1> QED BY <1>2, <1>3

(* One turn: the entry that begins at the offset.                            *)
NextFound(before, e, bytes, full, found) ==
  TakeEntry([offset |-> Len(before), full |-> full, found |-> found], bytes) =
    [offset |-> Len(before \o Entry(e)), full |-> Len(e[2]) = MaxChunk,
     found |-> AddEntry(found, full, Place(Len(before), e))]

LEMMA EntryFound ==
  ASSUME NEW before \in Bytes, NEW e \in TlvItems, NEW rest \in Bytes, NEW bytes, NEW full, NEW found,
         bytes = (before \o Entry(e)) \o rest
  PROVE  NextFound(before, e, bytes, full, found)
<1> DEFINE g == <<e[1], Len(e[2])>>
           h == before \o g
           v == e[2]
<1>1. v \in Seq(Nat) /\ e[1] \in Nat /\ rest \in Seq(Nat) /\ before \in Seq(Nat)
  BY DEF TlvItems, Bytes
<1>2. PICK k \in Nat : k = Len(v)
  BY <1>1
<1>3. PICK m \in Nat : m = Len(rest)
  BY <1>1
<1>4. PICK o \in Nat : o = Len(before)
  BY <1>1
<1>5. g \in Seq(Nat) /\ Len(g) = 2 /\ g[1] = e[1] /\ g[2] = k
  BY <1>1, <1>2
<1>6. Entry(e) = g \o v
  BY DEF Entry
<1> HIDE DEF g, v
<1>7. h \in Seq(Nat) /\ Len(h) = o + 2 /\ h[o + 1] = e[1] /\ h[o + 2] = k
  <2>1. h \in Seq(Nat) /\ Len(h) = Len(before) + Len(g)
        /\ \A i \in 1..(Len(before) + Len(g)) : h[i] = IF i <= Len(before) THEN before[i] ELSE g[i - Len(before)]
    BY <1>1, <1>5, ConcatProperties
  <2>2. /\ o + 1 \in 1..(o + 2) /\ ~(o + 1 <= o) /\ (o + 1) - o = 1
        /\ o + 2 \in 1..(o + 2) /\ ~(o + 2 <= o) /\ (o + 2) - o = 2
    OBVIOUS
  <2> HIDE DEF h
  <2> QED BY <1>4, <1>5, <2>1, <2>2
<1>8. before \o Entry(e) = h \o v
  <2>1. PICK T : T = Nat
    OBVIOUS
  <2>2. before \in Seq(T) /\ g \in Seq(T) /\ v \in Seq(T)
    BY <1>1, <1>5, <2>1
  <2>3. (before \o g) \o v = before \o (g \o v)
    BY <2>2, ConcatAssociative
  <2> QED BY <1>6, <2>3
<1> HIDE DEF h
<1>9. Headed((h \o v) \o rest, h, v, rest)
  BY <1>1, <1>7, HeadAndRest
<1>10. bytes = (h \o v) \o rest
  BY <1>8
<1>11. /\ Len(bytes) = o + 2 + k + m /\ bytes[o + 1] = e[1] /\ bytes[o + 2] = k
       /\ SubSeq(bytes, o + 3, o + 2 + k) = v
  <2>1. /\ Len(bytes) = Len(h) + Len(v) + Len(rest) /\ \A i \in 1..Len(h) : bytes[i] = h[i]
        /\ SubSeq(bytes, Len(h) + 1, Len(h) + Len(v)) = v
    BY <1>9, <1>10, Zenon DEF Headed
  <2>2. o + 1 \in 1..(o + 2) /\ o + 2 \in 1..(o + 2) /\ (o + 2) + 1 = o + 3
    OBVIOUS
  <2> QED BY <1>2, <1>3, <1>7, <2>1, <2>2
<1>12. Len(before \o Entry(e)) = o + 2 + k
  BY <1>1, <1>2, <1>7, <1>8, ConcatProperties
<1> DEFINE s == [offset |-> Len(before), full |-> full, found |-> found]
<1>13. s.offset = o /\ s.full = full /\ s.found = found
  BY <1>4
<1> HIDE DEF s
<1> DEFINE end == IF o + 2 + k < Len(bytes) THEN o + 2 + k ELSE Len(bytes)
           x == [offset |-> o, type |-> bytes[o + 1], value |-> SubSeq(bytes, o + 3, end)]
<1>14. ~(o >= Len(bytes)) /\ end = o + 2 + k
  BY <1>11
<1>15. x = Place(o, e)
  BY <1>11, <1>14 DEF Place, v
<1> HIDE DEF end
<1>16. TakeEntry(s, bytes) =
         IF o >= Len(bytes) THEN s
         ELSE [offset |-> o + 2 + bytes[o + 2], full |-> bytes[o + 2] = MaxChunk,
               found |-> AddEntry(found, full, x)]
  BY <1>11, <1>13, Zenon DEF TakeEntry, end
<1> HIDE DEF x
<1>17. TakeEntry(s, bytes) = [offset |-> o + 2 + k, full |-> k = MaxChunk, found |-> AddEntry(found, full, Place(o, e))]
  BY <1>11, <1>14, <1>15, <1>16, Zenon
<1> QED BY <1>2, <1>4, <1>12, <1>17 DEF s, v, NextFound

(* What is found in entries is what AddEntry makes of them in turn; what is  *)
(* before the (i + 1)-th of them is a[i].                                    *)
FullAt(E, i) == i # 0 /\ Len(E[i][2]) = MaxChunk
Turns(E, a, R) ==
  /\ R[0] = <<>>
  /\ \A i \in 1..Len(E) : R[i] = AddEntry(R[i - 1], FullAt(E, i - 1), Place(Len(a[i - 1]), E[i]))

LEMMA IterateWritten ==
  ASSUME NEW E \in Seq(TlvItems), NEW a, NEW tl, NEW R, Turns(E, a, R),
         Splits(Nat, [i \in DOMAIN E |-> Entry(E[i])], a, tl)
  PROVE  Iterate(Written(E)) = R[Len(E)]
<1> DEFINE ss == [i \in DOMAIN E |-> Entry(E[i])]
           b == Written(E)
<1>1. PICK l \in Nat : l = Len(E)
  OBVIOUS
<1>2. ss \in Seq(Seq(Nat)) /\ Len(ss) = l /\ \A i \in 1..l : ss[i] = Entry(E[i])
  BY <1>1, WrittenEntries
<1>3. b = FlattenSeq(ss)
  BY DEF Written
<1>4. Splits(Nat, ss, a, tl)
  OBVIOUS
<1> HIDE DEF ss, b
<1>5. /\ a[0] = <<>> /\ \A i \in 1..l : a[i] = a[i - 1] \o ss[i]
      /\ tl[l] = <<>>
      /\ \A i \in 0..l : a[i] \in Seq(Nat) /\ tl[i] \in Seq(Nat) /\ b = a[i] \o tl[i]
  BY <1>2, <1>3, <1>4 DEF Splits
<1>6. a[l] = b
  <2>1. l \in 0..l
    OBVIOUS
  <2>2. PICK s \in Seq(Nat) : s = a[l]
    BY <1>5, <2>1
  <2>3. s \o <<>> = s
    BY ConcatEmptySeq
  <2> QED BY <1>5, <2>1, <2>2, <2>3
<1>7. R[0] = <<>> /\ \A i \in 1..l : R[i] = AddEntry(R[i - 1], FullAt(E, i - 1), Place(Len(a[i - 1]), E[i]))
  BY <1>1, Zenon DEF Turns
<1> DEFINE St(n) == [offset |-> Len(a[n]), full |-> FullAt(E, n), found |-> R[n]]
<1>8. ASSUME NEW i \in 1..l
      PROVE  TakeEntry(St(i - 1), b) = St(i) /\ Len(a[i]) >= Len(a[i - 1]) + 2
  <2>1. i - 1 \in 0..l /\ i \in 0..l /\ i # 0
    OBVIOUS
  <2>2. PICK before \in Bytes : before = a[i - 1]
    BY <1>5, <2>1 DEF Bytes
  <2>3. PICK rest \in Bytes : rest = tl[i]
    BY <1>5, <2>1 DEF Bytes
  <2>4. PICK e \in TlvItems : e = E[i]
    BY <1>1, ElementOfSeq
  <2>5. a[i] = before \o Entry(e)
    BY <1>2, <1>5, <2>2, <2>4
  <2>6. b = (before \o Entry(e)) \o rest
    BY <1>5, <2>1, <2>3, <2>5
  <2>7. TakeEntry([offset |-> Len(before), full |-> FullAt(E, i - 1), found |-> R[i - 1]], b) =
           [offset |-> Len(before \o Entry(e)), full |-> Len(e[2]) = MaxChunk,
            found |-> AddEntry(R[i - 1], FullAt(E, i - 1), Place(Len(before), e))]
    <3>1. PICK full, found, bytes : full = FullAt(E, i - 1) /\ found = R[i - 1] /\ bytes = b
      OBVIOUS
    <3>2. bytes = (before \o Entry(e)) \o rest
      BY <2>6, <3>1
    <3>3. NextFound(before, e, bytes, full, found)
      BY <3>2, EntryFound
    <3> QED BY <3>1, <3>3, Zenon DEF NextFound
  <2>8. FullAt(E, i) = (Len(e[2]) = MaxChunk)
    BY <2>1, <2>4 DEF FullAt
  <2>9. R[i] = AddEntry(R[i - 1], FullAt(E, i - 1), Place(Len(before), e))
    BY <1>7, <2>2, <2>4
  <2>10. TakeEntry(St(i - 1), b) = St(i)
    BY <2>2, <2>5, <2>7, <2>8, <2>9, Zenon
  <2>11. Len(a[i]) >= Len(a[i - 1]) + 2
    <3>1. PICK k \in Nat : k = Len(e[2])
      BY DEF TlvItems, Bytes
    <3>2. PICK o \in Nat : o = Len(before)
      BY DEF Bytes
    <3>3. PICK r \in Bytes : r = <<>>
      BY EmptySeq DEF Bytes
    <3>4. Len(Entry(e) \o r) = Len(e[2]) + 2 + Len(r) /\ Entry(e) \in Seq(Nat)
      BY EntryHeaded
    <3>5. Entry(e) \o r = Entry(e)
      BY <3>3, <3>4, ConcatEmptySeq
    <3>6. Len(Entry(e)) = k + 2
      BY <3>1, <3>3, <3>4, <3>5
    <3>7. Len(before \o Entry(e)) = o + (k + 2)
      <4>1. before \in Seq(Nat) /\ Entry(e) \in Seq(Nat)
        BY <3>4 DEF Bytes
      <4>2. Len(before \o Entry(e)) = Len(before) + Len(Entry(e))
        BY <4>1, ConcatProperties
      <4> QED BY <3>2, <3>6, <4>2
    <3> QED BY <2>2, <2>5, <3>2, <3>7
  <2> QED BY <2>10, <2>11
<1> DEFINE X == {n \in Nat : n <= l => Len(a[n]) >= n /\ Len(a[n]) \in Nat}
<1>9. 0 \in X
  BY <1>5
<1>10. ASSUME NEW n \in Nat, n \in X PROVE n + 1 \in X
  <2> SUFFICES ASSUME n + 1 <= l PROVE Len(a[n + 1]) >= n + 1 /\ Len(a[n + 1]) \in Nat
    OBVIOUS
  <2>1. PICK i \in 1..l : i = n + 1 /\ i - 1 = n /\ i \in 0..l
    OBVIOUS
  <2>2. PICK s \in Seq(Nat) : s = a[i]
    BY <1>5, <2>1
  <2>3. PICK p \in Nat : p = Len(a[n]) /\ p >= n
    BY <1>10
  <2>4. Len(a[i]) >= Len(a[i - 1]) + 2
    BY <1>8
  <2>5. PICK q \in Nat : q = Len(s)
    OBVIOUS
  <2>6. q >= p + 2
    BY <2>1, <2>2, <2>3, <2>4, <2>5
  <2> QED BY <2>1, <2>2, <2>3, <2>5, <2>6
<1> HIDE DEF X
<1>11. PICK N \in Nat : N = Len(b) /\ N >= l
  <2>1. l \in X
    BY <1>9, <1>10, InductionOverSet
  <2> QED BY <1>6, <2>1 DEF X
<1> DEFINE st == [n \in 0..N |-> St(IF n <= l THEN n ELSE l)]
           IsRun(f) == f = [n \in 0..N |-> IF n = 0 THEN [offset |-> 0, full |-> FALSE, found |-> <<>>]
                                           ELSE TakeEntry(f[n - 1], b)]
           after == CHOOSE f : IsRun(f)
<1>12. St(0) = [offset |-> 0, full |-> FALSE, found |-> <<>>]
  <2>1. Len(a[0]) = 0 /\ FullAt(E, 0) = FALSE
    BY <1>5 DEF FullAt
  <2> QED BY <1>7, <2>1, Zenon
<1>13. TakeEntry(St(l), b) = St(l)
  <2>1. St(l).offset = N
    BY <1>6, <1>11
  <2> HIDE DEF St
  <2>2. St(l).offset >= Len(b)
    BY <1>11, <2>1
  <2> QED BY <2>2, Zenon DEF TakeEntry
<1> HIDE DEF St
<1>14. \A n \in 0..N : st[n] = St(IF n <= l THEN n ELSE l)
  OBVIOUS
<1>15. st = [n \in 0..N |-> st[n]]
  OBVIOUS
<1> HIDE DEF st
<1>16. ASSUME NEW n \in 0..N
       PROVE  st[n] = IF n = 0 THEN [offset |-> 0, full |-> FALSE, found |-> <<>>] ELSE TakeEntry(st[n - 1], b)
  <2>1. CASE n = 0
    <3>1. n <= l
      BY <2>1
    <3> QED BY <1>12, <1>14, <2>1, <3>1
  <2>2. CASE n # 0 /\ n <= l
    <3>1. n \in 1..l /\ n - 1 \in 0..N /\ n - 1 <= l
      BY <2>2
    <3> QED BY <1>8, <1>14, <2>2, <3>1
  <2>3. CASE n > l
    <3>1. n - 1 \in 0..N /\ n # 0 /\ ~(n <= l)
      BY <2>3
    <3>2. (IF n - 1 <= l THEN n - 1 ELSE l) = l
      BY <2>3
    <3>3. st[n] = St(l) /\ st[n - 1] = St(l)
      BY <1>14, <3>1, <3>2
    <3> QED BY <1>13, <3>1, <3>3
  <2> QED BY <2>1, <2>2, <2>3
<1>17. IsRun(st)
  BY <1>15, <1>16, Zenon
<1>18. IsRun(after)
  <2> HIDE DEF IsRun
  <2>1. \E f : IsRun(f)
    BY <1>17
  <2> QED BY <2>1, Zenon
<1>19. Iterate(b) = after[N].found
  BY <1>11, Zenon DEF Iterate
<1> HIDE DEF after
<1>20. \A n \in 0..N : after[n] = IF n = 0 THEN [offset |-> 0, full |-> FALSE, found |-> <<>>] ELSE TakeEntry(after[n - 1], b)
  BY <1>18
<1> HIDE DEF IsRun
<1>21. after[0] = st[0]
  <2>1. 0 \in 0..N
    OBVIOUS
  <2> QED BY <1>16, <1>20, <2>1
<1>22. ASSUME NEW n \in 1..N, after[n - 1] = st[n - 1] PROVE after[n] = st[n]
  <2>1. n \in 0..N /\ n # 0
    OBVIOUS
  <2>2. after[n] = TakeEntry(after[n - 1], b) /\ st[n] = TakeEntry(st[n - 1], b)
    BY <1>16, <1>20, <2>1
  <2> QED BY <1>22, <2>2
<1>23. N \in 0..N /\ (IF N <= l THEN N ELSE l) = l
  BY <1>11
<1>24. after[N] = st[N]
  <2>1. SameRuns(after, st, N)
    BY <1>21, <1>22 DEF SameRuns
  <2>2. \A n \in 0..N : after[n] = st[n]
    BY <2>1, RunsEqual
  <2> QED BY <1>23, <2>2
<1>25. st[N].found = R[l]
  <2>1. st[N] = St(l)
    BY <1>14, <1>23
  <2>2. St(l).found = R[l]
    BY DEF St
  <2> QED BY <2>1, <2>2
<1>26. Iterate(b) = R[l]
  BY <1>19, <1>24, <1>25
<1> QED BY <1>1, <1>26 DEF b

LEMMA NoneFound == Iterate(Written(<<>>)) = <<>>
<1>1. PICK E \in Seq(TlvItems) : E = <<>>
  BY EmptySeq
<1> DEFINE ss == [i \in DOMAIN E |-> Entry(E[i])]
<1>2. ss \in Seq(Seq(Nat))
  BY WrittenEntries
<1>3. PICK a, tl : Splits(Nat, ss, a, tl)
  BY <1>2, RestsOf
<1>4. PICK R : R = [i \in {0} |-> <<>>]
  OBVIOUS
<1>5. Len(E) = 0 /\ R[0] = <<>>
  BY <1>1, <1>4
<1>6. \A i \in 1..Len(E) : FALSE
  BY <1>5
<1>7. Turns(E, a, R)
  BY <1>5, <1>6, Zenon DEF Turns
<1>8. Iterate(Written(E)) = R[Len(E)]
  BY <1>3, <1>7, IterateWritten
<1> QED BY <1>1, <1>5, <1>8

(* What is found when there is an entry more.                                *)
FoundThen(E, e) ==
  /\ Written(E) \in Bytes /\ Iterate(Written(E)) \in Seq(Places)
  /\ Written(Append(E, e)) = Written(E) \o Entry(e)
  /\ Iterate(Written(Append(E, e))) =
       AddEntry(Iterate(Written(E)), EndsFull(E), Place(Len(Written(E)), e))

LEMMA FoundGrows ==
  ASSUME NEW E \in Seq(TlvItems), NEW e \in TlvItems
  PROVE  FoundThen(E, e)
<1> DEFINE G == Append(E, e)
           X == Seq(Places)
           ss == [i \in DOMAIN E |-> Entry(E[i])]
           tt == [i \in DOMAIN G |-> Entry(G[i])]
<1>1. PICK l \in Nat : l = Len(E)
  OBVIOUS
<1>2. G \in Seq(TlvItems) /\ Len(G) = l + 1 /\ G[l + 1] = e /\ \A i \in 1..l : G[i] = E[i]
  BY <1>1, AppendProperties
<1> HIDE DEF G
<1>3. /\ ss \in Seq(Seq(Nat)) /\ Len(ss) = l /\ \A i \in 1..l : ss[i] = Entry(E[i])
      /\ Written(E) = FlattenSeq(ss)
  BY <1>1, WrittenEntries DEF Written
<1>4. /\ tt \in Seq(Seq(Nat)) /\ Len(tt) = l + 1 /\ \A i \in 1..(l + 1) : tt[i] = Entry(G[i])
      /\ Written(G) = FlattenSeq(tt)
  BY <1>2, WrittenEntries DEF Written
<1>5. PICK a, tl : Splits(Nat, ss, a, tl)
  BY <1>3, RestsOf
<1>6. PICK b, tm : Splits(Nat, tt, b, tm)
  BY <1>4, RestsOf
<1> HIDE DEF ss, tt
<1>7. /\ a[0] = <<>> /\ \A i \in 1..l : a[i] = a[i - 1] \o ss[i]
      /\ tl[l] = <<>> /\ \A i \in 0..l : a[i] \in Seq(Nat) /\ FlattenSeq(ss) = a[i] \o tl[i]
  BY <1>3, <1>5 DEF Splits
<1>8. /\ b[0] = <<>> /\ \A i \in 1..(l + 1) : b[i] = b[i - 1] \o tt[i]
      /\ tm[l + 1] = <<>> /\ \A i \in 0..(l + 1) : b[i] \in Seq(Nat) /\ FlattenSeq(tt) = b[i] \o tm[i]
  BY <1>4, <1>6 DEF Splits
<1>9. \A i \in 0..l : a[i] = b[i]
  <2>1. a[0] = b[0]
    BY <1>7, <1>8
  <2>2. ASSUME NEW i \in 1..l, a[i - 1] = b[i - 1] PROVE a[i] = b[i]
    <3>1. i \in 1..(l + 1)
      OBVIOUS
    <3>2. ss[i] = tt[i]
      BY <1>2, <1>3, <1>4, <3>1
    <3> QED BY <1>7, <1>8, <2>2, <3>1, <3>2
  <2>3. SameRuns(a, b, l)
    BY <2>1, <2>2 DEF SameRuns
  <2> QED BY <2>3, RunsEqual
<1>10. Written(E) = a[l] /\ Written(G) = b[l + 1] /\ Written(E) \in Bytes
  <2>1. l \in 0..l /\ l + 1 \in 0..(l + 1)
    OBVIOUS
  <2>2. PICK s \in Seq(Nat) : s = a[l]
    BY <1>7, <2>1
  <2>3. PICK t \in Seq(Nat) : t = b[l + 1]
    BY <1>8, <2>1
  <2>4. s \o <<>> = s /\ t \o <<>> = t
    BY ConcatEmptySeq
  <2> QED BY <1>3, <1>4, <1>7, <1>8, <2>1, <2>2, <2>3, <2>4 DEF Bytes
<1>11. Written(G) = Written(E) \o Entry(e)
  <2>1. PICK i \in 1..(l + 1) : i = l + 1 /\ i - 1 = l /\ i - 1 \in 0..l
    OBVIOUS
  <2>2. b[i] = b[i - 1] \o tt[i] /\ tt[i] = Entry(e)
    BY <1>2, <1>4, <1>8, <2>1
  <2> QED BY <1>9, <1>10, <2>1, <2>2
<1>12. PICK x \in X : x = <<>>
  BY EmptySeq
<1>13. PICK N \in Nat : N = l + 1
  OBVIOUS
<1> DEFINE F == [p \in (1..N) \X X |-> AddEntry(p[2], FullAt(G, p[1] - 1), Place(Len(b[p[1] - 1]), G[p[1]]))]
<1>14. \A i \in 1..N, r \in X :
         /\ F[<<i, r>>] = AddEntry(r, FullAt(G, i - 1), Place(Len(b[i - 1]), G[i]))
         /\ F[<<i, r>>] \in X
  <2> TAKE i \in 1..N, r \in X
  <2>1. i - 1 \in 0..(l + 1) /\ G[i] \in TlvItems
    BY <1>2, <1>13, ElementOfSeq
  <2>2. PICK o \in Nat : o = Len(b[i - 1])
    <3>1. b[i - 1] \in Seq(Nat)
      BY <1>8, <2>1
    <3> QED BY <3>1
  <2>3. PICK p \in Places : p = Place(Len(b[i - 1]), G[i])
    BY <2>1, <2>2 DEF Place, Places, TlvItems
  <2>4. PICK full : full = FullAt(G, i - 1)
    OBVIOUS
  <2>5. AddEntry(r, full, p) \in X
    BY PlacePut
  <2>6. F[<<i, r>>] = AddEntry(r, FullAt(G, i - 1), Place(Len(b[i - 1]), G[i]))
    OBVIOUS
  <2> HIDE DEF X, F
  <2> QED BY <2>3, <2>4, <2>5, <2>6
<1> HIDE DEF F, X
<1>15. \E R \in [0..N -> X] : Runs(R, x, F, N)
  BY <1>14, RunExists
<1>16. PICK R \in [0..N -> X] : Runs(R, x, F, N)
  BY <1>15
<1>17. R[0] = <<>>
  BY <1>12, <1>16 DEF Runs
<1>18. ASSUME NEW i \in 1..N
       PROVE  R[i] = AddEntry(R[i - 1], FullAt(G, i - 1), Place(Len(b[i - 1]), G[i]))
  <2>1. i - 1 \in 0..N
    OBVIOUS
  <2>2. PICK r \in X : r = R[i - 1]
    BY <1>16, <2>1
  <2>3. R[i] = F[<<i, R[i - 1]>>]
    BY <1>16 DEF Runs
  <2> QED BY <1>14, <2>2, <2>3
<1>19. Iterate(Written(G)) = R[N]
  <2>1. Turns(G, b, R)
    BY <1>2, <1>13, <1>17, <1>18, Zenon DEF Turns
  <2>2. Splits(Nat, [i \in DOMAIN G |-> Entry(G[i])], b, tm)
    BY <1>6 DEF tt
  <2>3. Iterate(Written(G)) = R[Len(G)]
    BY <1>2, <2>1, <2>2, IterateWritten
  <2> QED BY <1>2, <1>13, <2>3
<1>20. Iterate(Written(E)) = R[l]
  <2>1. ASSUME NEW i \in 1..l
        PROVE  R[i] = AddEntry(R[i - 1], FullAt(E, i - 1), Place(Len(a[i - 1]), E[i]))
    <3>1. i \in 1..N /\ i - 1 \in 0..l /\ (i - 1 # 0 => i - 1 \in 1..l)
      BY <1>13
    <3>2. FullAt(G, i - 1) = FullAt(E, i - 1)
      BY <1>2, <3>1 DEF FullAt
    <3>3. a[i - 1] = b[i - 1] /\ G[i] = E[i]
      BY <1>2, <1>9, <3>1
    <3> QED BY <1>18, <3>1, <3>2, <3>3
  <2>2. Turns(E, a, R)
    BY <1>1, <1>17, <2>1, Zenon DEF Turns
  <2>3. Splits(Nat, [i \in DOMAIN E |-> Entry(E[i])], a, tl)
    BY <1>5 DEF ss
  <2>4. Iterate(Written(E)) = R[Len(E)]
    BY <2>2, <2>3, IterateWritten
  <2> QED BY <1>1, <2>4
<1>21. R[N] = AddEntry(R[l], EndsFull(E), Place(Len(Written(E)), e)) /\ R[l] \in X
  <2>1. PICK i \in 1..N : i = l + 1 /\ i - 1 = l /\ i - 1 \in 0..N /\ i - 1 \in 0..l /\ i = N
    BY <1>13
  <2>2. FullAt(G, l) = EndsFull(E)
    <3>1. CASE l = 0
      <4>1. E = <<>>
        BY <1>1, <3>1, EmptySeq
      <4> QED BY <3>1, <4>1 DEF FullAt, EndsFull
    <3>2. CASE l # 0
      <4>1. l \in 1..l /\ E # <<>>
        BY <1>1, <3>2
      <4>2. G[l] = E[l] /\ Last(E) = E[l]
        BY <1>1, <1>2, <4>1 DEF Last
      <4> QED BY <3>2, <4>1, <4>2 DEF FullAt, EndsFull
    <3> QED BY <3>1, <3>2
  <2>3. R[i] = AddEntry(R[i - 1], FullAt(G, i - 1), Place(Len(b[i - 1]), G[i]))
    BY <1>18
  <2>4. b[l] = Written(E) /\ G[i] = e
    BY <1>2, <1>9, <1>10, <2>1
  <2>5. R[i - 1] \in X
    BY <1>16, <2>1
  <2> QED BY <2>1, <2>2, <2>3, <2>4, <2>5
<1>22. FoundThen(E, e)
  BY <1>10, <1>11, <1>13, <1>19, <1>20, <1>21, Zenon DEF FoundThen, G, X
<1> QED BY <1>22

At(o, x, v) == [offset |-> o, type |-> x, value |-> v]

(* A value that goes on.                                                     *)
GoesOnAt(r, o, m, x, p, q) ==
  /\ AddEntry(Append(r, At(o, x, p)), TRUE, At(m, x, q)) = Append(r, At(m, x, p \o q))
  /\ p \o q \in Bytes

LEMMA PlaceJoined ==
  ASSUME NEW r \in Seq(Places), NEW o \in Nat, NEW m \in Nat, NEW x \in Nat, NEW p \in Bytes, NEW q \in Bytes
  PROVE  GoesOnAt(r, o, m, x, p, q)
<1>1. PICK l \in Nat : l = Len(r)
  OBVIOUS
<1>2. PICK v \in Bytes : v = p \o q
  <2>1. p \o q \in Seq(Nat)
    BY ConcatProperties DEF Bytes
  <2> QED BY <2>1 DEF Bytes
<1>3. PICK e \in Places : e = At(o, x, p) /\ e.type = x /\ e.value = p
  <2>1. At(o, x, p) \in Places /\ At(o, x, p).type = x /\ At(o, x, p).value = p
    BY DEF Places, At
  <2> QED BY <2>1
<1>4. PICK f \in Places : f = At(m, x, q) /\ f.type = x /\ f.value = q /\ [f EXCEPT !.value = v] = At(m, x, v)
  <2>1. At(m, x, q) \in Places /\ At(m, x, q).type = x /\ At(m, x, q).value = q
    BY DEF Places, At
  <2>2. [At(m, x, q) EXCEPT !.value = v] = At(m, x, v)
    BY DEF At
  <2> QED BY <2>1, <2>2
<1>5. PICK g \in Places : g = At(m, x, v)
  <2>1. At(m, x, v) \in Places
    BY DEF Places, At
  <2> QED BY <2>1
<1> DEFINE a == Append(r, e)
           c == Append(r, g)
<1>6. a \in Seq(Places) /\ Len(a) = l + 1 /\ a[l + 1] = e /\ \A i \in 1..l : a[i] = r[i]
  BY <1>1, AppendProperties
<1>7. c \in Seq(Places) /\ Len(c) = l + 1 /\ c[l + 1] = g /\ \A i \in 1..l : c[i] = r[i]
  BY <1>1, AppendProperties
<1>8. Last(a) = e
  BY LastOf
<1> HIDE DEF a, c
<1>9. AddEntry(a, TRUE, f) = [a EXCEPT ![Len(a)] = [f EXCEPT !.value = a[Len(a)].value \o @]]
  BY <1>3, <1>4, <1>8, Zenon DEF AddEntry
<1>10. a[Len(a)].value = p
  BY <1>3, <1>6
<1>11. [f EXCEPT !.value = a[Len(a)].value \o @] = g
  <2>1. a[Len(a)].value \o f.value = v
    BY <1>2, <1>4, <1>10
  <2> QED BY <1>4, <1>5, <2>1
<1>12. AddEntry(a, TRUE, f) = [a EXCEPT ![l + 1] = g]
  BY <1>6, <1>9, <1>11, Zenon
<1> DEFINE d == [a EXCEPT ![l + 1] = g]
<1>13. d \in Seq(Places) /\ Len(d) = l + 1 /\ \A j \in 1..(l + 1) : d[j] = IF j = l + 1 THEN g ELSE a[j]
  <2>1. PICK k \in 1..Len(a) : k = l + 1
    BY <1>6
  <2>2. /\ [a EXCEPT ![k] = g] \in Seq(Places) /\ Len([a EXCEPT ![k] = g]) = Len(a)
        /\ \A j \in 1..Len(a) : [a EXCEPT ![k] = g][j] = IF j = k THEN g ELSE a[j]
    BY <1>6, ExceptSeq
  <2> QED BY <1>6, <2>1, <2>2
<1> HIDE DEF d
<1>14. \A j \in 1..(l + 1) : d[j] = c[j]
  <2> TAKE j \in 1..(l + 1)
  <2>1. j \in 1..l \/ j = l + 1
    OBVIOUS
  <2> QED BY <1>6, <1>7, <1>13, <2>1
<1>15. d = c
  <2>1. Len(d) = Len(c) /\ \A j \in 1..Len(d) : d[j] = c[j]
    BY <1>7, <1>13, <1>14
  <2> QED BY <1>7, <1>13, <2>1, SeqEqual
<1> QED BY <1>2, <1>3, <1>4, <1>5, <1>12, <1>15 DEF a, c, d, GoesOnAt

(* An entry of type x would not go on with the last one of E.                *)
Closed(E, x) == ~(EndsFull(E) /\ Last(Iterate(Written(E))).type = x)

(* A value is found as a whole, however many entries it is divided into.     *)
FoundAll(E, x, v) ==
  /\ E \o Divided(x, v) \in Seq(TlvItems)
  /\ v = <<>> => E \o Divided(x, v) = E
  /\ v # <<>> => \E o \in Nat : Iterate(Written(E \o Divided(x, v))) = Append(Iterate(Written(E)), At(o, x, v))

LEMMA FoundDivided ==
  ASSUME NEW E \in Seq(TlvItems), NEW x \in Nat, NEW v \in Bytes, Closed(E, x)
  PROVE  FoundAll(E, x, v)
<1>1. Divided(x, v) \in Seq(TlvItems)
  BY Pieced
<1>2. PICK c \in Nat : \E P, w, W : PieceByPiece(E, x, v, c, P, w, W)
  BY Pieced
<1>3. PICK P, w, W : PieceByPiece(E, x, v, c, P, w, W)
  BY <1>2
<1>4. /\ P \in [0..c -> Seq(TlvItems)] /\ w \in [1..c -> Bytes] /\ W \in [0..c -> Bytes]
      /\ P[0] = E /\ P[c] = E \o Divided(x, v) /\ W[0] = <<>> /\ W[c] = v
      /\ (c = 0) <=> (v = <<>>)
      /\ \A i \in 1..c : P[i] = Append(P[i - 1], <<x, w[i]>>)
      /\ \A i \in 1..c : W[i] = W[i - 1] \o w[i]
      /\ \A i \in 1..c : i # c => Len(w[i]) = MaxChunk
  BY <1>3, Zenon DEF PieceByPiece
<1> DEFINE D(i) == Iterate(Written(P[i]))
<1>5. ASSUME NEW i \in 1..c
      PROVE  /\ D(i - 1) \in Seq(Places)
             /\ \E o \in Nat : D(i) = AddEntry(D(i - 1), EndsFull(P[i - 1]), At(o, x, w[i]))
             /\ i # c => EndsFull(P[i])
  <2>1. i - 1 \in 0..c
    OBVIOUS
  <2>2. PICK E0 \in Seq(TlvItems) : E0 = P[i - 1]
    BY <1>4, <2>1
  <2>3. PICK u \in Bytes : u = w[i]
    BY <1>4
  <2>4. PICK e \in TlvItems : e = <<x, u>> /\ e[1] = x /\ e[2] = u
    <3>1. <<x, u>> \in TlvItems
      BY DEF TlvItems
    <3> QED BY <3>1
  <2>5. FoundThen(E0, e)
    BY FoundGrows
  <2>6. P[i] = Append(E0, e)
    BY <1>4, <2>2, <2>3, <2>4
  <2>7. PICK o \in Nat : o = Len(Written(E0))
    BY <2>5 DEF FoundThen, Bytes
  <2>8. Place(o, e) = At(o, x, u)
    BY <2>4 DEF Place, At
  <2>9. D(i) = AddEntry(D(i - 1), EndsFull(P[i - 1]), At(o, x, w[i])) /\ D(i - 1) \in Seq(Places)
    BY <2>2, <2>3, <2>5, <2>6, <2>7, <2>8, Zenon DEF FoundThen
  <2>10. i # c => EndsFull(P[i])
    <3>1. Last(P[i]) = e /\ P[i] # <<>>
      BY <2>6, LastOf
    <3> QED BY <1>4, <2>3, <2>4, <3>1 DEF EndsFull
  <2> QED BY <2>9, <2>10
<1>6. D(0) = Iterate(Written(E)) /\ D(c) = Iterate(Written(E \o Divided(x, v)))
  BY <1>4
<1> HIDE DEF D
<1>7. E \o Divided(x, v) \in Seq(TlvItems)
  BY <1>1, ConcatProperties
<1>8. CASE v = <<>>
  <2>1. E \o Divided(x, v) = E
    BY <1>4, <1>8
  <2> QED BY <1>7, <1>8, <2>1 DEF FoundAll
<1>9. CASE v # <<>>
  <2> DEFINE S == {n \in Nat : n + 1 <= c => \E o \in Nat : D(n + 1) = Append(D(0), At(o, x, W[n + 1]))}
  <2>1. 0 \in S
    <3>1. PICK i \in 1..c : i = 1 /\ i - 1 = 0 /\ 0 + 1 = i
      BY <1>4, <1>9
    <3>2. PICK u \in Seq(Nat) : u = w[i]
      BY <1>4 DEF Bytes
    <3>3. <<>> \o u = u
      BY ConcatEmptySeq
    <3>4. W[i] = W[i - 1] \o w[i]
      BY <1>4
    <3>5. W[i] = w[i]
      BY <1>4, <3>1, <3>2, <3>3, <3>4
    <3>6. PICK o \in Nat : D(i) = AddEntry(D(i - 1), EndsFull(P[i - 1]), At(o, x, w[i]))
      BY <1>5
    <3>7. ~(EndsFull(E) /\ Last(D(0)).type = x)
      BY <1>6 DEF Closed
    <3>8. At(o, x, w[i]).type = x
      BY DEF At
    <3>9. AddEntry(D(0), EndsFull(E), At(o, x, w[i])) = Append(D(0), At(o, x, w[i]))
      BY <3>7, <3>8, Zenon DEF AddEntry
    <3>10. D(i) = Append(D(0), At(o, x, W[i]))
      BY <1>4, <3>1, <3>5, <3>6, <3>9
    <3> QED BY <3>1, <3>10
  <2>2. ASSUME NEW n \in Nat, n \in S PROVE n + 1 \in S
    <3> SUFFICES ASSUME (n + 1) + 1 <= c
                 PROVE  \E o \in Nat : D((n + 1) + 1) = Append(D(0), At(o, x, W[(n + 1) + 1]))
      OBVIOUS
    <3>1. PICK i \in 1..c : i = (n + 1) + 1 /\ i - 1 = n + 1 /\ n + 1 <= c /\ n + 1 \in 0..c
      OBVIOUS
    <3>2. PICK j \in 1..c : j = n + 1 /\ j # c
      BY <3>1
    <3>3. PICK o \in Nat : D(j) = Append(D(0), At(o, x, W[j]))
      BY <2>2, <3>1, <3>2
    <3>4. PICK m \in Nat : D(i) = AddEntry(D(i - 1), EndsFull(P[i - 1]), At(m, x, w[i]))
      BY <1>5
    <3>5. EndsFull(P[j]) = TRUE
      BY <1>5, <3>2 DEF EndsFull
    <3>6. PICK p \in Bytes : p = W[j]
      BY <1>4, <3>1, <3>2
    <3>7. PICK q \in Bytes : q = w[i]
      BY <1>4
    <3>8. PICK r \in Seq(Places) : r = D(0)
      <4>1. PICK k \in 1..c : k - 1 = 0
        BY <3>1
      <4> QED BY <1>5, <4>1
    <3>9. AddEntry(Append(r, At(o, x, p)), TRUE, At(m, x, q)) = Append(r, At(m, x, p \o q))
      <4>1. GoesOnAt(r, o, m, x, p, q)
        BY PlaceJoined
      <4> QED BY <4>1 DEF GoesOnAt
    <3>10. W[i] = p \o q
      BY <1>4, <3>1, <3>2, <3>6, <3>7
    <3>11. D(i) = Append(r, At(m, x, p \o q))
      <4>1. i - 1 = j
        BY <3>1, <3>2
      <4>2. D(i) = AddEntry(D(j), EndsFull(P[j]), At(m, x, q))
        BY <3>4, <3>7, <4>1
      <4> QED BY <3>3, <3>5, <3>6, <3>8, <3>9, <4>2, Zenon
    <3> HIDE DEF S
    <3> QED BY <3>1, <3>8, <3>10, <3>11
  <2> HIDE DEF S
  <2>3. \A n \in Nat : n \in S
    BY <2>1, <2>2, InductionOverSet
  <2>4. PICK n \in Nat : n + 1 = c
    <3>1. c - 1 \in Nat /\ (c - 1) + 1 = c
      BY <1>4, <1>9
    <3> QED BY <3>1
  <2>5. PICK o \in Nat : D(n + 1) = Append(D(0), At(o, x, W[n + 1]))
    <3>1. n \in S
      BY <2>3
    <3> QED BY <2>4, <3>1 DEF S
  <2>6. D(c) = Append(D(0), At(o, x, v))
    BY <1>4, <2>4, <2>5, Zenon
  <2> QED BY <1>6, <1>7, <1>9, <2>6 DEF FoundAll
<1> QED BY <1>8, <1>9

(* Induction over sequences, for a set of them.                              *)
LEMMA InductionOverSeqs ==
  ASSUME NEW T, NEW S, <<>> \in S, \A s \in Seq(T), e \in T : s \in S => Append(s, e) \in S
  PROVE  \A s \in Seq(T) : s \in S
<1> DEFINE X == {n \in Nat : \A s \in Seq(T) : Len(s) = n => s \in S}
<1>1. 0 \in X
  <2>1. ASSUME NEW s \in Seq(T), Len(s) = 0 PROVE s \in S
    <3>1. s = <<>>
      BY <2>1, EmptySeq
    <3> QED BY <3>1
  <2> QED BY <2>1
<1>2. ASSUME NEW n \in Nat, n \in X PROVE n + 1 \in X
  <2>1. ASSUME NEW s \in Seq(T), Len(s) = n + 1 PROVE s \in S
    <3>1. s # <<>>
      BY <2>1, EmptySeq
    <3>2. PICK t \in Seq(T), e \in T : s = Append(t, e)
      BY <3>1, SequenceEmptyOrAppend
    <3>3. Len(s) = Len(t) + 1
      BY <3>2, AppendProperties
    <3>4. Len(t) = n
      BY <2>1, <3>3
    <3>5. t \in S
      BY <1>2, <3>4
    <3> QED BY <3>2, <3>5
  <2> QED BY <2>1
<1> HIDE DEF X
<1>3. ASSUME NEW s \in Seq(T) PROVE s \in S
  <2>1. PICK n \in Nat : n = Len(s)
    OBVIOUS
  <2>2. n \in X
    BY <1>1, <1>2, InductionOverSet
  <2> QED BY <2>1, <2>2 DEF X
<1> QED BY <1>3

LEMMA WrittenNone == Written(<<>>) = <<>>
  BY DEF Written, FlattenSeq

(* The bytes of entries after entries.                                       *)
LEMMA WrittenJoined ==
  ASSUME NEW E \in Seq(TlvItems), NEW F \in Seq(TlvItems)
  PROVE  Written(E \o F) = Written(E) \o Written(F) /\ Written(E) \in Bytes /\ Written(F) \in Bytes
<1>1. PICK e0 \in TlvItems : TRUE
  <2>1. <<0, <<>>>> \in TlvItems
    BY EmptySeq DEF TlvItems, Bytes
  <2> QED BY <2>1
<1>2. ASSUME NEW G \in Seq(TlvItems) PROVE Written(G) \in Bytes
  <2>1. FoundThen(G, e0)
    BY FoundGrows
  <2> QED BY <2>1 DEF FoundThen
<1> DEFINE S == {G \in Seq(TlvItems) : Written(E \o G) = Written(E) \o Written(G)}
<1>3. <<>> \in S
  <2>1. E \o <<>> = E /\ <<>> \in Seq(TlvItems)
    BY ConcatEmptySeq, EmptySeq
  <2>2. PICK w \in Seq(Nat) : w = Written(E)
    BY <1>2 DEF Bytes
  <2>3. w \o <<>> = w
    BY ConcatEmptySeq
  <2> QED BY <2>1, <2>2, <2>3, WrittenNone
<1>4. ASSUME NEW G \in Seq(TlvItems), NEW e \in TlvItems, G \in S PROVE Append(G, e) \in S
  <2>1. E \o Append(G, e) = Append(E \o G, e)
    <3>1. <<e>> \in Seq(TlvItems)
      OBVIOUS
    <3>2. (E \o G) \o <<e>> = E \o (G \o <<e>>)
      BY <3>1, ItemsJoined
    <3>3. E \o G \in Seq(TlvItems)
      BY ConcatProperties
    <3>4. Append(G, e) = G \o <<e>> /\ Append(E \o G, e) = (E \o G) \o <<e>>
      BY <3>3, AppendIsConcat
    <3> QED BY <3>2, <3>4
  <2>2. PICK H \in Seq(TlvItems) : H = E \o G
    BY ConcatProperties
  <2>3. FoundThen(H, e) /\ FoundThen(G, e)
    BY FoundGrows
  <2>4. Written(Append(H, e)) = Written(H) \o Entry(e) /\ Written(Append(G, e)) = Written(G) \o Entry(e)
    BY <2>3 DEF FoundThen
  <2>5. Written(H) = Written(E) \o Written(G)
    BY <1>4, <2>2
  <2>6. (Written(E) \o Written(G)) \o Entry(e) = Written(E) \o (Written(G) \o Entry(e))
    <3>1. PICK T : T = Nat
      OBVIOUS
    <3>2. PICK r \in Bytes : r = <<>>
      BY EmptySeq DEF Bytes
    <3>3. Entry(e) \in Seq(Nat)
      BY <3>2, EntryHeaded
    <3>4. PICK a, b, c : a = Written(E) /\ b = Written(G) /\ c = Entry(e)
      OBVIOUS
    <3>5. a \in Seq(T) /\ b \in Seq(T) /\ c \in Seq(T)
      BY <1>2, <3>1, <3>3, <3>4 DEF Bytes
    <3>6. (a \o b) \o c = a \o (b \o c)
      BY <3>5, ConcatAssociative
    <3> QED BY <3>4, <3>6
  <2>7. Append(G, e) \in Seq(TlvItems)
    BY AppendProperties
  <2> QED BY <2>1, <2>2, <2>4, <2>5, <2>6, <2>7
<1> HIDE DEF S
<1>5. F \in S
  BY <1>3, <1>4, InductionOverSeqs
<1> QED BY <1>2, <1>5 DEF S

Bare(v) == IF v = Absent THEN <<>> ELSE v
Kept(v) == IF v = <<>> THEN Absent ELSE v

LEMMA BareIs ==
  ASSUME NEW v \in Values
  PROVE  Bare(v) \in Bytes /\ (Bare(v) = <<>> => Kept(v) = Absent) /\ (Bare(v) # <<>> => Bare(v) = v /\ v # Absent /\ Kept(v) = v)
  BY EmptySeq DEF Values, Bare, Kept, Bytes

(* A field in entries.                                                       *)
LEMMA DividedIs ==
  ASSUME NEW x \in Nat, NEW v \in Bytes
  PROVE  /\ Divided(x, v) \in Seq(TlvItems) /\ Written(Divided(x, v)) \in Bytes
         /\ v = <<>> => Divided(x, v) = <<>>
<1>2. PICK E \in Seq(TlvItems) : E = <<>>
  BY EmptySeq
<1>1. Divided(x, v) \in Seq(TlvItems)
  BY Pieced
<1>3. Written(Divided(x, v)) \in Bytes
  BY <1>1, WrittenJoined
<1>4. PICK c \in Nat : \E P, w, W : PieceByPiece(E, x, v, c, P, w, W)
  BY Pieced
<1>5. PICK P, w, W : PieceByPiece(E, x, v, c, P, w, W)
  BY <1>4
<1>6. ASSUME v = <<>> PROVE Divided(x, v) = <<>>
  <2>1. P[0] = E /\ P[c] = E \o Divided(x, v) /\ c = 0
    BY <1>5, <1>6 DEF PieceByPiece
  <2>2. E \o Divided(x, v) = Divided(x, v)
    BY <1>1, <1>2, ConcatEmptySeq
  <2> QED BY <1>2, <2>1, <2>2
<1> QED BY <1>1, <1>3, <1>6

LEMMA InnerIs ==
  ASSUME NEW v \in Values
  PROVE  EncodeInner(v) = Written(Divided(1, Bare(v))) /\ EncodeInner(v) \in Bytes
<1>1. PICK x \in Nat : x = 1
  OBVIOUS
<1>2. PICK b \in Bytes : b = Bare(v)
  BY BareIs
<1>3. Divided(x, b) \in Seq(TlvItems) /\ Written(Divided(x, b)) \in Bytes /\ (b = <<>> => Divided(x, b) = <<>>)
  BY DividedIs
<1>4. CASE v = Absent
  BY <1>1, <1>2, <1>3, <1>4, WrittenNone DEF EncodeInner, Bare
<1>5. CASE v # Absent
  BY <1>1, <1>2, <1>3, <1>5 DEF EncodeInner, EncodeField, Bare
<1> QED BY <1>4, <1>5

(* A field is where its type is.                                             *)
FieldIn(found, x) ==
  LET at == {i \in DOMAIN found : found[i].type = x}
  IN IF at = {} THEN Absent ELSE found[Max(at)].value

LEMMA FieldAt ==
  ASSUME NEW found, NEW x, NEW k \in Nat, k \in DOMAIN found, found[k].type = x,
         \A j \in DOMAIN found : found[j].type = x => j = k
  PROVE  FieldIn(found, x) = found[k].value
<1> DEFINE at == {i \in DOMAIN found : found[i].type = x}
<1>1. at # {} /\ k \in at /\ \A m \in at : m = k
  OBVIOUS
<1> HIDE DEF at
<1>2. Max(at) = CHOOSE y \in at : \A z \in at : y >= z
  BY Zenon DEF Max
<1>3. k \in at /\ \A z \in at : k >= z
  BY <1>1
<1>4. (CHOOSE y \in at : \A z \in at : y >= z) \in at
  BY <1>3, Zenon
<1>5. Max(at) = k
  BY <1>1, <1>2, <1>4
<1> QED BY <1>1, <1>5, Zenon DEF FieldIn, at

LEMMA FieldNone ==
  ASSUME NEW found, NEW x, \A j \in DOMAIN found : found[j].type # x
  PROVE  FieldIn(found, x) = Absent
<1>1. {i \in DOMAIN found : found[i].type = x} = {}
  OBVIOUS
<1> QED BY <1>1, Zenon DEF FieldIn

(* An inner structure is decoded to what it was, and is empty if it has no   *)
(* bytes.                                                                    *)
LEMMA InnerKept ==
  ASSUME NEW v \in Values
  PROVE  /\ DecodeInner(EncodeInner(v)) = Kept(v)
         /\ (EncodeInner(v) = <<>>) <=> (Kept(v) = Absent)
<1>1. PICK x \in Nat : x = 1
  OBVIOUS
<1>2. PICK b \in Bytes : b = Bare(v)
  BY BareIs
<1>3. PICK E \in Seq(TlvItems) : E = <<>>
  BY EmptySeq
<1>4. Closed(E, x)
  BY <1>3 DEF Closed, EndsFull
<1>5. FoundAll(E, x, b)
  BY <1>4, FoundDivided
<1>6. PICK d \in Seq(TlvItems) : d = Divided(x, b)
  BY DividedIs
<1>7. E \o d = d
  BY <1>3, ConcatEmptySeq
<1>8. EncodeInner(v) = Written(d)
  BY <1>1, <1>2, <1>6, InnerIs
<1>9. DecodeInner(EncodeInner(v)) = FieldIn(Iterate(Written(d)), x)
  BY <1>1, <1>8, Zenon DEF DecodeInner, Field, FieldIn
<1>10. CASE b = <<>>
  <2>1. d = <<>>
    BY <1>3, <1>5, <1>6, <1>7, <1>10 DEF FoundAll
  <2>2. Iterate(Written(d)) = <<>> /\ EncodeInner(v) = <<>>
    BY <1>8, <2>1, NoneFound, WrittenNone
  <2>3. FieldIn(<<>>, x) = Absent
    <3>1. PICK found : found = <<>> /\ \A j \in DOMAIN found : found[j].type # x
      OBVIOUS
    <3>2. FieldIn(found, x) = Absent
      BY <3>1, FieldNone
    <3> QED BY <3>1, <3>2
  <2>4. Kept(v) = Absent
    BY <1>2, <1>10, BareIs
  <2> QED BY <1>9, <2>2, <2>3, <2>4
<1>11. CASE b # <<>>
  <2>1. PICK o \in Nat : Iterate(Written(d)) = Append(Iterate(Written(E)), At(o, x, b))
    BY <1>5, <1>6, <1>7, <1>11 DEF FoundAll
  <2>2. Iterate(Written(d)) = Append(<<>>, At(o, x, b))
    BY <1>3, <2>1, NoneFound
  <2>3. PICK found : found = Append(<<>>, At(o, x, b))
    OBVIOUS
  <2>4. Len(found) = 1 /\ DOMAIN found = 1..1 /\ found[1] = At(o, x, b)
    BY <2>3
  <2>5. PICK k \in Nat : k = 1 /\ k \in DOMAIN found /\ (\A j \in DOMAIN found : j = k)
    BY <2>4
  <2>6. found[k].type = x /\ found[k].value = b
    BY <2>4, <2>5 DEF At
  <2>7. FieldIn(found, x) = found[k].value
    BY <2>5, <2>6, FieldAt
  <2>8. v = b /\ v # Absent /\ Kept(v) = v
    BY <1>2, <1>11, BareIs
  <2>9. EncodeInner(v) # <<>>
    <3> SUFFICES ASSUME EncodeInner(v) = <<>> PROVE FALSE
      OBVIOUS
    <3>1. Iterate(Written(d)) = <<>>
      BY <1>8, WrittenNone, NoneFound
    <3>2. found = <<>>
      BY <2>2, <2>3, <3>1
    <3> QED BY <2>4, <3>2
  <2> QED BY <1>9, <2>2, <2>3, <2>6, <2>7, <2>8, <2>9
<1> QED BY <1>10, <1>11

-----------------------------------------------------------------------------
(* What is between separators.                                               *)

Separates(R, found, bytes, N) ==
  /\ Len(found) = N /\ R = [n \in 0..N |-> R[n]] /\ R[0] = [start |-> 0, items |-> <<>>]
  /\ \A n \in 1..N : R[n] = TakeSeparator(R[n - 1], found[n], bytes)

LEMMA SeparatedIs ==
  ASSUME NEW found, NEW bytes, NEW N \in Nat, NEW R, Separates(R, found, bytes, N)
  PROVE  Separated(found, bytes) = R[N]
<1> DEFINE IsRun(f) == f = [n \in 0..Len(found) |-> IF n = 0 THEN [start |-> 0, items |-> <<>>]
                                                    ELSE TakeSeparator(f[n - 1], found[n], bytes)]
           after == CHOOSE f : IsRun(f)
<1>1. /\ Len(found) = N /\ R = [n \in 0..N |-> R[n]] /\ R[0] = [start |-> 0, items |-> <<>>]
      /\ \A n \in 1..N : R[n] = TakeSeparator(R[n - 1], found[n], bytes)
  BY DEF Separates
<1>2. \A n \in 0..N : R[n] = IF n = 0 THEN [start |-> 0, items |-> <<>>]
                             ELSE TakeSeparator(R[n - 1], found[n], bytes)
  BY <1>1
<1>3. IsRun(R)
  BY <1>1, <1>2, Zenon
<1>4. IsRun(after)
  <2> HIDE DEF IsRun
  <2>1. \E f : IsRun(f)
    BY <1>3
  <2> QED BY <2>1, Zenon
<1>5. Separated(found, bytes) = after[Len(found)]
  BY Zenon DEF Separated
<1> HIDE DEF after
<1>6. \A n \in 0..N : after[n] = IF n = 0 THEN [start |-> 0, items |-> <<>>]
                                 ELSE TakeSeparator(after[n - 1], found[n], bytes)
  BY <1>1, <1>4
<1> HIDE DEF IsRun
<1>7. after[0] = R[0]
  <2>1. 0 \in 0..N
    OBVIOUS
  <2> QED BY <1>2, <1>6, <2>1
<1>8. \A n \in 1..N : after[n - 1] = R[n - 1] => after[n] = R[n]
  <2> TAKE n \in 1..N
  <2>1. n \in 0..N /\ n # 0
    OBVIOUS
  <2>2. after[n] = TakeSeparator(after[n - 1], found[n], bytes) /\ R[n] = TakeSeparator(R[n - 1], found[n], bytes)
    BY <1>2, <1>6, <2>1
  <2> QED BY <2>2
<1>9. N \in 0..N
  OBVIOUS
<1>10. after[N] = R[N]
  <2>1. PICK f, g : f = after /\ g = R
    OBVIOUS
  <2>2. SameRuns(f, g, N)
    BY <1>7, <1>8, <2>1 DEF SameRuns
  <2>3. f[N] = g[N]
    BY <1>9, <2>2, RunsEqual
  <2> QED BY <2>1, <2>3
<1> QED BY <1>1, <1>5, <1>10

LEMMA NoneSeparated ==
  ASSUME NEW bytes
  PROVE  Separated(<<>>, bytes) = [start |-> 0, items |-> <<>>]
<1>1. PICK found \in Seq(Places) : found = <<>>
  BY EmptySeq
<1>2. PICK N \in Nat : N = 0
  OBVIOUS
<1>3. PICK x : x = [start |-> 0, items |-> <<>>]
  OBVIOUS
<1> DEFINE R == [n \in 0..N |-> x]
<1>4. R = [n \in 0..N |-> R[n]] /\ R[0] = x /\ R[N] = x
  BY <1>2
<1> HIDE DEF R
<1>5. \A n \in 1..N : R[n] = TakeSeparator(R[n - 1], found[n], bytes)
  BY <1>2
<1>6. Len(found) = N
  BY <1>1, <1>2
<1>8. Separates(R, found, bytes, N)
  BY <1>3, <1>4, <1>5, <1>6 DEF Separates
<1>7. Separated(found, bytes) = R[N]
  BY <1>8, SeparatedIs
<1> QED BY <1>1, <1>3, <1>4, <1>7

LEMMA SeparatedGrows ==
  ASSUME NEW found \in Seq(Places), NEW p \in Places, NEW bytes
  PROVE  Separated(Append(found, p), bytes) = TakeSeparator(Separated(found, bytes), p, bytes)
<1> DEFINE G == Append(found, p)
           Y == {SubSeq(bytes, z[1] + 1, z[2]) : z \in Nat \X Nat}
           X == [start : Nat, items : Seq(Y)]
<1>1. PICK l \in Nat : l = Len(found)
  OBVIOUS
<1>2. PICK N \in Nat : N = l + 1
  OBVIOUS
<1>3. G \in Seq(Places) /\ Len(G) = N /\ G[N] = p /\ \A i \in 1..l : G[i] = found[i]
  BY <1>1, <1>2, AppendProperties
<1> HIDE DEF G
<1>4. PICK x \in X : x = [start |-> 0, items |-> <<>>]
  <2>1. <<>> \in Seq(Y)
    BY EmptySeq
  <2> HIDE DEF Y
  <2>2. [start |-> 0, items |-> <<>>] \in X
    BY <2>1
  <2> HIDE DEF X
  <2> QED BY <2>2
<1>5. ASSUME NEW r \in X, NEW q \in Places PROVE TakeSeparator(r, q, bytes) \in X
  <2>1. CASE q.type # 0
    BY <2>1 DEF TakeSeparator
  <2>2. CASE q.type = 0
    <3>1. r.start \in Nat /\ r.items \in Seq(Y) /\ q.offset \in Nat
      <4> HIDE DEF Y
      <4> QED BY DEF Places
    <3>2. PICK y \in Y : y = SubSeq(bytes, r.start + 1, q.offset)
      <4>1. PICK z \in Nat \X Nat : z[1] = r.start /\ z[2] = q.offset
        <5>1. <<r.start, q.offset>> \in Nat \X Nat
          BY <3>1
        <5> QED BY <5>1
      <4>2. SubSeq(bytes, z[1] + 1, z[2]) \in Y
        OBVIOUS
      <4>3. SubSeq(bytes, r.start + 1, q.offset) \in Y
        BY <4>1, <4>2, Zenon
      <4> HIDE DEF Y
      <4> QED BY <4>3
    <3> HIDE DEF Y
    <3>3. Append(r.items, y) \in Seq(Y) /\ q.offset + 2 \in Nat
      BY <3>1, AppendProperties
    <3>4. TakeSeparator(r, q, bytes) = [start |-> q.offset + 2, items |-> Append(r.items, y)]
      BY <2>2, <3>2 DEF TakeSeparator
    <3> QED BY <3>3, <3>4
  <2> QED BY <2>1, <2>2
<1> HIDE DEF X
<1> DEFINE F == [z \in (1..N) \X X |-> TakeSeparator(z[2], G[z[1]], bytes)]
<1>6. \A i \in 1..N, r \in X : F[<<i, r>>] = TakeSeparator(r, G[i], bytes) /\ F[<<i, r>>] \in X
  <2> TAKE i \in 1..N, r \in X
  <2>1. G[i] \in Places
    BY <1>3, ElementOfSeq
  <2>2. TakeSeparator(r, G[i], bytes) \in X
    BY <1>5, <2>1
  <2> QED BY <2>2
<1> HIDE DEF F
<1>7. \E R \in [0..N -> X] : Runs(R, x, F, N)
  BY <1>6, RunExists
<1>8. PICK R \in [0..N -> X] : Runs(R, x, F, N)
  BY <1>7
<1>9. R[0] = [start |-> 0, items |-> <<>>]
  BY <1>4, <1>8 DEF Runs
<1>10. \A i \in 1..N : R[i] = TakeSeparator(R[i - 1], G[i], bytes)
  <2> TAKE i \in 1..N
  <2>1. i - 1 \in 0..N
    OBVIOUS
  <2> QED BY <1>6, <1>8, <2>1 DEF Runs
<1>11. Separated(G, bytes) = R[N]
  <2>1. R = [n \in 0..N |-> R[n]]
    OBVIOUS
  <2>2. Separates(R, G, bytes, N)
    BY <1>3, <1>9, <1>10, <2>1 DEF Separates
  <2> QED BY <2>2, SeparatedIs
<1> DEFINE Q == [i \in 0..l |-> R[i]]
<1>12. Q \in [0..l -> X] /\ \A i \in 0..l : Q[i] = R[i]
  <2>1. \A i \in 0..l : i \in 0..N
    BY <1>2
  <2> QED BY <2>1
<1> HIDE DEF Q
<1>13. Separated(found, bytes) = Q[l]
  <2>1. Q[0] = [start |-> 0, items |-> <<>>]
    <3>1. 0 \in 0..l
      OBVIOUS
    <3> QED BY <1>9, <1>12, <3>1
  <2>2. \A i \in 1..l : Q[i] = TakeSeparator(Q[i - 1], found[i], bytes)
    <3> TAKE i \in 1..l
    <3>1. i \in 1..N /\ i \in 0..l /\ i - 1 \in 0..l
      BY <1>2
    <3>2. Q[i] = R[i] /\ Q[i - 1] = R[i - 1] /\ G[i] = found[i]
      BY <1>3, <1>12, <3>1
    <3>3. R[i] = TakeSeparator(R[i - 1], G[i], bytes)
      BY <1>10, <3>1
    <3> QED BY <3>2, <3>3
  <2>3. Q = [n \in 0..l |-> Q[n]]
    BY <1>12
  <2>4. Separates(Q, found, bytes, l)
    BY <1>1, <2>1, <2>2, <2>3 DEF Separates
  <2> QED BY <2>4, SeparatedIs
<1>14. R[N] = TakeSeparator(R[l], p, bytes) /\ Q[l] = R[l]
  <2>1. PICK i \in 1..N : i = N /\ i - 1 = l /\ l \in 0..l
    BY <1>2
  <2> QED BY <1>3, <1>10, <1>12, <2>1
<1> QED BY <1>11, <1>13, <1>14 DEF G

-----------------------------------------------------------------------------
(* Sequences of inner structures.                                            *)

LEMMA TwoJoined ==
  ASSUME NEW a \in Bytes, NEW b \in Bytes
  PROVE  a \o b \in Bytes /\ Len(a \o b) = Len(a) + Len(b)
<1>1. a \in Seq(Nat) /\ b \in Seq(Nat)
  BY DEF Bytes
<1>2. a \o b \in Seq(Nat) /\ Len(a \o b) = Len(a) + Len(b)
  BY <1>1, ConcatProperties
<1> QED BY <1>2 DEF Bytes

Regroup(a, b, c) == (a \o b) \o c = a \o (b \o c)

LEMMA BytesJoined ==
  ASSUME NEW a \in Bytes, NEW b \in Bytes, NEW c \in Bytes
  PROVE  Regroup(a, b, c)
<1>1. PICK T : T = Nat
  OBVIOUS
<1>2. a \in Seq(T) /\ b \in Seq(T) /\ c \in Seq(T)
  BY <1>1 DEF Bytes
<1> QED BY <1>2, ConcatAssociative DEF Regroup

Between(P) == IF P = <<>> THEN <<>> ELSE <<0, 0>>
Encoded(P) == [i \in DOMAIN P |-> EncodeInner(P[i])]

LEMMA BetweenIs ==
  ASSUME NEW P
  PROVE  Between(P) \in Bytes /\ <<>> \in Bytes /\ <<0, 0>> \in Bytes /\ Len(<<0, 0>>) = 2
<1>1. <<>> \in Seq(Nat) /\ <<0, 0>> \in Seq(Nat) /\ Len(<<0, 0>>) = 2
  BY EmptySeq
<1> QED BY <1>1 DEF Between, Bytes

LEMMA EncodedGrows ==
  ASSUME NEW P \in Seq(Values), NEW v \in Values
  PROVE  Encoded(P) \in Seq(Bytes) /\ Encoded(Append(P, v)) = Append(Encoded(P), EncodeInner(v))
<1> DEFINE g == Append(P, v)
           tt == Encoded(g)
           ss == Encoded(P)
<1>1. PICK l \in Nat : l = Len(P) /\ DOMAIN P = 1..l
  BY LenProperties
<1>2. /\ g \in Seq(Values) /\ Len(g) = l + 1 /\ DOMAIN g = 1..(l + 1)
      /\ g[l + 1] = v /\ \A i \in 1..l : g[i] = P[i]
  BY <1>1, AppendProperties
<1> HIDE DEF g
<1>3. ss \in [1..l -> Bytes] /\ \A i \in 1..l : ss[i] = EncodeInner(P[i])
  <2>1. \A i \in 1..l : P[i] \in Values
    BY <1>1, ElementOfSeq
  <2>2. \A i \in 1..l : EncodeInner(P[i]) \in Bytes
    BY <2>1, InnerIs
  <2> QED BY <1>1, <2>2 DEF Encoded
<1>4. tt = [i \in 1..(l + 1) |-> tt[i]] /\ \A i \in 1..(l + 1) : tt[i] = EncodeInner(g[i])
  BY <1>2 DEF Encoded
<1> HIDE DEF ss, tt
<1>5. ss \in Seq(Bytes) /\ Len(ss) = l
  BY <1>3
<1>6. PICK w \in Bytes : w = EncodeInner(v)
  BY InnerIs
<1>7. \A i \in 1..l : tt[i] = ss[i]
  <2> TAKE i \in 1..l
  <2>1. i \in 1..(l + 1)
    OBVIOUS
  <2> QED BY <1>2, <1>3, <1>4, <2>1
<1>8. tt[l + 1] = w
  <2>1. l + 1 \in 1..(l + 1)
    OBVIOUS
  <2> QED BY <1>2, <1>4, <1>6, <2>1
<1>9. Extended(tt, ss, w, l)
  BY <1>4, <1>5, <1>7, <1>8, Zenon DEF Extended
<1>10. tt = Append(ss, w)
  BY <1>5, <1>9, AppendIs
<1> QED BY <1>5, <1>6, <1>10 DEF ss, tt, g

LEMMA NoSequence == EncodeSequence(<<>>) = <<>>
  BY DEF EncodeSequence, FlattenSeq

LEMMA SequenceGrows ==
  ASSUME NEW P \in Seq(Values), NEW v \in Values
  PROVE  /\ EncodeSequence(P) \in Bytes
         /\ EncodeSequence(Append(P, v)) = EncodeSequence(P) \o (Between(P) \o EncodeInner(v))
<1> DEFINE lead(i) == IF i = 1 THEN <<>> ELSE <<0, 0>>
           g == Append(P, v)
           ss == [i \in DOMAIN P |-> lead(i) \o EncodeInner(P[i])]
           tt == [i \in DOMAIN g |-> lead(i) \o EncodeInner(g[i])]
           B == Seq(Nat)
<1>1. PICK l \in Nat : l = Len(P) /\ DOMAIN P = 1..l
  BY LenProperties
<1>2. /\ g \in Seq(Values) /\ Len(g) = l + 1 /\ DOMAIN g = 1..(l + 1)
      /\ g[l + 1] = v /\ \A i \in 1..l : g[i] = P[i]
  BY <1>1, AppendProperties
<1>3. EncodeSequence(P) = FlattenSeq(ss) /\ EncodeSequence(g) = FlattenSeq(tt)
  BY Zenon DEF EncodeSequence
<1> HIDE DEF g
<1>4. ASSUME NEW x \in Values, NEW i PROVE lead(i) \o EncodeInner(x) \in B
  <2>1. PICK a \in Bytes : a = lead(i)
    BY BetweenIs
  <2>2. PICK b \in Bytes : b = EncodeInner(x)
    BY InnerIs
  <2>3. a \o b \in Bytes
    BY TwoJoined
  <2> HIDE DEF lead
  <2> QED BY <2>1, <2>2, <2>3 DEF Bytes
<1>5. lead(l + 1) = Between(P)
  <2>1. CASE l = 0
    <3>1. P = <<>> /\ l + 1 = 1
      BY <1>1, <2>1, EmptySeq
    <3> QED BY <3>1 DEF Between
  <2>2. CASE l # 0
    <3>1. P # <<>> /\ l + 1 # 1
      BY <1>1, <2>2
    <3> QED BY <3>1 DEF Between
  <2> QED BY <2>1, <2>2
<1> DEFINE w == lead(l + 1) \o EncodeInner(v)
<1>6. w \in B
  BY <1>4
<1> HIDE DEF lead, B
<1>7. ss \in [1..l -> B] /\ \A i \in 1..l : ss[i] = lead(i) \o EncodeInner(P[i])
  <2>1. \A i \in 1..l : P[i] \in Values
    BY <1>1, ElementOfSeq
  <2> QED BY <1>1, <1>4, <2>1
<1>8. /\ tt = [i \in 1..(l + 1) |-> tt[i]]
      /\ \A i \in 1..(l + 1) : tt[i] = lead(i) \o EncodeInner(g[i])
  BY <1>2
<1> HIDE DEF ss, tt
<1>9. ss \in Seq(B) /\ Len(ss) = l
  BY <1>7
<1>10. tt = Append(ss, w)
  <2>1. \A i \in 1..l : tt[i] = ss[i]
    <3> TAKE i \in 1..l
    <3>1. i \in 1..(l + 1)
      OBVIOUS
    <3> QED BY <1>2, <1>7, <1>8, <3>1
  <2>2. tt[l + 1] = w
    <3>1. l + 1 \in 1..(l + 1)
      OBVIOUS
    <3> QED BY <1>2, <1>8, <3>1
  <2> HIDE DEF w
  <2>3. Extended(tt, ss, w, l)
    BY <1>8, <1>9, <2>1, <2>2, Zenon DEF Extended
  <2> QED BY <1>6, <1>9, <2>3, AppendIs
<1> HIDE DEF w
<1>11. FlattenSeq(ss) \in Seq(Nat) /\ FlattenSeq(Append(ss, w)) = FlattenSeq(ss) \o w
  <2>1. PICK T : T = Nat
    OBVIOUS
  <2>2. ss \in Seq(Seq(T)) /\ w \in Seq(T)
    BY <1>6, <1>9, <2>1 DEF B
  <2>3. FlattenSeq(ss) \in Seq(T) /\ FlattenSeq(Append(ss, w)) = FlattenSeq(ss) \o w
    BY <2>2, FlatAppend
  <2> QED BY <2>1, <2>3
<1>12. w = Between(P) \o EncodeInner(v)
  BY <1>5 DEF w
<1> QED BY <1>3, <1>10, <1>11, <1>12 DEF Bytes, g

SeparatorEntry == <<0, <<>>>>

LEMMA SeparatorIs ==
  SeparatorEntry \in TlvItems /\ SeparatorEntry[1] = 0 /\ SeparatorEntry[2] = <<>> /\ Entry(SeparatorEntry) = <<0, 0>>
<1>1. PICK e \in Bytes : e = <<>>
  BY EmptySeq DEF Bytes
<1>2. <<0, e>> \in TlvItems
  BY DEF TlvItems
<1>3. Len(<<>>) = 0
  OBVIOUS
<1>4. Entry(SeparatorEntry) = <<0, 0>> \o <<>>
  BY <1>3 DEF Entry, SeparatorEntry
<1>5. <<0, 0>> \o <<>> = <<0, 0>>
  <2>1. PICK z \in Seq(Nat) : z = <<0, 0>>
    BY BetweenIs DEF Bytes
  <2>2. z \o <<>> = z
    BY ConcatEmptySeq
  <2> QED BY <2>1, <2>2
<1> QED BY <1>1, <1>2, <1>4, <1>5 DEF SeparatorEntry

(* E are the entries of the sequence P with v as its last: b is what is      *)
(* before v, and the separators in E divide P.                               *)
ReadsAs(P, v, E, b) ==
  /\ E \in Seq(TlvItems) /\ b \in Bytes
  /\ Written(E) = b \o EncodeInner(v) /\ EncodeSequence(Append(P, v)) = Written(E)
  /\ Closed(E, 0)
  /\ \A rest \in Bytes :
       Separated(Iterate(Written(E)), Written(E) \o rest) = [start |-> Len(b), items |-> Encoded(P)]

(* A value after entries: it does not separate.                              *)
ValueAfter(G, v, H) == Closed(G, 1) /\ Closed(G, 0) /\ H = G \o Divided(1, v)

LEMMA ValueAdded ==
  ASSUME NEW G \in Seq(TlvItems), NEW v \in Bytes, NEW H, ValueAfter(G, v, H)
  PROVE  /\ H \in Seq(TlvItems) /\ Written(H) = Written(G) \o Written(Divided(1, v)) /\ Closed(H, 0)
         /\ \A bytes : Separated(Iterate(Written(H)), bytes) = Separated(Iterate(Written(G)), bytes)
<1>1. PICK x \in Nat : x = 1
  OBVIOUS
<1>8. Closed(G, x) /\ Closed(G, 0) /\ H = G \o Divided(x, v)
  BY <1>1 DEF ValueAfter
<1>2. FoundAll(G, x, v)
  BY <1>8, FoundDivided
<1>3. PICK d \in Seq(TlvItems) : d = Divided(x, v)
  BY DividedIs
<1>4. Written(G \o d) = Written(G) \o Written(d)
  BY WrittenJoined
<1>5. H \in Seq(TlvItems)
  BY <1>2, <1>8 DEF FoundAll
<1>6. CASE v = <<>>
  <2>1. H = G
    BY <1>2, <1>6, <1>8 DEF FoundAll
  <2> QED BY <1>1, <1>3, <1>4, <1>5, <1>8, <2>1
<1>7. CASE v # <<>>
  <2>1. PICK o \in Nat : Iterate(Written(H)) = Append(Iterate(Written(G)), At(o, x, v))
    BY <1>2, <1>7, <1>8 DEF FoundAll
  <2>2. PICK p \in Places : p = At(o, x, v) /\ p.type = x
    <3>1. At(o, x, v) \in Places /\ At(o, x, v).type = x
      BY DEF At, Places
    <3> QED BY <3>1
  <2>3. PICK found \in Seq(Places) : found = Iterate(Written(G))
    <3>1. SeparatorEntry \in TlvItems
      BY SeparatorIs
    <3>2. FoundThen(G, SeparatorEntry)
      BY <3>1, FoundGrows
    <3> QED BY <3>2 DEF FoundThen
  <2>4. Last(Append(found, p)) = p
    BY LastOf
  <2>5. Closed(H, 0)
    <3>1. Last(Iterate(Written(H))) = p
      BY <2>1, <2>2, <2>3, <2>4
    <3>2. p.type # 0
      BY <1>1, <2>2
    <3> QED BY <3>1, <3>2, Zenon DEF Closed
  <2>6. ASSUME NEW bytes
        PROVE  Separated(Iterate(Written(H)), bytes) = Separated(Iterate(Written(G)), bytes)
    <3>1. Separated(Append(found, p), bytes) = TakeSeparator(Separated(found, bytes), p, bytes)
      BY SeparatedGrows
    <3>2. p.type # 0
      BY <1>1, <2>2
    <3>3. TakeSeparator(Separated(found, bytes), p, bytes) = Separated(found, bytes)
      BY <3>2, Zenon DEF TakeSeparator
    <3> QED BY <2>1, <2>2, <2>3, <3>1, <3>3
  <2> QED BY <1>1, <1>3, <1>4, <1>5, <1>8, <2>5, <2>6
<1> QED BY <1>6, <1>7

LEMMA FirstRead ==
  ASSUME NEW v \in Values
  PROVE  \E E, b : ReadsAs(<<>>, v, E, b)
<1>1. PICK P \in Seq(Values) : P = <<>>
  BY EmptySeq
<1>2. PICK u \in Bytes : u = Bare(v)
  BY BareIs
<1>3. PICK G \in Seq(TlvItems) : G = <<>>
  BY EmptySeq
<1>4. PICK b \in Bytes : b = <<>>
  BY BetweenIs
<1>5. PICK w \in Bytes : w = EncodeInner(v) /\ w = Written(Divided(1, u))
  BY <1>2, InnerIs
<1>6. PICK E : E = G \o Divided(1, u)
  OBVIOUS
<1>7. Closed(G, 1) /\ Closed(G, 0)
  BY <1>3 DEF Closed, EndsFull
<1>8. /\ E \in Seq(TlvItems) /\ Written(E) = Written(G) \o Written(Divided(1, u)) /\ Closed(E, 0)
      /\ \A bytes : Separated(Iterate(Written(E)), bytes) = Separated(Iterate(Written(G)), bytes)
  <2>1. ValueAfter(G, u, E)
    BY <1>6, <1>7 DEF ValueAfter
  <2> QED BY <2>1, ValueAdded
<1>9. b \o w = w
  BY <1>4, ConcatEmptySeq DEF Bytes
<1>10. Written(E) = w
  BY <1>3, <1>4, <1>5, <1>8, <1>9, WrittenNone
<1>11. EncodeSequence(Append(P, v)) = w
  <2>1. EncodeSequence(Append(P, v)) = EncodeSequence(P) \o (Between(P) \o EncodeInner(v))
    BY SequenceGrows
  <2>2. EncodeSequence(P) = b /\ Between(P) = b
    BY <1>1, <1>4, NoSequence DEF Between
  <2> QED BY <1>5, <1>9, <2>1, <2>2
<1>12. ASSUME NEW rest \in Bytes
       PROVE  Separated(Iterate(Written(E)), Written(E) \o rest) = [start |-> Len(b), items |-> Encoded(P)]
  <2>1. Separated(Iterate(Written(E)), Written(E) \o rest) = Separated(<<>>, Written(E) \o rest)
    BY <1>3, <1>8, NoneFound
  <2>2. PICK bytes : bytes = Written(E) \o rest
    OBVIOUS
  <2>3. Separated(<<>>, bytes) = [start |-> 0, items |-> <<>>]
    BY NoneSeparated
  <2>4. Len(b) = 0 /\ Encoded(P) = <<>>
    BY <1>1, <1>4 DEF Encoded
  <2> QED BY <2>1, <2>2, <2>3, <2>4
<1>13. ReadsAs(P, v, E, b)
  BY <1>5, <1>8, <1>9, <1>10, <1>11, <1>12 DEF ReadsAs
<1> QED BY <1>1, <1>13

LEMMA NextRead ==
  ASSUME NEW P \in Seq(Values), NEW v \in Values, NEW u \in Values, NEW E, NEW b, ReadsAs(P, v, E, b)
  PROVE  \E H, c : ReadsAs(Append(P, v), u, H, c)
<1>1. /\ E \in Seq(TlvItems) /\ b \in Bytes
      /\ Written(E) = b \o EncodeInner(v) /\ EncodeSequence(Append(P, v)) = Written(E)
      /\ Closed(E, 0)
      /\ \A rest \in Bytes :
           Separated(Iterate(Written(E)), Written(E) \o rest) = [start |-> Len(b), items |-> Encoded(P)]
  BY DEF ReadsAs
<1>2. PICK Q \in Seq(Values) : Q = Append(P, v)
  BY AppendProperties
<1>3. Q # <<>>
  BY <1>2, LastOf
<1>4. PICK g \in TlvItems : g = SeparatorEntry /\ g[1] = 0 /\ g[2] = <<>> /\ Entry(g) = <<0, 0>>
  BY SeparatorIs
<1>5. PICK z \in Bytes : z = <<0, 0>> /\ Len(z) = 2
  BY BetweenIs
<1>6. PICK w \in Bytes : w = Written(E)
  BY <1>1, WrittenJoined
<1>7. PICK x \in Bytes : x = EncodeInner(v)
  BY InnerIs
<1>8. PICK t \in Bytes : t = Bare(u)
  BY BareIs
<1>9. PICK y \in Bytes : y = EncodeInner(u) /\ y = Written(Divided(1, t))
  BY <1>8, InnerIs
(* The separator.                                                            *)
<1> DEFINE G == Append(E, g)
<1>10. FoundThen(E, g)
  BY <1>1, FoundGrows
<1>11. PICK found \in Seq(Places) : found = Iterate(Written(E))
  BY <1>10 DEF FoundThen
<1>12. PICK p \in Places : p = Place(Len(w), g) /\ p.type = 0 /\ p.offset = Len(w)
  <2>1. Len(w) \in Nat
    BY DEF Bytes
  <2>2. g[1] \in Nat /\ g[2] \in Bytes
    BY DEF TlvItems
  <2>3. Place(Len(w), g) \in Places /\ Place(Len(w), g).type = g[1] /\ Place(Len(w), g).offset = Len(w)
    BY <2>1, <2>2 DEF Place, Places
  <2> QED BY <1>4, <2>3
<1>13. PICK c \in Bytes : c = w \o z
  BY TwoJoined
<1>14. G \in Seq(TlvItems) /\ Last(G) = g /\ G # <<>>
  BY <1>1, LastOf
<1>15. Written(G) = c
  BY <1>4, <1>5, <1>6, <1>10, <1>13 DEF FoundThen
<1>16. Iterate(Written(G)) = Append(found, p)
  <2>1. Iterate(Written(G)) = AddEntry(found, EndsFull(E), p)
    BY <1>6, <1>10, <1>11, <1>12 DEF FoundThen
  <2>2. ~(EndsFull(E) /\ Last(found).type = p.type)
    BY <1>1, <1>11, <1>12 DEF Closed
  <2> QED BY <2>1, <2>2, Zenon DEF AddEntry
<1>17. Closed(G, 1) /\ Closed(G, 0)
  <2>1. Len(Last(G)[2]) = 0 /\ MaxChunk # 0
    BY <1>4, <1>14, LengthsAssumption
  <2> QED BY <2>1 DEF Closed, EndsFull
<1> HIDE DEF G
(* The value.                                                                *)
<1>18. PICK H : H = G \o Divided(1, t)
  OBVIOUS
<1>19. /\ H \in Seq(TlvItems) /\ Written(H) = Written(G) \o Written(Divided(1, t)) /\ Closed(H, 0)
       /\ \A bytes : Separated(Iterate(Written(H)), bytes) = Separated(Iterate(Written(G)), bytes)
  <2>1. ValueAfter(G, t, H)
    BY <1>17, <1>18 DEF ValueAfter
  <2> QED BY <1>14, <2>1, ValueAdded
<1>20. Written(H) = c \o y
  BY <1>9, <1>15, <1>19
<1>21. EncodeSequence(Append(Q, u)) = Written(H)
  <2>1. EncodeSequence(Append(Q, u)) = EncodeSequence(Q) \o (Between(Q) \o EncodeInner(u))
    BY SequenceGrows
  <2>2. EncodeSequence(Append(Q, u)) = w \o (z \o y)
    BY <1>1, <1>2, <1>3, <1>5, <1>6, <1>9, <2>1 DEF Between
  <2>3. Regroup(w, z, y)
    BY BytesJoined
  <2> QED BY <1>13, <1>20, <2>2, <2>3 DEF Regroup
<1>22. ASSUME NEW rest \in Bytes
       PROVE  Separated(Iterate(Written(H)), Written(H) \o rest) = [start |-> Len(c), items |-> Encoded(Q)]
  <2>1. PICK bytes : bytes = Written(H) \o rest
    OBVIOUS
  <2>2. PICK m \in Bytes : m = y \o rest
    BY TwoJoined
  <2>3. PICK r \in Bytes : r = z \o m
    BY TwoJoined
  <2>4. bytes = w \o r
    <3>1. Regroup(c, y, rest)
      BY BytesJoined
    <3>2. Regroup(w, z, m)
      BY BytesJoined
    <3> QED BY <1>13, <1>20, <2>1, <2>2, <2>3, <3>1, <3>2 DEF Regroup
  <2>5. Separated(found, bytes) = [start |-> Len(b), items |-> Encoded(P)]
    BY <1>1, <1>6, <1>11, <2>4
  <2>6. SubSeq(bytes, Len(b) + 1, Len(w)) = x
    <3>1. PICK T : T = Nat
      OBVIOUS
    <3>2. b \in Seq(T) /\ x \in Seq(T) /\ r \in Seq(T)
      BY <1>1, <3>1 DEF Bytes
    <3>3. Headed((b \o x) \o r, b, x, r)
      BY <3>2, HeadAndRest
    <3>4. w = b \o x /\ Len(w) = Len(b) + Len(x)
      <4>1. w = b \o x
        BY <1>1, <1>6, <1>7
      <4>2. Len(b \o x) = Len(b) + Len(x)
        BY <3>2, ConcatProperties
      <4> QED BY <4>1, <4>2
    <3> QED BY <2>4, <3>3, <3>4 DEF Headed
  <2>7. Separated(Append(found, p), bytes) = TakeSeparator(Separated(found, bytes), p, bytes)
    BY SeparatedGrows
  <2>8. PICK s : s = [start |-> Len(b), items |-> Encoded(P)] /\ s.start = Len(b) /\ s.items = Encoded(P)
    <3>1. PICK o, f : o = Len(b) /\ f = Encoded(P)
      OBVIOUS
    <3>2. [start |-> o, items |-> f].start = o /\ [start |-> o, items |-> f].items = f
      OBVIOUS
    <3> QED BY <3>1, <3>2, Zenon
  <2>9. TakeSeparator(s, p, bytes) = [start |-> Len(w) + 2, items |-> Append(Encoded(P), x)]
    BY <1>12, <2>6, <2>8, Zenon DEF TakeSeparator
  <2>10. Len(c) = Len(w) + 2
    <3>1. Len(w \o z) = Len(w) + Len(z)
      BY TwoJoined
    <3> QED BY <1>5, <1>13, <3>1
  <2>11. Encoded(Q) = Append(Encoded(P), x)
    BY <1>2, <1>7, EncodedGrows
  <2>12. Separated(Iterate(Written(H)), bytes) = Separated(Append(found, p), bytes)
    BY <1>16, <1>19
  <2> QED BY <2>1, <2>5, <2>7, <2>8, <2>9, <2>10, <2>11, <2>12
<1>23. ReadsAs(Q, u, H, c)
  BY <1>9, <1>19, <1>20, <1>21, <1>22 DEF ReadsAs
<1> QED BY <1>2, <1>23

LEMMA SequenceRead ==
  ASSUME NEW P \in Seq(Values), NEW v \in Values
  PROVE  \E E, b : ReadsAs(P, v, E, b)
<1> DEFINE S == {R \in Seq(Values) : \A u \in Values : \E E, b : ReadsAs(R, u, E, b)}
<1>1. <<>> \in S
  <2>1. <<>> \in Seq(Values)
    BY EmptySeq
  <2> QED BY <2>1, FirstRead
<1>2. ASSUME NEW R \in Seq(Values), NEW u \in Values, R \in S PROVE Append(R, u) \in S
  <2>1. Append(R, u) \in Seq(Values)
    BY AppendProperties
  <2>2. PICK E, b : ReadsAs(R, u, E, b)
    BY <1>2
  <2>3. ASSUME NEW t \in Values PROVE \E H, c : ReadsAs(Append(R, u), t, H, c)
    BY <2>2, NextRead
  <2> QED BY <2>1, <2>3
<1> HIDE DEF S
<1>3. P \in S
  BY <1>1, <1>2, InductionOverSeqs
<1> QED BY <1>3 DEF S

(* What is between the separators of a sequence: an empty last one is lost.  *)
LEMMA ArrayIs ==
  ASSUME NEW P \in Seq(Values), NEW v \in Values
  PROVE  TlvArray(EncodeSequence(Append(P, v))) =
           IF EncodeInner(v) = <<>> THEN Encoded(P) ELSE Encoded(Append(P, v))
<1>1. PICK E, b : ReadsAs(P, v, E, b)
  BY SequenceRead
<1>2. PICK w : w = EncodeSequence(Append(P, v)) /\ w = Written(E)
  BY <1>1 DEF ReadsAs
<1>3. PICK x \in Bytes : x = EncodeInner(v)
  BY InnerIs
<1>4. b \in Bytes /\ w = b \o x
  BY <1>1, <1>2, <1>3 DEF ReadsAs
<1>5. PICK e \in Bytes : e = <<>>
  BY BetweenIs
<1>6. From(w, Len(b) + 1) = x /\ w \o e = w
  <2>1. PICK T : T = Nat
    OBVIOUS
  <2>2. b \in Seq(T) /\ x \in Seq(T)
    BY <1>4, <2>1 DEF Bytes
  <2>3. From(b \o x, Len(b) + 1) = x
    BY <2>2, SecondPart
  <2>4. b \o x \in Seq(T)
    BY <2>2, ConcatProperties
  <2>5. (b \o x) \o <<>> = b \o x
    BY <2>4, ConcatEmptySeq
  <2> QED BY <1>4, <1>5, <2>3, <2>5
<1>7. Separated(Iterate(w), w) = [start |-> Len(b), items |-> Encoded(P)]
  BY <1>1, <1>2, <1>5, <1>6 DEF ReadsAs
<1>8. PICK cut : cut = Separated(Iterate(w), w) /\ cut.start = Len(b) /\ cut.items = Encoded(P)
  <2>1. PICK o, f : o = Len(b) /\ f = Encoded(P)
    OBVIOUS
  <2>2. [start |-> o, items |-> f].start = o /\ [start |-> o, items |-> f].items = f
    OBVIOUS
  <2> QED BY <1>7, <2>1, <2>2, Zenon
<1>9. TlvArray(w) = IF x = <<>> THEN Encoded(P) ELSE Append(Encoded(P), x)
  <2>1. TlvArray(w) = IF From(w, cut.start + 1) = <<>> THEN cut.items ELSE Append(cut.items, From(w, cut.start + 1))
    BY <1>8, Zenon DEF TlvArray
  <2> QED BY <1>6, <1>8, <2>1, Zenon
<1>10. Encoded(Append(P, v)) = Append(Encoded(P), x)
  BY <1>3, EncodedGrows
<1> QED BY <1>2, <1>3, <1>9, <1>10, Zenon

KeptAll(P) == [i \in DOMAIN P |-> Kept(P[i])]

LEMMA AllDecoded ==
  ASSUME NEW P \in Seq(Values)
  PROVE  [i \in DOMAIN Encoded(P) |-> DecodeInner(Encoded(P)[i])] = KeptAll(P)
<1>1. PICK l \in Nat : l = Len(P) /\ DOMAIN P = 1..l
  BY LenProperties
<1>2. DOMAIN Encoded(P) = 1..l /\ \A i \in 1..l : Encoded(P)[i] = EncodeInner(P[i])
  BY <1>1 DEF Encoded
<1>3. ASSUME NEW i \in 1..l PROVE DecodeInner(Encoded(P)[i]) = Kept(P[i])
  <2>1. P[i] \in Values
    BY <1>1, ElementOfSeq
  <2>2. DecodeInner(EncodeInner(P[i])) = Kept(P[i])
    BY <2>1, InnerKept
  <2> QED BY <1>2, <2>2
<1> QED BY <1>1, <1>2, <1>3 DEF KeptAll

LEMMA ManyKept ==
  ASSUME NEW P \in Seq(Values), NEW v \in Values, NEW Q, Q = Append(P, v),
         NEW items, items = TlvArray(EncodeSequence(Q))
  PROVE  [i \in DOMAIN items |-> DecodeInner(items[i])] =
           IF Last(KeptAll(Q)) = Absent THEN Front(KeptAll(Q)) ELSE KeptAll(Q)
<1>1. PICK l \in Nat : l = Len(P) /\ DOMAIN P = 1..l
  BY LenProperties
<1>2. /\ Q \in Seq(Values) /\ Len(Q) = l + 1 /\ DOMAIN Q = 1..(l + 1)
      /\ Q[l + 1] = v /\ \A i \in 1..l : Q[i] = P[i]
  BY <1>1, AppendProperties
<1>3. items = IF EncodeInner(v) = <<>> THEN Encoded(P) ELSE Encoded(Q)
  BY ArrayIs
<1>4. (EncodeInner(v) = <<>>) <=> (Kept(v) = Absent)
  BY InnerKept
<1> DEFINE K == KeptAll(Q)
<1>5. K = [i \in 1..(l + 1) |-> K[i]] /\ \A i \in 1..(l + 1) : K[i] = Kept(Q[i])
  BY <1>2 DEF KeptAll
<1> HIDE DEF K
<1>6. \A i \in 1..(l + 1) : K[i] \in Values
  <2> TAKE i \in 1..(l + 1)
  <2>1. Q[i] \in Values
    BY <1>2, ElementOfSeq
  <2> QED BY <1>5, <2>1 DEF Values, Kept
<1>7. K \in Seq(Values) /\ Len(K) = l + 1
  <2>1. K \in [1..(l + 1) -> Values]
    BY <1>5, <1>6
  <2> QED BY <2>1
<1>8. Last(K) = Kept(v)
  <2>1. l + 1 \in 1..(l + 1)
    OBVIOUS
  <2> QED BY <1>2, <1>5, <1>7, <2>1 DEF Last
<1>9. CASE EncodeInner(v) = <<>>
  <2>1. [i \in DOMAIN items |-> DecodeInner(items[i])] = KeptAll(P)
    BY <1>3, <1>9, AllDecoded
  <2>2. Front(K) = SubSeq(K, 1, l)
    <3>1. (l + 1) - 1 = l
      OBVIOUS
    <3> QED BY <1>7, <3>1, Zenon DEF Front
  <2>3. PICK z \in Nat : z = 0 /\ z + 1 = 1 /\ z <= l /\ l <= Len(K) /\ l - z = l /\ (\A i \in 1..l : z + i = i)
    <3>1. PICK z \in Nat : z = 0
      OBVIOUS
    <3> QED BY <1>7, <3>1
  <2> DEFINE F == SubSeq(K, z + 1, l)
  <2>4. F \in Seq(Values) /\ Len(F) = l - z /\ \A i \in 1..(l - z) : F[i] = K[z + i]
    BY <1>7, <2>3, SliceIs
  <2>5. F = [i \in 1..l |-> F[i]]
    <3> HIDE DEF F
    <3>1. DOMAIN F = 1..l /\ F = [i \in DOMAIN F |-> F[i]]
      BY <2>3, <2>4
    <3> QED BY <3>1
  <2> HIDE DEF F
  <2>6. \A i \in 1..l : F[i] = Kept(P[i])
    <3> TAKE i \in 1..l
    <3>1. i \in 1..(l + 1) /\ i \in 1..(l - z) /\ z + i = i
      BY <2>3
    <3> QED BY <1>2, <1>5, <2>4, <3>1
  <2>7. F = KeptAll(P)
    BY <1>1, <2>5, <2>6 DEF KeptAll
  <2>8. Front(K) = KeptAll(P)
    BY <2>2, <2>3, <2>7 DEF F
  <2> QED BY <1>4, <1>8, <1>9, <2>1, <2>8 DEF K
<1>10. CASE EncodeInner(v) # <<>>
  <2>1. [i \in DOMAIN items |-> DecodeInner(items[i])] = KeptAll(Q)
    BY <1>2, <1>3, <1>10, AllDecoded
  <2> QED BY <1>4, <1>8, <1>10, <2>1 DEF K
<1> QED BY <1>9, <1>10

(* The bytes of a sequence, and what is decoded of them.                     *)
Sequence(m) == IF m = Absent THEN <<>> ELSE EncodeSequence(m)
Encodes(m) == m = Absent \/ (m \in Seq(Values) /\ EncodeSequence(m) # Absent)
ManyOf(w) ==
  IF w = Absent THEN Absent
  ELSE LET items == TlvArray(w) IN [i \in DOMAIN items |-> DecodeInner(items[i])]
ManyLeft(m) ==
  IF m = Absent \/ EncodeSequence(m) = <<>> THEN Absent
  ELSE IF Last(KeptAll(m)) = Absent THEN Front(KeptAll(m)) ELSE KeptAll(m)

LEMMA SequenceBytes ==
  ASSUME NEW m, Encodes(m)
  PROVE  Sequence(m) \in Bytes /\ ManyOf(Kept(Sequence(m))) = ManyLeft(m)
<1>1. CASE m = Absent
  <2>1. Sequence(m) = <<>> /\ <<>> \in Bytes
    BY <1>1, BetweenIs DEF Sequence
  <2> QED BY <1>1, <2>1 DEF Kept, ManyOf, ManyLeft
<1>2. CASE m # Absent
  <2>1. m \in Seq(Values) /\ EncodeSequence(m) # Absent /\ Sequence(m) = EncodeSequence(m)
    BY <1>2 DEF Encodes, Sequence
  <2>2. Values # {}
    BY DEF Values
  <2>3. PICK u \in Values : TRUE
    BY <2>2
  <2>4. EncodeSequence(m) \in Bytes
    BY <2>1, <2>3, SequenceGrows
  <2>5. CASE EncodeSequence(m) = <<>>
    BY <2>1, <2>4, <2>5 DEF Kept, ManyOf, ManyLeft
  <2>6. CASE EncodeSequence(m) # <<>>
    <3>1. m # <<>>
      BY <2>6, NoSequence
    <3>2. PICK P \in Seq(Values), v \in Values : m = Append(P, v)
      BY <2>1, <3>1, SequenceEmptyOrAppend
    <3>3. PICK items : items = TlvArray(EncodeSequence(m))
      OBVIOUS
    <3>4. [i \in DOMAIN items |-> DecodeInner(items[i])] =
            IF Last(KeptAll(m)) = Absent THEN Front(KeptAll(m)) ELSE KeptAll(m)
      BY <3>2, <3>3, ManyKept
    <3>5. Kept(Sequence(m)) = EncodeSequence(m) /\ EncodeSequence(m) # Absent
      BY <2>1, <2>6 DEF Kept
    <3>6. ManyOf(EncodeSequence(m)) = [i \in DOMAIN items |-> DecodeInner(items[i])]
      BY <3>3, <3>5, Zenon DEF ManyOf
    <3>7. ManyLeft(m) = IF Last(KeptAll(m)) = Absent THEN Front(KeptAll(m)) ELSE KeptAll(m)
      BY <1>2, <2>6, Zenon DEF ManyLeft
    <3> QED BY <2>1, <2>4, <3>4, <3>5, <3>6, <3>7, Zenon
  <2> QED BY <2>5, <2>6
<1> QED BY <1>1, <1>2

LEMMA AtIs ==
  ASSUME NEW o, NEW x, NEW v
  PROVE  At(o, x, v).type = x /\ At(o, x, v).value = v
  BY DEF At

(* The two fields of a structure are found each at its type.                 *)
FieldsIn(a, w) ==
  /\ Written(Divided(1, a)) \o Written(Divided(2, w)) \in Bytes
  /\ Field(Written(Divided(1, a)) \o Written(Divided(2, w)), 1) = Kept(a)
  /\ Field(Written(Divided(1, a)) \o Written(Divided(2, w)), 2) = Kept(w)

LEMMA FieldsFound ==
  ASSUME NEW a \in Bytes, NEW w \in Bytes
  PROVE  FieldsIn(a, w)
<1>1. PICK x \in Nat : x = 1
  OBVIOUS
<1>2. PICK y \in Nat : y = 2 /\ y # x
  BY <1>1
<1>3. PICK E \in Seq(TlvItems) : E = <<>>
  BY EmptySeq
<1>4. Closed(E, x)
  BY <1>3 DEF Closed, EndsFull
<1>5. FoundAll(E, x, a)
  BY <1>4, FoundDivided
<1>6. PICK d \in Seq(TlvItems) : d = Divided(x, a)
  BY DividedIs
<1>7. E \o d = d
  BY <1>3, ConcatEmptySeq
<1>8. PICK F : F = Iterate(Written(d))
  OBVIOUS
<1>9. Iterate(Written(E)) = <<>>
  BY <1>3, NoneFound
<1>10. /\ a = <<>> => F = <<>> /\ d = <<>>
       /\ a # <<>> => \E o \in Nat : F = Append(<<>>, At(o, x, a))
  BY <1>3, <1>5, <1>6, <1>7, <1>8, <1>9 DEF FoundAll
<1>11. Closed(d, y)
  <2>1. CASE a = <<>>
    BY <1>10, <2>1 DEF Closed, EndsFull
  <2>2. CASE a # <<>>
    <3>1. PICK o \in Nat : F = Append(<<>>, At(o, x, a))
      BY <1>10, <2>2
    <3>2. Last(F).type = x
      <4>1. PICK p : p = At(o, x, a) /\ p.type = x
        BY AtIs
      <4>2. Len(F) = 1 /\ F[1] = p
        BY <3>1, <4>1
      <4> QED BY <4>1, <4>2 DEF Last
    <3> QED BY <1>2, <1>8, <3>2 DEF Closed
  <2> QED BY <2>1, <2>2
<1>12. FoundAll(d, y, w)
  BY <1>11, FoundDivided
<1>13. PICK c \in Seq(TlvItems) : c = Divided(y, w)
  BY DividedIs
<1>14. Written(d \o c) = Written(d) \o Written(c) /\ Written(d) \in Bytes /\ Written(c) \in Bytes
  BY WrittenJoined
<1>15. PICK G : G = Iterate(Written(d \o c))
  OBVIOUS
<1>16. /\ w = <<>> => G = F
       /\ w # <<>> => \E o \in Nat : G = Append(F, At(o, y, w))
  BY <1>8, <1>12, <1>13, <1>15 DEF FoundAll
<1>17. FieldIn(G, x) = Kept(a) /\ FieldIn(G, y) = Kept(w)
  <2>1. CASE a = <<>> /\ w = <<>>
    <3>1. \A j \in DOMAIN G : G[j].type # x /\ G[j].type # y
      BY <1>10, <1>16, <2>1
    <3>2. FieldIn(G, x) = Absent /\ FieldIn(G, y) = Absent
      BY <3>1, FieldNone
    <3> QED BY <2>1, <3>2 DEF Kept
  <2>2. CASE a # <<>> /\ w = <<>>
    <3>1. PICK o \in Nat : G = Append(<<>>, At(o, x, a))
      BY <1>10, <1>16, <2>2
    <3>2. PICK p : p = At(o, x, a) /\ p.type = x /\ p.value = a
      BY AtIs
    <3>3. DOMAIN G = 1..1 /\ G[1] = p
      BY <3>1, <3>2
    <3>4. PICK k \in Nat : k = 1 /\ k \in DOMAIN G /\ G[k] = p /\ (\A j \in DOMAIN G : j = k)
      BY <3>3
    <3>5. FieldIn(G, x) = G[k].value
      BY <3>2, <3>4, FieldAt
    <3>6. FieldIn(G, y) = Absent
      <4>1. \A j \in DOMAIN G : G[j].type # y
        BY <1>2, <3>2, <3>4
      <4> QED BY <4>1, FieldNone
    <3> QED BY <2>2, <3>2, <3>4, <3>5, <3>6 DEF Kept
  <2>3. CASE a = <<>> /\ w # <<>>
    <3>1. PICK o \in Nat : G = Append(<<>>, At(o, y, w))
      BY <1>10, <1>16, <2>3
    <3>2. PICK p : p = At(o, y, w) /\ p.type = y /\ p.value = w
      BY AtIs
    <3>3. DOMAIN G = 1..1 /\ G[1] = p
      BY <3>1, <3>2
    <3>4. PICK k \in Nat : k = 1 /\ k \in DOMAIN G /\ G[k] = p /\ (\A j \in DOMAIN G : j = k)
      BY <3>3
    <3>5. FieldIn(G, y) = G[k].value
      BY <3>2, <3>4, FieldAt
    <3>6. FieldIn(G, x) = Absent
      <4>1. \A j \in DOMAIN G : G[j].type # x
        BY <1>2, <3>2, <3>4
      <4> QED BY <4>1, FieldNone
    <3> QED BY <2>3, <3>2, <3>4, <3>5, <3>6 DEF Kept
  <2>4. CASE a # <<>> /\ w # <<>>
    <3>1. PICK o \in Nat : F = Append(<<>>, At(o, x, a))
      BY <1>10, <2>4
    <3>2. PICK n \in Nat : G = Append(F, At(n, y, w))
      BY <1>16, <2>4
    <3>3. PICK p : p = At(o, x, a) /\ p.type = x /\ p.value = a
      BY AtIs
    <3>4. PICK q : q = At(n, y, w) /\ q.type = y /\ q.value = w
      BY AtIs
    <3>5. G = Append(Append(<<>>, p), q)
      BY <3>1, <3>2, <3>3, <3>4, Zenon
    <3>6. Len(G) = 2 /\ DOMAIN G = 1..2 /\ G[1] = p /\ G[2] = q
      BY <3>5
    <3>7. PICK k \in Nat, m \in Nat : k = 1 /\ m = 2
      OBVIOUS
    <3>8. /\ k \in DOMAIN G /\ G[k] = p /\ m \in DOMAIN G /\ G[m] = q
          /\ \A j \in DOMAIN G : j = k \/ j = m
      BY <3>6, <3>7
    <3>9. FieldIn(G, x) = G[k].value
      <4>1. G[k].type = x /\ \A j \in DOMAIN G : G[j].type = x => j = k
        BY <1>2, <3>3, <3>4, <3>8
      <4> QED BY <3>8, <4>1, FieldAt
    <3>10. FieldIn(G, y) = G[m].value
      <4>1. G[m].type = y /\ \A j \in DOMAIN G : G[j].type = y => j = m
        BY <1>2, <3>3, <3>4, <3>8
      <4> QED BY <3>8, <4>1, FieldAt
    <3> QED BY <2>4, <3>3, <3>4, <3>8, <3>9, <3>10 DEF Kept
  <2> QED BY <2>1, <2>2, <2>3, <2>4
<1>18. PICK b \in Bytes : b = Written(d) \o Written(c)
  BY <1>14, TwoJoined
<1>19. Field(b, x) = FieldIn(G, x) /\ Field(b, y) = FieldIn(G, y)
  BY <1>14, <1>15, <1>18, Zenon DEF Field, FieldIn
<1> QED BY <1>1, <1>2, <1>6, <1>13, <1>17, <1>18, <1>19 DEF FieldsIn

(* A structure with a field and a sequence of structures is decoded to what  *)
(* it was, for any bytes in the fields and any sequence, up to what is lost: *)
(* empty values, and an empty structure at the end of a sequence             *)
(* (TLVStruct.encode and decode, serialize_typing_sequence, tlv_iterator,    *)
(* tlv_array).                                                               *)
THEOREM StructKept ==
  ASSUME NEW s, s.one \in Values, Encodes(s.many)
  PROVE  StructRoundTrip(s)
<1>1. PICK one \in Values : one = s.one
  OBVIOUS
<1>2. PICK many : many = s.many /\ Encodes(many)
  OBVIOUS
<1>3. PICK a \in Bytes : a = Bare(one)
  BY BareIs
<1>4. PICK w \in Bytes : w = Sequence(many) /\ ManyOf(Kept(w)) = ManyLeft(many)
  BY <1>2, SequenceBytes
<1>5. PICK b : b = EncodeStruct(s) /\ b = Written(Divided(1, a)) \o Written(Divided(2, w))
  <2>1. EncodeInner(one) = Written(Divided(1, a))
    BY <1>3, InnerIs
  <2>2. (IF many = Absent THEN <<>> ELSE EncodeField(2, EncodeSequence(many))) = Written(Divided(2, w))
    <3>1. CASE many = Absent
      <4>1. PICK y \in Nat : y = 2
        OBVIOUS
      <4>2. w = <<>>
        BY <1>4, <3>1 DEF Sequence
      <4>3. Divided(y, w) = <<>>
        BY <4>2, DividedIs
      <4> QED BY <3>1, <4>1, <4>3, WrittenNone
    <3>2. CASE many # Absent
      BY <1>4, <3>2 DEF Sequence, EncodeField
    <3> QED BY <3>1, <3>2
  <2>3. EncodeStruct(s) = EncodeInner(one) \o (IF many = Absent THEN <<>> ELSE EncodeField(2, EncodeSequence(many)))
    BY <1>1, <1>2, Zenon DEF EncodeStruct
  <2> QED BY <2>1, <2>2, <2>3, Zenon
<1>6. FieldsIn(a, w)
  BY FieldsFound
<1>7. Field(b, 1) = Kept(a) /\ Field(b, 2) = Kept(w)
  BY <1>5, <1>6, Zenon DEF FieldsIn
<1>8. Kept(a) = Kept(one)
  BY <1>3, BareIs DEF Kept
<1>9. DecodeStruct(b) = [one |-> Field(b, 1), many |-> ManyOf(Field(b, 2))]
  BY Zenon DEF DecodeStruct, ManyOf
<1>10. DecodeStruct(b) = [one |-> Kept(one), many |-> ManyLeft(many)]
  BY <1>4, <1>7, <1>8, <1>9, Zenon
<1> QED BY <1>1, <1>2, <1>5, <1>10, Zenon DEF StructRoundTrip, ManyLeft, KeptAll, Kept

(* Whatever is encoded is decoded to what it was: TLV lists, fragments of an *)
(* answer, structures, PDUs on any link, lists of pairings and batches, for  *)
(* any bytes and any lengths of them.                                        *)
THEOREM EverythingKept == CodecsSpec => []CodecsRoundTrip
<1>1. ASSUME CodecsInit PROVE CodecsRoundTrip
  <2>1. Encodable(job)
    BY <1>1, JobsAssumption DEF CodecsInit, AllEncodable
  <2>2. ASSUME job.kind = "tlv" PROVE TlvRoundTrip(job.of)
    <3>1. Listable(job.of)
      BY <2>1, <2>2 DEF Encodable
    <3> QED BY <3>1, TlvKept
  <2>3. ASSUME job.kind = "fragments" PROVE FragmentsRoundTrip(job.of.d, job.of.n)
    <3>1. Listable(job.of.d) /\ job.of.n \in Nat /\ job.of.n # 0
      BY <2>1, <2>3 DEF Encodable
    <3> QED BY <3>1, FragmentsKept
  <2>4. ASSUME job.kind = "struct" PROVE StructRoundTrip(job.of)
    <3>1. job.of.one \in Values /\ Encodes(job.of.many)
      BY <2>1, <2>4 DEF Encodable, Encodes
    <3> QED BY <3>1, StructKept
  <2>5. ASSUME job.kind = "pdu"
        PROVE  PduRoundTrip(job.of.tid, job.of.data,
                            FragmentSize(job.of.mtu, job.of.maxWrite, job.of.secure))
    <3>1. /\ job.of.data \in Bytes /\ job.of.mtu \in Nat /\ job.of.maxWrite \in Nat
          /\ job.of.secure \in BOOLEAN
      BY <2>1, <2>5 DEF Encodable
    <3>2. PICK T : T = Nat
      OBVIOUS
    <3>3. job.of.data \in Seq(T)
      BY <3>1, <3>2 DEF Bytes
    <3> QED BY <3>1, <3>3, PdusKept
  <2>6. ASSUME job.kind = "pairings" PROVE PairingsRoundTrip(job.of)
    <3>1. job.of \in Seq(Pairings)
      BY <2>1, <2>6 DEF Encodable
    <3> QED BY <3>1, PairingsKept
  <2>7. ASSUME job.kind = "batch" PROVE BatchRoundTrip(job.of)
    <3>1. job.of \in Seq(Replies) /\ job.of # <<>>
      BY <2>1, <2>7 DEF Encodable
    <3> QED BY <3>1, BatchKept
  <2> QED BY <2>2, <2>3, <2>4, <2>5, <2>6, <2>7 DEF CodecsRoundTrip
<1>2. ASSUME CodecsRoundTrip, [FALSE]_job PROVE CodecsRoundTrip'
  BY <1>2 DEF CodecsRoundTrip
<1> QED BY <1>1, <1>2, PTL DEF CodecsSpec
=============================================================================
