----------------------- MODULE TransactionEventsProofs -----------------------
(***************************************************************************)
(* Messages and their events, for any request, any lookup tables and any   *)
(* calls an instruction makes.                                             *)
(*                                                                         *)
(* Sorting (Ordered), selecting (AtFacts) and flattening (Flattened) are   *)
(* shown once.  Compiling then is a function of the request and of the     *)
(* tables as they were, and the invariant says that the message is its     *)
(* value for some tables the present ones extend.                          *)
(***************************************************************************)
EXTENDS TransactionEvents, FiniteSetTheorems, WellFoundedInduction, TLAPS

----------------------------------------------------------------------------
(* Induction and the least element of a set. *)

Less == {p \in Nat \X Nat : p[1] < p[2]}

LEMMA LessWellFounded == IsWellFoundedOn(Less, Nat)
BY NatLessThanWellFounded DEF OpToRel, Less

LEMMA LeastExists ==
    ASSUME NEW S, S \subseteq Nat, S # {}
    PROVE  \E x \in S : \A y \in S : x <= y
<1>1. PICK x \in S : \A y \in S : ~(<<y, x>> \in Less)
  BY LessWellFounded, WFMin
<1>2. ASSUME NEW y \in S PROVE x <= y
  <2>1. x \in Nat /\ y \in Nat /\ ~(<<y, x>> \in Less)
    BY <1>1
  <2> QED BY <2>1 DEF Less
<1> QED BY <1>2

LEMMA SetInduction ==
    ASSUME NEW S, 0 \in S, \A n \in Nat : n \in S => n + 1 \in S
    PROVE  Nat \subseteq S
<1> SUFFICES ASSUME ~(Nat \subseteq S) PROVE FALSE
  OBVIOUS
<1> DEFINE T == Nat \ S
<1>1. T \subseteq Nat /\ T # {}
  OBVIOUS
<1> HIDE DEF T
<1>2. PICK x \in T : \A y \in T : x <= y
  BY <1>1, LeastExists
<1> USE DEF T
<1>3. x - 1 \in Nat /\ x - 1 < x
  OBVIOUS
<1>4. x - 1 \in S
  BY <1>2, <1>3
<1> QED BY <1>3, <1>4

LEMMA MinFacts ==
    ASSUME NEW S, S \subseteq Nat, S # {}
    PROVE  Min(S) \in S /\ \A y \in S : Min(S) <= y
BY LeastExists DEF Min

LEMMA InRange ==
    ASSUME NEW s, NEW y
    PROVE  y \in Range(s) <=> \E k \in DOMAIN s : s[k] = y
BY Zenon DEF Range

----------------------------------------------------------------------------
(* Sorting. *)

StrictTotalOrder(S, before) ==
    /\ \A x \in S : <<x, x>> \notin before
    /\ \A x, y, z \in S : <<x, y>> \in before /\ <<y, z>> \in before => <<x, z>> \in before
    /\ \A x, y \in S : x = y \/ <<x, y>> \in before \/ <<y, x>> \in before

Before(S, before, x) == {y \in S : <<y, x>> \in before}

(* InOrder lists every element once, in the order. *)
LEMMA Ordered ==
    ASSUME NEW S, IsFiniteSet(S), NEW before, StrictTotalOrder(S, before)
    PROVE  LET s == InOrder(S, before)
           IN  /\ Cardinality(S) \in Nat /\ Len(s) = Cardinality(S)
               /\ s \in [1..Cardinality(S) -> S] /\ s \in Seq(S)
               /\ Range(s) = S
               /\ \A j, k \in DOMAIN s : s[j] = s[k] => j = k
               /\ \A j, k \in DOMAIN s : j < k => <<s[j], s[k]>> \in before
<1> DEFINE n == Cardinality(S)
           Rank(x) == Cardinality(Before(S, before, x))
           s == InOrder(S, before)
<1>1. n \in Nat
  BY FS_CardinalityType
<1>2. ASSUME NEW x \in S PROVE Rank(x) \in 0..(n - 1)
  <2> DEFINE B == Before(S, before, x)
  <2>1. B \subseteq S /\ x \notin B /\ B # S
    BY DEF Before, StrictTotalOrder
  <2> HIDE DEF B
  <2>2. IsFiniteSet(B) /\ Cardinality(B) <= n /\ n # Cardinality(B)
    BY <2>1, FS_Subset
  <2>3. Cardinality(B) \in Nat
    BY <2>2, FS_CardinalityType
  <2> QED BY <1>1, <2>2, <2>3 DEF B
<1>3. ASSUME NEW x \in S, NEW y \in S, <<x, y>> \in before PROVE Rank(x) < Rank(y)
  <2> DEFINE A == Before(S, before, x)
             B == Before(S, before, y)
  <2>1. A \subseteq B /\ x \in B /\ x \notin A /\ B \subseteq S
    BY <1>3 DEF Before, StrictTotalOrder
  <2> HIDE DEF A, B
  <2>2. IsFiniteSet(B)
    BY <2>1, FS_Subset
  <2>3. IsFiniteSet(A) /\ Cardinality(A) <= Cardinality(B) /\ Cardinality(A) # Cardinality(B)
    BY <2>1, <2>2, FS_Subset
  <2>4. Cardinality(A) \in Nat /\ Cardinality(B) \in Nat
    BY <2>2, <2>3, FS_CardinalityType
  <2> QED BY <2>3, <2>4 DEF A, B
<1> HIDE DEF Rank
<1>4. \A x, y \in S : Rank(x) = Rank(y) => x = y
  <2> SUFFICES ASSUME NEW x \in S, NEW y \in S, Rank(x) = Rank(y), x # y PROVE FALSE
    OBVIOUS
  <2>1. <<x, y>> \in before \/ <<y, x>> \in before
    BY DEF StrictTotalOrder
  <2> QED BY <1>1, <1>2, <1>3, <2>1
<1>5. ASSUME NEW k \in 1..n PROVE \E x \in S : Rank(x) = k - 1
  <2> DEFINE f == [x \in S |-> Rank(x)]
             T == 0..(n - 1)
  <2>1. f \in Injection(S, T)
    BY <1>2, <1>4 DEF Injection, IsInjective
  <2>2. IsFiniteSet(T) /\ Cardinality(T) = n
    <3>1. 0 \in Int /\ n - 1 \in Int
      BY <1>1
    <3>2. /\ IsFiniteSet(0..(n - 1))
          /\ Cardinality(0..(n - 1)) = IF 0 > n - 1 THEN 0 ELSE (n - 1) - 0 + 1
      BY <3>1, FS_Interval
    <3> QED BY <1>1, <3>2
  <2>3. f \in Surjection(S, T)
    <3> HIDE DEF f, T, n
    <3> QED BY <2>1, <2>2, FS_Injection DEF n
  <2>4. k - 1 \in T
    BY <1>1
  <2>5. \E x \in S : f[x] = k - 1
    BY <2>3, <2>4 DEF Surjection
  <2> QED BY <2>5
<1>6. /\ s = [k \in 1..n |-> CHOOSE x \in S : Rank(x) = k - 1]
      /\ DOMAIN s = 1..n
  BY DEF InOrder, Rank, Before
<1>7. \A k \in 1..n : s[k] \in S /\ Rank(s[k]) = k - 1
  <2> SUFFICES ASSUME NEW k \in 1..n PROVE s[k] \in S /\ Rank(s[k]) = k - 1
    OBVIOUS
  <2>1. s[k] = CHOOSE x \in S : Rank(x) = k - 1
    BY <1>6
  <2> HIDE DEF s
  <2> QED BY <1>5, <2>1
<1> HIDE DEF s
<1>8. s \in [1..n -> S]
  BY <1>6, <1>7
<1>9. s \in Seq(S) /\ Len(s) = n
  BY <1>1, <1>8
<1>10. Range(s) = S
  <2>1. ASSUME NEW x \in S PROVE x \in Range(s)
    <3>1. Rank(x) + 1 \in 1..n /\ (Rank(x) + 1) - 1 = Rank(x)
      BY <1>1, <1>2
    <3>2. s[Rank(x) + 1] = x
      BY <1>4, <1>7, <3>1
    <3> QED BY <1>6, <3>1, <3>2 DEF Range
  <2>2. Range(s) \subseteq S
    BY <1>6, <1>7 DEF Range
  <2> QED BY <2>1, <2>2
<1>11. \A j, k \in DOMAIN s : s[j] = s[k] => j = k
  BY <1>6, <1>7
<1>12. ASSUME NEW j \in DOMAIN s, NEW k \in DOMAIN s, j < k PROVE <<s[j], s[k]>> \in before
  <2>1. s[j] \in S /\ s[k] \in S /\ Rank(s[j]) = j - 1 /\ Rank(s[k]) = k - 1 /\ j \in Nat /\ k \in Nat
    BY <1>6, <1>7
  <2>2. s[j] # s[k] /\ ~(<<s[k], s[j]>> \in before)
    BY <1>3, <1>12, <2>1
  <2> QED BY <2>1, <2>2 DEF StrictTotalOrder
<1> QED BY <1>1, <1>6, <1>8, <1>9, <1>10, <1>11, <1>12 DEF s

(* What comes before everything else stands at the head. *)
LEMMA Segment ==
    ASSUME NEW S, IsFiniteSet(S), NEW before, StrictTotalOrder(S, before),
           NEW D, D \subseteq S, \A x \in D, y \in S \ D : <<x, y>> \in before
    PROVE  LET s == InOrder(S, before)
           IN  /\ Cardinality(D) \in Nat /\ Cardinality(D) <= Cardinality(S)
               /\ \A k \in DOMAIN s : s[k] \in D <=> k <= Cardinality(D)
<1> DEFINE n == Cardinality(S)
           d == Cardinality(D)
           s == InOrder(S, before)
           H == {k \in 1..n : s[k] \in D}
<1>1. /\ n \in Nat /\ s \in [1..n -> S]
      /\ \A x \in S : \E k \in 1..n : s[k] = x
      /\ \A j, k \in 1..n : s[j] = s[k] => j = k
      /\ \A j, k \in 1..n : j < k => <<s[j], s[k]>> \in before
  <2>1. /\ n \in Nat /\ s \in [1..n -> S] /\ Range(s) = S
        /\ \A j, k \in DOMAIN s : s[j] = s[k] => j = k
        /\ \A j, k \in DOMAIN s : j < k => <<s[j], s[k]>> \in before
    BY Ordered
  <2>2. DOMAIN s = 1..n
    BY <2>1
  <2> HIDE DEF s, n
  <2>3. \A x \in S : \E k \in 1..n : s[k] = x
    BY <2>1, <2>2, InRange, Zenon
  <2> QED BY <2>1, <2>2, <2>3, Zenon
<1> HIDE DEF s, n
<1>2. IsFiniteSet(D) /\ d \in Nat /\ d <= n
  <2>1. IsFiniteSet(D) /\ Cardinality(D) <= Cardinality(S)
    BY FS_Subset
  <2> QED BY <2>1, FS_CardinalityType DEF n
<1>3. IsFiniteSet(H) /\ Cardinality(H) = d
  <2> DEFINE f == [k \in H |-> s[k]]
  <2>1. f \in [H -> D] /\ (\A j, k \in H : f[j] = f[k] => j = k)
    BY <1>1
  <2>2. \A x \in D : \E k \in H : f[k] = x
    BY <1>1
  <2>3. f \in Bijection(H, D)
    <3> HIDE DEF f, H
    <3> QED BY <2>1, <2>2 DEF Bijection, Injection, Surjection, IsInjective
  <2>4. IsFiniteSet(H)
    <3>1. IsFiniteSet(1..n)
      BY <1>1, FS_Interval
    <3>2. H \subseteq 1..n
      OBVIOUS
    <3> HIDE DEF H
    <3> QED BY <3>1, <3>2, FS_Subset
  <2> HIDE DEF f, H, d
  <2>5. Cardinality(H) = Cardinality(D)
    BY <1>2, <2>3, <2>4, FS_Bijection DEF ExistsBijection
  <2> QED BY <2>4, <2>5 DEF d
<1>4. ASSUME NEW j \in 1..n, NEW k \in 1..n, j < k, s[k] \in D PROVE s[j] \in D
  <2> SUFFICES ASSUME s[j] \notin D PROVE FALSE
    OBVIOUS
  <2>1. s[j] \in S /\ s[k] \in S /\ <<s[j], s[k]>> \in before
    BY <1>1, <1>4
  <2>2. <<s[k], s[j]>> \in before
    BY <1>4, <2>1
  <2> QED BY <2>1, <2>2 DEF StrictTotalOrder
<1>5. ASSUME NEW k \in 1..n, s[k] \in D PROVE k <= d
  <2>1. 1..k \subseteq H
    BY <1>1, <1>4, <1>5
  <2>2. IsFiniteSet(1..k) /\ Cardinality(1..k) = k
    BY <1>1, FS_Interval
  <2> HIDE DEF H, d
  <2> QED BY <1>3, <2>1, <2>2, FS_Subset
<1>6. ASSUME NEW k \in 1..n, s[k] \notin D PROVE ~(k <= d)
  <2> DEFINE K == 1..(k - 1)
  <2>1. H \subseteq K
    BY <1>1, <1>4, <1>6
  <2>2. IsFiniteSet(K) /\ Cardinality(K) = k - 1
    BY <1>1, FS_Interval
  <2> HIDE DEF H, d, K
  <2>3. Cardinality(H) <= Cardinality(K)
    BY <2>1, <2>2, FS_Subset
  <2> QED BY <1>1, <1>2, <1>3, <2>2, <2>3
<1>7. DOMAIN s = 1..n
  BY <1>1
<1> QED BY <1>2, <1>5, <1>6, <1>7 DEF s, n

(* order lists the positions P of s that t selects, c of them. *)
Selects(order, c, t, s, P) ==
    /\ c \in Nat /\ DOMAIN t = 1..c /\ order \in [1..c -> P]
    /\ \A x \in P : \E k \in 1..c : order[k] = x
    /\ \A j, k \in 1..c : j < k => order[j] < order[k]
    /\ t = [k \in 1..c |-> t[k]] /\ \A k \in 1..c : t[k] = s[order[k]]

(* Selecting positions keeps their order. *)
LEMMA AtFacts ==
    ASSUME NEW n \in Nat, NEW s, DOMAIN s = 1..n, NEW P, P \subseteq 1..n
    PROVE  \E order, c : Selects(order, c, At(s, P), s, P)
<1> DEFINE c == Cardinality(P)
           before == {p \in P \X P : p[1] < p[2]}
           order == InOrder(P, before)
<1>1. IsFiniteSet(P)
  <2>1. IsFiniteSet(1..n)
    BY FS_Interval
  <2> QED BY <2>1, FS_Subset
<1>2. \A x, y \in P : <<x, y>> \in before <=> x < y
  OBVIOUS
<1>3. StrictTotalOrder(P, before)
  <2>1. \A x \in P : x \in Nat
    OBVIOUS
  <2> HIDE DEF before
  <2> QED BY <1>2, <2>1 DEF StrictTotalOrder
<1>4. At(s, P) = [k \in DOMAIN order |-> s[order[k]]]
  BY DEF At
<1> HIDE DEF before
<1>5. /\ c \in Nat /\ order \in [1..c -> P] /\ Range(order) = P
      /\ \A j, k \in DOMAIN order : j < k => <<order[j], order[k]>> \in before
  BY <1>1, <1>3, Ordered
<1>6. DOMAIN order = 1..c
  BY <1>5
<1> HIDE DEF order, c
<1>7. \A x \in P : \E k \in 1..c : order[k] = x
  BY <1>5, <1>6, InRange, Zenon
<1>8. \A j, k \in 1..c : j < k => order[j] < order[k]
  BY <1>2, <1>5, <1>6
<1>9. DOMAIN At(s, P) = 1..c /\ \A k \in 1..c : At(s, P)[k] = s[order[k]]
  BY <1>4, <1>6
<1>10. At(s, P) = [k \in 1..c |-> At(s, P)[k]]
  BY <1>4, <1>6
<1>11. Selects(order, c, At(s, P), s, P)
  BY <1>5, <1>7, <1>8, <1>9, <1>10 DEF Selects
<1> QED BY <1>11

----------------------------------------------------------------------------
(* Flattening. *)

LEMMA IntervalEnds ==
    ASSUME NEW m \in Nat, NEW n \in Nat, 1..m = 1..n
    PROVE  m = n
<1>1. m \in 1..m \/ m = 0
  OBVIOUS
<1>2. n \in 1..n \/ n = 0
  OBVIOUS
<1> QED BY <1>1, <1>2

LEMMA SeqFacts ==
    ASSUME NEW T, NEW s \in Seq(T)
    PROVE  Len(s) \in Nat /\ DOMAIN s = 1..Len(s) /\ \A k \in DOMAIN s : s[k] \in T
OBVIOUS

LEMMA IsSequence ==
    ASSUME NEW T, NEW n \in Nat, NEW s, s = [k \in 1..n |-> s[k]], \A k \in 1..n : s[k] \in T
    PROVE  s \in Seq(T) /\ Len(s) = n
<1>1. s \in [1..n -> T]
  OBVIOUS
<1> QED BY <1>1

LEMMA SingleFacts ==
    ASSUME NEW T, NEW x \in T
    PROVE  <<x>> \in Seq(T) /\ Len(<<x>>) = 1 /\ <<x>>[1] = x
OBVIOUS

LEMMA ConcatFacts ==
    ASSUME NEW T, NEW s \in Seq(T), NEW t \in Seq(T)
    PROVE  /\ s \o t \in Seq(T) /\ Len(s) \in Nat /\ Len(t) \in Nat
           /\ Len(s \o t) = Len(s) + Len(t) /\ DOMAIN (s \o t) = 1..(Len(s) + Len(t))
           /\ \A i \in 1..Len(s) : (s \o t)[i] = s[i]
           /\ \A i \in 1..Len(t) : (s \o t)[Len(s) + i] = t[i]
<1>1. s \o t \in Seq(T) /\ Len(s \o t) = Len(s) + Len(t)
  OBVIOUS
<1>2. \A i \in 1..Len(s) : (s \o t)[i] = s[i]
  OBVIOUS
<1>3. ASSUME NEW i \in 1..Len(t) PROVE (s \o t)[Len(s) + i] = t[i]
  <2>1. Len(s) \in Nat /\ Len(t) \in Nat /\ Len(s) + i \in 1..(Len(s) + Len(t))
    OBVIOUS
  <2>2. ~(Len(s) + i <= Len(s)) /\ (Len(s) + i) - Len(s) = i
    BY <2>1
  <2> QED BY <2>1, <2>2
<1> QED BY <1>1, <1>2, <1>3

(* f holds what the first k sequences come to. *)
IsFlat(f, n, ss) == f = [k \in 0..n |-> IF k = 0 THEN <<>> ELSE f[k - 1] \o ss[k]]

LEMMA FlatExists ==
    ASSUME NEW n \in Nat, NEW ss
    PROVE  \E f : IsFlat(f, n, ss)
<1> DEFINE S == {m \in Nat : \E f : IsFlat(f, m, ss)}
<1>1. 0 \in S
  <2>1. IsFlat([k \in 0..0 |-> <<>>], 0, ss)
    BY DEF IsFlat
  <2> QED BY <2>1
<1>2. ASSUME NEW m \in Nat, m \in S PROVE m + 1 \in S
  <2>1. PICK h : IsFlat(h, m, ss)
    BY <1>2
  <2> DEFINE last == h[m] \o ss[m + 1]
             g == [k \in 0..(m + 1) |-> IF k = m + 1 THEN last ELSE h[k]]
  <2>2. ASSUME NEW k \in 0..(m + 1)
        PROVE  g[k] = IF k = 0 THEN <<>> ELSE g[k - 1] \o ss[k]
    <3>1. CASE k = m + 1
      <4>1. k - 1 = m /\ k # 0 /\ m # m + 1 /\ g[m] = h[m] /\ g[k] = last
        BY <3>1
      <4> QED BY <3>1, <4>1
    <3>2. CASE k # m + 1
      <4>1. k \in 0..m /\ g[k] = h[k] /\ (k # 0 => k - 1 \in 0..m /\ g[k - 1] = h[k - 1])
        BY <3>2
      <4>2. h[k] = IF k = 0 THEN <<>> ELSE h[k - 1] \o ss[k]
        BY <2>1, <4>1 DEF IsFlat
      <4> HIDE DEF g
      <4> QED BY <4>1, <4>2
    <3> QED BY <3>1, <3>2
  <2>3. g = [k \in 0..(m + 1) |-> g[k]]
    OBVIOUS
  <2>4. IsFlat(g, m + 1, ss)
    <3> HIDE DEF g
    <3> QED BY <2>2, <2>3 DEF IsFlat
  <2> QED BY <2>4
<1>3. n \in S
  <2> HIDE DEF S
  <2> QED BY <1>1, <1>2, SetInduction
<1> QED BY <1>3

(* FlattenSeq computes the last of them. *)
LEMMA FlattenIsFlat ==
    ASSUME NEW n \in Nat, NEW T, NEW ss \in Seq(T), Len(ss) = n, NEW f, IsFlat(f, n, ss),
           \A k \in 1..n : <<>> \o ss[k] = ss[k]
    PROVE  FlattenSeq(ss) = f[n]
<1>0. f[0] = <<>> /\ \A k \in 1..n : f[k] = f[k - 1] \o ss[k]
  <2>1. 0 \in 0..n /\ \A k \in 1..n : k \in 0..n /\ k # 0
    OBVIOUS
  <2> QED BY <2>1 DEF IsFlat
<1>1. CASE n = 0
  <2>1. ss = <<>>
    BY <1>1
  <2> QED BY <1>0, <1>1, <2>1 DEF FlattenSeq
<1>2. CASE n # 0
  <2> DEFINE Eq(g) == g = [i \in 1..n |-> IF i = 1 THEN ss[i] ELSE g[i - 1] \o ss[i]]
             h == [i \in 1..n |-> f[i]]
             c == CHOOSE g : Eq(g)
  <2>1. FlattenSeq(ss) = c[n]
    BY <1>2 DEF FlattenSeq
  <2>2. Eq(h)
    <3>1. ASSUME NEW i \in 1..n PROVE h[i] = IF i = 1 THEN ss[i] ELSE h[i - 1] \o ss[i]
      <4>1. CASE i = 1
        <5>1. h[i] = f[i - 1] \o ss[i] /\ i - 1 = 0
          BY <1>0, <4>1
        <5> QED BY <1>0, <4>1, <5>1
      <4>2. CASE i # 1
        <5>1. i - 1 \in 1..n /\ h[i - 1] = f[i - 1] /\ h[i] = f[i]
          BY <4>2
        <5> QED BY <1>0, <4>2, <5>1
      <4> QED BY <4>1, <4>2
    <3>2. h = [i \in 1..n |-> h[i]]
      OBVIOUS
    <3> HIDE DEF h
    <3> QED BY <3>1, <3>2
  <2> HIDE DEF h
  <2>3. Eq(c)
    <3> HIDE DEF Eq
    <3> QED BY <2>2, Zenon
  <2> HIDE DEF c
  <2> DEFINE S == {m \in Nat : m \in 1..n => c[m] = f[m]}
  <2>4. 0 \in S
    OBVIOUS
  <2>5. ASSUME NEW m \in Nat, m \in S PROVE m + 1 \in S
    <3> SUFFICES ASSUME m + 1 \in 1..n PROVE c[m + 1] = f[m + 1]
      OBVIOUS
    <3>1. c[m + 1] = IF m + 1 = 1 THEN ss[m + 1] ELSE c[(m + 1) - 1] \o ss[m + 1]
      BY <2>3
    <3>2. f[m + 1] = f[(m + 1) - 1] \o ss[m + 1] /\ (m + 1) - 1 = m
      <4>1. f[m + 1] = f[(m + 1) - 1] \o ss[m + 1]
        BY <1>0, Zenon
      <4> QED BY <4>1
    <3>3. CASE m = 0
      <4>1. c[m + 1] = ss[m + 1] /\ f[m + 1] = <<>> \o ss[m + 1]
        <5>1. c[m + 1] = ss[m + 1]
          BY <3>1, <3>3
        <5>2. f[(m + 1) - 1] = <<>>
          BY <1>0, <3>2, <3>3
        <5> QED BY <3>2, <5>1, <5>2
      <4> QED BY <4>1
    <3>4. CASE m # 0
      <4>1. m \in 1..n /\ m + 1 # 1
        BY <3>4
      <4>2. c[m] = f[m]
        BY <2>5, <4>1
      <4> QED BY <3>1, <3>2, <4>1, <4>2
    <3> QED BY <3>3, <3>4
  <2>6. n \in S
    <3> HIDE DEF S
    <3> QED BY <2>4, <2>5, SetInduction
  <2> QED BY <1>2, <2>1, <2>6
<1> QED BY <1>1, <1>2

(* off says where in flat each of the n sequences of ss begins. *)
Layout(off, n, ss, flat) ==
    /\ off \in [0..n -> Nat] /\ off[0] = 0
    /\ \A k \in 1..n : off[k] = off[k - 1] + Len(ss[k])
    /\ DOMAIN flat = 1..off[n]
    /\ \A k \in 1..n : \A i \in 1..Len(ss[k]) :
         off[k - 1] + i \in 1..off[n] /\ flat[off[k - 1] + i] = ss[k][i]
    /\ \A p \in 1..off[n] : \E k \in 1..n : \E i \in 1..Len(ss[k]) : p = off[k - 1] + i

LEMMA LayoutStep ==
    ASSUME NEW T, NEW m \in Nat, NEW ss, ss[m + 1] \in Seq(T), NEW flat \in Seq(T),
           NEW off, Layout(off, m, ss, flat), \A k \in 1..m : ss[k] \in Seq(T)
    PROVE  LET last == flat \o ss[m + 1]
               next == [k \in 0..(m + 1) |-> IF k = m + 1 THEN off[m] + Len(ss[m + 1]) ELSE off[k]]
           IN  last \in Seq(T) /\ Layout(next, m + 1, ss, last)
<1> DEFINE add == ss[m + 1]
           last == flat \o add
           next == [k \in 0..(m + 1) |-> IF k = m + 1 THEN off[m] + Len(add) ELSE off[k]]
           N == off[m]
           M == Len(add)
<1>0. /\ off \in [0..m -> Nat] /\ off[0] = 0
      /\ \A k \in 1..m : off[k] = off[k - 1] + Len(ss[k])
      /\ DOMAIN flat = 1..N
      /\ \A k \in 1..m : \A i \in 1..Len(ss[k]) :
           off[k - 1] + i \in 1..N /\ flat[off[k - 1] + i] = ss[k][i]
      /\ \A p \in 1..N : \E k \in 1..m : \E i \in 1..Len(ss[k]) : p = off[k - 1] + i
  BY DEF Layout
<1>1. N \in Nat /\ M \in Nat /\ Len(flat) = N
  <2>1. N \in Nat
    BY <1>0
  <2>2. Len(flat) \in Nat /\ DOMAIN flat = 1..Len(flat)
    OBVIOUS
  <2>3. N = Len(flat)
    <3> HIDE DEF N
    <3> QED BY <1>0, <2>1, <2>2, IntervalEnds
  <2>4. M \in Nat
    OBVIOUS
  <2> QED BY <2>1, <2>3, <2>4
<1>2. /\ last \in Seq(T) /\ Len(last) = N + M /\ DOMAIN last = 1..(N + M)
      /\ \A i \in 1..N : last[i] = flat[i]
      /\ \A i \in 1..M : last[N + i] = add[i]
  <2>1. add \in Seq(T)
    BY DEF add
  <2> HIDE DEF add
  <2>2. /\ last \in Seq(T)
        /\ Len(last) = Len(flat) + Len(add) /\ DOMAIN last = 1..(Len(flat) + Len(add))
        /\ \A i \in 1..Len(flat) : last[i] = flat[i]
        /\ \A i \in 1..Len(add) : last[Len(flat) + i] = add[i]
    BY <2>1, ConcatFacts
  <2> HIDE DEF last, N
  <2>3. Len(flat) = N /\ Len(add) = M
    BY <1>1
  <2> HIDE DEF M
  <2> QED BY <2>2, <2>3, Zenon
<1> HIDE DEF last, N
<1>3. /\ next \in [0..(m + 1) -> Nat] /\ next[m + 1] = N + M
      /\ \A k \in 0..m : next[k] = off[k]
  BY <1>0, <1>1 DEF N
<1>4. off[m] = N
  BY DEF N
<1> HIDE DEF next, M, add
<1>5. add = ss[m + 1] /\ M = Len(ss[m + 1])
  BY DEF add, M
<1>6. next[0] = 0 /\ \A k \in 1..(m + 1) : next[k] = next[k - 1] + Len(ss[k])
  <2>1. next[0] = 0
    BY <1>0, <1>3
  <2>2. ASSUME NEW k \in 1..(m + 1) PROVE next[k] = next[k - 1] + Len(ss[k])
    <3>1. k - 1 \in 0..m /\ (k = m + 1 \/ k \in 1..m)
      OBVIOUS
    <3>2. CASE k = m + 1
      <4>1. k - 1 = m
        BY <3>2
      <4> QED BY <1>3, <1>4, <1>5, <3>1, <3>2, <4>1
    <3>3. CASE k \in 1..m
      <4>1. k \in 0..m
        BY <3>3
      <4> QED BY <1>0, <1>3, <3>1, <3>3, <4>1
    <3> QED BY <3>1, <3>2, <3>3
  <2> QED BY <2>1, <2>2
<1>7. ASSUME NEW k \in 1..(m + 1), NEW i \in 1..Len(ss[k])
      PROVE  next[k - 1] + i \in 1..(N + M) /\ last[next[k - 1] + i] = ss[k][i]
  <2>1. k - 1 \in 0..m /\ (k = m + 1 \/ k \in 1..m)
    OBVIOUS
  <2>2. CASE k = m + 1
    <3>1. k - 1 = m /\ next[k - 1] = N /\ i \in 1..M
      BY <1>3, <1>4, <1>5, <2>1, <2>2
    <3> QED BY <1>1, <1>2, <1>5, <2>2, <3>1
  <2>3. CASE k \in 1..m
    <3>1. off[k - 1] + i \in 1..N /\ flat[off[k - 1] + i] = ss[k][i]
      BY <1>0, <2>3
    <3>2. next[k - 1] = off[k - 1]
      BY <1>3, <2>1
    <3> QED BY <1>1, <1>2, <3>1, <3>2
  <2> QED BY <2>1, <2>2, <2>3
<1>8. ASSUME NEW p \in 1..(N + M)
      PROVE  \E k \in 1..(m + 1) : \E i \in 1..Len(ss[k]) : p = next[k - 1] + i
  <2>1. CASE p \in 1..N
    <3>1. PICK k \in 1..m : \E i \in 1..Len(ss[k]) : p = off[k - 1] + i
      BY <1>0, <2>1
    <3>2. next[k - 1] = off[k - 1] /\ k \in 1..(m + 1)
      <4>1. k - 1 \in 0..m /\ k \in 1..(m + 1)
        OBVIOUS
      <4> QED BY <1>3, <4>1
    <3> QED BY <3>1, <3>2
  <2>2. CASE p \notin 1..N
    <3>1. p - N \in 1..M /\ p = N + (p - N)
      BY <1>1, <2>2
    <3>2. m + 1 \in 1..(m + 1) /\ (m + 1) - 1 = m /\ m \in 0..m
      OBVIOUS
    <3>3. next[(m + 1) - 1] = N
      BY <1>3, <1>4, <3>2
    <3>4. p = next[(m + 1) - 1] + (p - N) /\ p - N \in 1..Len(ss[m + 1])
      BY <1>5, <3>1, <3>3
    <3> QED BY <3>2, <3>4
  <2> QED BY <2>1, <2>2
<1>9. Layout(next, m + 1, ss, last)
  BY <1>2, <1>3, <1>6, <1>7, <1>8 DEF Layout
<1> QED BY <1>2, <1>9 DEF last, next, add

(* Where everything ends up when sequences are flattened. *)
LEMMA Flattened ==
    ASSUME NEW T, NEW n \in Nat, NEW ss, DOMAIN ss = 1..n, ss \in Seq(Seq(T))
    PROVE  FlattenSeq(ss) \in Seq(T) /\ \E off : Layout(off, n, ss, FlattenSeq(ss))
<1>0. Len(ss) = n /\ \A k \in 1..n : ss[k] \in Seq(T)
  <2> DEFINE U == Seq(T)
  <2>1. ss \in Seq(U)
    OBVIOUS
  <2> HIDE DEF U
  <2>2. Len(ss) \in Nat /\ DOMAIN ss = 1..Len(ss) /\ \A k \in DOMAIN ss : ss[k] \in U
    BY <2>1
  <2>3. 1..n = 1..Len(ss)
    BY <2>2
  <2>4. Len(ss) = n
    BY <2>2, <2>3
  <2> QED BY <2>2, <2>4 DEF U
<1>1. PICK f : IsFlat(f, n, ss)
  BY FlatExists
<1>2. FlattenSeq(ss) = f[n]
  <2> DEFINE U == Seq(T)
  <2>1. ss \in Seq(U)
    OBVIOUS
  <2>2. \A k \in 1..n : <<>> \o ss[k] = ss[k]
    BY <1>0
  <2> HIDE DEF U
  <2> QED BY <1>0, <1>1, <2>1, <2>2, FlattenIsFlat
<1>3. f[0] = <<>> /\ \A k \in 1..n : f[k] = f[k - 1] \o ss[k]
  <2>1. 0 \in 0..n /\ \A k \in 1..n : k \in 0..n /\ k # 0
    OBVIOUS
  <2> QED BY <1>1, <2>1 DEF IsFlat
<1> DEFINE S == {m \in Nat : m \in 0..n => f[m] \in Seq(T) /\ \E off : Layout(off, m, ss, f[m])}
<1>4. 0 \in S
  <2>1. Layout([k \in 0..0 |-> 0], 0, ss, <<>>)
    BY DEF Layout
  <2>2. f[0] \in Seq(T)
    BY <1>3
  <2> QED BY <1>3, <2>1, <2>2
<1>5. ASSUME NEW m \in Nat, m \in S PROVE m + 1 \in S
  <2> SUFFICES ASSUME m + 1 \in 0..n
               PROVE  f[m + 1] \in Seq(T) /\ \E off : Layout(off, m + 1, ss, f[m + 1])
    OBVIOUS
  <2>1. m \in 0..n /\ m + 1 \in 1..n /\ (m + 1) - 1 = m
    OBVIOUS
  <2>2. f[m] \in Seq(T) /\ \E off : Layout(off, m, ss, f[m])
    BY <1>5, <2>1
  <2>3. PICK off : Layout(off, m, ss, f[m])
    BY <2>2
  <2>4. f[m + 1] = f[m] \o ss[m + 1] /\ ss[m + 1] \in Seq(T) /\ \A k \in 1..m : ss[k] \in Seq(T)
    <3>1. f[m + 1] = f[(m + 1) - 1] \o ss[m + 1]
      BY <1>3, <2>1
    <3>2. \A k \in 1..m : k \in 1..n
      OBVIOUS
    <3> QED BY <1>0, <2>1, <3>1, <3>2
  <2> DEFINE last == f[m] \o ss[m + 1]
             next == [k \in 0..(m + 1) |-> IF k = m + 1 THEN off[m] + Len(ss[m + 1]) ELSE off[k]]
  <2>5. last \in Seq(T) /\ Layout(next, m + 1, ss, last)
    BY <2>2, <2>3, <2>4, LayoutStep
  <2> HIDE DEF next
  <2> QED BY <2>4, <2>5
<1>6. n \in S
  <2> HIDE DEF S
  <2> QED BY <1>4, <1>5, SetInduction
<1> QED BY <1>2, <1>6

(* Later sequences begin later. *)
LEMMA LayoutGrows ==
    ASSUME NEW n \in Nat, NEW ss, NEW flat, NEW off, Layout(off, n, ss, flat),
           \A k \in 1..n : Len(ss[k]) \in Nat, NEW j \in 0..n, NEW k \in 0..n, j <= k
    PROVE  off[j] <= off[k]
<1>0. off \in [0..n -> Nat] /\ \A m \in 1..n : off[m] = off[m - 1] + Len(ss[m])
  BY DEF Layout
<1> DEFINE S == {m \in Nat : j + m \in 0..n => off[j] <= off[j + m]}
<1>1. 0 \in S
  BY <1>0
<1>2. ASSUME NEW m \in Nat, m \in S PROVE m + 1 \in S
  <2> SUFFICES ASSUME j + (m + 1) \in 0..n PROVE off[j] <= off[j + (m + 1)]
    OBVIOUS
  <2>1. j + m \in 0..n /\ j + (m + 1) \in 1..n /\ (j + (m + 1)) - 1 = j + m
    OBVIOUS
  <2>2. off[j] <= off[j + m] /\ off[j + (m + 1)] = off[j + m] + Len(ss[j + (m + 1)])
    BY <1>0, <1>2, <2>1
  <2>3. off[j] \in Nat /\ off[j + m] \in Nat /\ Len(ss[j + (m + 1)]) \in Nat
    BY <1>0, <2>1
  <2> QED BY <2>2, <2>3
<1>3. k - j \in Nat /\ j + (k - j) = k
  OBVIOUS
<1>4. k - j \in S
  <2> HIDE DEF S
  <2> QED BY <1>1, <1>2, <1>3, SetInduction
<1> QED BY <1>3, <1>4

(* The order of a flattened sequence is that of the sequences, then that within each. *)
LEMMA LayoutOrder ==
    ASSUME NEW n \in Nat, NEW ss, NEW flat, NEW off, Layout(off, n, ss, flat),
           \A k \in 1..n : Len(ss[k]) \in Nat,
           NEW j \in 1..n, NEW h \in 1..Len(ss[j]), NEW k \in 1..n, NEW i \in 1..Len(ss[k]),
           off[j - 1] + h < off[k - 1] + i
    PROVE  j < k \/ (j = k /\ h < i)
<1>0. off \in [0..n -> Nat] /\ off[k] = off[k - 1] + Len(ss[k])
  BY DEF Layout
<1>1. j \in 0..n /\ k \in 0..n /\ j - 1 \in 0..n /\ k - 1 \in 0..n
  OBVIOUS
<1>2. off[j - 1] \in Nat /\ off[k - 1] \in Nat /\ off[k] \in Nat /\ Len(ss[k]) \in Nat /\ Len(ss[j]) \in Nat
  BY <1>0, <1>1
<1>3. CASE k < j
  <2>1. k <= j - 1
    BY <1>3
  <2>2. off[k] <= off[j - 1]
    BY <1>1, <2>1, LayoutGrows
  <2> DEFINE a == off[j - 1]
             b == off[k - 1]
             d == off[k]
             l == Len(ss[k])
  <2>3. /\ a \in Nat /\ b \in Nat /\ d \in Nat /\ l \in Nat
        /\ d = b + l /\ d <= a /\ i <= l /\ a + h < b + i
    BY <1>0, <1>2, <2>2
  <2>4. h \in Nat /\ i \in Nat
    BY <1>2
  <2> HIDE DEF a, b, d, l
  <2> QED BY <2>3, <2>4
<1>4. CASE j = k
  <2> DEFINE b == off[k - 1]
  <2>1. b \in Nat /\ h \in Nat /\ i \in Nat /\ b + h < b + i
    BY <1>2, <1>4
  <2> HIDE DEF b
  <2> QED BY <1>4, <2>1
<1> QED BY <1>3, <1>4

(* The i-th of the k-th sequence is at p. *)
Located(off, ss, n, p, k, i) == k \in 1..n /\ i \in 1..Len(ss[k]) /\ p = off[k - 1] + i

LEMMA SamePlace ==
    ASSUME NEW n \in Nat, NEW ss, NEW flat, NEW off, Layout(off, n, ss, flat),
           \A k \in 1..n : Len(ss[k]) \in Nat, NEW p,
           NEW j, NEW h, Located(off, ss, n, p, j, h), NEW k, NEW i, Located(off, ss, n, p, k, i)
    PROVE  j = k /\ h = i
<1>1. /\ j \in 1..n /\ h \in 1..Len(ss[j]) /\ p = off[j - 1] + h
      /\ k \in 1..n /\ i \in 1..Len(ss[k]) /\ p = off[k - 1] + i
  BY DEF Located
<1>2. off \in [0..n -> Nat] /\ off[k] = off[k - 1] + Len(ss[k]) /\ off[j] = off[j - 1] + Len(ss[j])
  BY <1>1 DEF Layout
<1>3. j \in 0..n /\ k \in 0..n /\ j - 1 \in 0..n /\ k - 1 \in 0..n
  BY <1>1
<1>4. /\ off[j - 1] \in Nat /\ off[k - 1] \in Nat /\ off[j] \in Nat /\ off[k] \in Nat
      /\ Len(ss[k]) \in Nat /\ Len(ss[j]) \in Nat
  BY <1>1, <1>2, <1>3
<1>5. off[k - 1] < p /\ p <= off[k] /\ p \in Nat
  <2> DEFINE a == off[k - 1]
             b == off[k]
             l == Len(ss[k])
  <2>1. p = a + i /\ i \in 1..l /\ a \in Nat /\ l \in Nat /\ b = a + l
    BY <1>1, <1>2, <1>4
  <2> HIDE DEF a, b, l
  <2>2. a < p /\ p <= b /\ p \in Nat
    BY <2>1
  <2> QED BY <2>2 DEF a, b
<1>6. off[j - 1] < p /\ p <= off[j]
  <2> DEFINE a == off[j - 1]
             b == off[j]
             l == Len(ss[j])
  <2>1. p = a + h /\ h \in 1..l /\ a \in Nat /\ l \in Nat /\ b = a + l
    BY <1>1, <1>2, <1>4
  <2> HIDE DEF a, b, l
  <2>2. a < p /\ p <= b
    BY <2>1
  <2> QED BY <2>2 DEF a, b
<1>7. ~(k < j)
  <2> SUFFICES ASSUME k < j PROVE FALSE
    OBVIOUS
  <2>1. k <= j - 1
    BY <1>1
  <2>2. off[k] <= off[j - 1]
    BY <1>3, <2>1, LayoutGrows
  <2> QED BY <1>4, <1>5, <1>6, <2>2
<1>8. ~(j < k)
  <2> SUFFICES ASSUME j < k PROVE FALSE
    OBVIOUS
  <2>1. j <= k - 1
    BY <1>1
  <2>2. off[j] <= off[k - 1]
    BY <1>3, <2>1, LayoutGrows
  <2> QED BY <1>4, <1>5, <1>6, <2>2
<1>9. j = k
  BY <1>1, <1>7, <1>8
<1>10. h = i
  <2>1. off[k - 1] + h = off[k - 1] + i /\ h \in Nat /\ i \in Nat
    BY <1>1, <1>4, <1>9
  <2> QED BY <1>4, <2>1
<1> QED BY <1>9, <1>10

(* Only the lengths matter for where sequences begin. *)
LEMMA SameLayout ==
    ASSUME NEW n \in Nat, NEW ss, NEW flat, NEW off, Layout(off, n, ss, flat),
           NEW m \in Nat, NEW tt, NEW flat2, NEW off2, Layout(off2, m, tt, flat2), m <= n,
           \A k \in 1..m : Len(ss[k]) = Len(tt[k])
    PROVE  \A k \in 0..m : off2[k] = off[k]
<1>0. /\ off[0] = 0 /\ \A k \in 1..n : off[k] = off[k - 1] + Len(ss[k])
      /\ off2[0] = 0 /\ \A k \in 1..m : off2[k] = off2[k - 1] + Len(tt[k])
  BY DEF Layout
<1> DEFINE S == {k \in Nat : k \in 0..m => off2[k] = off[k]}
<1>1. 0 \in S
  BY <1>0
<1>2. ASSUME NEW k \in Nat, k \in S PROVE k + 1 \in S
  <2> SUFFICES ASSUME k + 1 \in 0..m PROVE off2[k + 1] = off[k + 1]
    OBVIOUS
  <2>1. k \in 0..m /\ k + 1 \in 1..m /\ k + 1 \in 1..n /\ (k + 1) - 1 = k
    OBVIOUS
  <2> QED BY <1>0, <1>2, <2>1
<1>3. Nat \subseteq S
  <2> HIDE DEF S
  <2> QED BY <1>1, <1>2, SetInduction
<1> QED BY <1>3

----------------------------------------------------------------------------
(* Merging. *)

AllMentions == [address: Keys, isSigner: BOOLEAN, isWritable: BOOLEAN, isProgram: BOOLEAN]

(* The mentions of an instruction's j-th account, and of its program. *)
AccountMention(ins, j) ==
    Mention(ins.accounts[j].address, ins.accounts[j].isSigner, ins.accounts[j].isWritable, FALSE)
ProgramMention(ins) == Mention(ins.program, FALSE, FALSE, TRUE)

LEMMA InstructionFacts ==
    ASSUME NEW ins \in Instructions
    PROVE  /\ ins.program \in Programs /\ ins.accounts \in Seq(AccountMetas)
           /\ Len(ins.accounts) \in Nat /\ DOMAIN ins.accounts = 1..Len(ins.accounts)
           /\ \A j \in DOMAIN ins.accounts :
                /\ ins.accounts[j].address \in Addresses
                /\ ins.accounts[j].isSigner \in BOOLEAN /\ ins.accounts[j].isWritable \in BOOLEAN
                /\ AccountMention(ins, j) \in AllMentions
           /\ ProgramMention(ins) \in AllMentions
<1> DEFINE list == ins.accounts
           T == AccountMetas
<1>1. ins.program \in Programs /\ list \in Seq(T)
  BY DEF Instructions
<1> HIDE DEF list, T
<1>2. Len(list) \in Nat /\ DOMAIN list = 1..Len(list) /\ \A j \in DOMAIN list : list[j] \in T
  BY <1>1, SeqFacts
<1>3. \A j \in DOMAIN list :
        list[j].address \in Addresses /\ list[j].isSigner \in BOOLEAN /\ list[j].isWritable \in BOOLEAN
  BY <1>2 DEF T, AccountMetas
<1>4. ASSUME NEW j \in DOMAIN list PROVE AccountMention(ins, j) \in AllMentions
  <2>1. list[j].address \in Keys
    BY <1>3 DEF Keys
  <2> QED BY <1>3, <2>1 DEF AccountMention, Mention, AllMentions, list
<1>5. ProgramMention(ins) \in AllMentions
  <2>1. ins.program \in Keys
    BY <1>1 DEF Keys
  <2> QED BY <2>1 DEF ProgramMention, Mention, AllMentions
<1> QED BY <1>1, <1>2, <1>3, <1>4, <1>5 DEF list, T

LEMMA InstructionMentionsFacts ==
    ASSUME NEW ins \in Instructions
    PROVE  LET ms == InstructionMentions(ins)
               n  == Len(ins.accounts)
           IN  /\ ms \in Seq(AllMentions) /\ Len(ms) = n + 1
               /\ \A j \in 1..n : ms[j] = AccountMention(ins, j)
               /\ ms[n + 1] = ProgramMention(ins)
<1> DEFINE n == Len(ins.accounts)
           s == [j \in DOMAIN ins.accounts |-> AccountMention(ins, j)]
           t == <<ProgramMention(ins)>>
           T == AllMentions
<1>1. InstructionMentions(ins) = s \o t
  BY DEF InstructionMentions, AccountMention, ProgramMention
<1>2. /\ n \in Nat /\ DOMAIN ins.accounts = 1..n
      /\ \A j \in DOMAIN ins.accounts : AccountMention(ins, j) \in T
      /\ ProgramMention(ins) \in T
  BY InstructionFacts
<1> HIDE DEF T, n
<1>3. s \in Seq(T) /\ Len(s) = n /\ \A j \in 1..n : s[j] = AccountMention(ins, j)
  BY <1>2
<1>4. t \in Seq(T) /\ Len(t) = 1 /\ t[1] = ProgramMention(ins)
  BY <1>2
<1> HIDE DEF s, t
<1>5. /\ s \o t \in Seq(T) /\ Len(s \o t) = Len(s) + Len(t)
      /\ \A i \in 1..Len(s) : (s \o t)[i] = s[i]
      /\ \A i \in 1..Len(t) : (s \o t)[Len(s) + i] = t[i]
  BY <1>3, <1>4, ConcatFacts
<1>6. (s \o t)[n + 1] = ProgramMention(ins)
  BY <1>3, <1>4, <1>5
<1> QED BY <1>1, <1>3, <1>4, <1>5, <1>6 DEF n, T

LEMMA RequestFacts ==
    ASSUME NEW q \in Seq(Instructions)
    PROVE  Len(q) \in Nat /\ DOMAIN q = 1..Len(q) /\ \A i \in DOMAIN q : q[i] \in Instructions
<1> DEFINE T == Instructions
<1>1. q \in Seq(T)
  OBVIOUS
<1> HIDE DEF T
<1>2. Len(q) \in Nat /\ DOMAIN q = 1..Len(q) /\ \A i \in DOMAIN q : q[i] \in T
  BY <1>1
<1> QED BY <1>2 DEF T

(* The mentions are the fee payer's and those of the instructions, no other. *)
LEMMA MentionsFacts ==
    ASSUME NEW q \in Seq(Instructions)
    PROVE  LET ms == Mentions(q)
           IN  /\ ms \in Seq(AllMentions) /\ Len(ms) \in Nat /\ 1 \in DOMAIN ms
               /\ DOMAIN ms = 1..Len(ms)
               /\ ms[1] = Mention(FeePayer, TRUE, TRUE, FALSE)
               /\ \A i \in DOMAIN q : \A j \in DOMAIN q[i].accounts :
                    \E p \in DOMAIN ms : ms[p] = AccountMention(q[i], j)
               /\ \A i \in DOMAIN q : \E p \in DOMAIN ms : ms[p] = ProgramMention(q[i])
               /\ \A p \in DOMAIN ms : p = 1 \/ \E i \in DOMAIN q :
                    \/ ms[p] = ProgramMention(q[i])
                    \/ \E j \in DOMAIN q[i].accounts : ms[p] = AccountMention(q[i], j)
<1> DEFINE n == Len(q)
           ss == [i \in DOMAIN q |-> InstructionMentions(q[i])]
           flat == FlattenSeq(ss)
           head == <<Mention(FeePayer, TRUE, TRUE, FALSE)>>
           ms == Mentions(q)
           T == AllMentions
<1>1. n \in Nat /\ DOMAIN q = 1..n /\ \A i \in DOMAIN q : q[i] \in Instructions
  BY RequestFacts
<1>2. \A i \in 1..n :
        /\ InstructionMentions(q[i]) \in Seq(T)
        /\ Len(InstructionMentions(q[i])) = Len(q[i].accounts) + 1
        /\ \A j \in 1..Len(q[i].accounts) : InstructionMentions(q[i])[j] = AccountMention(q[i], j)
        /\ InstructionMentions(q[i])[Len(q[i].accounts) + 1] = ProgramMention(q[i])
        /\ Len(q[i].accounts) \in Nat /\ DOMAIN q[i].accounts = 1..Len(q[i].accounts)
  BY <1>1, InstructionMentionsFacts, InstructionFacts
<1>3. ms = head \o flat
  BY DEF Mentions
<1>4. head \in Seq(T) /\ Len(head) = 1 /\ head[1] = Mention(FeePayer, TRUE, TRUE, FALSE)
  <2>1. Mention(FeePayer, TRUE, TRUE, FALSE) \in T
    BY DEF Mention, AllMentions, Keys
  <2> DEFINE x == Mention(FeePayer, TRUE, TRUE, FALSE)
  <2> HIDE DEF T, x
  <2>2. x \in T
    BY <2>1 DEF x
  <2>3. <<x>> \in Seq(T) /\ Len(<<x>>) = 1 /\ <<x>>[1] = x
    BY <2>2, SingleFacts
  <2> QED BY <2>3 DEF x
<1> HIDE DEF T
<1>5. DOMAIN ss = 1..n /\ ss \in Seq(Seq(T)) /\ \A i \in 1..n : ss[i] = InstructionMentions(q[i])
  <2> DEFINE U == Seq(T)
  <2>1. \A i \in 1..n : InstructionMentions(q[i]) \in U
    BY <1>2
  <2> HIDE DEF U, n
  <2>2. ss \in Seq(U)
    BY <1>1, <2>1
  <2> QED BY <1>1, <2>2 DEF U
<1> HIDE DEF ss, n
<1>6. flat \in Seq(T) /\ \E off : Layout(off, n, ss, flat)
  BY <1>1, <1>5, Flattened
<1>7. PICK off : Layout(off, n, ss, flat)
  BY <1>6
<1> HIDE DEF flat, head, ms
<1>8. /\ DOMAIN flat = 1..off[n] /\ off \in [0..n -> Nat]
      /\ \A k \in 1..n : \A i \in 1..Len(ss[k]) :
           off[k - 1] + i \in 1..off[n] /\ flat[off[k - 1] + i] = ss[k][i]
      /\ \A p \in 1..off[n] : \E k \in 1..n : \E i \in 1..Len(ss[k]) : p = off[k - 1] + i
  BY <1>7 DEF Layout
<1>9. Len(flat) \in Nat /\ DOMAIN flat = 1..Len(flat)
  BY <1>6
<1>10. /\ ms \in Seq(T) /\ Len(ms) = 1 + Len(flat) /\ DOMAIN ms = 1..(1 + Len(flat))
       /\ ms[1] = Mention(FeePayer, TRUE, TRUE, FALSE)
       /\ \A i \in DOMAIN flat : 1 + i \in DOMAIN ms /\ ms[1 + i] = flat[i]
  <2>1. /\ ms \in Seq(T) /\ Len(ms) = Len(head) + Len(flat)
        /\ DOMAIN ms = 1..(Len(head) + Len(flat))
        /\ \A i \in 1..Len(head) : ms[i] = head[i]
        /\ \A i \in 1..Len(flat) : ms[Len(head) + i] = flat[i]
    <3>1. LET u == head \o flat
          IN  /\ u \in Seq(T) /\ Len(u) = Len(head) + Len(flat)
              /\ DOMAIN u = 1..(Len(head) + Len(flat))
              /\ \A i \in 1..Len(head) : u[i] = head[i]
              /\ \A i \in 1..Len(flat) : u[Len(head) + i] = flat[i]
      <4>1. head \in Seq(T) /\ flat \in Seq(T)
        BY <1>4, <1>6
      <4> QED BY <4>1, ConcatFacts
    <3> QED BY <1>3, <3>1, Zenon
  <2>2. Len(head) = 1 /\ 1 \in 1..Len(head)
    BY <1>4
  <2>3. \A i \in 1..Len(flat) : 1 + i \in 1..(1 + Len(flat))
    BY <1>9
  <2> QED BY <1>4, <1>9, <2>1, <2>2, <2>3, Zenon
<1>11. ASSUME NEW k \in 1..n, NEW i \in 1..Len(ss[k])
       PROVE  \E p \in DOMAIN ms : ms[p] = ss[k][i]
  <2>1. off[k - 1] + i \in DOMAIN flat /\ flat[off[k - 1] + i] = ss[k][i]
    BY <1>8, Zenon
  <2> QED BY <1>10, <2>1, Zenon
<1>12. ASSUME NEW i \in DOMAIN q, NEW j \in DOMAIN q[i].accounts
       PROVE  \E p \in DOMAIN ms : ms[p] = AccountMention(q[i], j)
  <2>1. i \in 1..n
    BY <1>1
  <2> DEFINE len == Len(q[i].accounts)
  <2>3. /\ len \in Nat /\ j \in 1..len /\ Len(ss[i]) = len + 1
        /\ InstructionMentions(q[i])[j] = AccountMention(q[i], j)
    BY <1>2, <1>5, <2>1, Zenon
  <2>2. j \in 1..Len(ss[i]) /\ ss[i][j] = AccountMention(q[i], j)
    <3> HIDE DEF len
    <3>1. j \in 1..(len + 1)
      BY <2>3
    <3> QED BY <1>5, <2>1, <2>3, <3>1, Zenon
  <2> QED BY <1>11, <2>1, <2>2
<1>13. ASSUME NEW i \in DOMAIN q
       PROVE  \E p \in DOMAIN ms : ms[p] = ProgramMention(q[i])
  <2>1. i \in 1..n
    BY <1>1
  <2> DEFINE j == Len(q[i].accounts) + 1
  <2>2. j \in 1..Len(ss[i]) /\ ss[i][j] = ProgramMention(q[i])
    BY <1>2, <1>5, <2>1
  <2> HIDE DEF j
  <2> QED BY <1>11, <2>1, <2>2
<1>14. ASSUME NEW p \in DOMAIN ms, p # 1
       PROVE  \E i \in DOMAIN q :
                \/ ms[p] = ProgramMention(q[i])
                \/ \E j \in DOMAIN q[i].accounts : ms[p] = AccountMention(q[i], j)
  <2>1. p - 1 \in 1..Len(flat) /\ 1 + (p - 1) = p
    BY <1>9, <1>10, <1>14
  <2>2. p - 1 \in 1..off[n] /\ ms[p] = flat[p - 1]
    BY <1>8, <1>9, <1>10, <2>1
  <2>3. PICK k \in 1..n : \E i \in 1..Len(ss[k]) : p - 1 = off[k - 1] + i
    BY <1>8, <2>2
  <2>9. PICK i \in 1..Len(ss[k]) : p - 1 = off[k - 1] + i
    BY <2>3
  <2>4. ms[p] = ss[k][i]
    BY <1>8, <2>2, <2>9
  <2>5. k \in DOMAIN q
    BY <1>1
  <2>6. i = Len(q[k].accounts) + 1 \/ i \in DOMAIN q[k].accounts
    BY <1>2, <1>5
  <2>7. ms[p] = ProgramMention(q[k]) \/ \E j \in DOMAIN q[k].accounts : ms[p] = AccountMention(q[k], j)
    BY <1>2, <1>5, <2>4, <2>6
  <2> QED BY <2>5, <2>7
<1>15. Len(ms) \in Nat /\ 1 \in DOMAIN ms /\ DOMAIN ms = 1..Len(ms)
  BY <1>9, <1>10
<1> QED BY <1>10, <1>12, <1>13, <1>14, <1>15 DEF ms, T

LEMMA MergeFacts ==
    ASSUME NEW ms, NEW x, NEW at, at = {i \in DOMAIN ms : ms[i].address = x}
    PROVE  LET m == MergeAccountMeta(ms, x)
           IN  /\ m.address = x /\ m.firstSeenIndex = Min(at)
               /\ m.isSigner \in BOOLEAN /\ m.isWritable \in BOOLEAN /\ m.isProgram \in BOOLEAN
               /\ m.isSigner <=> \E i \in at : ms[i].isSigner
               /\ m.isWritable <=> \E i \in at : ms[i].isWritable
               /\ m.isProgram <=> \E i \in at : ms[i].isProgram
BY DEF MergeAccountMeta

(* One account for each address, known by its place as well. *)
IsMerged(M) ==
    /\ IsFiniteSet(M)
    /\ \A m \in M : /\ m.address \in Keys /\ m.firstSeenIndex \in Nat \ {0}
                    /\ m.isSigner \in BOOLEAN /\ m.isWritable \in BOOLEAN
                    /\ m.isProgram \in BOOLEAN
    /\ \A l, m \in M : l.address = m.address => l = m
    /\ \A l, m \in M : l.firstSeenIndex = m.firstSeenIndex => l = m

(* The accounts the instructions ask for. *)
Asked(q) == UNION {Range(q[i].accounts) : i \in DOMAIN q}

(* The merged accounts have what was asked for and nothing else. *)
Grants(M, q) ==
    /\ \E m \in M : m.address = FeePayer /\ m.isSigner /\ m.isWritable /\ m.firstSeenIndex = 1
    /\ \A i \in DOMAIN q : \E m \in M : m.address = q[i].program /\ m.isProgram
    /\ \A i \in DOMAIN q : \A j \in DOMAIN q[i].accounts :
         \E m \in M : /\ m.address = q[i].accounts[j].address
                      /\ q[i].accounts[j].isSigner => m.isSigner
                      /\ q[i].accounts[j].isWritable => m.isWritable
    /\ \A m \in M : m.address # FeePayer =>
         /\ m.isSigner => \E a \in Asked(q) : a.address = m.address /\ a.isSigner
         /\ m.isWritable => \E a \in Asked(q) : a.address = m.address /\ a.isWritable

LEMMA AskedFacts ==
    ASSUME NEW q, NEW i \in DOMAIN q, NEW j \in DOMAIN q[i].accounts
    PROVE  q[i].accounts[j] \in Asked(q)
BY InRange DEF Asked

LEMMA MetasFacts ==
    ASSUME NEW q \in Seq(Instructions)
    PROVE  IsMerged(AggregateAccountMetas(q)) /\ Grants(AggregateAccountMetas(q), q)
<1> DEFINE ms == Mentions(q)
           M == AggregateAccountMetas(q)
           at(x) == {i \in DOMAIN ms : ms[i].address = x}
<1>1. /\ ms \in Seq(AllMentions) /\ Len(ms) \in Nat /\ 1 \in DOMAIN ms /\ DOMAIN ms = 1..Len(ms)
      /\ ms[1] = Mention(FeePayer, TRUE, TRUE, FALSE)
      /\ \A i \in DOMAIN q : \A j \in DOMAIN q[i].accounts :
           \E p \in DOMAIN ms : ms[p] = AccountMention(q[i], j)
      /\ \A i \in DOMAIN q : \E p \in DOMAIN ms : ms[p] = ProgramMention(q[i])
      /\ \A p \in DOMAIN ms : p = 1 \/ \E i \in DOMAIN q :
           \/ ms[p] = ProgramMention(q[i])
           \/ \E j \in DOMAIN q[i].accounts : ms[p] = AccountMention(q[i], j)
  BY MentionsFacts
<1>2. M = {MergeAccountMeta(ms, x) : x \in {m.address : m \in Range(ms)}}
  BY DEF AggregateAccountMetas
<1> HIDE DEF ms, M
<1>3. \A p \in DOMAIN ms : ms[p] \in AllMentions
  <2> DEFINE T == AllMentions
  <2>1. ms \in Seq(T)
    BY <1>1
  <2> HIDE DEF T
  <2>2. \A p \in DOMAIN ms : ms[p] \in T
    BY <2>1, SeqFacts
  <2> QED BY <2>2 DEF T
<1>4. ASSUME NEW p \in DOMAIN ms
      PROVE  MergeAccountMeta(ms, ms[p].address) \in M
  <2>1. ms[p] \in Range(ms)
    BY InRange
  <2> QED BY <1>2, <2>1
<1>5. ASSUME NEW m \in M
      PROVE  \E p \in DOMAIN ms : m = MergeAccountMeta(ms, ms[p].address)
  <2>1. PICK y \in Range(ms) : m = MergeAccountMeta(ms, y.address)
    BY <1>2
  <2>2. PICK p \in DOMAIN ms : ms[p] = y
    BY InRange
  <2> QED BY <2>1, <2>2
<1>6. ASSUME NEW x
      PROVE  LET m == MergeAccountMeta(ms, x)
             IN  /\ m.address = x /\ m.firstSeenIndex = Min(at(x))
                 /\ m.isSigner \in BOOLEAN /\ m.isWritable \in BOOLEAN /\ m.isProgram \in BOOLEAN
                 /\ m.isSigner <=> \E i \in at(x) : ms[i].isSigner
                 /\ m.isWritable <=> \E i \in at(x) : ms[i].isWritable
                 /\ m.isProgram <=> \E i \in at(x) : ms[i].isProgram
  BY MergeFacts
<1>7. ASSUME NEW p \in DOMAIN ms
      PROVE  /\ Min(at(ms[p].address)) \in at(ms[p].address)
             /\ \A i \in at(ms[p].address) : Min(at(ms[p].address)) <= i
  <2> DEFINE S == at(ms[p].address)
  <2>1. S \subseteq Nat
    BY <1>1
  <2>2. p \in S
    OBVIOUS
  <2> HIDE DEF S
  <2>3. Min(S) \in S /\ \A i \in S : Min(S) <= i
    BY <2>1, <2>2, MinFacts
  <2> QED BY <2>3 DEF S
<1>8. ASSUME NEW m \in M
      PROVE  /\ m = MergeAccountMeta(ms, m.address)
             /\ m.firstSeenIndex \in DOMAIN ms /\ ms[m.firstSeenIndex].address = m.address
             /\ \A i \in at(m.address) : m.firstSeenIndex <= i
  <2>1. PICK p \in DOMAIN ms : m = MergeAccountMeta(ms, ms[p].address)
    BY <1>5
  <2>2. m.address = ms[p].address /\ m.firstSeenIndex = Min(at(ms[p].address))
    BY <1>6, <2>1
  <2>3. m.firstSeenIndex \in at(m.address) /\ \A i \in at(m.address) : m.firstSeenIndex <= i
    BY <1>7, <2>2
  <2> QED BY <2>1, <2>2, <2>3
<1>9. \A l, m \in M : l.address = m.address => l = m
  BY <1>8
<1>10. \A l, m \in M : l.firstSeenIndex = m.firstSeenIndex => l = m
  BY <1>8, <1>9
<1>11. ASSUME NEW m \in M
       PROVE  /\ m.address \in Keys /\ m.firstSeenIndex \in Nat \ {0}
              /\ m.isSigner \in BOOLEAN /\ m.isWritable \in BOOLEAN /\ m.isProgram \in BOOLEAN
  <2>1. m.firstSeenIndex \in DOMAIN ms /\ ms[m.firstSeenIndex].address = m.address
    BY <1>8
  <2>2. ms[m.firstSeenIndex].address \in Keys
    BY <1>3, <2>1 DEF AllMentions
  <2>3. m.firstSeenIndex \in Nat \ {0}
    BY <1>1, <2>1
  <2>4. m.isSigner \in BOOLEAN /\ m.isWritable \in BOOLEAN /\ m.isProgram \in BOOLEAN
    <3>1. LET l == MergeAccountMeta(ms, m.address)
          IN  l.isSigner \in BOOLEAN /\ l.isWritable \in BOOLEAN /\ l.isProgram \in BOOLEAN
      BY <1>6
    <3> QED BY <1>8, <3>1, Zenon
  <2> QED BY <2>1, <2>2, <2>3, <2>4
<1>12. IsFiniteSet(M)
  <2> DEFINE D == DOMAIN ms
             f == [p \in D |-> MergeAccountMeta(ms, ms[p].address)]
  <2>1. IsFiniteSet(D)
    BY <1>1, FS_Interval
  <2>2. f \in [D -> M] /\ \A m \in M : \E p \in D : f[p] = m
    BY <1>4, <1>5
  <2>3. f \in Surjection(D, M)
    <3> HIDE DEF f, D
    <3> QED BY <2>2 DEF Surjection
  <2> HIDE DEF f, D
  <2> QED BY <2>1, <2>3, FS_Surjection
<1>13. IsMerged(M)
  BY <1>9, <1>10, <1>11, <1>12 DEF IsMerged
<1>14. ASSUME NEW p \in DOMAIN ms
       PROVE  \E m \in M : /\ m.address = ms[p].address
                           /\ ms[p].isSigner => m.isSigner
                           /\ ms[p].isWritable => m.isWritable
                           /\ ms[p].isProgram => m.isProgram
  <2> DEFINE m == MergeAccountMeta(ms, ms[p].address)
  <2>1. p \in at(ms[p].address)
    OBVIOUS
  <2>2. m \in M
    BY <1>4
  <2>3. /\ m.address = ms[p].address
        /\ ms[p].isSigner => m.isSigner
        /\ ms[p].isWritable => m.isWritable
        /\ ms[p].isProgram => m.isProgram
    BY <1>6, <2>1
  <2> HIDE DEF m
  <2> QED BY <2>2, <2>3
<1>15. \E m \in M : m.address = FeePayer /\ m.isSigner /\ m.isWritable /\ m.firstSeenIndex = 1
  <2>1. ms[1].address = FeePayer /\ ms[1].isSigner /\ ms[1].isWritable
    BY <1>1 DEF Mention
  <2>2. PICK m \in M : m.address = FeePayer /\ m.isSigner /\ m.isWritable
    BY <1>1, <1>14, <2>1
  <2>3. 1 \in at(m.address)
    BY <1>1, <2>1, <2>2
  <2>4. m.firstSeenIndex <= 1 /\ m.firstSeenIndex \in Nat \ {0}
    BY <1>8, <1>11, <2>3
  <2>5. m.firstSeenIndex = 1
    BY <2>4
  <2> QED BY <2>2, <2>5
<1>16. ASSUME NEW i \in DOMAIN q
       PROVE  \E m \in M : m.address = q[i].program /\ m.isProgram
  <2>1. PICK p \in DOMAIN ms : ms[p] = ProgramMention(q[i])
    BY <1>1
  <2>2. ms[p].address = q[i].program /\ ms[p].isProgram
    BY <2>1 DEF ProgramMention, Mention
  <2> QED BY <1>14, <2>2
<1>17. ASSUME NEW i \in DOMAIN q, NEW j \in DOMAIN q[i].accounts
       PROVE  \E m \in M : /\ m.address = q[i].accounts[j].address
                           /\ q[i].accounts[j].isSigner => m.isSigner
                           /\ q[i].accounts[j].isWritable => m.isWritable
  <2>1. PICK p \in DOMAIN ms : ms[p] = AccountMention(q[i], j)
    BY <1>1
  <2>2. /\ ms[p].address = q[i].accounts[j].address
        /\ ms[p].isSigner = q[i].accounts[j].isSigner
        /\ ms[p].isWritable = q[i].accounts[j].isWritable
    BY <2>1 DEF AccountMention, Mention
  <2> QED BY <1>14, <2>2
<1>18. ASSUME NEW p \in DOMAIN ms, ms[p].address # FeePayer
       PROVE  /\ ms[p].isSigner => \E a \in Asked(q) : a.address = ms[p].address /\ a.isSigner
              /\ ms[p].isWritable => \E a \in Asked(q) : a.address = ms[p].address /\ a.isWritable
  <2>1. p # 1
    BY <1>1, <1>18 DEF Mention
  <2>2. PICK i \in DOMAIN q : \/ ms[p] = ProgramMention(q[i])
                              \/ \E j \in DOMAIN q[i].accounts : ms[p] = AccountMention(q[i], j)
    BY <1>1, <2>1
  <2>3. CASE ms[p] = ProgramMention(q[i])
    BY <2>3 DEF ProgramMention, Mention
  <2>4. CASE \E j \in DOMAIN q[i].accounts : ms[p] = AccountMention(q[i], j)
    <3>1. PICK j \in DOMAIN q[i].accounts : ms[p] = AccountMention(q[i], j)
      BY <2>4
    <3> DEFINE a == q[i].accounts[j]
    <3>2. a.address = ms[p].address /\ a.isSigner = ms[p].isSigner /\ a.isWritable = ms[p].isWritable
      BY <3>1 DEF AccountMention, Mention
    <3>3. a \in Asked(q)
      BY AskedFacts
    <3> HIDE DEF a
    <3> QED BY <3>2, <3>3
  <2> QED BY <2>2, <2>3, <2>4
<1>19. ASSUME NEW m \in M, m.address # FeePayer
       PROVE  /\ m.isSigner => \E a \in Asked(q) : a.address = m.address /\ a.isSigner
              /\ m.isWritable => \E a \in Asked(q) : a.address = m.address /\ a.isWritable
  <2>1. /\ m.isSigner <=> \E i \in at(m.address) : ms[i].isSigner
        /\ m.isWritable <=> \E i \in at(m.address) : ms[i].isWritable
    <3> DEFINE l == MergeAccountMeta(ms, m.address)
    <3>1. /\ l.isSigner <=> \E i \in at(m.address) : ms[i].isSigner
          /\ l.isWritable <=> \E i \in at(m.address) : ms[i].isWritable
      BY <1>6
    <3>2. l = m
      BY <1>8
    <3> HIDE DEF l
    <3> QED BY <3>1, <3>2, Zenon
  <2>2. ASSUME NEW i \in at(m.address)
        PROVE  /\ ms[i].isSigner => \E a \in Asked(q) : a.address = m.address /\ a.isSigner
               /\ ms[i].isWritable => \E a \in Asked(q) : a.address = m.address /\ a.isWritable
    BY <1>18, <1>19
  <2> HIDE DEF at
  <2> QED BY <2>1, <2>2, Zenon
<1>20. Grants(M, q)
  BY <1>15, <1>16, <1>17, <1>19, Zenon DEF Grants
<1> QED BY <1>13, <1>20 DEF M

----------------------------------------------------------------------------
(* The keys of the message itself. *)

LEMMA GroupFacts ==
    ASSUME NEW m, m.isSigner \in BOOLEAN, m.isWritable \in BOOLEAN
    PROVE  /\ AccountOrderGroup(m) \in 0..3
           /\ m.isSigner <=> AccountOrderGroup(m) <= 1
           /\ m.isSigner /\ m.isWritable <=> AccountOrderGroup(m) <= 0
           /\ m.isSigner \/ m.isWritable <=> AccountOrderGroup(m) <= 2
<1> DEFINE a == IF m.isSigner THEN 0 ELSE 2
           b == IF m.isWritable THEN 0 ELSE 1
<1>1. AccountOrderGroup(m) = a + b
  BY DEF AccountOrderGroup
<1>2. (m.isSigner /\ a = 0) \/ (~m.isSigner /\ a = 2)
  OBVIOUS
<1>3. (m.isWritable /\ b = 0) \/ (~m.isWritable /\ b = 1)
  OBVIOUS
<1> HIDE DEF a, b
<1> QED BY <1>1, <1>2, <1>3

LEMMA CompareFacts ==
    ASSUME NEW M, IsMerged(M), NEW S, S \subseteq M
    PROVE  /\ StrictTotalOrder(S, CompareStatic(S)) /\ IsFiniteSet(S)
           /\ \A x, y \in S : <<x, y>> \in CompareStatic(S) <=>
                \/ AccountOrderGroup(x) < AccountOrderGroup(y)
                \/ /\ AccountOrderGroup(x) = AccountOrderGroup(y)
                   /\ x.firstSeenIndex < y.firstSeenIndex
<1> DEFINE before == CompareStatic(S)
           G(x) == AccountOrderGroup(x)
           F(x) == x.firstSeenIndex
<1>1. \A x, y \in S : <<x, y>> \in before <=> G(x) < G(y) \/ (G(x) = G(y) /\ F(x) < F(y))
  BY DEF CompareStatic
<1>2. \A x \in S : G(x) \in 0..3
  <2>1. \A x \in S : x.isSigner \in BOOLEAN /\ x.isWritable \in BOOLEAN
    BY DEF IsMerged
  <2> QED BY <2>1, GroupFacts
<1>3. \A x \in S : F(x) \in Nat
  BY DEF IsMerged
<1>4. \A x, y \in S : F(x) = F(y) => x = y
  BY DEF IsMerged
<1>5. IsFiniteSet(S)
  BY FS_Subset DEF IsMerged
<1> HIDE DEF before, G, F
<1>6. StrictTotalOrder(S, before)
  <2>1. \A x \in S : ~(<<x, x>> \in before)
    BY <1>1, <1>2, <1>3
  <2>2. ASSUME NEW x \in S, NEW y \in S, NEW z \in S, <<x, y>> \in before, <<y, z>> \in before
        PROVE  <<x, z>> \in before
    <3>1. G(x) < G(y) \/ (G(x) = G(y) /\ F(x) < F(y))
      BY <1>1, <2>2, Zenon
    <3>2. G(y) < G(z) \/ (G(y) = G(z) /\ F(y) < F(z))
      BY <1>1, <2>2, Zenon
    <3>3. /\ G(x) \in 0..3 /\ G(y) \in 0..3 /\ G(z) \in 0..3
          /\ F(x) \in Nat /\ F(y) \in Nat /\ F(z) \in Nat
      BY <1>2, <1>3
    <3>4. G(x) < G(z) \/ (G(x) = G(z) /\ F(x) < F(z))
      BY <3>1, <3>2, <3>3
    <3> QED BY <1>1, <3>4, Zenon
  <2>3. ASSUME NEW x \in S, NEW y \in S, x # y
        PROVE  <<x, y>> \in before \/ <<y, x>> \in before
    <3>1. G(x) \in 0..3 /\ G(y) \in 0..3 /\ F(x) \in Nat /\ F(y) \in Nat /\ F(x) # F(y)
      BY <1>2, <1>3, <1>4, <2>3
    <3>2. \/ G(x) < G(y) \/ (G(x) = G(y) /\ F(x) < F(y))
          \/ G(y) < G(x) \/ (G(y) = G(x) /\ F(y) < F(x))
      BY <3>1
    <3> QED BY <1>1, <3>2, Zenon
  <2> QED BY <2>1, <2>2, <2>3 DEF StrictTotalOrder
<1> QED BY <1>1, <1>5, <1>6 DEF before, G, F

(* s is S in order; its counts tell who signs and what is written, as merged. *)
IsOrdered(s, n, nS, rS, rU, S) ==
    /\ n \in Nat /\ s \in [1..n -> S] /\ \A x \in S : \E k \in 1..n : s[k] = x
    /\ nS \in Nat /\ rS \in Nat /\ rU \in Nat /\ rS <= nS /\ nS + rU <= n
    /\ \A k \in 1..n : s[k].isSigner <=> k <= nS
    /\ \A k \in 1..n : s[k].isWritable <=> IF k <= nS THEN k <= nS - rS ELSE k <= n - rU
    /\ \A x \in S : x.isSigner /\ x.isWritable /\ x.firstSeenIndex = 1 => s[1] = x /\ 1 <= nS

LEMMA StaticFacts ==
    ASSUME NEW M, IsMerged(M), NEW S, S \subseteq M
    PROVE  IsOrdered(OrderStaticAccountMetas(S), Cardinality(S),
                     Cardinality({m \in S : m.isSigner}),
                     Cardinality({m \in S : m.isSigner /\ ~m.isWritable}),
                     Cardinality({m \in S : ~m.isSigner /\ ~m.isWritable}), S)
<1> DEFINE before == CompareStatic(S)
           s  == OrderStaticAccountMetas(S)
           n  == Cardinality(S)
           A  == {m \in S : m.isSigner}
           B  == {m \in S : m.isSigner /\ ~m.isWritable}
           C  == {m \in S : ~m.isSigner /\ ~m.isWritable}
           nS == Cardinality(A)
           rS == Cardinality(B)
           rU == Cardinality(C)
<1>1. \A x \in S : x.isSigner \in BOOLEAN /\ x.isWritable \in BOOLEAN /\ x.firstSeenIndex \in Nat \ {0}
  BY DEF IsMerged
<1>2. StrictTotalOrder(S, before) /\ IsFiniteSet(S)
  BY CompareFacts
<1>3. \A x, y \in S : <<x, y>> \in before <=>
         \/ AccountOrderGroup(x) < AccountOrderGroup(y)
         \/ AccountOrderGroup(x) = AccountOrderGroup(y) /\ x.firstSeenIndex < y.firstSeenIndex
  BY CompareFacts
<1>4. s = InOrder(S, before)
  BY DEF OrderStaticAccountMetas
<1> HIDE DEF s, before
<1>5. /\ n \in Nat /\ s \in [1..n -> S] /\ Range(s) = S
      /\ \A j, k \in DOMAIN s : j < k => <<s[j], s[k]>> \in before
  BY <1>2, <1>4, Ordered
<1>6. DOMAIN s = 1..n
  BY <1>5
<1>7. \A x \in S : \E k \in 1..n : s[k] = x
  BY <1>5, <1>6, InRange, Zenon
<1>8. \A x \in S : /\ AccountOrderGroup(x) \in 0..3
                   /\ x.isSigner <=> AccountOrderGroup(x) <= 1
                   /\ x.isSigner /\ x.isWritable <=> AccountOrderGroup(x) <= 0
                   /\ x.isSigner \/ x.isWritable <=> AccountOrderGroup(x) <= 2
  BY <1>1, GroupFacts
<1>9. A \subseteq S /\ B \subseteq A /\ C \subseteq S /\ A \cap C = {}
  OBVIOUS
<1>10. /\ \A x \in A, y \in S \ A : <<x, y>> \in before
       /\ \A x \in A \ B, y \in S \ (A \ B) : <<x, y>> \in before
       /\ \A x \in S \ C, y \in S \ (S \ C) : <<x, y>> \in before
  <2>1. ASSUME NEW x \in S, NEW y \in S, AccountOrderGroup(x) < AccountOrderGroup(y)
        PROVE  <<x, y>> \in before
    BY <1>3, <2>1
  <2>2. ASSUME NEW x \in A, NEW y \in S \ A PROVE <<x, y>> \in before
    <3>1. x \in S /\ y \in S /\ AccountOrderGroup(x) <= 1 /\ ~(AccountOrderGroup(y) <= 1)
      BY <1>8
    <3>2. AccountOrderGroup(x) < AccountOrderGroup(y)
      BY <1>8, <3>1
    <3> QED BY <2>1, <3>1, <3>2
  <2>3. ASSUME NEW x \in A \ B, NEW y \in S \ (A \ B) PROVE <<x, y>> \in before
    <3>1. x \in S /\ y \in S /\ AccountOrderGroup(x) <= 0 /\ ~(AccountOrderGroup(y) <= 0)
      BY <1>1, <1>8
    <3>2. AccountOrderGroup(x) < AccountOrderGroup(y)
      BY <1>8, <3>1
    <3> QED BY <2>1, <3>1, <3>2
  <2>4. ASSUME NEW x \in S \ C, NEW y \in S \ (S \ C) PROVE <<x, y>> \in before
    <3>1. x \in S /\ y \in S /\ AccountOrderGroup(x) <= 2 /\ ~(AccountOrderGroup(y) <= 2)
      BY <1>1, <1>8
    <3>2. AccountOrderGroup(x) < AccountOrderGroup(y)
      BY <1>8, <3>1
    <3> QED BY <2>1, <3>1, <3>2
  <2> QED BY <2>2, <2>3, <2>4
<1>11. /\ \A x \in S : x \in A <=> x.isSigner
       /\ \A x \in S : x \in A \ B <=> x.isSigner /\ x.isWritable
       /\ \A x \in S : x \in S \ C <=> x.isSigner \/ x.isWritable
  BY <1>1
<1> HIDE DEF A, B, C
<1>12. /\ nS \in Nat /\ rS \in Nat /\ rU \in Nat /\ rS <= nS /\ nS + rU <= n
       /\ Cardinality(A \ B) = nS - rS /\ Cardinality(S \ C) = n - rU
  <2>1. /\ IsFiniteSet(A) /\ nS \in Nat /\ IsFiniteSet(B) /\ rS \in Nat
        /\ IsFiniteSet(C) /\ rU \in Nat /\ rS <= nS
    BY <1>2, <1>9, FS_Subset, FS_CardinalityType
  <2>2. Cardinality(A \ B) = Cardinality(A) - Cardinality(A \cap B) /\ A \cap B = B
    BY <1>9, <2>1, FS_Difference
  <2>3. Cardinality(S \ C) = Cardinality(S) - Cardinality(S \cap C) /\ S \cap C = C
    BY <1>2, <1>9, FS_Difference
  <2>4. nS <= Cardinality(S \ C)
    <3>1. A \subseteq S \ C
      BY <1>9
    <3>2. IsFiniteSet(S \ C)
      BY <1>2, FS_Subset
    <3> QED BY <3>1, <3>2, FS_Subset
  <2>5. Cardinality(A \ B) = nS - rS /\ Cardinality(S \ C) = n - rU
    BY <2>2, <2>3
  <2> HIDE DEF n, nS, rS, rU
  <2> QED BY <1>5, <2>1, <2>4, <2>5
<1>13. /\ \A k \in DOMAIN s : s[k] \in A <=> k <= Cardinality(A)
       /\ \A k \in DOMAIN s : s[k] \in A \ B <=> k <= Cardinality(A \ B)
       /\ \A k \in DOMAIN s : s[k] \in S \ C <=> k <= Cardinality(S \ C)
  <2>1. A \subseteq S /\ A \ B \subseteq S /\ S \ C \subseteq S
    BY <1>9
  <2>2. \A k \in DOMAIN s : s[k] \in A <=> k <= Cardinality(A)
    BY <1>2, <1>4, <1>10, <2>1, Segment
  <2>3. \A k \in DOMAIN s : s[k] \in A \ B <=> k <= Cardinality(A \ B)
    <3> DEFINE D == A \ B
    <3>1. D \subseteq S /\ \A x \in D, y \in S \ D : <<x, y>> \in before
      BY <1>10, <2>1
    <3> HIDE DEF D
    <3>2. \A k \in DOMAIN s : s[k] \in D <=> k <= Cardinality(D)
      BY <1>2, <1>4, <3>1, Segment
    <3> QED BY <3>2 DEF D
  <2>4. \A k \in DOMAIN s : s[k] \in S \ C <=> k <= Cardinality(S \ C)
    <3> DEFINE D == S \ C
    <3>1. D \subseteq S /\ \A x \in D, y \in S \ D : <<x, y>> \in before
      BY <1>10, <2>1
    <3> HIDE DEF D
    <3>2. \A k \in DOMAIN s : s[k] \in D <=> k <= Cardinality(D)
      BY <1>2, <1>4, <3>1, Segment
    <3> QED BY <3>2 DEF D
  <2> QED BY <2>2, <2>3, <2>4
<1> HIDE DEF n, nS, rS, rU
<1>14. ASSUME NEW k \in 1..n
       PROVE  /\ s[k].isSigner <=> k <= nS
              /\ s[k].isWritable <=> IF k <= nS THEN k <= nS - rS ELSE k <= n - rU
  <2>1. s[k] \in S /\ k \in DOMAIN s
    BY <1>5, <1>6
  <2>2. s[k].isSigner <=> k <= nS
    BY <1>11, <1>13, <2>1 DEF nS
  <2>3. s[k].isSigner /\ s[k].isWritable <=> k <= nS - rS
    BY <1>11, <1>12, <1>13, <2>1
  <2>4. s[k].isSigner \/ s[k].isWritable <=> k <= n - rU
    BY <1>11, <1>12, <1>13, <2>1
  <2>5. s[k].isSigner \in BOOLEAN /\ s[k].isWritable \in BOOLEAN
    BY <1>1, <2>1
  <2> QED BY <2>2, <2>3, <2>4, <2>5
<1>15. ASSUME NEW x \in S, x.isSigner, x.isWritable, x.firstSeenIndex = 1
       PROVE  s[1] = x /\ 1 <= nS
  <2>1. PICK k \in 1..n : s[k] = x
    BY <1>7
  <2>2. k = 1
    <3> SUFFICES ASSUME k # 1 PROVE FALSE
      OBVIOUS
    <3>1. 1 \in DOMAIN s /\ k \in DOMAIN s /\ 1 < k /\ s[1] \in S
      BY <1>5, <1>6
    <3>2. <<s[1], x>> \in before
      BY <1>5, <2>1, <3>1
    <3>3. /\ AccountOrderGroup(x) <= 0 /\ AccountOrderGroup(x) \in 0..3
          /\ AccountOrderGroup(s[1]) \in 0..3 /\ s[1].firstSeenIndex \in Nat \ {0}
      BY <1>1, <1>8, <1>15, <3>1
    <3>4. \/ AccountOrderGroup(s[1]) < AccountOrderGroup(x)
          \/ s[1].firstSeenIndex < x.firstSeenIndex
      BY <1>3, <3>1, <3>2
    <3> QED BY <1>15, <3>3, <3>4
  <2>3. 1 <= nS
    BY <1>14, <1>15, <2>1, <2>2
  <2> QED BY <2>1, <2>2, <2>3
<1>16. IsOrdered(s, n, nS, rS, rU, S)
  BY <1>5, <1>7, <1>12, <1>14, <1>15 DEF IsOrdered
<1> QED BY <1>16 DEF s, n, nS, rS, rU, A, B, C

----------------------------------------------------------------------------
(* Lookup tables. *)

LEMMA TablesFacts ==
    ASSUME NEW B \in Seq(Seq(Keys))
    PROVE  /\ Len(B) \in Nat /\ DOMAIN B = 1..Len(B)
           /\ \A t \in DOMAIN B : /\ B[t] \in Seq(Keys) /\ Len(B[t]) \in Nat
                                  /\ DOMAIN B[t] = 1..Len(B[t])
                                  /\ \A j \in DOMAIN B[t] : B[t][j] \in Keys
<1> DEFINE T == Seq(Keys)
<1>1. Len(B) \in Nat /\ DOMAIN B = 1..Len(B) /\ \A t \in DOMAIN B : B[t] \in T
  <2>1. B \in Seq(T)
    OBVIOUS
  <2> HIDE DEF T
  <2> QED BY <2>1, SeqFacts
<1>2. ASSUME NEW t \in DOMAIN B
      PROVE  /\ Len(B[t]) \in Nat /\ DOMAIN B[t] = 1..Len(B[t])
             /\ \A j \in DOMAIN B[t] : B[t][j] \in Keys
  <2>1. B[t] \in Seq(Keys)
    BY <1>1
  <2> QED BY <2>1, SeqFacts
<1> QED BY <1>1, <1>2

(* What is placed in a table is found there, in its first such table. *)
LEMMA PlacedFacts ==
    ASSUME NEW B \in Seq(Seq(Keys)), NEW m, Placed(m, B)
    PROVE  LET t == Min(TablesWith(m, B))
           IN  t \in DOMAIN B /\ \E j \in DOMAIN B[t] : B[t][j] = m.address
<1> DEFINE S == TablesWith(m, B)
<1>1. S \subseteq Nat /\ S # {}
  <2>1. \A t \in DOMAIN B : t \in Nat
    BY TablesFacts
  <2> QED BY <2>1 DEF Placed, TablesWith
<1>2. Min(S) \in S
  <2> HIDE DEF S
  <2> QED BY <1>1, MinFacts
<1>3. Min(S) \in DOMAIN B /\ m.address \in Range(B[Min(S)])
  BY <1>2 DEF TablesWith
<1> QED BY <1>3, InRange

LEMMA LookupIndexesFacts ==
    ASSUME NEW M, IsMerged(M), NEW B \in Seq(Seq(Keys)), NEW t \in DOMAIN B, NEW w \in BOOLEAN
    PROVE  LET s == LookupIndexes(M, B, t, w)
               H == PlacedIn(M, B, t, w)
           IN  /\ s \in Seq(Nat)
               /\ \A k \in DOMAIN s : /\ s[k] + 1 \in DOMAIN B[t]
                                      /\ \E m \in H : B[t][s[k] + 1] = m.address
               /\ \A m \in H : \E k \in DOMAIN s : B[t][s[k] + 1] = m.address
<1> DEFINE H == PlacedIn(M, B, t, w)
           before == FirstSeen(H)
           o == InOrder(H, before)
           c == Cardinality(H)
           first(m) == Min({j \in DOMAIN B[t] : B[t][j] = m.address})
           s == LookupIndexes(M, B, t, w)
<1>1. s = [k \in DOMAIN o |-> first(o[k]) - 1]
  BY DEF LookupIndexes
<1>2. H \subseteq M /\ \A m \in H : Placed(m, B) /\ Min(TablesWith(m, B)) = t
  BY DEF PlacedIn
<1>3. \A x, y \in H : <<x, y>> \in before <=> x.firstSeenIndex < y.firstSeenIndex
  BY DEF FirstSeen
<1>4. DOMAIN B[t] \subseteq Nat \ {0}
  BY TablesFacts
<1>5. ASSUME NEW m \in H
      PROVE  first(m) \in DOMAIN B[t] /\ B[t][first(m)] = m.address /\ first(m) - 1 \in Nat
  <2> DEFINE S == {j \in DOMAIN B[t] : B[t][j] = m.address}
  <2>1. \E j \in DOMAIN B[t] : B[t][j] = m.address
    BY <1>2, PlacedFacts
  <2>2. S \subseteq Nat /\ S # {}
    BY <1>4, <2>1
  <2>3. Min(S) \in S
    <3> HIDE DEF S
    <3> QED BY <2>2, MinFacts
  <2> QED BY <1>4, <2>3
<1> HIDE DEF H, before, s, first
<1>6. IsFiniteSet(H)
  BY <1>2, FS_Subset DEF IsMerged
<1>7. StrictTotalOrder(H, before)
  <2>1. \A x \in H : x.firstSeenIndex \in Nat
    BY <1>2 DEF IsMerged
  <2>2. \A x, y \in H : x.firstSeenIndex = y.firstSeenIndex => x = y
    BY <1>2 DEF IsMerged
  <2>3. \A x \in H : ~(<<x, x>> \in before)
    BY <1>3, <2>1
  <2>4. ASSUME NEW x \in H, NEW y \in H, NEW z \in H, <<x, y>> \in before, <<y, z>> \in before
        PROVE  <<x, z>> \in before
    <3>1. x.firstSeenIndex < y.firstSeenIndex /\ y.firstSeenIndex < z.firstSeenIndex
      BY <1>3, <2>4
    <3>2. x.firstSeenIndex \in Nat /\ y.firstSeenIndex \in Nat /\ z.firstSeenIndex \in Nat
      BY <2>1
    <3>3. x.firstSeenIndex < z.firstSeenIndex
      BY <3>1, <3>2
    <3> QED BY <1>3, <3>3
  <2>5. ASSUME NEW x \in H, NEW y \in H, x # y PROVE <<x, y>> \in before \/ <<y, x>> \in before
    <3>1. x.firstSeenIndex \in Nat /\ y.firstSeenIndex \in Nat /\ x.firstSeenIndex # y.firstSeenIndex
      BY <2>1, <2>2, <2>5
    <3>2. x.firstSeenIndex < y.firstSeenIndex \/ y.firstSeenIndex < x.firstSeenIndex
      BY <3>1
    <3> QED BY <1>3, <3>2
  <2> QED BY <2>3, <2>4, <2>5 DEF StrictTotalOrder
<1>8. c \in Nat /\ o \in [1..c -> H] /\ Range(o) = H
  BY <1>6, <1>7, Ordered
<1> HIDE DEF o, c
<1>9. DOMAIN s = 1..c /\ DOMAIN o = 1..c /\ \A k \in 1..c : s[k] = first(o[k]) - 1 /\ o[k] \in H
  BY <1>1, <1>8
<1>10. s \in Seq(Nat)
  <2>1. \A k \in 1..c : s[k] \in Nat
    BY <1>5, <1>9
  <2>2. s = [k \in 1..c |-> s[k]]
    BY <1>1, <1>9
  <2> QED BY <1>8, <2>1, <2>2, IsSequence
<1>11. ASSUME NEW k \in DOMAIN s
       PROVE  s[k] + 1 \in DOMAIN B[t] /\ B[t][s[k] + 1] = o[k].address /\ o[k] \in H
  <2>1. s[k] = first(o[k]) - 1 /\ o[k] \in H
    BY <1>9
  <2>2. first(o[k]) \in DOMAIN B[t] /\ B[t][first(o[k])] = o[k].address
    BY <1>5, <2>1
  <2>3. s[k] + 1 = first(o[k])
    BY <1>4, <2>1, <2>2
  <2> QED BY <2>1, <2>2, <2>3
<1>12. ASSUME NEW m \in H PROVE \E k \in DOMAIN s : B[t][s[k] + 1] = m.address
  <2>1. PICK k \in DOMAIN o : o[k] = m
    BY <1>8, InRange
  <2> QED BY <1>9, <1>11, <2>1
<1> QED BY <1>10, <1>11, <1>12 DEF s, H

(* One half of a lookup. *)
PartOf(l, w) == IF w THEN l.writableIndexes ELSE l.readonlyIndexes

AllLookups == [table: Nat, writableIndexes: Seq(Nat), readonlyIndexes: Seq(Nat)]

(* Every entry of the lookups exists. *)
IsLookups(ls, B) ==
    /\ ls \in Seq(AllLookups)
    /\ \A k \in DOMAIN ls : ls[k].table \in DOMAIN B
    /\ \A k \in DOMAIN ls, w \in BOOLEAN :
         /\ PartOf(ls[k], w) \in Seq(Nat)
         /\ \A i \in DOMAIN PartOf(ls[k], w) : PartOf(ls[k], w)[i] + 1 \in DOMAIN B[ls[k].table]

LEMMA LookupFacts ==
    ASSUME NEW M, IsMerged(M), NEW B \in Seq(Seq(Keys)), NEW t \in DOMAIN B
    PROVE  /\ Lookup(M, B, t) \in AllLookups /\ Lookup(M, B, t).table = t
           /\ \A w \in BOOLEAN : PartOf(Lookup(M, B, t), w) = LookupIndexes(M, B, t, w)
           /\ \A w \in BOOLEAN : LookupIndexes(M, B, t, w) \in Seq(Nat)
<1>1. \A w \in BOOLEAN : LookupIndexes(M, B, t, w) \in Seq(Nat)
  BY LookupIndexesFacts
<1>2. t \in Nat
  BY TablesFacts
<1> DEFINE x == LookupIndexes(M, B, t, TRUE)
           y == LookupIndexes(M, B, t, FALSE)
<1>3. x \in Seq(Nat) /\ y \in Seq(Nat) /\ Lookup(M, B, t)
         = [table |-> t, writableIndexes |-> x, readonlyIndexes |-> y]
  BY <1>1 DEF Lookup
<1>4. PartOf(Lookup(M, B, t), TRUE) = x /\ PartOf(Lookup(M, B, t), FALSE) = y
  <2> HIDE DEF x, y
  <2> QED BY <1>3 DEF PartOf
<1>5. ASSUME NEW w \in BOOLEAN PROVE PartOf(Lookup(M, B, t), w) = LookupIndexes(M, B, t, w)
  <2>1. CASE w = TRUE
    BY <1>4, <2>1, Zenon
  <2>2. CASE w = FALSE
    BY <1>4, <2>2, Zenon
  <2> QED BY <2>1, <2>2
<1>6. Lookup(M, B, t) \in AllLookups /\ Lookup(M, B, t).table = t
  <2> HIDE DEF x, y
  <2> QED BY <1>2, <1>3 DEF AllLookups
<1> QED BY <1>1, <1>5, <1>6

(* What is placed is looked up, and nothing else. *)
LEMMA LookupsFacts ==
    ASSUME NEW M, IsMerged(M), NEW B \in Seq(Seq(Keys))
    PROVE  LET ls == PlaceAccountsInLookupTables(M, B)
           IN  /\ IsLookups(ls, B)
               /\ \A k \in DOMAIN ls : ls[k] = Lookup(M, B, ls[k].table)
               /\ \A m \in M : Placed(m, B) =>
                    \E k \in DOMAIN ls : ls[k].table = Min(TablesWith(m, B))
<1> DEFINE n == Len(B)
           all == [t \in DOMAIN B |-> Lookup(M, B, t)]
           P == {t \in DOMAIN B : all[t].writableIndexes # <<>> \/ all[t].readonlyIndexes # <<>>}
           ls == PlaceAccountsInLookupTables(M, B)
<1>1. ls = At(all, P)
  BY DEF PlaceAccountsInLookupTables
<1>2. n \in Nat /\ DOMAIN B = 1..n
  BY TablesFacts
<1>3. \A t \in DOMAIN B : all[t] = Lookup(M, B, t)
  OBVIOUS
<1>4. DOMAIN all = 1..n /\ P \subseteq 1..n
  BY <1>2
<1>5. ASSUME NEW m \in M, Placed(m, B) PROVE Min(TablesWith(m, B)) \in P
  <2> DEFINE t == Min(TablesWith(m, B))
             w == m.isWritable
  <2>1. t \in DOMAIN B
    BY <1>5, PlacedFacts
  <2>2. w \in BOOLEAN
    BY DEF IsMerged
  <2> DEFINE H == PlacedIn(M, B, t, w)
             s == LookupIndexes(M, B, t, w)
  <2>3. m \in H
    BY <1>5 DEF PlacedIn
  <2> HIDE DEF t, w
  <2>4. \E k \in DOMAIN s : B[t][s[k] + 1] = m.address
    <3>1. \A x \in H : \E k \in DOMAIN s : B[t][s[k] + 1] = x.address
      BY <2>1, <2>2, LookupIndexesFacts
    <3> QED BY <2>3, <3>1
  <2>5. s # <<>>
    <3> HIDE DEF s
    <3> QED BY <2>4
  <2>6. s = PartOf(Lookup(M, B, t), w)
    BY <2>1, <2>2, LookupFacts
  <2>7. all[t].writableIndexes # <<>> \/ all[t].readonlyIndexes # <<>>
    <3>1. all[t] = Lookup(M, B, t)
      BY <1>3, <2>1
    <3> HIDE DEF s, all
    <3> QED BY <2>2, <2>5, <2>6, <3>1 DEF PartOf
  <2> QED BY <2>1, <2>7 DEF t
<1> HIDE DEF P, all, ls, n
<1>6. \E order, c : Selects(order, c, At(all, P), all, P)
  BY <1>2, <1>4, AtFacts
<1>7. PICK order, c : Selects(order, c, ls, all, P)
  BY <1>1, <1>6
<1>8. /\ c \in Nat /\ DOMAIN ls = 1..c /\ order \in [1..c -> P]
      /\ \A x \in P : \E k \in 1..c : order[k] = x
      /\ ls = [k \in 1..c |-> ls[k]] /\ \A k \in 1..c : ls[k] = all[order[k]]
  BY <1>7 DEF Selects
<1>9. ASSUME NEW k \in DOMAIN ls
      PROVE  order[k] \in DOMAIN B /\ ls[k] = Lookup(M, B, order[k]) /\ ls[k].table = order[k]
  <2>1. order[k] \in DOMAIN B
    BY <1>2, <1>4, <1>8
  <2>2. ls[k] = Lookup(M, B, order[k])
    BY <1>3, <1>8, <2>1
  <2> QED BY <2>1, <2>2, LookupFacts
<1>10. ls \in Seq(AllLookups)
  <2> DEFINE T == AllLookups
  <2>1. \A k \in 1..c : ls[k] \in T
    BY <1>8, <1>9, LookupFacts
  <2>2. ls = [k \in 1..c |-> ls[k]]
    BY <1>8
  <2> HIDE DEF T
  <2>3. ls \in Seq(T)
    BY <1>8, <2>1, <2>2, IsSequence
  <2> QED BY <2>3 DEF T
<1>11. ASSUME NEW k \in DOMAIN ls, NEW w \in BOOLEAN
       PROVE  /\ PartOf(ls[k], w) \in Seq(Nat)
              /\ \A i \in DOMAIN PartOf(ls[k], w) : PartOf(ls[k], w)[i] + 1 \in DOMAIN B[ls[k].table]
  <2> DEFINE t == order[k]
             s == LookupIndexes(M, B, t, w)
  <2>1. t \in DOMAIN B /\ ls[k].table = t /\ PartOf(ls[k], w) = s
    BY <1>9, LookupFacts
  <2> HIDE DEF t
  <2>2. s \in Seq(Nat) /\ \A i \in DOMAIN s : s[i] + 1 \in DOMAIN B[t]
    BY <2>1, LookupIndexesFacts
  <2> HIDE DEF s
  <2> QED BY <2>1, <2>2, Zenon
<1>12. IsLookups(ls, B)
  BY <1>9, <1>10, <1>11 DEF IsLookups
<1>13. \A k \in DOMAIN ls : ls[k] = Lookup(M, B, ls[k].table)
  BY <1>9
<1>14. ASSUME NEW m \in M, Placed(m, B)
       PROVE  \E k \in DOMAIN ls : ls[k].table = Min(TablesWith(m, B))
  <2> DEFINE t == Min(TablesWith(m, B))
  <2>1. t \in P
    BY <1>5, <1>14
  <2> HIDE DEF t
  <2>2. PICK k \in DOMAIN ls : order[k] = t
    BY <1>8, <2>1
  <2> QED BY <1>9, <2>2 DEF t
<1> QED BY <1>12, <1>13, <1>14 DEF ls

----------------------------------------------------------------------------
(* Loaded accounts. *)

Parts(ls, B, w) == [k \in DOMAIN ls |-> AddressesAt(B, ls[k].table, PartOf(ls[k], w))]

LEMMA LoadedAreParts ==
    ASSUME NEW ls, NEW B
    PROVE  /\ WritableLoadedAddresses(ls, B) = FlattenSeq(Parts(ls, B, TRUE))
           /\ ReadonlyLoadedAddresses(ls, B) = FlattenSeq(Parts(ls, B, FALSE))
<1>1. \A l : PartOf(l, TRUE) = l.writableIndexes /\ PartOf(l, FALSE) = l.readonlyIndexes
  BY DEF PartOf
<1>2. Parts(ls, B, TRUE) = [k \in DOMAIN ls |-> AddressesAt(B, ls[k].table, ls[k].writableIndexes)]
  BY DEF Parts, PartOf
<1>3. Parts(ls, B, FALSE) = [k \in DOMAIN ls |-> AddressesAt(B, ls[k].table, ls[k].readonlyIndexes)]
  BY DEF Parts, PartOf
<1> QED BY <1>2, <1>3, Zenon DEF WritableLoadedAddresses, ReadonlyLoadedAddresses

ArePartsOf(ss, n, ls, B, w) ==
    /\ n \in Nat /\ DOMAIN ls = 1..n /\ DOMAIN ss = 1..n /\ ss \in Seq(Seq(Keys))
    /\ \A k \in 1..n : /\ Len(ss[k]) \in Nat /\ Len(ss[k]) = Len(PartOf(ls[k], w))
                       /\ DOMAIN PartOf(ls[k], w) = 1..Len(ss[k])
                       /\ \A i \in 1..Len(ss[k]) :
                            ss[k][i] = B[ls[k].table][PartOf(ls[k], w)[i] + 1]

LEMMA PartsFacts ==
    ASSUME NEW B \in Seq(Seq(Keys)), NEW ls, IsLookups(ls, B), NEW w \in BOOLEAN
    PROVE  ArePartsOf(Parts(ls, B, w), Len(ls), ls, B, w)
<1> DEFINE ss == Parts(ls, B, w)
           n == Len(ls)
<1>1. n \in Nat /\ DOMAIN ls = 1..n
  <2>1. ls \in Seq(AllLookups)
    BY DEF IsLookups
  <2> QED BY <2>1, SeqFacts
<1>2. DOMAIN ss = DOMAIN ls /\ ss = [k \in DOMAIN ls |-> ss[k]]
  BY DEF Parts
<1>3. ASSUME NEW k \in DOMAIN ls
      PROVE  /\ ss[k] \in Seq(Keys) /\ Len(ss[k]) \in Nat /\ Len(ss[k]) = Len(PartOf(ls[k], w))
             /\ DOMAIN PartOf(ls[k], w) = 1..Len(ss[k])
             /\ \A i \in 1..Len(ss[k]) : ss[k][i] = B[ls[k].table][PartOf(ls[k], w)[i] + 1]
  <2> DEFINE part == PartOf(ls[k], w)
             table == B[ls[k].table]
             len == Len(part)
             x == ss[k]
  <2>1. x = [i \in DOMAIN part |-> table[part[i] + 1]]
    BY DEF Parts, AddressesAt
  <2>2. part \in Seq(Nat) /\ \A i \in DOMAIN part : part[i] + 1 \in DOMAIN table
    BY Zenon DEF IsLookups
  <2>3. \A j \in DOMAIN table : table[j] \in Keys
    <3>1. ls[k].table \in DOMAIN B
      BY DEF IsLookups
    <3> QED BY <3>1, TablesFacts
  <2> HIDE DEF part, table, x
  <2>4. len \in Nat /\ DOMAIN part = 1..len
    BY <2>2, SeqFacts
  <2>5. DOMAIN x = 1..len /\ \A i \in 1..len : x[i] = table[part[i] + 1] /\ x[i] \in Keys
    BY <2>1, <2>2, <2>3, <2>4
  <2>6. x = [i \in 1..len |-> x[i]]
    BY <2>1, <2>4
  <2>7. x \in Seq(Keys) /\ Len(x) = len
    <3> HIDE DEF len
    <3> QED BY <2>4, <2>5, <2>6, IsSequence
  <2> QED BY <2>4, <2>5, <2>7 DEF part, table, x
<1>4. ss \in Seq(Seq(Keys))
  <2> DEFINE T == Seq(Keys)
  <2>1. \A k \in 1..n : ss[k] \in T
    BY <1>1, <1>3
  <2>2. ss = [k \in 1..n |-> ss[k]]
    BY <1>1, <1>2, Zenon
  <2> HIDE DEF T, ss, n
  <2>3. ss \in Seq(T)
    BY <1>1, <2>1, <2>2, IsSequence
  <2> QED BY <2>3 DEF T
<1>5. DOMAIN ss = 1..n
  BY <1>1, <1>2, Zenon
<1> HIDE DEF ss, n
<1>6. ArePartsOf(ss, n, ls, B, w)
  BY <1>1, <1>3, <1>4, <1>5, Zenon DEF ArePartsOf
<1> QED BY <1>6 DEF ss, n

(* The tables C are the tables B with more addresses. *)
Extends(C, B) ==
    /\ B \in Seq(Seq(Keys)) /\ C \in Seq(Seq(Keys)) /\ DOMAIN C = DOMAIN B
    /\ \A t \in DOMAIN B : Len(B[t]) <= Len(C[t]) /\ \A i \in 1..Len(B[t]) : C[t][i] = B[t][i]

(* What was looked up is still there. *)
LEMMA GrownTables ==
    ASSUME NEW B, NEW C, Extends(C, B), NEW ls, IsLookups(ls, B)
    PROVE  IsLookups(ls, C) /\ \A w \in BOOLEAN : Parts(ls, C, w) = Parts(ls, B, w)
<1>1. /\ B \in Seq(Seq(Keys)) /\ C \in Seq(Seq(Keys)) /\ DOMAIN C = DOMAIN B
      /\ \A t \in DOMAIN B : Len(B[t]) <= Len(C[t]) /\ \A i \in 1..Len(B[t]) : C[t][i] = B[t][i]
  BY DEF Extends
<1>2. ASSUME NEW t \in DOMAIN B, NEW j \in DOMAIN B[t] PROVE j \in DOMAIN C[t] /\ C[t][j] = B[t][j]
  <2>1. /\ DOMAIN B[t] = 1..Len(B[t]) /\ DOMAIN C[t] = 1..Len(C[t])
        /\ Len(B[t]) \in Nat /\ Len(C[t]) \in Nat
    BY <1>1, TablesFacts
  <2>2. Len(B[t]) <= Len(C[t]) /\ C[t][j] = B[t][j]
    BY <1>1, <2>1
  <2> QED BY <2>1, <2>2
<1>3. /\ ls \in Seq(AllLookups) /\ \A k \in DOMAIN ls : ls[k].table \in DOMAIN B
      /\ \A k \in DOMAIN ls, w \in BOOLEAN :
           /\ PartOf(ls[k], w) \in Seq(Nat)
           /\ \A i \in DOMAIN PartOf(ls[k], w) : PartOf(ls[k], w)[i] + 1 \in DOMAIN B[ls[k].table]
  BY DEF IsLookups
<1>4. IsLookups(ls, C)
  BY <1>1, <1>2, <1>3, Zenon DEF IsLookups
<1>5. ASSUME NEW w \in BOOLEAN PROVE Parts(ls, C, w) = Parts(ls, B, w)
  <2>1. ASSUME NEW k \in DOMAIN ls
        PROVE  AddressesAt(C, ls[k].table, PartOf(ls[k], w)) = AddressesAt(B, ls[k].table, PartOf(ls[k], w))
    <3> DEFINE part == PartOf(ls[k], w)
               t == ls[k].table
    <3>1. t \in DOMAIN B /\ \A i \in DOMAIN part : part[i] + 1 \in DOMAIN B[t]
      BY <1>3, Zenon
    <3> HIDE DEF part, t
    <3>2. \A i \in DOMAIN part : C[t][part[i] + 1] = B[t][part[i] + 1]
      BY <1>2, <3>1
    <3>3. AddressesAt(C, t, part) = AddressesAt(B, t, part)
      BY <3>2, Zenon DEF AddressesAt
    <3> QED BY <3>3 DEF part, t
  <2> QED BY <2>1, Zenon DEF Parts
<1> QED BY <1>4, <1>5

(* The accounts loaded from the tables are those that were placed in them. *)
LoadsPlaced(W, M, B, w) ==
    /\ W \in Seq(Keys)
    /\ \A p \in DOMAIN W : \E m \in M : Placed(m, B) /\ m.isWritable = w /\ W[p] = m.address
    /\ \A m \in M : Placed(m, B) /\ m.isWritable = w => \E p \in DOMAIN W : W[p] = m.address

LEMMA LoadedFacts ==
    ASSUME NEW M, IsMerged(M), NEW B \in Seq(Seq(Keys)), NEW w \in BOOLEAN
    PROVE  LoadsPlaced(FlattenSeq(Parts(PlaceAccountsInLookupTables(M, B), B, w)), M, B, w)
<1> DEFINE ls == PlaceAccountsInLookupTables(M, B)
           ss == Parts(ls, B, w)
           n == Len(ls)
           W == FlattenSeq(ss)
<1>1. /\ IsLookups(ls, B) /\ \A k \in DOMAIN ls : ls[k] = Lookup(M, B, ls[k].table)
      /\ \A m \in M : Placed(m, B) => \E k \in DOMAIN ls : ls[k].table = Min(TablesWith(m, B))
  BY LookupsFacts
<1> HIDE DEF ls
<1>2. /\ n \in Nat /\ DOMAIN ls = 1..n /\ DOMAIN ss = 1..n /\ ss \in Seq(Seq(Keys))
      /\ \A k \in 1..n : /\ Len(ss[k]) \in Nat /\ Len(ss[k]) = Len(PartOf(ls[k], w))
                         /\ DOMAIN PartOf(ls[k], w) = 1..Len(ss[k])
                         /\ \A i \in 1..Len(ss[k]) :
                              ss[k][i] = B[ls[k].table][PartOf(ls[k], w)[i] + 1]
  <2>1. ArePartsOf(ss, n, ls, B, w)
    BY <1>1, PartsFacts
  <2> HIDE DEF ss, n
  <2> QED BY <2>1, Zenon DEF ArePartsOf
<1> HIDE DEF ss, n
<1>3. W \in Seq(Keys) /\ \E off : Layout(off, n, ss, W)
  BY <1>2, Flattened
<1>4. PICK off : Layout(off, n, ss, W)
  BY <1>3
<1> HIDE DEF W
<1>5. /\ DOMAIN W = 1..off[n]
      /\ \A k \in 1..n : \A i \in 1..Len(ss[k]) :
           off[k - 1] + i \in 1..off[n] /\ W[off[k - 1] + i] = ss[k][i]
      /\ \A p \in 1..off[n] : \E k \in 1..n : \E i \in 1..Len(ss[k]) : p = off[k - 1] + i
  BY <1>4 DEF Layout
<1>6. ASSUME NEW k \in 1..n
      PROVE  LET s == PartOf(ls[k], w)
                 t == ls[k].table
             IN  /\ \A i \in DOMAIN s : \E m \in PlacedIn(M, B, t, w) : B[t][s[i] + 1] = m.address
                 /\ \A m \in PlacedIn(M, B, t, w) : \E i \in DOMAIN s : B[t][s[i] + 1] = m.address
  <2> DEFINE t == ls[k].table
  <2>1. t \in DOMAIN B
    BY <1>1, <1>2 DEF IsLookups
  <2>2. ls[k] = Lookup(M, B, t)
    BY <1>1, <1>2
  <2> HIDE DEF t
  <2>3. PartOf(ls[k], w) = LookupIndexes(M, B, t, w)
    BY <2>1, <2>2, LookupFacts
  <2> DEFINE s == LookupIndexes(M, B, t, w)
             H == PlacedIn(M, B, t, w)
  <2>4. /\ \A i \in DOMAIN s : \E m \in H : B[t][s[i] + 1] = m.address
        /\ \A m \in H : \E i \in DOMAIN s : B[t][s[i] + 1] = m.address
    BY <2>1, LookupIndexesFacts
  <2> HIDE DEF s, H
  <2>5. PartOf(ls[k], w) = s
    BY <2>3 DEF s
  <2> QED BY <2>4, <2>5, Zenon DEF t, H
<1>7. ASSUME NEW p \in DOMAIN W
      PROVE  \E m \in M : Placed(m, B) /\ m.isWritable = w /\ W[p] = m.address
  <2>1. PICK k \in 1..n : \E i \in 1..Len(ss[k]) : p = off[k - 1] + i
    BY <1>5
  <2>2. PICK i \in 1..Len(ss[k]) : p = off[k - 1] + i
    BY <2>1
  <2> DEFINE part == PartOf(ls[k], w)
             t == ls[k].table
  <2>3. W[p] = B[t][part[i] + 1] /\ i \in DOMAIN part
    <3>1. W[p] = ss[k][i]
      BY <1>5, <2>2, Zenon
    <3>2. ss[k][i] = B[t][part[i] + 1] /\ i \in DOMAIN part
      BY <1>2, Zenon
    <3> QED BY <3>1, <3>2, Zenon
  <2>4. \A j \in DOMAIN part : \E m \in PlacedIn(M, B, t, w) : B[t][part[j] + 1] = m.address
    BY <1>6
  <2> HIDE DEF part, t
  <2>5. PICK m \in PlacedIn(M, B, t, w) : B[t][part[i] + 1] = m.address
    BY <2>3, <2>4
  <2>6. m \in M /\ Placed(m, B) /\ m.isWritable = w
    BY DEF PlacedIn
  <2> QED BY <2>3, <2>5, <2>6
<1>8. ASSUME NEW m \in M, Placed(m, B), m.isWritable = w
      PROVE  \E p \in DOMAIN W : W[p] = m.address
  <2>1. PICK k \in DOMAIN ls : ls[k].table = Min(TablesWith(m, B))
    BY <1>1, <1>8
  <2> DEFINE part == PartOf(ls[k], w)
             t == ls[k].table
  <2>2. k \in 1..n
    BY <1>2
  <2>3. m \in PlacedIn(M, B, t, w)
    BY <1>8, <2>1 DEF PlacedIn
  <2>4. \A y \in PlacedIn(M, B, t, w) : \E i \in DOMAIN part : B[t][part[i] + 1] = y.address
    BY <1>6, <2>2
  <2> HIDE DEF part, t
  <2>5. PICK i \in DOMAIN part : B[t][part[i] + 1] = m.address
    BY <2>3, <2>4
  <2>6. i \in 1..Len(ss[k]) /\ ss[k][i] = m.address
    BY <1>2, <2>2, <2>5, Zenon DEF part, t
  <2>7. off[k - 1] + i \in DOMAIN W /\ W[off[k - 1] + i] = m.address
    BY <1>5, <2>2, <2>6, Zenon
  <2> QED BY <2>7, Zenon
<1>9. LoadsPlaced(W, M, B, w)
  BY <1>3, <1>7, <1>8 DEF LoadsPlaced
<1> QED BY <1>9 DEF W, ss, ls

----------------------------------------------------------------------------
(* The message, and how the runtime reads it. *)

AllAccounts == [address: Keys, isSigner: BOOLEAN, isWritable: BOOLEAN]

(* u is the concatenation of s1, s2 and s3. *)
InThree(u, s1, s2, s3) ==
    /\ Len(s1) \in Nat /\ Len(s2) \in Nat /\ Len(s3) \in Nat
    /\ DOMAIN u = 1..(Len(s1) + Len(s2) + Len(s3)) /\ Len(u) = Len(s1) + Len(s2) + Len(s3)
    /\ \A i \in 1..Len(s1) : i \in DOMAIN u /\ u[i] = s1[i]
    /\ \A i \in 1..Len(s2) : Len(s1) + i \in DOMAIN u /\ u[Len(s1) + i] = s2[i]
    /\ \A i \in 1..Len(s3) : /\ Len(s1) + Len(s2) + i \in DOMAIN u
                             /\ u[Len(s1) + Len(s2) + i] = s3[i]
    /\ \A p \in DOMAIN u : \/ p \in 1..Len(s1)
                           \/ \E i \in 1..Len(s2) : p = Len(s1) + i
                           \/ \E i \in 1..Len(s3) : p = Len(s1) + Len(s2) + i

LEMMA ThreeFacts ==
    ASSUME NEW T, NEW s1 \in Seq(T), NEW s2 \in Seq(T), NEW s3 \in Seq(T)
    PROVE  s1 \o s2 \o s3 \in Seq(T) /\ InThree(s1 \o s2 \o s3, s1, s2, s3)
<1> DEFINE v == s1 \o s2
           u == v \o s3
           a == Len(s1)
           b == Len(s2)
           c == Len(s3)
<1>1. /\ v \in Seq(T) /\ a \in Nat /\ b \in Nat /\ Len(v) = a + b
      /\ \A i \in 1..a : v[i] = s1[i]
      /\ \A i \in 1..b : v[a + i] = s2[i]
  BY ConcatFacts
<1> HIDE DEF v
<1>2. /\ u \in Seq(T) /\ c \in Nat /\ Len(u) = Len(v) + c /\ DOMAIN u = 1..(Len(v) + c)
      /\ \A i \in 1..Len(v) : u[i] = v[i]
      /\ \A i \in 1..c : u[Len(v) + i] = s3[i]
  <2>1. v \in Seq(T)
    BY <1>1
  <2> QED BY <2>1, ConcatFacts
<1> HIDE DEF u, a, b, c
<1>3. DOMAIN u = 1..(a + b + c) /\ Len(u) = a + b + c
  BY <1>1, <1>2
<1>4. ASSUME NEW i \in 1..a PROVE i \in DOMAIN u /\ u[i] = s1[i]
  <2>1. i \in 1..Len(v) /\ i \in 1..(a + b + c)
    BY <1>1, <1>2
  <2> QED BY <1>1, <1>2, <1>3, <2>1
<1>5. ASSUME NEW i \in 1..b PROVE a + i \in DOMAIN u /\ u[a + i] = s2[i]
  <2>1. a + i \in 1..Len(v) /\ a + i \in 1..(a + b + c)
    BY <1>1, <1>2
  <2> QED BY <1>1, <1>2, <1>3, <2>1
<1>6. ASSUME NEW i \in 1..c PROVE a + b + i \in DOMAIN u /\ u[a + b + i] = s3[i]
  <2>1. a + b + i \in 1..(a + b + c)
    BY <1>1, <1>2
  <2> QED BY <1>1, <1>2, <1>3, <2>1
<1>7. ASSUME NEW p \in DOMAIN u
      PROVE  p \in 1..a \/ (\E i \in 1..b : p = a + i) \/ (\E i \in 1..c : p = a + b + i)
  <2>1. p \in 1..(a + b + c)
    BY <1>3
  <2>2. CASE p <= a
    BY <1>1, <2>1, <2>2
  <2>3. CASE a < p /\ p <= a + b
    <3>1. p - a \in 1..b /\ p = a + (p - a)
      BY <1>1, <2>1, <2>3
    <3> QED BY <3>1
  <2>4. CASE a + b < p
    <3>1. p - (a + b) \in 1..c /\ p = a + b + (p - (a + b))
      <4>1. a \in Nat /\ b \in Nat /\ c \in Nat
        BY <1>1, <1>2
      <4> QED BY <2>1, <2>4, <4>1
    <3> QED BY <3>1
  <2> QED BY <1>1, <2>1, <2>2, <2>3, <2>4
<1>8. InThree(u, s1, s2, s3)
  BY <1>1, <1>2, <1>3, <1>4, <1>5, <1>6, <1>7, Zenon DEF InThree, a, b, c
<1> QED BY <1>2, <1>8 DEF u, v

AreLoaded(s, x, w) ==
    /\ s \in Seq(AllAccounts) /\ Len(s) = Len(x) /\ Len(x) \in Nat
    /\ \A i \in 1..Len(x) : s[i] = [address |-> x[i], isSigner |-> FALSE, isWritable |-> w]
    /\ \A i \in 1..Len(x) : s[i].address = x[i] /\ s[i].isSigner = FALSE /\ s[i].isWritable = w

LEMMA LoadedMetasFacts ==
    ASSUME NEW x \in Seq(Keys), NEW w \in BOOLEAN
    PROVE  AreLoaded(LoadedMetas(x, w), x, w)
<1> DEFINE s == LoadedMetas(x, w)
           T == AllAccounts
           n == Len(x)
           e(i) == [address |-> x[i], isSigner |-> FALSE, isWritable |-> w]
<1>1. n \in Nat /\ DOMAIN x = 1..n /\ \A i \in DOMAIN x : x[i] \in Keys
  BY SeqFacts
<1>2. s = [i \in DOMAIN x |-> e(i)]
  BY DEF LoadedMetas
<1>3. \A i \in 1..n : e(i) \in T
  BY <1>1 DEF AllAccounts
<1>6. \A i \in 1..n : e(i).address = x[i] /\ e(i).isSigner = FALSE /\ e(i).isWritable = w
  OBVIOUS
<1> HIDE DEF s, T, n, e
<1>4. /\ \A i \in 1..n : s[i] = e(i) /\ s[i] \in T
      /\ s = [i \in 1..n |-> s[i]]
  BY <1>1, <1>2, <1>3
<1>5. s \in Seq(T) /\ Len(s) = n
  BY <1>1, <1>4, IsSequence
<1>7. \A i \in 1..n : s[i].address = x[i] /\ s[i].isSigner = FALSE /\ s[i].isWritable = w
  BY <1>4, <1>6, Zenon
<1> QED BY <1>1, <1>4, <1>5, <1>7 DEF s, T, n, e, AreLoaded

(* What compiling comes to, field by field. *)
StaticMetas(q, B) == {m \in AggregateAccountMetas(q) : ~Placed(m, B)}

IsMessage(c, q, B, M, S, s) ==
    /\ c.accountKeys = [i \in DOMAIN s |-> s[i].address]
    /\ c.numSigners = Cardinality({m \in S : m.isSigner})
    /\ c.readonlySigned = Cardinality({m \in S : m.isSigner /\ ~m.isWritable})
    /\ c.readonlyUnsigned = Cardinality({m \in S : ~m.isSigner /\ ~m.isWritable})
    /\ c.lookups = PlaceAccountsInLookupTables(M, B)
    /\ c.instructions = CompileInstructions(q, AccountKeys(c.accountKeys, c.lookups, B))

LEMMA MessageFacts ==
    ASSUME NEW q, NEW B
    PROVE  IsMessage(CompileMessage(q, B), q, B, AggregateAccountMetas(q), StaticMetas(q, B),
                     OrderStaticAccountMetas(StaticMetas(q, B)))
BY DEF CompileMessage, StaticMetas, IsMessage

(* The accounts at the head of a message. *)
StaticAccounts(c) ==
    [i \in DOMAIN c.accountKeys |->
        [address |-> c.accountKeys[i], isSigner |-> i <= c.numSigners,
         isWritable |-> RuntimeWritable(c, i)]]

(* accounts carry the merged privileges of M, under keys, n of them in the message. *)
Carries(accounts, keys, n, signers, M) ==
    /\ keys \in Seq(Keys) /\ Len(keys) \in Nat /\ DOMAIN keys = 1..Len(keys)
    /\ DOMAIN accounts = 1..Len(keys) /\ n \in Nat /\ n <= Len(keys)
    /\ \A p \in 1..Len(keys) :
         /\ accounts[p].address = keys[p]
         /\ accounts[p].isSigner => p <= signers
         /\ \E m \in M : /\ m.address = keys[p]
                         /\ accounts[p].isSigner <=> m.isSigner
                         /\ accounts[p].isWritable <=> m.isWritable
    /\ \A m \in M : \E p \in 1..Len(keys) : keys[p] = m.address /\ (m.isProgram => p <= n)

(* The head of a message and its counts. *)
IsHead(c, M) ==
    /\ c.accountKeys \in Seq(Keys) /\ Len(c.accountKeys) \in Nat
    /\ DOMAIN c.accountKeys = 1..Len(c.accountKeys)
    /\ c.numSigners \in Nat /\ c.readonlySigned \in Nat /\ c.readonlyUnsigned \in Nat
    /\ c.readonlySigned <= c.numSigners
    /\ c.numSigners + c.readonlyUnsigned <= Len(c.accountKeys)
    /\ 1 <= c.numSigners /\ c.accountKeys[1] = FeePayer

LEMMA HeadFacts ==
    ASSUME NEW q \in Seq(Instructions), NEW B, NEW c, c = CompileMessage(q, B),
           NEW M, M = AggregateAccountMetas(q)
    PROVE  /\ IsHead(c, M)
           /\ \A i \in 1..Len(c.accountKeys) : \E m \in M :
                /\ c.accountKeys[i] = m.address
                /\ i <= c.numSigners <=> m.isSigner
                /\ RuntimeWritable(c, i) <=> m.isWritable
           /\ \A m \in M : ~Placed(m, B) => \E i \in 1..Len(c.accountKeys) : c.accountKeys[i] = m.address
<1> DEFINE S == StaticMetas(q, B)
           s == OrderStaticAccountMetas(S)
           n == Cardinality(S)
           nS == Cardinality({m \in S : m.isSigner})
           rS == Cardinality({m \in S : m.isSigner /\ ~m.isWritable})
           rU == Cardinality({m \in S : ~m.isSigner /\ ~m.isWritable})
           keys == c.accountKeys
<1>1. IsMerged(M) /\ Grants(M, q)
  BY MetasFacts
<1>2. /\ keys = [i \in DOMAIN s |-> s[i].address]
      /\ c.numSigners = nS /\ c.readonlySigned = rS /\ c.readonlyUnsigned = rU
  <2>1. IsMessage(c, q, B, M, S, s)
    BY MessageFacts
  <2> HIDE DEF S, s
  <2> QED BY <2>1 DEF IsMessage
<1>3. S \subseteq M /\ \A m \in M : ~Placed(m, B) => m \in S
  BY DEF StaticMetas
<1> HIDE DEF S
<1>5. /\ n \in Nat /\ s \in [1..n -> S] /\ \A x \in S : \E k \in 1..n : s[k] = x
      /\ nS \in Nat /\ rS \in Nat /\ rU \in Nat /\ rS <= nS /\ nS + rU <= n
      /\ \A k \in 1..n : s[k].isSigner <=> k <= nS
      /\ \A k \in 1..n : s[k].isWritable <=> IF k <= nS THEN k <= nS - rS ELSE k <= n - rU
      /\ \A x \in S : x.isSigner /\ x.isWritable /\ x.firstSeenIndex = 1 => s[1] = x /\ 1 <= nS
  <2>1. IsOrdered(s, n, nS, rS, rU, S)
    <3>1. IsMerged(M) /\ S \subseteq M
      BY <1>1, <1>3
    <3> QED BY <3>1, StaticFacts
  <2> HIDE DEF s, n, nS, rS, rU
  <2> QED BY <2>1, Zenon DEF IsOrdered
<1> HIDE DEF s, n, nS, rS, rU, keys
<1>6. DOMAIN s = 1..n /\ \A k \in 1..n : s[k] \in S /\ s[k] \in M
  BY <1>3, <1>5
<1>7. /\ DOMAIN keys = 1..n /\ keys = [k \in 1..n |-> keys[k]]
      /\ \A k \in 1..n : keys[k] = s[k].address
  BY <1>2, <1>6
<1>8. keys \in Seq(Keys) /\ Len(keys) = n
  <2>1. \A k \in 1..n : keys[k] \in Keys
    BY <1>1, <1>6, <1>7 DEF IsMerged
  <2> QED BY <1>5, <1>7, <2>1, IsSequence
<1>9. \A i \in 1..n : RuntimeWritable(c, i) <=> IF i <= nS THEN i <= nS - rS ELSE i <= n - rU
  <2>1. Len(c.accountKeys) = n
    BY <1>8 DEF keys
  <2>2. nS \in Nat
    BY <1>5
  <2> QED BY <1>2, <2>1, <2>2 DEF RuntimeWritable
<1>10. ASSUME NEW i \in 1..n
       PROVE  \E m \in M : /\ keys[i] = m.address
                           /\ i <= c.numSigners <=> m.isSigner
                           /\ RuntimeWritable(c, i) <=> m.isWritable
  <2>1. s[i] \in M /\ keys[i] = s[i].address
    BY <1>6, <1>7
  <2>2. i <= c.numSigners <=> s[i].isSigner
    BY <1>2, <1>5
  <2>3. RuntimeWritable(c, i) <=> s[i].isWritable
    BY <1>5, <1>9
  <2> QED BY <2>1, <2>2, <2>3, Zenon
<1>11. ASSUME NEW m \in M, ~Placed(m, B) PROVE \E i \in 1..n : keys[i] = m.address
  <2>1. PICK k \in 1..n : s[k] = m
    BY <1>3, <1>5, <1>11
  <2> QED BY <1>7, <2>1
<1>12. 1 <= nS /\ keys[1] = FeePayer
  <2>1. PICK m \in M : m.address = FeePayer /\ m.isSigner /\ m.isWritable /\ m.firstSeenIndex = 1
    BY <1>1 DEF Grants
  <2>2. m \in S
    BY <1>3, <2>1 DEF Placed
  <2>3. s[1] = m /\ 1 <= nS
    BY <1>5, <2>1, <2>2
  <2>4. 1 \in 1..n
    BY <1>5, <2>3
  <2> QED BY <1>7, <2>1, <2>3, <2>4
<1>13. IsHead(c, M)
  <2>1. n \in Nat /\ nS \in Nat /\ rS \in Nat /\ rU \in Nat /\ rS <= nS /\ nS + rU <= n
    BY <1>5
  <2>2. DOMAIN keys = 1..Len(keys) /\ Len(keys) \in Nat /\ nS + rU <= Len(keys)
    BY <1>7, <1>8, <2>1
  <2> QED BY <1>2, <1>8, <1>12, <2>1, <2>2, Zenon DEF IsHead, keys
<1> QED BY <1>8, <1>10, <1>11, <1>13 DEF keys

LEMMA StaticAccountsFacts ==
    ASSUME NEW c, NEW M, IsHead(c, M)
    PROVE  LET s == StaticAccounts(c)
               n == Len(c.accountKeys)
           IN  /\ s \in Seq(AllAccounts) /\ Len(s) = n
               /\ \A i \in 1..n : /\ s[i].address = c.accountKeys[i]
                                  /\ s[i].isSigner <=> i <= c.numSigners
                                  /\ s[i].isWritable <=> RuntimeWritable(c, i)
<1> DEFINE s == StaticAccounts(c)
           T == AllAccounts
           n == Len(c.accountKeys)
           keys == c.accountKeys
<1>1. keys \in Seq(Keys) /\ n \in Nat /\ DOMAIN keys = 1..n
  BY DEF IsHead
<1>2. \A i \in DOMAIN keys : keys[i] \in Keys
  BY <1>1, SeqFacts
<1>3. ASSUME NEW i \in 1..n
      PROVE  /\ s[i] \in T /\ s[i].address = keys[i]
             /\ s[i].isSigner <=> i <= c.numSigners
             /\ s[i].isWritable <=> RuntimeWritable(c, i)
  <2> DEFINE x == i <= c.numSigners
             y == RuntimeWritable(c, i)
             z == keys[i]
  <2>1. s[i] = [address |-> z, isSigner |-> x, isWritable |-> y]
    BY <1>1 DEF StaticAccounts
  <2>2. x \in BOOLEAN /\ y \in BOOLEAN
    BY DEF RuntimeWritable
  <2>3. z \in Keys
    BY <1>1, <1>2
  <2> HIDE DEF keys, s, x, y, z
  <2>4. s[i] \in AllAccounts
    BY <2>1, <2>2, <2>3 DEF AllAccounts
  <2>5. s[i].address = z /\ s[i].isSigner = x /\ s[i].isWritable = y
    BY <2>1
  <2> QED BY <2>4, <2>5, Zenon DEF x, y, z
<1>4. s = [i \in 1..n |-> s[i]]
  BY <1>1 DEF StaticAccounts
<1> HIDE DEF s, T, n
<1>5. s \in Seq(T) /\ Len(s) = n
  BY <1>1, <1>3, <1>4, IsSequence
<1> QED BY <1>3, <1>5 DEF s, T, n

StartsWith(s, t) == \A i \in 1..Len(t) : s[i] = t[i]

(* What the runtime reads are the merged accounts, although tables have grown. *)
LEMMA RuntimeFacts ==
    ASSUME NEW q \in Seq(Instructions), NEW B, NEW C, Extends(C, B),
           NEW c, c = CompileMessage(q, B), NEW M, M = AggregateAccountMetas(q)
    PROVE  /\ Carries(RuntimeAccounts(c, C), AccountKeys(c.accountKeys, c.lookups, B),
                      Len(c.accountKeys), c.numSigners, M)
           /\ AccountKeys(c.accountKeys, c.lookups, C) = AccountKeys(c.accountKeys, c.lookups, B)
           /\ IsLookups(c.lookups, B)
           /\ StartsWith(AccountKeys(c.accountKeys, c.lookups, B), c.accountKeys)
<1> DEFINE ls == PlaceAccountsInLookupTables(M, B)
           K == c.accountKeys
           W == FlattenSeq(Parts(ls, B, TRUE))
           R == FlattenSeq(Parts(ls, B, FALSE))
           A == StaticAccounts(c)
           U == LoadedMetas(W, TRUE)
           V == LoadedMetas(R, FALSE)
           keys == AccountKeys(K, ls, B)
           accounts == RuntimeAccounts(c, C)
           nS == c.numSigners
<1>1. IsMerged(M)
  BY MetasFacts
<1>2. c.lookups = ls
  <2> DEFINE S == StaticMetas(q, B)
             s == OrderStaticAccountMetas(S)
  <2>1. IsMessage(c, q, B, M, S, s)
    BY MessageFacts
  <2> HIDE DEF S, s
  <2> QED BY <2>1 DEF IsMessage
<1>3. B \in Seq(Seq(Keys)) /\ C \in Seq(Seq(Keys))
  BY DEF Extends
<1>4. IsLookups(ls, B)
  BY <1>1, <1>2, <1>3, LookupsFacts
<1>5. /\ WritableLoadedAddresses(ls, B) = W /\ WritableLoadedAddresses(ls, C) = W
      /\ ReadonlyLoadedAddresses(ls, B) = R /\ ReadonlyLoadedAddresses(ls, C) = R
  <2>1. Parts(ls, C, TRUE) = Parts(ls, B, TRUE) /\ Parts(ls, C, FALSE) = Parts(ls, B, FALSE)
    <3> HIDE DEF ls
    <3>1. \A w \in BOOLEAN : Parts(ls, C, w) = Parts(ls, B, w)
      BY <1>4, GrownTables
    <3> QED BY <3>1
  <2> HIDE DEF ls
  <2>2. /\ WritableLoadedAddresses(ls, C) = FlattenSeq(Parts(ls, C, TRUE))
        /\ ReadonlyLoadedAddresses(ls, C) = FlattenSeq(Parts(ls, C, FALSE))
    BY LoadedAreParts
  <2> QED BY <2>1, <2>2, LoadedAreParts, Zenon
<1>6. keys = K \o W \o R /\ AccountKeys(K, ls, C) = keys
  BY <1>5 DEF AccountKeys
<1>7. accounts = A \o U \o V
  BY <1>2, <1>5 DEF RuntimeAccounts, StaticAccounts
<1>8. /\ W \in Seq(Keys)
      /\ \A p \in DOMAIN W : \E m \in M : Placed(m, B) /\ m.isWritable = TRUE /\ W[p] = m.address
      /\ \A m \in M : Placed(m, B) /\ m.isWritable = TRUE => \E p \in DOMAIN W : W[p] = m.address
  <2>1. LoadsPlaced(W, M, B, TRUE)
    BY <1>1, <1>3, LoadedFacts
  <2> HIDE DEF W
  <2> QED BY <2>1 DEF LoadsPlaced
<1>9. /\ R \in Seq(Keys)
      /\ \A p \in DOMAIN R : \E m \in M : Placed(m, B) /\ m.isWritable = FALSE /\ R[p] = m.address
      /\ \A m \in M : Placed(m, B) /\ m.isWritable = FALSE => \E p \in DOMAIN R : R[p] = m.address
  <2>1. LoadsPlaced(R, M, B, FALSE)
    BY <1>1, <1>3, LoadedFacts
  <2> HIDE DEF R
  <2> QED BY <2>1 DEF LoadsPlaced
<1>10. IsHead(c, M)
  BY HeadFacts
<1>11. \A i \in 1..Len(K) : \E m \in M : /\ K[i] = m.address
                                         /\ i <= nS <=> m.isSigner
                                         /\ RuntimeWritable(c, i) <=> m.isWritable
  BY HeadFacts
<1>12. \A m \in M : ~Placed(m, B) => \E i \in 1..Len(K) : K[i] = m.address
  BY HeadFacts
<1> HIDE DEF W, R
<1>13. /\ A \in Seq(AllAccounts) /\ Len(A) = Len(K)
       /\ \A i \in 1..Len(K) : /\ A[i].address = K[i]
                               /\ A[i].isSigner <=> i <= nS
                               /\ A[i].isWritable <=> RuntimeWritable(c, i)
  BY <1>10, StaticAccountsFacts
<1>14. /\ U \in Seq(AllAccounts) /\ Len(U) = Len(W)
       /\ \A i \in 1..Len(W) : U[i].address = W[i] /\ ~U[i].isSigner /\ U[i].isWritable
  <2>1. /\ U \in Seq(AllAccounts) /\ Len(U) = Len(W)
        /\ \A i \in 1..Len(W) :
             U[i].address = W[i] /\ U[i].isSigner = FALSE /\ U[i].isWritable = TRUE
    <3>1. AreLoaded(U, W, TRUE)
      BY <1>8, LoadedMetasFacts
    <3> HIDE DEF U
    <3> QED BY <3>1, Zenon DEF AreLoaded
  <2> HIDE DEF U
  <2> QED BY <2>1
<1>15. /\ V \in Seq(AllAccounts) /\ Len(V) = Len(R)
       /\ \A i \in 1..Len(R) : V[i].address = R[i] /\ ~V[i].isSigner /\ ~V[i].isWritable
  <2>1. /\ V \in Seq(AllAccounts) /\ Len(V) = Len(R)
        /\ \A i \in 1..Len(R) :
             V[i].address = R[i] /\ V[i].isSigner = FALSE /\ V[i].isWritable = FALSE
    <3>1. AreLoaded(V, R, FALSE)
      BY <1>9, LoadedMetasFacts
    <3> HIDE DEF V
    <3> QED BY <3>1, Zenon DEF AreLoaded
  <2> HIDE DEF V
  <2> QED BY <2>1
<1>16. keys \in Seq(Keys) /\ InThree(keys, K, W, R)
  <2>1. K \in Seq(Keys) /\ W \in Seq(Keys) /\ R \in Seq(Keys)
    BY <1>8, <1>9, <1>10 DEF IsHead
  <2>2. K \o W \o R \in Seq(Keys) /\ InThree(K \o W \o R, K, W, R)
    BY <2>1, ThreeFacts
  <2> HIDE DEF keys
  <2> QED BY <1>6, <2>2
<1>17. InThree(accounts, A, U, V)
  <2> DEFINE T == AllAccounts
  <2>1. A \in Seq(T) /\ U \in Seq(T) /\ V \in Seq(T)
    BY <1>13, <1>14, <1>15
  <2> HIDE DEF T, A, U, V
  <2>2. InThree(A \o U \o V, A, U, V)
    BY <2>1, ThreeFacts
  <2> QED BY <1>7, <2>2
<1> HIDE DEF A, U, V, K, ls, keys, accounts, nS
<1> DEFINE a == Len(K)
           b == Len(W)
           d == Len(R)
<1>18. /\ a \in Nat /\ b \in Nat /\ d \in Nat
       /\ DOMAIN keys = 1..(a + b + d) /\ Len(keys) = a + b + d
       /\ \A i \in 1..a : keys[i] = K[i]
       /\ \A i \in 1..b : a + i \in DOMAIN keys /\ keys[a + i] = W[i]
       /\ \A i \in 1..d : a + b + i \in DOMAIN keys /\ keys[a + b + i] = R[i]
       /\ \A p \in DOMAIN keys : \/ p \in 1..a
                                 \/ \E i \in 1..b : p = a + i
                                 \/ \E i \in 1..d : p = a + b + i
  BY <1>16, Zenon DEF InThree
<1>19. /\ DOMAIN accounts = 1..(a + b + d)
       /\ \A i \in 1..a : accounts[i] = A[i]
       /\ \A i \in 1..b : accounts[a + i] = U[i]
       /\ \A i \in 1..d : accounts[a + b + i] = V[i]
  <2>1. Len(A) = a /\ Len(U) = b /\ Len(V) = d
    BY <1>13, <1>14, <1>15
  <2> HIDE DEF a, b, d
  <2> QED BY <1>17, <2>1, Zenon DEF InThree
<1>20. DOMAIN W = 1..b /\ DOMAIN R = 1..d
  BY <1>8, <1>9, SeqFacts
<1>21. nS \in Nat /\ nS <= a
  BY <1>10 DEF IsHead, K, nS
<1> HIDE DEF a, b, d
<1>22. ASSUME NEW p \in DOMAIN keys
       PROVE  /\ accounts[p].address = keys[p]
              /\ accounts[p].isSigner => p <= nS
              /\ \E m \in M : /\ m.address = keys[p]
                              /\ accounts[p].isSigner <=> m.isSigner
                              /\ accounts[p].isWritable <=> m.isWritable
  <2>1. CASE p \in 1..a
    <3>1. accounts[p] = A[p] /\ keys[p] = K[p]
      BY <1>18, <1>19, <2>1
    <3>2. A[p].address = K[p] /\ (A[p].isSigner <=> p <= nS) /\ (A[p].isWritable <=> RuntimeWritable(c, p))
      BY <1>13, <2>1 DEF a
    <3>3. PICK m \in M : /\ K[p] = m.address
                         /\ p <= nS <=> m.isSigner
                         /\ RuntimeWritable(c, p) <=> m.isWritable
      BY <1>11, <2>1 DEF a
    <3> QED BY <3>1, <3>2, <3>3, Zenon
  <2>2. ASSUME NEW i \in 1..b, p = a + i
        PROVE  /\ accounts[p].address = keys[p] /\ ~accounts[p].isSigner
               /\ \E m \in M : /\ m.address = keys[p]
                               /\ accounts[p].isSigner <=> m.isSigner
                               /\ accounts[p].isWritable <=> m.isWritable
    <3>1. accounts[p] = U[i] /\ keys[p] = W[i]
      BY <1>18, <1>19, <2>2
    <3>2. U[i].address = W[i] /\ ~U[i].isSigner /\ U[i].isWritable
      BY <1>14 DEF b
    <3>3. PICK m \in M : Placed(m, B) /\ m.isWritable = TRUE /\ W[i] = m.address
      BY <1>8, <1>20
    <3>4. ~m.isSigner /\ m.isWritable
      BY <3>3 DEF Placed
    <3> QED BY <3>1, <3>2, <3>3, <3>4, Zenon
  <2>3. ASSUME NEW i \in 1..d, p = a + b + i
        PROVE  /\ accounts[p].address = keys[p] /\ ~accounts[p].isSigner
               /\ \E m \in M : /\ m.address = keys[p]
                               /\ accounts[p].isSigner <=> m.isSigner
                               /\ accounts[p].isWritable <=> m.isWritable
    <3>1. accounts[p] = V[i] /\ keys[p] = R[i]
      BY <1>18, <1>19, <2>3
    <3>2. V[i].address = R[i] /\ ~V[i].isSigner /\ ~V[i].isWritable
      BY <1>15 DEF d
    <3>3. PICK m \in M : Placed(m, B) /\ m.isWritable = FALSE /\ R[i] = m.address
      BY <1>9, <1>20
    <3>4. ~m.isSigner /\ ~m.isWritable
      BY <3>3 DEF Placed
    <3> QED BY <3>1, <3>2, <3>3, <3>4, Zenon
  <2> QED BY <1>18, <2>1, <2>2, <2>3, Zenon
<1>23. ASSUME NEW m \in M
       PROVE  \E p \in DOMAIN keys : keys[p] = m.address /\ (m.isProgram => p <= a)
  <2>1. CASE ~Placed(m, B)
    <3>1. PICK i \in 1..a : K[i] = m.address
      BY <1>12, <2>1 DEF a
    <3>2. i \in DOMAIN keys /\ keys[i] = m.address /\ i <= a
      BY <1>18, <3>1
    <3> QED BY <3>2
  <2>2. CASE Placed(m, B)
    <3>1. ~m.isProgram
      BY <2>2 DEF Placed
    <3>2. m.isWritable \in BOOLEAN
      BY <1>1 DEF IsMerged
    <3>3. CASE m.isWritable = TRUE
      <4>1. PICK i \in 1..b : W[i] = m.address
        BY <1>8, <1>20, <2>2, <3>3
      <4> QED BY <1>18, <3>1, <4>1
    <3>4. CASE m.isWritable = FALSE
      <4>1. PICK i \in 1..d : R[i] = m.address
        BY <1>9, <1>20, <2>2, <3>4
      <4> QED BY <1>18, <3>1, <4>1
    <3> QED BY <3>2, <3>3, <3>4
  <2> QED BY <2>1, <2>2
<1>24. Carries(accounts, keys, a, nS, M)
  <2>1. Len(keys) \in Nat /\ DOMAIN keys = 1..Len(keys) /\ a <= Len(keys) /\ DOMAIN accounts = 1..Len(keys)
    BY <1>18, <1>19
  <2> QED BY <1>16, <1>18, <1>22, <1>23, <2>1, Zenon DEF Carries
<1>25. StartsWith(keys, K)
  BY <1>18, Zenon DEF StartsWith, a
<1> QED BY <1>2, <1>4, <1>6, <1>24, <1>25 DEF keys, accounts, a, K, nS

(* The index of a key that is there. *)
LEMMA IndexFacts ==
    ASSUME NEW keys \in Seq(Keys), NEW x, NEW p \in DOMAIN keys, keys[p] = x
    PROVE  LET i == CompiledIndex(keys, x)
           IN  /\ i \in 0..(Len(keys) - 1) /\ i + 1 \in DOMAIN keys /\ keys[i + 1] = x /\ i + 1 <= p
<1> DEFINE S == {k \in DOMAIN keys : keys[k] = x}
<1>1. Len(keys) \in Nat /\ DOMAIN keys = 1..Len(keys)
  BY SeqFacts
<1>2. S \subseteq Nat /\ p \in S /\ \A k \in S : k \in DOMAIN keys /\ keys[k] = x
  BY <1>1
<1>3. CompiledIndex(keys, x) = Min(S) - 1
  BY DEF CompiledIndex
<1> HIDE DEF S
<1>4. Min(S) \in S /\ Min(S) <= p
  BY <1>2, MinFacts
<1>5. Min(S) \in 1..Len(keys) /\ keys[Min(S)] = x
  BY <1>1, <1>2, <1>4
<1>6. (Min(S) - 1) + 1 = Min(S) /\ Min(S) - 1 \in 0..(Len(keys) - 1)
  BY <1>1, <1>5
<1> QED BY <1>1, <1>3, <1>4, <1>5, <1>6, Zenon

----------------------------------------------------------------------------
(* The vault message, as the Squads program reads it. *)

LEMMA SameSeq ==
    ASSUME NEW T, NEW s \in Seq(T), NEW t \in Seq(T), Len(s) = Len(t),
           \A i \in 1..Len(s) : s[i] = t[i]
    PROVE  s = t
OBVIOUS

LEMMA TakenFacts ==
    ASSUME NEW T, NEW s \in Seq(T), NEW from \in Nat, NEW count \in Nat, from + count <= Len(s)
    PROVE  /\ Taken(s, from, count) \in Seq(T) /\ Len(Taken(s, from, count)) = count
           /\ \A i \in 1..count : Taken(s, from, count)[i] = s[from + i]
<1> DEFINE a == from + 1
           b == from + count
           t == SubSeq(s, a, b)
<1>0. Len(s) \in Nat /\ DOMAIN s = 1..Len(s)
  BY SeqFacts
<1>1. \A i \in a..b : i \in 1..Len(s) /\ s[i] \in T
  BY <1>0
<1>2. Taken(s, from, count) = t
  BY DEF Taken
<1>3. t = [i \in 1..count |-> s[i + a - 1]]
  <2>1. 1 + b - a = count
    OBVIOUS
  <2> QED BY <2>1
<1>4. ASSUME NEW i \in 1..count PROVE t[i] = s[from + i] /\ t[i] \in T
  <2>1. i + a - 1 = from + i /\ from + i \in a..b
    OBVIOUS
  <2> QED BY <1>1, <1>3, <2>1
<1>5. t = [i \in 1..count |-> t[i]]
  BY <1>3
<1> HIDE DEF t
<1>6. t \in Seq(T) /\ Len(t) = count
  BY <1>4, <1>5, IsSequence
<1> QED BY <1>2, <1>4, <1>6

LEMMA LayoutLength ==
    ASSUME NEW T, NEW n \in Nat, NEW ss, NEW flat \in Seq(T), NEW off, Layout(off, n, ss, flat)
    PROVE  Len(flat) = off[n] /\ off[n] \in Nat
<1>1. DOMAIN flat = 1..off[n] /\ off \in [0..n -> Nat]
  BY DEF Layout
<1>2. off[n] \in Nat
  BY <1>1
<1>3. Len(flat) \in Nat /\ DOMAIN flat = 1..Len(flat)
  BY SeqFacts
<1> QED BY <1>1, <1>2, <1>3, IntervalEnds

(* The loaded accounts of one kind, lookup by lookup. *)
LoadedBy(ls, B, w) == [k \in DOMAIN ls |-> LoadedMetas(Parts(ls, B, w)[k], w)]

AreLoadedBy(xs, ls, B, w) ==
    /\ Len(ls) \in Nat /\ DOMAIN ls = 1..Len(ls) /\ DOMAIN xs = 1..Len(ls)
    /\ xs \in Seq(Seq(AllAccounts))
    /\ \A k \in 1..Len(ls) : /\ xs[k] \in Seq(AllAccounts) /\ Len(xs[k]) \in Nat
                             /\ Len(xs[k]) = Len(PartOf(ls[k], w))
    /\ FlattenSeq(xs) = LoadedMetas(FlattenSeq(Parts(ls, B, w)), w)

LEMMA LoadedByFacts ==
    ASSUME NEW B \in Seq(Seq(Keys)), NEW ls, IsLookups(ls, B), NEW w \in BOOLEAN
    PROVE  AreLoadedBy(LoadedBy(ls, B, w), ls, B, w)
<1> DEFINE xs == LoadedBy(ls, B, w)
           ss == Parts(ls, B, w)
           n == Len(ls)
           T == AllAccounts
           W == FlattenSeq(ss)
           F == FlattenSeq(xs)
           G == LoadedMetas(W, w)
<1>1. /\ n \in Nat /\ DOMAIN ls = 1..n /\ DOMAIN ss = 1..n /\ ss \in Seq(Seq(Keys))
      /\ \A k \in 1..n : Len(ss[k]) \in Nat /\ Len(ss[k]) = Len(PartOf(ls[k], w))
  <2>1. ArePartsOf(ss, n, ls, B, w)
    BY PartsFacts
  <2> HIDE DEF ss, n
  <2> QED BY <2>1 DEF ArePartsOf
<1>2. xs = [k \in 1..n |-> LoadedMetas(ss[k], w)]
  BY <1>1 DEF LoadedBy
<1>3. \A k \in 1..n : ss[k] \in Seq(Keys)
  BY <1>1, TablesFacts
<1> HIDE DEF xs, ss, n
<1>4. ASSUME NEW k \in 1..n
      PROVE  /\ xs[k] \in Seq(T) /\ Len(xs[k]) = Len(ss[k])
             /\ \A i \in 1..Len(ss[k]) :
                  xs[k][i] = [address |-> ss[k][i], isSigner |-> FALSE, isWritable |-> w]
  <2> DEFINE x == ss[k]
  <2>1. x \in Seq(Keys)
    BY <1>3
  <2> HIDE DEF x
  <2>2. /\ LoadedMetas(x, w) \in Seq(T) /\ Len(LoadedMetas(x, w)) = Len(x)
        /\ \A i \in 1..Len(x) :
             LoadedMetas(x, w)[i] = [address |-> x[i], isSigner |-> FALSE, isWritable |-> w]
    <3>1. AreLoaded(LoadedMetas(x, w), x, w)
      BY <2>1, LoadedMetasFacts
    <3> QED BY <3>1, Zenon DEF AreLoaded
  <2>3. xs[k] = LoadedMetas(x, w)
    BY <1>2 DEF x
  <2> QED BY <2>2, <2>3, Zenon DEF x
<1>5. DOMAIN xs = 1..n /\ xs \in Seq(Seq(T))
  <2> DEFINE U == Seq(T)
  <2>1. \A k \in 1..n : xs[k] \in U
    BY <1>4
  <2>2. xs = [k \in 1..n |-> xs[k]] /\ DOMAIN xs = 1..n
    BY <1>2
  <2> HIDE DEF U
  <2>3. xs \in Seq(U)
    BY <1>1, <2>1, <2>2, IsSequence
  <2> QED BY <2>2, <2>3 DEF U
<1> HIDE DEF T
<1>6. F \in Seq(T) /\ \E off : Layout(off, n, xs, F)
  BY <1>1, <1>5, Flattened
<1>7. W \in Seq(Keys) /\ \E off : Layout(off, n, ss, W)
  BY <1>1, Flattened
<1>8. PICK off : Layout(off, n, ss, W)
  BY <1>7
<1>9. PICK off2 : Layout(off2, n, xs, F)
  BY <1>6
<1> HIDE DEF F, W
<1>10. \A k \in 0..n : off2[k] = off[k]
  <2>1. \A k \in 1..n : Len(ss[k]) = Len(xs[k])
    BY <1>4
  <2>2. n <= n
    BY <1>1
  <2> QED BY <1>1, <1>8, <1>9, <2>1, <2>2, SameLayout
<1>11. Len(F) = off[n] /\ Len(W) = off[n]
  <2>1. n \in 0..n
    BY <1>1
  <2>2. Len(F) = off2[n]
    BY <1>1, <1>6, <1>9, LayoutLength
  <2>3. Len(W) = off[n]
    BY <1>1, <1>7, <1>8, LayoutLength
  <2> QED BY <1>10, <2>1, <2>2, <2>3
<1>12. /\ G \in Seq(T) /\ Len(G) = Len(W)
       /\ \A i \in 1..Len(W) : G[i] = [address |-> W[i], isSigner |-> FALSE, isWritable |-> w]
  <2>1. AreLoaded(G, W, w)
    BY <1>7, LoadedMetasFacts
  <2> QED BY <2>1, Zenon DEF AreLoaded, T
<1> HIDE DEF G
<1>13. ASSUME NEW p \in 1..Len(F) PROVE F[p] = G[p]
  <2>1. p \in 1..off[n] /\ p \in 1..Len(W)
    BY <1>11
  <2>2. PICK k \in 1..n : \E i \in 1..Len(ss[k]) : p = off[k - 1] + i
    BY <1>8, <2>1 DEF Layout
  <2>3. PICK i \in 1..Len(ss[k]) : p = off[k - 1] + i
    BY <2>2
  <2>4. k - 1 \in 0..n
    BY <1>1
  <2>5. off2[k - 1] = off[k - 1] /\ i \in 1..Len(xs[k])
    BY <1>4, <1>10, <2>4
  <2>6. W[p] = ss[k][i]
    BY <1>8, <2>3, Zenon DEF Layout
  <2>7. F[p] = xs[k][i]
    <3>1. F[off2[k - 1] + i] = xs[k][i]
      BY <1>9, <2>5, Zenon DEF Layout
    <3> QED BY <2>3, <2>5, <3>1, Zenon
  <2>8. xs[k][i] = [address |-> ss[k][i], isSigner |-> FALSE, isWritable |-> w]
    BY <1>4, Zenon
  <2>9. G[p] = [address |-> W[p], isSigner |-> FALSE, isWritable |-> w]
    BY <1>12, <2>1, Zenon
  <2> QED BY <2>6, <2>7, <2>8, <2>9, Zenon
<1>14. F = G
  <2>1. F \in Seq(T) /\ G \in Seq(T) /\ Len(F) = Len(G) /\ \A i \in 1..Len(F) : F[i] = G[i]
    BY <1>6, <1>11, <1>12, <1>13
  <2> QED BY <2>1, SameSeq
<1>15. \A k \in 1..n : xs[k] \in Seq(T) /\ Len(xs[k]) \in Nat /\ Len(xs[k]) = Len(PartOf(ls[k], w))
  <2> SUFFICES ASSUME NEW k \in 1..n
               PROVE  xs[k] \in Seq(T) /\ Len(xs[k]) \in Nat /\ Len(xs[k]) = Len(PartOf(ls[k], w))
    OBVIOUS
  <2>1. xs[k] \in Seq(T) /\ Len(xs[k]) = Len(ss[k]) /\ Len(ss[k]) \in Nat /\ Len(ss[k]) = Len(PartOf(ls[k], w))
    BY <1>1, <1>4
  <2> QED BY <2>1, Zenon
<1> QED BY <1>1, <1>5, <1>14, <1>15, Zenon DEF AreLoadedBy, F, G, W, T, xs, ss, n

LEMMA TakenIs ==
    ASSUME NEW T, NEW s \in Seq(T), NEW part \in Seq(T), NEW from \in Nat,
           from + Len(part) <= Len(s), \A i \in 1..Len(part) : s[from + i] = part[i]
    PROVE  Taken(s, from, Len(part)) = part
<1> DEFINE n == Len(part)
           t == Taken(s, from, n)
<1>1. n \in Nat /\ from + n <= Len(s)
  BY SeqFacts
<1>2. t \in Seq(T) /\ Len(t) = Len(part) /\ \A i \in 1..Len(part) : t[i] = s[from + i]
  <2> HIDE DEF n
  <2>1. t \in Seq(T) /\ Len(t) = n /\ \A i \in 1..n : t[i] = s[from + i]
    BY <1>1, TakenFacts
  <2> QED BY <2>1, Zenon DEF n
<1> HIDE DEF t
<1>3. \A i \in 1..Len(t) : t[i] = part[i]
  BY <1>2
<1>4. t = part
  BY <1>2, <1>3, SameSeq
<1> QED BY <1>4 DEF t

(* A list made of a head and of pairs can be taken apart again. *)
Pairs(n, ws, rs) == [k \in 1..n |-> ws[k] \o rs[k]]

Splits(e, off, h, n, ws, rs) ==
    /\ Taken(e, 0, Len(h)) = h
    /\ \A k \in 1..n : /\ Taken(e, Len(h) + off[k - 1], Len(ws[k])) = ws[k]
                       /\ Taken(e, Len(h) + off[k - 1] + Len(ws[k]), Len(rs[k])) = rs[k]

ArePairs(E, T, n, ws, rs) ==
    /\ E \in Seq(Seq(T)) /\ DOMAIN E = 1..n
    /\ \A k \in 1..n : E[k] = ws[k] \o rs[k] /\ Len(E[k]) = Len(ws[k]) + Len(rs[k])

LEMMA PairsFacts ==
    ASSUME NEW T, NEW n \in Nat, NEW ws, NEW rs,
           \A k \in 1..n : ws[k] \in Seq(T), \A k \in 1..n : rs[k] \in Seq(T)
    PROVE  ArePairs(Pairs(n, ws, rs), T, n, ws, rs)
<1> DEFINE E == Pairs(n, ws, rs)
           U == Seq(T)
<1>1. E = [k \in 1..n |-> E[k]] /\ DOMAIN E = 1..n /\ \A k \in 1..n : E[k] = ws[k] \o rs[k]
  BY DEF Pairs
<1>2. \A k \in 1..n : ws[k] \o rs[k] \in Seq(T) /\ Len(ws[k] \o rs[k]) = Len(ws[k]) + Len(rs[k])
  BY ConcatFacts
<1> HIDE DEF E
<1>3. \A k \in 1..n : E[k] \in U /\ Len(E[k]) = Len(ws[k]) + Len(rs[k])
  BY <1>1, <1>2
<1> HIDE DEF U
<1>4. E \in Seq(U)
  BY <1>1, <1>3, IsSequence
<1>5. ArePairs(E, T, n, ws, rs)
  BY <1>1, <1>3, <1>4 DEF ArePairs, U
<1> QED BY <1>5 DEF E

LEMMA SplitFacts ==
    ASSUME NEW T, NEW h \in Seq(T), NEW n \in Nat, NEW ws, NEW rs,
           \A k \in 1..n : ws[k] \in Seq(T), \A k \in 1..n : rs[k] \in Seq(T)
    PROVE  \E off : /\ Layout(off, n, Pairs(n, ws, rs), FlattenSeq(Pairs(n, ws, rs)))
                    /\ Splits(h \o FlattenSeq(Pairs(n, ws, rs)), off, h, n, ws, rs)
<1> DEFINE E == Pairs(n, ws, rs)
           F == FlattenSeq(E)
           e == h \o F
           a == Len(h)
<1>1. /\ E \in Seq(Seq(T)) /\ DOMAIN E = 1..n
      /\ \A k \in 1..n : E[k] = ws[k] \o rs[k] /\ Len(E[k]) = Len(ws[k]) + Len(rs[k])
  <2>1. ArePairs(E, T, n, ws, rs)
    BY PairsFacts
  <2> HIDE DEF E
  <2> QED BY <2>1, Zenon DEF ArePairs
<1>2. F \in Seq(T) /\ \E off : Layout(off, n, E, F)
  <2> HIDE DEF E
  <2> QED BY <1>1, Flattened
<1>3. PICK off : Layout(off, n, E, F)
  BY <1>2
<1> HIDE DEF E, F
<1>4. Len(F) = off[n] /\ off[n] \in Nat
  BY <1>2, <1>3, LayoutLength
<1>5. e \in Seq(T) /\ a \in Nat /\ Len(e) = a + Len(F)
  BY <1>2, ConcatFacts
<1>6. \A j \in 1..Len(F) : e[a + j] = F[j]
  BY <1>2, ConcatFacts
<1>7. \A i \in 1..a : e[i] = h[i]
  BY <1>2, ConcatFacts
<1> HIDE DEF e
<1>8. Taken(e, 0, a) = h
  <2>1. 0 + a <= Len(e) /\ \A i \in 1..a : e[0 + i] = h[i]
    BY <1>4, <1>5, <1>7
  <2> QED BY <1>5, <2>1, TakenIs DEF a
<1> HIDE DEF a
<1>9. ASSUME NEW k \in 1..n
      PROVE  /\ Taken(e, a + off[k - 1], Len(ws[k])) = ws[k]
             /\ Taken(e, a + off[k - 1] + Len(ws[k]), Len(rs[k])) = rs[k]
  <2> DEFINE w == ws[k]
             r == rs[k]
             o == off[k - 1]
             x == E[k]
  <2>1. /\ w \in Seq(T) /\ r \in Seq(T) /\ x = w \o r /\ Len(x) = Len(w) + Len(r)
    BY <1>1
  <2>2. /\ o \in Nat /\ off[k] = o + Len(x) /\ off[k] <= off[n]
        /\ \A i \in 1..Len(x) : F[o + i] = x[i] /\ o + i \in 1..off[n]
    <3>1. /\ off \in [0..n -> Nat] /\ off[k] = off[k - 1] + Len(E[k])
          /\ \A i \in 1..Len(E[k]) : F[off[k - 1] + i] = E[k][i]
          /\ k - 1 \in 0..n /\ k \in 0..n
      BY <1>3 DEF Layout
    <3>2. off[k - 1] \in Nat /\ off[k] \in Nat
      BY <3>1
    <3>3. off[k] <= off[n]
      <4>1. \A j \in 1..n : Len(E[j]) \in Nat
        <5> SUFFICES ASSUME NEW j \in 1..n PROVE Len(E[j]) \in Nat
          OBVIOUS
        <5>1. Len(ws[j]) \in Nat /\ Len(rs[j]) \in Nat
          BY SeqFacts
        <5> QED BY <1>1, <5>1
      <4>2. n \in 0..n /\ k <= n
        OBVIOUS
      <4> QED BY <1>3, <3>1, <4>1, <4>2, LayoutGrows
    <3>4. Len(E[k]) \in Nat
      BY <2>1, ConcatFacts
    <3> QED BY <1>4, <3>1, <3>2, <3>3, <3>4
  <2> HIDE DEF w, r, x, o
  <2>3. Len(w) \in Nat /\ Len(r) \in Nat
    BY <2>1, SeqFacts
  <2>4. \A i \in 1..Len(w) : x[i] = w[i]
    BY <2>1, ConcatFacts
  <2>5. \A i \in 1..Len(r) : x[Len(w) + i] = r[i]
    BY <2>1, ConcatFacts
  <2>6. \A i \in 1..Len(x) : e[a + o + i] = x[i]
    <3> SUFFICES ASSUME NEW i \in 1..Len(x) PROVE e[a + o + i] = x[i]
      OBVIOUS
    <3>1. o + i \in 1..Len(F) /\ F[o + i] = x[i]
      BY <1>4, <2>2
    <3>2. a + (o + i) = a + o + i
      BY <1>5, <2>2
    <3> QED BY <1>6, <3>1, <3>2
  <2>7. Taken(e, a + o, Len(w)) = w
    <3>1. a + o \in Nat /\ a + o + Len(w) <= Len(e)
      BY <1>4, <1>5, <2>1, <2>2, <2>3
    <3>2. \A i \in 1..Len(w) : e[a + o + i] = w[i]
      BY <2>1, <2>3, <2>4, <2>6
    <3> QED BY <1>5, <2>1, <3>1, <3>2, TakenIs
  <2>8. Taken(e, a + o + Len(w), Len(r)) = r
    <3> DEFINE b == a + o + Len(w)
    <3>1. b \in Nat /\ b + Len(r) <= Len(e)
      BY <1>4, <1>5, <2>1, <2>2, <2>3
    <3>2. \A i \in 1..Len(r) : e[b + i] = r[i]
      <4> SUFFICES ASSUME NEW i \in 1..Len(r) PROVE e[b + i] = r[i]
        OBVIOUS
      <4>1. Len(w) + i \in 1..Len(x) /\ a + o + (Len(w) + i) = b + i
        BY <1>5, <2>1, <2>2, <2>3
      <4> QED BY <2>5, <2>6, <4>1
    <3> HIDE DEF b
    <3>3. Taken(e, b, Len(r)) = r
      BY <1>5, <2>1, <3>1, <3>2, TakenIs
    <3> QED BY <3>3 DEF b
  <2> QED BY <2>7, <2>8, Zenon DEF w, r, o
<1>10. Splits(e, off, h, n, ws, rs)
  BY <1>8, <1>9, Zenon DEF Splits, a
<1> QED BY <1>3, <1>10 DEF e, F, E

HasLengths(E, c, n) ==
    /\ n \in Nat /\ c.lookups \in Seq(AllLookups) /\ Len(c.lookups) = n
    /\ \A j \in 1..n :
         Len(E[j]) = Len(c.lookups[j].writableIndexes) + Len(c.lookups[j].readonlyIndexes)

LEMMA OffsetFacts ==
    ASSUME NEW c, NEW n, NEW E, HasLengths(E, c, n), NEW F, NEW off, Layout(off, n, E, F),
           NEW k \in 1..n
    PROVE  Offset(c, k) = Len(c.accountKeys) + off[k - 1]
<1> DEFINE ls == c.lookups
           m == k - 1
           ws == [j \in 1..m |-> ls[j].writableIndexes]
           rs == [j \in 1..m |-> ls[j].readonlyIndexes]
           P == Pairs(m, ws, rs)
           Q == FlattenSeq(P)
<1>0. /\ n \in Nat /\ ls \in Seq(AllLookups) /\ Len(ls) = n
      /\ \A j \in 1..n : Len(E[j]) = Len(ls[j].writableIndexes) + Len(ls[j].readonlyIndexes)
  BY DEF HasLengths
<1>1. m \in Nat /\ m <= n /\ \A j \in 1..m : j \in 1..n
  BY <1>0
<1>2. \A j \in 1..n : ls[j] \in AllLookups
  BY <1>0, SeqFacts
<1>3. \A j \in 1..n : ls[j].writableIndexes \in Seq(Nat) /\ ls[j].readonlyIndexes \in Seq(Nat)
  BY <1>2 DEF AllLookups
<1>5. P = [j \in 1..m |-> ls[j].writableIndexes \o ls[j].readonlyIndexes]
  BY DEF Pairs
<1>6. Offset(c, k) = Len(c.accountKeys) + Len(Q)
  BY <1>5, Zenon DEF Offset
<1>7. \A j \in 1..m : ws[j] \in Seq(Nat) /\ rs[j] \in Seq(Nat)
  BY <1>1, <1>3
<1>8. \A j \in 1..m : Len(ws[j]) + Len(rs[j]) = Len(E[j])
  BY <1>0, <1>1
<1> HIDE DEF ws, rs, m
<1>9. ArePairs(P, Nat, m, ws, rs)
  BY <1>1, <1>7, PairsFacts
<1> HIDE DEF P
<1>10. P \in Seq(Seq(Nat)) /\ DOMAIN P = 1..m /\ \A j \in 1..m : Len(P[j]) = Len(ws[j]) + Len(rs[j])
  BY <1>9, Zenon DEF ArePairs
<1>11. Q \in Seq(Nat) /\ \E o : Layout(o, m, P, Q)
  BY <1>1, <1>10, Flattened
<1>12. PICK o : Layout(o, m, P, Q)
  BY <1>11
<1> HIDE DEF Q
<1>13. Len(Q) = o[m]
  BY <1>1, <1>11, <1>12, LayoutLength
<1>14. \A j \in 0..m : o[j] = off[j]
  <2>1. \A j \in 1..m : Len(E[j]) = Len(P[j])
    BY <1>8, <1>10
  <2> QED BY <1>0, <1>1, <1>12, <2>1, SameLayout
<1>15. m \in 0..m
  BY <1>1
<1> QED BY <1>6, <1>13, <1>14, <1>15 DEF m

(* An account without the signature that the program gives itself. *)
Masked(account) ==
    [account EXCEPT !.isSigner = @ /\ account.address \notin ProgramSignerAddresses]

MaskedAll(accounts) == [i \in DOMAIN accounts |-> Masked(accounts[i])]

(* The head of the accounts passed to an execution. *)
ExecuteHead(c) ==
    [i \in DOMAIN c.accountKeys |->
        [address    |-> c.accountKeys[i],
         isSigner   |-> i <= c.numSigners /\ c.accountKeys[i] \notin ProgramSignerAddresses,
         isWritable |-> StaticWritable(c, i)]]

LEMMA ExecuteHeadFacts ==
    ASSUME NEW c, NEW M, IsHead(c, M)
    PROVE  /\ ExecuteHead(c) \in Seq(AllAccounts) /\ Len(ExecuteHead(c)) = Len(c.accountKeys)
           /\ \A i \in 1..Len(c.accountKeys) : ExecuteHead(c)[i] = Masked(StaticAccounts(c)[i])
<1> DEFINE H == ExecuteHead(c)
           n == Len(c.accountKeys)
           T == AllAccounts
<1>1. n \in Nat /\ DOMAIN c.accountKeys = 1..n /\ \A i \in 1..n : c.accountKeys[i] \in Keys
  BY SeqFacts DEF IsHead
<1>2. ASSUME NEW i \in 1..n PROVE H[i] \in T /\ H[i] = Masked(StaticAccounts(c)[i])
  <2> DEFINE z == c.accountKeys[i]
             x == i <= c.numSigners
             y == RuntimeWritable(c, i)
             v == StaticWritable(c, i)
             out == z \notin ProgramSignerAddresses
             both == x /\ out
             s == StaticAccounts(c)[i]
  <2>1. H[i] = [address |-> z, isSigner |-> both, isWritable |-> v]
    BY <1>1 DEF ExecuteHead
  <2>2. s = [address |-> z, isSigner |-> x, isWritable |-> y]
    BY <1>1 DEF StaticAccounts
  <2>3. v \in BOOLEAN /\ y \in BOOLEAN /\ x \in BOOLEAN /\ out \in BOOLEAN /\ both \in BOOLEAN
    BY DEF StaticWritable, RuntimeWritable
  <2>4. v = y
    <3>1. /\ c.numSigners \in Nat /\ c.readonlySigned \in Nat /\ c.readonlyUnsigned \in Nat
          /\ c.readonlySigned <= c.numSigners /\ c.numSigners + c.readonlyUnsigned <= n
      BY DEF IsHead
    <3>2. NumWritableSigners(c) = c.numSigners - c.readonlySigned
      BY DEF NumWritableSigners
    <3>3. c.numSigners + NumWritableNonSigners(c) = n - c.readonlyUnsigned
      BY <1>1, <3>1 DEF NumWritableNonSigners
    <3>4. v <=> y
      BY <1>1, <3>1, <3>2, <3>3 DEF StaticWritable, RuntimeWritable
    <3> QED BY <2>3, <3>4
  <2>5. z \in Keys
    BY <1>1
  <2> HIDE DEF z, x, y, v, out, both, s, H
  <2>6. H[i] \in T
    BY <2>1, <2>3, <2>5 DEF AllAccounts
  <2>7. Masked(s) = [address |-> z, isSigner |-> both, isWritable |-> y]
    <3>1. s.address = z /\ s.isSigner = x /\ s.isWritable = y
      BY <2>2
    <3>2. Masked(s) = [s EXCEPT !.isSigner = both]
      BY <3>1, Zenon DEF Masked, both, out
    <3>3. [s EXCEPT !.isSigner = both] = [address |-> z, isSigner |-> both, isWritable |-> y]
      BY <2>2
    <3> QED BY <3>2, <3>3, Zenon
  <2> QED BY <2>1, <2>4, <2>6, <2>7, Zenon DEF s
<1>3. H = [i \in 1..n |-> H[i]]
  BY <1>1 DEF ExecuteHead
<1> HIDE DEF H, T, n
<1>4. H \in Seq(T) /\ Len(H) = n
  BY <1>1, <1>2, <1>3, IsSequence
<1> QED BY <1>2, <1>4, Zenon DEF H, T, n

LEMMA SameSigner ==
    ASSUME NEW z, NEW f, NEW w, NEW b, b = [address |-> z, isSigner |-> f, isWritable |-> w]
    PROVE  [b EXCEPT !.isSigner = f] = b
OBVIOUS

(* A loaded account does not sign, so nothing is taken away. *)
LEMMA LoadedIsMasked ==
    ASSUME NEW z, NEW w, NEW a, a = [address |-> z, isSigner |-> FALSE, isWritable |-> w]
    PROVE  Masked(a) = a
<1> DEFINE out == a.address \notin ProgramSignerAddresses
           both == a.isSigner /\ out
<1>1. a.isSigner = FALSE
  OBVIOUS
<1>2. both = FALSE
  BY <1>1
<1>3. Masked(a) = [a EXCEPT !.isSigner = both]
  BY Zenon DEF Masked
<1> HIDE DEF both
<1>4. [a EXCEPT !.isSigner = FALSE] = a
  BY SameSigner, Zenon
<1> QED BY <1>2, <1>3, <1>4, Zenon

(* Masking a list part by part. *)
AreMasked(H, A) ==
    /\ H \in Seq(AllAccounts) /\ A \in Seq(AllAccounts) /\ Len(H) = Len(A)
    /\ \A i \in 1..Len(A) : H[i] = Masked(A[i])

Joins(u, s1, s2, s3) == u = s1 \o s2 \o s3

LEMMA MaskedParts ==
    ASSUME NEW A, NEW U, NEW V, NEW H, AreMasked(H, A), AreMasked(U, U), AreMasked(V, V),
           NEW all, Joins(all, A, U, V), NEW new, Joins(new, H, U, V)
    PROVE  new = MaskedAll(all)
<1> DEFINE T == AllAccounts
           a == Len(A)
           b == Len(U)
           d == Len(V)
           g == MaskedAll(all)
<1>0. /\ A \in Seq(T) /\ U \in Seq(T) /\ V \in Seq(T) /\ H \in Seq(T) /\ Len(H) = Len(A)
      /\ \A i \in 1..Len(A) : H[i] = Masked(A[i])
      /\ \A i \in 1..Len(U) : U[i] = Masked(U[i])
      /\ \A i \in 1..Len(V) : V[i] = Masked(V[i])
  BY Zenon DEF AreMasked
<1> HIDE DEF T
<1>1. InThree(all, A, U, V)
  BY <1>0, ThreeFacts DEF Joins
<1>2. InThree(new, H, U, V) /\ new \in Seq(T)
  BY <1>0, ThreeFacts DEF Joins
<1> HIDE DEF a, b, d
<1>3. /\ DOMAIN all = 1..(a + b + d)
      /\ \A i \in 1..a : all[i] = A[i]
      /\ \A i \in 1..b : all[a + i] = U[i]
      /\ \A i \in 1..d : all[a + b + i] = V[i]
      /\ \A p \in DOMAIN all : \/ p \in 1..a
                               \/ \E i \in 1..b : p = a + i
                               \/ \E i \in 1..d : p = a + b + i
  BY <1>1, Zenon DEF InThree, a, b, d
<1>4. /\ DOMAIN new = 1..(a + b + d)
      /\ \A i \in 1..a : new[i] = H[i]
      /\ \A i \in 1..b : new[a + i] = U[i]
      /\ \A i \in 1..d : new[a + b + i] = V[i]
  <2>1. Len(H) = a
    BY <1>0 DEF a
  <2> QED BY <1>2, <2>1, Zenon DEF InThree, b, d
<1>5. ASSUME NEW p \in DOMAIN all PROVE new[p] = Masked(all[p])
  <2>1. CASE p \in 1..a
    BY <1>0, <1>3, <1>4, <2>1, Zenon DEF a
  <2>2. ASSUME NEW i \in 1..b, p = a + i PROVE new[p] = Masked(all[p])
    BY <1>0, <1>3, <1>4, <2>2, Zenon DEF b
  <2>3. ASSUME NEW i \in 1..d, p = a + b + i PROVE new[p] = Masked(all[p])
    BY <1>0, <1>3, <1>4, <2>3, Zenon DEF d
  <2> QED BY <1>3, <2>1, <2>2, <2>3, Zenon
<1>6. new = [i \in DOMAIN new |-> new[i]]
  BY <1>2
<1>7. DOMAIN new = DOMAIN all
  BY <1>3, <1>4, Zenon
<1>8. new = g
  BY <1>5, <1>6, <1>7, Zenon DEF MaskedAll
<1> QED BY <1>8

(* The program finds the accounts of the message in the resolved ones. *)
LEMMA VaultFacts ==
    ASSUME NEW q \in Seq(Instructions), NEW B, NEW C, Extends(C, B),
           NEW c, c = CompileMessage(q, B), NEW all, all = RuntimeAccounts(c, C)
    PROVE  SquadsAccounts(c, ExecuteAccounts(c, B)) = MaskedAll(all)
<1> DEFINE M == AggregateAccountMetas(q)
           ls == c.lookups
           n == Len(ls)
           T == AllAccounts
           W == FlattenSeq(Parts(ls, B, TRUE))
           R == FlattenSeq(Parts(ls, B, FALSE))
           X == LoadedBy(ls, B, TRUE)
           Y == LoadedBy(ls, B, FALSE)
           A == StaticAccounts(c)
           U == LoadedMetas(W, TRUE)
           V == LoadedMetas(R, FALSE)
           H == ExecuteHead(c)
           E == Pairs(n, X, Y)
           e == H \o FlattenSeq(E)
<1>1. IsHead(c, M)
  BY HeadFacts
<1>2. IsLookups(ls, B)
  BY RuntimeFacts
<1>3. B \in Seq(Seq(Keys)) /\ C \in Seq(Seq(Keys))
  BY DEF Extends
<1> HIDE DEF M
<1>4. AreLoadedBy(X, ls, B, TRUE) /\ AreLoadedBy(Y, ls, B, FALSE)
  BY <1>2, <1>3, LoadedByFacts
<1>5. /\ WritableLoadedAddresses(ls, C) = W /\ ReadonlyLoadedAddresses(ls, C) = R
  <2> HIDE DEF ls
  <2>1. \A w \in BOOLEAN : Parts(ls, C, w) = Parts(ls, B, w)
    BY <1>2, GrownTables
  <2>2. Parts(ls, C, TRUE) = Parts(ls, B, TRUE) /\ Parts(ls, C, FALSE) = Parts(ls, B, FALSE)
    BY <2>1
  <2> QED BY <2>2, LoadedAreParts, Zenon
<1>6. all = A \o U \o V
  BY <1>5, Zenon DEF RuntimeAccounts, StaticAccounts
<1>7. H \in Seq(T) /\ Len(H) = Len(c.accountKeys) /\ \A i \in 1..Len(c.accountKeys) : H[i] = Masked(A[i])
  BY <1>1, ExecuteHeadFacts
<1>8. A \in Seq(T) /\ Len(A) = Len(c.accountKeys)
  BY <1>1, StaticAccountsFacts
<1>9. \A k \in DOMAIN ls : /\ X[k] = LoadedMetas(AddressesAt(B, ls[k].table, ls[k].writableIndexes), TRUE)
                           /\ Y[k] = LoadedMetas(AddressesAt(B, ls[k].table, ls[k].readonlyIndexes), FALSE)
  BY DEF LoadedBy, Parts, PartOf
<1>10. /\ X = [k \in DOMAIN ls |-> X[k]] /\ Y = [k \in DOMAIN ls |-> Y[k]]
  BY DEF LoadedBy
<1>11. W \in Seq(Keys) /\ R \in Seq(Keys)
  <2>1. LoadsPlaced(W, AggregateAccountMetas(q), B, TRUE) /\ LoadsPlaced(R, AggregateAccountMetas(q), B, FALSE)
    <3>1. IsMerged(AggregateAccountMetas(q))
      BY MetasFacts
    <3>2. ls = PlaceAccountsInLookupTables(AggregateAccountMetas(q), B)
      BY MessageFacts DEF IsMessage
    <3> QED BY <1>3, <3>1, <3>2, LoadedFacts
  <2> HIDE DEF W, R
  <2> QED BY <2>1, Zenon DEF LoadsPlaced
<1> HIDE DEF W, R
<1>12. AreLoaded(U, W, TRUE) /\ AreLoaded(V, R, FALSE)
  BY <1>11, LoadedMetasFacts
<1>13. FlattenSeq(X) = U /\ FlattenSeq(Y) = V
  BY <1>4, Zenon DEF AreLoadedBy, W, R
<1> HIDE DEF X, Y
<1>14. /\ n \in Nat /\ DOMAIN ls = 1..n
       /\ \A k \in 1..n : X[k] \in Seq(T) /\ Len(X[k]) = Len(PartOf(ls[k], TRUE))
       /\ \A k \in 1..n : Y[k] \in Seq(T) /\ Len(Y[k]) = Len(PartOf(ls[k], FALSE))
  BY <1>4, Zenon DEF AreLoadedBy
<1>15. ExecuteAccounts(c, B) = e
  <2>1. [k \in DOMAIN ls |->
           LET l == ls[k] IN
              LoadedMetas(AddressesAt(B, l.table, l.writableIndexes), TRUE)
              \o LoadedMetas(AddressesAt(B, l.table, l.readonlyIndexes), FALSE)] = E
    BY <1>9, <1>14, Zenon DEF Pairs
  <2> HIDE DEF E
  <2> QED BY <2>1, Zenon DEF ExecuteAccounts, ExecuteHead
<1> HIDE DEF T, H
<1>16. \E off : Layout(off, n, E, FlattenSeq(E)) /\ Splits(e, off, H, n, X, Y)
  <2> HIDE DEF n
  <2> QED BY <1>7, <1>14, SplitFacts
<1>17. PICK off : Layout(off, n, E, FlattenSeq(E)) /\ Splits(e, off, H, n, X, Y)
  BY <1>16
<1>18. \A j \in 1..n : Len(E[j]) = Len(ls[j].writableIndexes) + Len(ls[j].readonlyIndexes)
  <2>1. ArePairs(E, T, n, X, Y)
    <3> HIDE DEF n
    <3> QED BY <1>14, PairsFacts
  <2> HIDE DEF E
  <2>2. \A j \in 1..n : Len(E[j]) = Len(X[j]) + Len(Y[j])
    BY <2>1, Zenon DEF ArePairs
  <2>3. \A j \in 1..n : /\ PartOf(ls[j], TRUE) = ls[j].writableIndexes
                        /\ PartOf(ls[j], FALSE) = ls[j].readonlyIndexes
    BY DEF PartOf
  <2> QED BY <1>14, <2>2, <2>3, Zenon
<1> HIDE DEF E, e
<1>19. \A k \in 1..n : Offset(c, k) = Len(H) + off[k - 1]
  <2>1. c.lookups \in Seq(AllLookups)
    BY <1>2 DEF IsLookups
  <2>2. HasLengths(E, c, n)
    BY <1>14, <1>18, <2>1, Zenon DEF HasLengths
  <2> HIDE DEF n
  <2>3. ASSUME NEW k \in 1..n PROVE Offset(c, k) = Len(c.accountKeys) + off[k - 1]
    BY <1>17, <2>2, OffsetFacts
  <2> QED BY <1>7, <2>3, Zenon
<1>20. ASSUME NEW k \in 1..n
       PROVE  /\ Taken(e, Offset(c, k), Len(ls[k].writableIndexes)) = X[k]
              /\ Taken(e, Offset(c, k) + Len(ls[k].writableIndexes), Len(ls[k].readonlyIndexes)) = Y[k]
  <2>1. /\ Taken(e, Len(H) + off[k - 1], Len(X[k])) = X[k]
        /\ Taken(e, Len(H) + off[k - 1] + Len(X[k]), Len(Y[k])) = Y[k]
    BY <1>17, Zenon DEF Splits
  <2>2. PartOf(ls[k], TRUE) = ls[k].writableIndexes /\ PartOf(ls[k], FALSE) = ls[k].readonlyIndexes
    BY DEF PartOf
  <2>3. Len(X[k]) = Len(ls[k].writableIndexes) /\ Len(Y[k]) = Len(ls[k].readonlyIndexes)
    BY <1>14, <2>2, Zenon
  <2>4. Offset(c, k) = Len(H) + off[k - 1]
    BY <1>19
  <2> QED BY <2>1, <2>3, <2>4, Zenon
<1>21. Taken(e, 0, Len(c.accountKeys)) = H
  BY <1>7, <1>17, Zenon DEF Splits
<1>22. SquadsAccounts(c, e) = H \o FlattenSeq(X) \o FlattenSeq(Y)
  <2>1. [k \in DOMAIN ls |-> Taken(e, Offset(c, k), Len(ls[k].writableIndexes))] = X
    BY <1>10, <1>14, <1>20, Zenon
  <2>2. [k \in DOMAIN ls |-> Taken(e, Offset(c, k) + Len(ls[k].writableIndexes),
                                   Len(ls[k].readonlyIndexes))] = Y
    BY <1>10, <1>14, <1>20, Zenon
  <2> QED BY <1>21, <2>1, <2>2, Zenon DEF SquadsAccounts
<1> HIDE DEF A, U, V, n, ls
<1>23. AreMasked(U, U) /\ AreMasked(V, V)
  <2>1. ASSUME NEW s, NEW x, NEW w, AreLoaded(s, x, w) PROVE AreMasked(s, s)
    <3>1. s \in Seq(AllAccounts) /\ Len(s) = Len(x)
      BY <2>1 DEF AreLoaded
    <3>2. ASSUME NEW i \in 1..Len(s) PROVE s[i] = Masked(s[i])
      <4>1. s[i] = [address |-> x[i], isSigner |-> FALSE, isWritable |-> w]
        BY <2>1, <3>1, Zenon DEF AreLoaded
      <4> QED BY <4>1, LoadedIsMasked, Zenon
    <3> QED BY <3>1, <3>2, Zenon DEF AreMasked
  <2> QED BY <1>12, <2>1, Zenon
<1>24. H \o U \o V = MaskedAll(all)
  <2>1. AreMasked(H, A)
    BY <1>7, <1>8, Zenon DEF AreMasked, T
  <2> DEFINE new == H \o U \o V
  <2>2. Joins(all, A, U, V) /\ Joins(new, H, U, V)
    BY <1>6, Zenon DEF Joins
  <2> HIDE DEF new
  <2>3. new = MaskedAll(all)
    BY <1>23, <2>1, <2>2, MaskedParts
  <2> QED BY <2>3 DEF new
<1> QED BY <1>13, <1>15, <1>22, <1>24, Zenon

----------------------------------------------------------------------------
(* What a message comes to. *)

LEMMA SignersFacts ==
    ASSUME NEW c, NEW M, IsHead(c, M)
    PROVE  \A i \in 1..c.numSigners : SignerAddresses(c)[i] = c.accountKeys[i]
<1> DEFINE s == c.accountKeys
           n == c.numSigners
<1>1. s \in Seq(Keys) /\ n \in Nat /\ n <= Len(s) /\ Len(s) \in Nat
  BY DEF IsHead
<1>2. SignerAddresses(c) = Taken(s, 0, n)
  <2>1. 0 + 1 = 1 /\ 0 + n = n
    BY <1>1
  <2> QED BY <2>1, Zenon DEF SignerAddresses, Taken
<1> HIDE DEF s, n
<1>3. \A i \in 1..n : Taken(s, 0, n)[i] = s[0 + i]
  BY <1>1, TakenFacts
<1>4. \A i \in 1..n : 0 + i = i
  BY <1>1
<1> QED BY <1>2, <1>3, <1>4, Zenon DEF s, n

(* An index denotes what was asked for. *)
AccountGiven(c, accounts, asked, index) ==
    /\ accounts[index + 1].address = asked.address
    /\ asked.isSigner => /\ accounts[index + 1].isSigner
                         /\ SignerAddresses(c)[index + 1] = asked.address
    /\ asked.isWritable => accounts[index + 1].isWritable

GivesAsked(c, accounts, q) ==
    \A i \in DOMAIN q :
       /\ c.instructions[i].program < Len(c.accountKeys)
       /\ c.accountKeys[c.instructions[i].program + 1] = q[i].program
       /\ \A j \in DOMAIN q[i].accounts :
            AccountGiven(c, accounts, q[i].accounts[j], c.instructions[i].accounts[j])

LEMMA GivesAskedFacts ==
    ASSUME NEW q \in Seq(Instructions), NEW B, NEW C, Extends(C, B),
           NEW c, c = CompileMessage(q, B)
    PROVE  GivesAsked(c, RuntimeAccounts(c, C), q)
<1> DEFINE M == AggregateAccountMetas(q)
           keys == AccountKeys(c.accountKeys, c.lookups, B)
           accounts == RuntimeAccounts(c, C)
           K == c.accountKeys
           n == Len(K)
           nS == c.numSigners
<1>1. IsMerged(M) /\ Grants(M, q)
  BY MetasFacts
<1>2. IsHead(c, M)
  BY HeadFacts
<1>3. Carries(accounts, keys, n, nS, M) /\ StartsWith(keys, K)
  BY RuntimeFacts
<1>4. c.instructions = CompileInstructions(q, keys)
  <2> DEFINE S == StaticMetas(q, B)
             s == OrderStaticAccountMetas(S)
  <2>1. IsMessage(c, q, B, M, S, s)
    BY MessageFacts
  <2> HIDE DEF S, s, M
  <2> QED BY <2>1 DEF IsMessage
<1> HIDE DEF M, keys, accounts
<1>5. /\ keys \in Seq(Keys) /\ Len(keys) \in Nat /\ DOMAIN keys = 1..Len(keys)
      /\ \A p \in 1..Len(keys) :
           /\ accounts[p].address = keys[p]
           /\ accounts[p].isSigner => p <= nS
           /\ \E m \in M : /\ m.address = keys[p]
                           /\ accounts[p].isSigner <=> m.isSigner
                           /\ accounts[p].isWritable <=> m.isWritable
      /\ \A m \in M : \E p \in 1..Len(keys) : keys[p] = m.address /\ (m.isProgram => p <= n)
  BY <1>3, Zenon DEF Carries
<1>6. n \in Nat /\ nS \in Nat /\ nS <= n
  BY <1>2 DEF IsHead
<1>7. \A p \in 1..n : keys[p] = K[p]
  BY <1>3, Zenon DEF StartsWith
<1>8. \A i \in 1..nS : SignerAddresses(c)[i] = K[i]
  BY <1>2, SignersFacts
<1>9. /\ Len(keys) \in Nat /\ DOMAIN keys = 1..Len(keys)
      /\ \A m \in M : \E p \in 1..Len(keys) : keys[p] = m.address /\ (m.isProgram => p <= n)
  BY <1>5, Zenon
<1>10. \A l, m \in M : l.address = m.address => l = m
  BY <1>1, Zenon DEF IsMerged
<1>11. ASSUME NEW i \in DOMAIN q
      PROVE  /\ c.instructions[i].program < n
             /\ K[c.instructions[i].program + 1] = q[i].program
  <2> DEFINE x == q[i].program
             k == CompiledIndex(keys, x)
  <2>1. PICK m \in M : m.address = x /\ m.isProgram
    BY <1>1, Zenon DEF Grants
  <2>2. PICK p \in 1..Len(keys) : keys[p] = x /\ p <= n
    BY <1>9, <2>1, Zenon
  <2>3. k \in 0..(Len(keys) - 1) /\ keys[k + 1] = x /\ k + 1 <= p
    <3> HIDE DEF x
    <3> QED BY <1>5, <2>2, IndexFacts
  <2>4. c.instructions[i].program = k
    BY <1>4 DEF CompileInstructions
  <2> HIDE DEF k, x
  <2>5. k < n /\ k + 1 \in 1..n
    BY <1>6, <1>9, <2>2, <2>3
  <2>6. K[k + 1] = x
    BY <1>7, <2>3, <2>5, Zenon
  <2> QED BY <2>4, <2>5, <2>6, Zenon DEF x
<1>12. ASSUME NEW i \in DOMAIN q, NEW j \in DOMAIN q[i].accounts
       PROVE  AccountGiven(c, accounts, q[i].accounts[j], c.instructions[i].accounts[j])
  <2> DEFINE a == q[i].accounts[j]
             x == a.address
             k == CompiledIndex(keys, x)
             g == accounts[k + 1]
  <2>1. PICK m \in M : m.address = x /\ (a.isSigner => m.isSigner) /\ (a.isWritable => m.isWritable)
    BY <1>1, Zenon DEF Grants
  <2>2. PICK p \in 1..Len(keys) : keys[p] = x
    BY <1>9, <2>1, Zenon
  <2>3. k \in 0..(Len(keys) - 1) /\ k + 1 \in DOMAIN keys /\ keys[k + 1] = x
    <3> HIDE DEF x
    <3> QED BY <1>5, <2>2, IndexFacts
  <2>4. c.instructions[i].accounts[j] = k
    BY <1>4 DEF CompileInstructions
  <2> HIDE DEF k, x, a
  <2>5. k + 1 \in 1..Len(keys)
    BY <1>5, <2>3
  <2>6. g.address = x /\ (g.isSigner => k + 1 <= nS)
    BY <1>5, <2>3, <2>5, Zenon
  <2>7. PICK l \in M : l.address = x /\ (g.isSigner <=> l.isSigner) /\ (g.isWritable <=> l.isWritable)
    BY <1>5, <2>3, <2>5, Zenon
  <2>8. l = m
    <3>1. l.address = m.address
      BY <2>1, <2>7, Zenon
    <3> QED BY <1>10, <3>1, Zenon
  <2>9. (a.isSigner => g.isSigner) /\ (a.isWritable => g.isWritable)
    BY <2>1, <2>7, <2>8, Zenon
  <2>10. ASSUME g.isSigner PROVE SignerAddresses(c)[k + 1] = x
    <3>1. k + 1 <= nS
      BY <2>6, <2>10
    <3>2. k + 1 \in 1..nS /\ k + 1 \in 1..n
      BY <1>6, <1>9, <2>3, <3>1
    <3> QED BY <1>7, <1>8, <2>3, <3>2, Zenon
  <2>11. AccountGiven(c, accounts, a, k)
    BY <2>6, <2>9, <2>10, Zenon DEF AccountGiven, x
  <2> QED BY <2>4, <2>11, Zenon DEF a
<1>13. GivesAsked(c, accounts, q)
  BY <1>11, <1>12, Zenon DEF GivesAsked
<1> QED BY <1>13 DEF accounts

(* Nothing is given that was not asked for. *)
GivesNoMore(accounts, q) ==
    \A p \in DOMAIN accounts : accounts[p].address # FeePayer =>
        /\ accounts[p].isSigner => \E a \in Asked(q) : a.address = accounts[p].address /\ a.isSigner
        /\ accounts[p].isWritable => \E a \in Asked(q) : a.address = accounts[p].address /\ a.isWritable

LEMMA GivesNoMoreFacts ==
    ASSUME NEW q \in Seq(Instructions), NEW B, NEW C, Extends(C, B),
           NEW c, c = CompileMessage(q, B)
    PROVE  GivesNoMore(RuntimeAccounts(c, C), q)
<1> DEFINE M == AggregateAccountMetas(q)
           keys == AccountKeys(c.accountKeys, c.lookups, B)
           accounts == RuntimeAccounts(c, C)
<1>1. Grants(M, q)
  BY MetasFacts
<1>2. Carries(accounts, keys, Len(c.accountKeys), c.numSigners, M)
  BY RuntimeFacts
<1> HIDE DEF M, keys, accounts
<1>3. /\ DOMAIN accounts = 1..Len(keys)
      /\ \A p \in 1..Len(keys) :
           /\ accounts[p].address = keys[p]
           /\ \E m \in M : /\ m.address = keys[p]
                           /\ accounts[p].isSigner <=> m.isSigner
                           /\ accounts[p].isWritable <=> m.isWritable
  BY <1>2, Zenon DEF Carries
<1>4. ASSUME NEW p \in DOMAIN accounts, accounts[p].address # FeePayer
      PROVE  /\ accounts[p].isSigner =>
                  \E a \in Asked(q) : a.address = accounts[p].address /\ a.isSigner
             /\ accounts[p].isWritable =>
                  \E a \in Asked(q) : a.address = accounts[p].address /\ a.isWritable
  <2>1. PICK m \in M : /\ m.address = accounts[p].address
                       /\ accounts[p].isSigner <=> m.isSigner
                       /\ accounts[p].isWritable <=> m.isWritable
    BY <1>3, Zenon
  <2>2. /\ m.isSigner => \E a \in Asked(q) : a.address = m.address /\ a.isSigner
        /\ m.isWritable => \E a \in Asked(q) : a.address = m.address /\ a.isWritable
    BY <1>1, <1>4, <2>1, Zenon DEF Grants
  <2> QED BY <2>1, <2>2, Zenon
<1>5. GivesNoMore(accounts, q)
  BY <1>4, Zenon DEF GivesNoMore
<1> QED BY <1>5 DEF accounts

(* The tables are what they were, or have grown. *)
LEMMA ExtendsSelf ==
    ASSUME NEW B \in Seq(Seq(Keys))
    PROVE  Extends(B, B)
<1>1. \A t \in DOMAIN B : Len(B[t]) \in Nat
  BY TablesFacts
<1> QED BY <1>1 DEF Extends

(* Every index and every count of m fits a byte. *)
FitsBytes(m) ==
    /\ \A i \in DOMAIN m.instructions :
         /\ m.instructions[i].program \in 0..(MaxKeys - 1)
         /\ \A j \in DOMAIN m.instructions[i].accounts :
              m.instructions[i].accounts[j] \in 0..(MaxKeys - 1)
    /\ m.numSigners \in 0..(MaxKeys - 1)
    /\ m.readonlySigned \in 0..(MaxKeys - 1) /\ m.readonlyUnsigned \in 0..(MaxKeys - 1)
    /\ \A k \in DOMAIN m.lookups :
         /\ \A i \in DOMAIN m.lookups[k].writableIndexes :
              m.lookups[k].writableIndexes[i] \in 0..(MaxKeys - 1)
         /\ \A i \in DOMAIN m.lookups[k].readonlyIndexes :
              m.lookups[k].readonlyIndexes[i] \in 0..(MaxKeys - 1)

LEMMA FitsFacts ==
    ASSUME NEW q \in Seq(Instructions), NEW B \in Seq(Seq(Keys)), NEW c, c = CompileMessage(q, B),
           ~TooLarge(c, B)
    PROVE  FitsBytes(c)
<1> DEFINE M == AggregateAccountMetas(q)
           keys == AccountKeys(c.accountKeys, c.lookups, B)
           accounts == RuntimeAccounts(c, B)
           n == Len(c.accountKeys)
           ls == c.lookups
<1>0. MaxKeys \in Nat \ {0}
  BY KeysAssumption
<1>1. Grants(M, q)
  BY MetasFacts
<1>2. IsHead(c, M)
  BY HeadFacts
<1>3. Carries(accounts, keys, n, c.numSigners, M) /\ IsLookups(ls, B)
  BY ExtendsSelf, RuntimeFacts
<1>4. c.instructions = CompileInstructions(q, keys)
  <2> DEFINE S == StaticMetas(q, B)
             s == OrderStaticAccountMetas(S)
  <2>1. IsMessage(c, q, B, M, S, s)
    BY MessageFacts
  <2> HIDE DEF S, s, M
  <2> QED BY <2>1 DEF IsMessage
<1>5. /\ \A t \in DOMAIN B : ~(Len(B[t]) > MaxKeys)
      /\ ~(Len(keys) > MaxKeys)
      /\ ~(c.numSigners > MaxKeys - 1) /\ ~(c.readonlyUnsigned > MaxKeys - 1)
  BY DEF TooLarge
<1> HIDE DEF M, keys, accounts
<1>6. /\ keys \in Seq(Keys) /\ Len(keys) \in Nat /\ DOMAIN keys = 1..Len(keys)
      /\ \A m \in M : \E p \in 1..Len(keys) : keys[p] = m.address
  BY <1>3, Zenon DEF Carries
<1>7. Len(keys) \in Nat /\ Len(keys) <= MaxKeys
  BY <1>0, <1>5, <1>6
<1>8. ASSUME NEW m \in M PROVE CompiledIndex(keys, m.address) \in 0..(MaxKeys - 1)
  <2>1. PICK p \in DOMAIN keys : keys[p] = m.address
    BY <1>6
  <2>2. CompiledIndex(keys, m.address) \in 0..(Len(keys) - 1)
    BY <1>6, <2>1, IndexFacts
  <2> QED BY <1>0, <1>7, <2>2
<1>9. ASSUME NEW i \in DOMAIN c.instructions
      PROVE  /\ c.instructions[i].program \in 0..(MaxKeys - 1)
             /\ \A j \in DOMAIN c.instructions[i].accounts :
                  c.instructions[i].accounts[j] \in 0..(MaxKeys - 1)
  <2>1. /\ i \in DOMAIN q /\ c.instructions[i].program = CompiledIndex(keys, q[i].program)
        /\ DOMAIN c.instructions[i].accounts = DOMAIN q[i].accounts
        /\ \A j \in DOMAIN q[i].accounts :
             c.instructions[i].accounts[j] = CompiledIndex(keys, q[i].accounts[j].address)
    BY <1>4 DEF CompileInstructions
  <2>2. \E m \in M : m.address = q[i].program
    BY <1>1, <2>1, Zenon DEF Grants
  <2>3. \A j \in DOMAIN q[i].accounts : \E m \in M : m.address = q[i].accounts[j].address
    BY <1>1, <2>1, Zenon DEF Grants
  <2>4. c.instructions[i].program \in 0..(MaxKeys - 1)
    BY <1>8, <2>1, <2>2, Zenon
  <2>5. ASSUME NEW j \in DOMAIN c.instructions[i].accounts
        PROVE  c.instructions[i].accounts[j] \in 0..(MaxKeys - 1)
    <3>1. PICK m \in M : m.address = q[i].accounts[j].address
      BY <2>1, <2>3, Zenon
    <3>2. c.instructions[i].accounts[j] = CompiledIndex(keys, m.address)
      BY <2>1, <3>1, Zenon
    <3> QED BY <1>8, <3>2, Zenon
  <2> QED BY <2>4, <2>5, Zenon
<1>10. /\ c.numSigners \in 0..(MaxKeys - 1)
       /\ c.readonlySigned \in 0..(MaxKeys - 1) /\ c.readonlyUnsigned \in 0..(MaxKeys - 1)
  <2>1. /\ c.numSigners \in Nat /\ c.readonlySigned \in Nat /\ c.readonlyUnsigned \in Nat
        /\ c.readonlySigned <= c.numSigners
    BY <1>2 DEF IsHead
  <2> QED BY <1>0, <1>5, <2>1
<1>11. ASSUME NEW k \in DOMAIN ls
       PROVE  /\ \A i \in DOMAIN ls[k].writableIndexes : ls[k].writableIndexes[i] \in 0..(MaxKeys - 1)
              /\ \A i \in DOMAIN ls[k].readonlyIndexes : ls[k].readonlyIndexes[i] \in 0..(MaxKeys - 1)
  <2> HIDE DEF ls
  <2>1. ASSUME NEW w \in BOOLEAN
        PROVE  \A i \in DOMAIN PartOf(ls[k], w) : PartOf(ls[k], w)[i] \in 0..(MaxKeys - 1)
    <3> DEFINE part == PartOf(ls[k], w)
               t == ls[k].table
    <3>1. part \in Seq(Nat) /\ t \in DOMAIN B /\ \A i \in DOMAIN part : part[i] + 1 \in DOMAIN B[t]
      BY <1>3, Zenon DEF IsLookups
    <3> HIDE DEF part, t
    <3>2. Len(B[t]) \in Nat /\ DOMAIN B[t] = 1..Len(B[t])
      BY <3>1, TablesFacts
    <3>3. Len(B[t]) <= MaxKeys
      BY <1>0, <1>5, <3>1, <3>2
    <3>4. ASSUME NEW i \in DOMAIN part PROVE part[i] \in 0..(MaxKeys - 1)
      <4>1. part[i] \in Nat
        BY <3>1, SeqFacts
      <4>2. part[i] + 1 \in 1..Len(B[t])
        BY <3>1, <3>2
      <4> QED BY <1>0, <3>2, <3>3, <4>1, <4>2
    <3> QED BY <3>4 DEF part
  <2>2. PartOf(ls[k], TRUE) = ls[k].writableIndexes /\ PartOf(ls[k], FALSE) = ls[k].readonlyIndexes
    BY DEF PartOf
  <2> QED BY <2>1, <2>2, Zenon
<1> QED BY <1>9, <1>10, <1>11, Zenon DEF FitsBytes, ls

----------------------------------------------------------------------------
(* The invariant of a message: the request and the tables as they were, one of
   the TableChoices, still account for it. *)

WasCompiled(known) ==
    /\ Extends(tables, known)
    /\ message = CompileMessage(instructions, known)
    /\ ~TooLarge(message, known)
    /\ status = "vault" => executeAccounts = ExecuteAccounts(message, known)

MessageInv ==
    /\ instructions \in Seq(Instructions)
    /\ status \in {"building", "rejected", "compiled", "signed", "refused", "vault"}
    /\ ~Compiled => message = NoMessage /\ tables \in TableChoices
    /\ Compiled => \E known \in TableChoices : WasCompiled(known)
    /\ status = "signed" => signatures = SignerAddresses(message)

LEMMA AppendFacts ==
    ASSUME NEW T, NEW s \in Seq(T), NEW x \in T
    PROVE  /\ Append(s, x) \in Seq(T) /\ Len(Append(s, x)) = Len(s) + 1
           /\ \A i \in 1..Len(s) : Append(s, x)[i] = s[i]
OBVIOUS

(* One entry more in one table. *)
LEMMA ExtendsGrows ==
    ASSUME NEW B, NEW C, Extends(C, B), NEW t \in DOMAIN C, NEW x \in Keys
    PROVE  Extends([C EXCEPT ![t] = Append(@, x)], B)
<1> DEFINE y == Append(C[t], x)
           D == [C EXCEPT ![t] = y]
           T == Seq(Keys)
<1>1. /\ B \in Seq(T) /\ C \in Seq(T) /\ DOMAIN C = DOMAIN B
      /\ \A u \in DOMAIN B : Len(B[u]) <= Len(C[u]) /\ \A i \in 1..Len(B[u]) : C[u][i] = B[u][i]
  BY DEF Extends
<1>2. /\ Len(C) \in Nat /\ DOMAIN C = 1..Len(C)
      /\ \A u \in DOMAIN C : C[u] \in T /\ Len(C[u]) \in Nat /\ Len(B[u]) \in Nat
  BY <1>1, TablesFacts
<1>3. /\ y \in T /\ Len(y) = Len(C[t]) + 1 /\ \A i \in 1..Len(C[t]) : y[i] = C[t][i]
  BY <1>2, AppendFacts
<1> HIDE DEF y, T
<1>4. /\ DOMAIN D = DOMAIN C /\ D = [u \in DOMAIN C |-> D[u]]
      /\ D[t] = y /\ \A u \in DOMAIN C : u # t => D[u] = C[u]
  BY <1>1
<1> HIDE DEF D
<1>5. D \in Seq(T)
  <2>1. D = [u \in 1..Len(C) |-> D[u]] /\ \A u \in 1..Len(C) : D[u] \in T
    <3>1. ASSUME NEW u \in DOMAIN C PROVE D[u] \in T
      BY <1>2, <1>3, <1>4
    <3> QED BY <1>2, <1>4, <3>1, Zenon
  <2> QED BY <1>2, <2>1, IsSequence
<1>6. ASSUME NEW u \in DOMAIN B
      PROVE  Len(B[u]) <= Len(D[u]) /\ \A i \in 1..Len(B[u]) : D[u][i] = B[u][i]
  <2>1. CASE u = t
    <3>1. /\ Len(B[u]) \in Nat /\ Len(C[u]) \in Nat /\ Len(B[u]) <= Len(C[u])
          /\ D[u] = y /\ Len(y) = Len(C[u]) + 1
      BY <1>1, <1>2, <1>3, <1>4, <2>1
    <3>2. ASSUME NEW i \in 1..Len(B[u]) PROVE y[i] = B[u][i]
      <4>1. i \in 1..Len(C[u])
        BY <3>1
      <4>2. y[i] = C[u][i]
        BY <1>3, <2>1, <4>1
      <4> QED BY <1>1, <4>2
    <3> QED BY <3>1, <3>2
  <2>2. CASE u # t
    <3>1. D[u] = C[u]
      BY <1>1, <1>4, <2>2
    <3> QED BY <1>1, <3>1
  <2> QED BY <2>1, <2>2
<1>7. Extends(D, B)
  BY <1>1, <1>4, <1>5, <1>6, Zenon DEF Extends, T
<1> QED BY <1>7 DEF D, y

LEMMA MessageInvInit == Init => MessageInv
BY DEF Init, MessageInv, Compiled

(* Building: an instruction, or an account of the last one, more. *)
LEMMA BeginPreserves == MessageInv /\ BeginInstruction => MessageInv'
<1> SUFFICES ASSUME MessageInv, BeginInstruction PROVE MessageInv'
  OBVIOUS
<1>1. PICK p \in Programs : instructions' = Append(instructions, [program |-> p, accounts |-> <<>>])
  BY DEF BeginInstruction
<1>2. [program |-> p, accounts |-> <<>>] \in Instructions
  BY DEF Instructions
<1>3. instructions' \in Seq(Instructions)
  <2> DEFINE x == [program |-> p, accounts |-> <<>>]
             T == Instructions
  <2>1. x \in T /\ instructions \in Seq(T) /\ instructions' = Append(instructions, x)
    BY <1>1, <1>2 DEF MessageInv
  <2> HIDE DEF x, T
  <2>2. instructions' \in Seq(T)
    BY <2>1, AppendFacts
  <2> QED BY <2>2 DEF T
<1>4. status = "building" /\ UNCHANGED <<tables, status, message, signatures>>
  BY DEF BeginInstruction
<1>5. ~Compiled /\ ~Compiled' /\ status' # "signed"
  BY <1>4 DEF Compiled
<1> QED BY <1>3, <1>4, <1>5 DEF MessageInv

LEMMA AddAccountType ==
    ASSUME NEW q \in Seq(Instructions), q # <<>>, NEW meta \in AccountMetas
    PROVE  [q EXCEPT ![Len(q)].accounts = Append(@, meta)] \in Seq(Instructions)
<1> DEFINE n == Len(q)
           old == q[n]
           list == Append(old.accounts, meta)
           new == [old EXCEPT !.accounts = list]
           r == [q EXCEPT ![n] = new]
           T == Instructions
<1>1. n \in Nat /\ n # 0 /\ DOMAIN q = 1..n /\ q = [i \in 1..n |-> q[i]]
  OBVIOUS
<1>2. \A i \in 1..n : q[i] \in T
  BY <1>1, SeqFacts
<1>3. n \in 1..n
  BY <1>1
<1>4. old \in T
  BY <1>2, <1>3
<1>5. old.program \in Programs /\ old.accounts \in Seq(AccountMetas)
  BY <1>4 DEF Instructions
<1>6. list \in Seq(AccountMetas)
  BY <1>5, AppendFacts
<1>7. new \in T
  <2> HIDE DEF list, old
  <2> QED BY <1>4, <1>6 DEF Instructions
<1> HIDE DEF new, T, n
<1>8. r = [i \in 1..n |-> r[i]] /\ \A i \in 1..n : r[i] \in T
  BY <1>1, <1>2, <1>7
<1> HIDE DEF r
<1>9. r \in Seq(T)
  BY <1>1, <1>8, IsSequence
<1> QED BY <1>9 DEF r, new, T, n

LEMMA AddAccountPreserves == MessageInv /\ AddAccount => MessageInv'
<1> SUFFICES ASSUME MessageInv, AddAccount PROVE MessageInv'
  OBVIOUS
<1>1. PICK meta \in AccountMetas :
        instructions' = [instructions EXCEPT ![Len(instructions)].accounts = Append(@, meta)]
  BY DEF AddAccount
<1>2. instructions' \in Seq(Instructions)
  BY <1>1, AddAccountType DEF AddAccount, MessageInv
<1>3. status = "building" /\ UNCHANGED <<tables, status, message, signatures>>
  BY DEF AddAccount
<1>4. ~Compiled /\ ~Compiled' /\ status' # "signed"
  BY <1>3 DEF Compiled
<1> QED BY <1>2, <1>3, <1>4 DEF MessageInv

(* A table grows: what was compiled before was compiled from less. *)
LEMMA ExtendTablePreserves == MessageInv /\ ExtendTable => MessageInv'
<1> SUFFICES ASSUME MessageInv, ExtendTable PROVE MessageInv'
  OBVIOUS
<1>1. /\ status \in {"signed", "vault"}
      /\ UNCHANGED <<instructions, status, message, executeAccounts, signatures>>
  BY DEF ExtendTable
<1>2. PICK t \in DOMAIN tables, x \in Addresses : tables' = [tables EXCEPT ![t] = Append(@, x)]
  BY DEF ExtendTable
<1>3. Compiled /\ Compiled'
  BY <1>1 DEF Compiled
<1>4. PICK known \in TableChoices : WasCompiled(known)
  BY <1>3 DEF MessageInv
<1>5. Extends(tables', known)
  <2>1. Extends(tables, known) /\ x \in Keys
    BY <1>4 DEF WasCompiled, Keys
  <2> QED BY <1>2, <2>1, ExtendsGrows
<1>6. WasCompiled(known)'
  BY <1>1, <1>4, <1>5 DEF WasCompiled
<1> QED BY <1>1, <1>3, <1>6 DEF MessageInv

(* Compiling, as a transaction or as a vault message. *)
LEMMA CompilePreserves == MessageInv /\ CompileTransaction => MessageInv'
<1> SUFFICES ASSUME MessageInv, CompileTransaction PROVE MessageInv'
  OBVIOUS
<1> DEFINE compiled == CompileMessage(instructions, tables)
<1>1. status = "building" /\ UNCHANGED <<instructions, tables, executeAccounts, signatures>>
  BY DEF CompileTransaction
<1>2. ~Compiled /\ message = NoMessage /\ tables \in TableChoices
  BY <1>1 DEF Compiled, MessageInv
<1>3. \/ TooLarge(compiled, tables) /\ status' = "rejected" /\ message' = message
      \/ ~TooLarge(compiled, tables) /\ status' = "compiled" /\ message' = compiled
  BY DEF CompileTransaction
<1> HIDE DEF compiled
<1>4. CASE status' = "rejected" /\ message' = message
  <2>1. ~Compiled'
    BY <1>4 DEF Compiled
  <2> QED BY <1>1, <1>2, <1>4, <2>1 DEF MessageInv
<1>5. CASE ~TooLarge(compiled, tables) /\ status' = "compiled" /\ message' = compiled
  <2>1. Extends(tables, tables)
    BY <1>2, TablesAssumption, ExtendsSelf
  <2>2. WasCompiled(tables)'
    BY <1>1, <1>5, <2>1 DEF WasCompiled, compiled
  <2>3. Compiled'
    BY <1>5 DEF Compiled
  <2> QED BY <1>1, <1>2, <1>5, <2>2, <2>3 DEF MessageInv
<1> QED BY <1>3, <1>4, <1>5

LEMMA VaultPreserves == MessageInv /\ CompileVault => MessageInv'
<1> SUFFICES ASSUME MessageInv, CompileVault PROVE MessageInv'
  OBVIOUS
<1> DEFINE compiled == CompileMessage(instructions, tables)
<1>1. status = "building" /\ UNCHANGED <<instructions, tables, signatures>>
  BY DEF CompileVault
<1>2. ~Compiled /\ message = NoMessage /\ tables \in TableChoices
  BY <1>1 DEF Compiled, MessageInv
<1>3. \/ status' = "rejected" /\ message' = message
      \/ /\ ~TooLarge(compiled, tables) /\ status' = "vault" /\ message' = compiled
         /\ executeAccounts' = ExecuteAccounts(compiled, tables)
  BY DEF CompileVault
<1> HIDE DEF compiled
<1>4. CASE status' = "rejected" /\ message' = message
  <2>1. ~Compiled'
    BY <1>4 DEF Compiled
  <2> QED BY <1>1, <1>2, <1>4, <2>1 DEF MessageInv
<1>5. CASE /\ ~TooLarge(compiled, tables) /\ status' = "vault" /\ message' = compiled
           /\ executeAccounts' = ExecuteAccounts(compiled, tables)
  <2>1. Extends(tables, tables)
    BY <1>2, TablesAssumption, ExtendsSelf
  <2>2. WasCompiled(tables)'
    BY <1>1, <1>5, <2>1 DEF WasCompiled, compiled
  <2>3. Compiled'
    BY <1>5 DEF Compiled
  <2> QED BY <1>1, <1>2, <1>5, <2>2, <2>3 DEF MessageInv
<1> QED BY <1>3, <1>4, <1>5

LEMMA SignPreserves == MessageInv /\ SignTransaction => MessageInv'
<1> SUFFICES ASSUME MessageInv, SignTransaction PROVE MessageInv'
  OBVIOUS
<1>1. status = "compiled" /\ UNCHANGED <<instructions, tables, message, executeAccounts>>
  BY DEF SignTransaction
<1>2. \/ status' = "signed" /\ signatures' = SignerAddresses(message)
      \/ status' = "refused"
  BY DEF SignTransaction
<1>3. Compiled /\ Compiled' /\ status' # "vault"
  BY <1>1, <1>2 DEF Compiled
<1>4. PICK known \in TableChoices : WasCompiled(known)
  BY <1>3 DEF MessageInv
<1>5. WasCompiled(known)'
  BY <1>1, <1>3, <1>4 DEF WasCompiled
<1> QED BY <1>1, <1>2, <1>3, <1>5 DEF MessageInv

LEMMA MessageInvNext == MessageInv /\ [Next]_vars => MessageInv'
<1> SUFFICES ASSUME MessageInv, [Next]_vars PROVE MessageInv'
  OBVIOUS
<1>1. CASE UNCHANGED vars
  <2>1. /\ instructions' = instructions /\ tables' = tables /\ status' = status /\ message' = message
        /\ executeAccounts' = executeAccounts /\ signatures' = signatures
    BY <1>1 DEF vars
  <2>2. Compiled' = Compiled /\ \A known : WasCompiled(known)' = WasCompiled(known)
    BY <2>1, Zenon DEF Compiled, WasCompiled
  <2> QED BY <2>1, <2>2, Zenon DEF MessageInv
<1> QED BY <1>1, BeginPreserves, AddAccountPreserves, ExtendTablePreserves, CompilePreserves,
           SignPreserves, VaultPreserves DEF Next

(* The invariant gives the properties. *)
LEMMA TypeFollows == MessageInv => TypeOK
<1> SUFFICES ASSUME MessageInv PROVE TypeOK
  OBVIOUS
<1>1. FitsBytes(message)
  <2>1. CASE Compiled
    <3>1. PICK known \in TableChoices : WasCompiled(known)
      BY <2>1 DEF MessageInv
    <3>2. /\ known \in Seq(Seq(Keys)) /\ message = CompileMessage(instructions, known)
          /\ ~TooLarge(message, known) /\ instructions \in Seq(Instructions)
      BY <3>1, TablesAssumption DEF WasCompiled, MessageInv
    <3> QED BY <3>2, FitsFacts
  <2>2. CASE ~Compiled
    <3>1. 0 \in 0..(MaxKeys - 1)
      BY KeysAssumption
    <3>2. message = NoMessage
      BY <2>2 DEF MessageInv
    <3> QED BY <3>1, <3>2 DEF FitsBytes, NoMessage
  <2> QED BY <2>1, <2>2
<1> DEFINE Byte == 0..(MaxKeys - 1)
<1>2. ASSUME NEW k \in Indexes PROVE k \in Byte
  <2>1. PICK i \in DOMAIN message.instructions :
          k \in {message.instructions[i].program} \cup Range(message.instructions[i].accounts)
    BY DEF Indexes
  <2>2. CASE k = message.instructions[i].program
    BY <1>1, <2>2, Zenon DEF FitsBytes
  <2>3. CASE k \in Range(message.instructions[i].accounts)
    <3>1. PICK j \in DOMAIN message.instructions[i].accounts : message.instructions[i].accounts[j] = k
      BY <2>3, InRange
    <3>2. message.instructions[i].accounts[j] \in Byte
      BY <1>1, Zenon DEF FitsBytes
    <3> QED BY <3>1, <3>2, Zenon
  <2> QED BY <2>1, <2>2, <2>3
<1>3. ASSUME NEW k \in DOMAIN message.lookups
      PROVE  /\ Range(message.lookups[k].writableIndexes) \subseteq Byte
             /\ Range(message.lookups[k].readonlyIndexes) \subseteq Byte
  <2> DEFINE w == message.lookups[k].writableIndexes
             r == message.lookups[k].readonlyIndexes
  <2>1. (\A i \in DOMAIN w : w[i] \in Byte) /\ (\A i \in DOMAIN r : r[i] \in Byte)
    BY <1>1, Zenon DEF FitsBytes
  <2> HIDE DEF w, r, Byte
  <2>2. Range(w) \subseteq Byte /\ Range(r) \subseteq Byte
    BY <2>1, InRange
  <2> QED BY <2>2 DEF w, r
<1>4. {message.numSigners, message.readonlySigned, message.readonlyUnsigned} \subseteq Byte
  BY <1>1 DEF FitsBytes
<1> HIDE DEF Byte
<1>5. Indexes \subseteq Byte
  BY <1>2
<1>6. status \in {"building", "rejected", "compiled", "signed", "refused", "vault"}
  BY DEF MessageInv
<1> QED BY <1>3, <1>4, <1>5, <1>6, Zenon DEF TypeOK, Byte

LEMMA ExecutesFollows == MessageInv => ExecutesAsRequested
<1> SUFFICES ASSUME MessageInv PROVE ExecutesAsRequested
  OBVIOUS
<1> DEFINE accounts == RuntimeAccounts(message, tables)
<1>1. status = "signed" => signatures = SignerAddresses(message)
  BY DEF MessageInv
<1>2. ASSUME Compiled PROVE GivesAsked(message, accounts, instructions)
  <2>1. PICK known \in TableChoices : WasCompiled(known)
    BY <1>2 DEF MessageInv
  <2> QED BY <2>1, GivesAskedFacts DEF WasCompiled, MessageInv
<1>3. ASSUME status = "signed" PROVE signatures[1] = FeePayer
  <2>1. Compiled
    BY <1>3 DEF Compiled
  <2>2. PICK known \in TableChoices : WasCompiled(known)
    BY <2>1 DEF MessageInv
  <2>3. IsHead(message, AggregateAccountMetas(instructions))
    BY <2>2, HeadFacts DEF WasCompiled, MessageInv
  <2>4. message.accountKeys[1] = FeePayer /\ 1 \in 1..message.numSigners
    BY <2>3 DEF IsHead
  <2>5. SignerAddresses(message)[1] = message.accountKeys[1]
    BY <2>3, <2>4, SignersFacts
  <2> QED BY <1>1, <1>3, <2>4, <2>5, Zenon
<1>4. ASSUME Compiled, NEW i \in DOMAIN instructions
      PROVE  /\ message.instructions[i].program < Len(message.accountKeys)
             /\ message.accountKeys[message.instructions[i].program + 1] = instructions[i].program
             /\ \A j \in DOMAIN instructions[i].accounts :
                  AccountGiven(message, accounts, instructions[i].accounts[j],
                               message.instructions[i].accounts[j])
  BY <1>2, <1>4, Zenon DEF GivesAsked
<1> HIDE DEF accounts
<1>5. ASSUME Compiled, NEW i \in DOMAIN instructions, NEW j \in DOMAIN instructions[i].accounts
      PROVE  LET asked == instructions[i].accounts[j]
                 index == message.instructions[i].accounts[j]
                 given == accounts[index + 1]
             IN  /\ given.address = asked.address
                 /\ asked.isSigner =>
                      /\ given.isSigner
                      /\ status = "signed" => signatures[index + 1] = asked.address
                 /\ asked.isWritable => given.isWritable
  <2>1. AccountGiven(message, accounts, instructions[i].accounts[j], message.instructions[i].accounts[j])
    BY <1>4, <1>5, Zenon
  <2> QED BY <1>1, <2>1, Zenon DEF AccountGiven
<1> QED BY <1>3, <1>4, <1>5, Zenon DEF ExecutesAsRequested, accounts

LEMMA NoExtraFollows == MessageInv => NoExtraPrivilege
<1> SUFFICES ASSUME MessageInv, Compiled PROVE NoExtraPrivilege
  BY DEF NoExtraPrivilege
<1> DEFINE accounts == RuntimeAccounts(message, tables)
<1>1. GivesNoMore(accounts, instructions)
  <2>1. PICK known \in TableChoices : WasCompiled(known)
    BY DEF MessageInv
  <2> QED BY <2>1, GivesNoMoreFacts DEF WasCompiled, MessageInv
<1> HIDE DEF accounts
<1>2. ASSUME NEW given \in Range(accounts), given.address # FeePayer
      PROVE  LET asked == {a \in Asked(instructions) : a.address = given.address}
             IN  /\ given.isSigner => \E a \in asked : a.isSigner
                 /\ given.isWritable => \E a \in asked : a.isWritable
  <2>1. PICK p \in DOMAIN accounts : accounts[p] = given
    BY InRange
  <2>2. /\ given.isSigner => \E a \in Asked(instructions) : a.address = given.address /\ a.isSigner
        /\ given.isWritable => \E a \in Asked(instructions) : a.address = given.address /\ a.isWritable
    BY <1>1, <1>2, <2>1, Zenon DEF GivesNoMore
  <2> QED BY <2>2, Zenon
<1> QED BY <1>2, Zenon DEF NoExtraPrivilege, Asked, accounts

LEMMA VaultFollows == MessageInv => VaultExecutesMessage
<1> SUFFICES ASSUME MessageInv, status = "vault" PROVE VaultExecutesMessage
  BY DEF VaultExecutesMessage
<1> DEFINE accounts == RuntimeAccounts(message, tables)
<1>1. Compiled
  BY DEF Compiled
<1>2. PICK known \in TableChoices : WasCompiled(known)
  BY <1>1 DEF MessageInv
<1>3. SquadsAccounts(message, ExecuteAccounts(message, known)) = MaskedAll(accounts)
  BY <1>2, VaultFacts DEF WasCompiled, MessageInv
<1>4. executeAccounts = ExecuteAccounts(message, known)
  BY <1>2 DEF WasCompiled
<1> HIDE DEF accounts
<1>5. MaskedAll(accounts) = [i \in DOMAIN accounts |->
        [accounts[i] EXCEPT !.isSigner = @ /\ accounts[i].address \notin ProgramSignerAddresses]]
  BY Zenon DEF MaskedAll, Masked
<1> QED BY <1>3, <1>4, <1>5, Zenon DEF VaultExecutesMessage, accounts

(* The message the compiler makes from any request and any tables fits its
   bytes, whatever the tables become afterwards. *)
THEOREM TypeCorrect == Spec => []TypeOK
<1>1. Spec => []MessageInv
  BY MessageInvInit, MessageInvNext, PTL DEF Spec
<1> QED BY <1>1, TypeFollows, PTL

(* compileVersionZeroMessage and signSolanaTransaction: the runtime executes
   each instruction with the requested program and accounts, with at least the
   requested privileges, and each signature stands at its signer's index. *)
THEOREM MessageExecutesAsRequested == Spec => []ExecutesAsRequested
<1>1. Spec => []MessageInv
  BY MessageInvInit, MessageInvNext, PTL DEF Spec
<1> QED BY <1>1, ExecutesFollows, PTL

(* mergeAccountMeta and orderStaticAccountMetas add no privilege: whoever signs
   or is written in the message, other than the fee payer, was asked to. *)
THEOREM MessageAddsNoPrivilege == Spec => []NoExtraPrivilege
<1>1. Spec => []MessageInv
  BY MessageInvInit, MessageInvNext, PTL DEF Spec
<1> QED BY <1>1, NoExtraFollows, PTL

(* resolveSquadsVaultTransactionExecuteAccounts: the Squads program, which takes
   its accounts lookup by lookup from the list the client resolved, finds the
   accounts of the stored message although tables have grown since. *)
THEOREM VaultMessageExecutes == Spec => []VaultExecutesMessage
<1>1. Spec => []MessageInv
  BY MessageInvInit, MessageInvNext, PTL DEF Spec
<1> QED BY <1>1, VaultFollows, PTL

----------------------------------------------------------------------------
(* Listing the calls of a transaction in the order of execution. *)

(* path visits every place of S once, in order. *)
Listing(path, N, S) ==
    /\ N \in Nat /\ path \in [1..N -> S]
    /\ \A x \in S : \E p \in 1..N : path[p] = x
    /\ \A p, r \in 1..N : p < r => Precedes(path[p], path[r])

(* s holds, place by place, what f has there. *)
Listed(s, path, N, S, f) ==
    /\ Listing(path, N, S)
    /\ DOMAIN s = 1..N /\ s = [p \in 1..N |-> s[p]]
    /\ \A p \in 1..N : s[p] = f[path[p]]

LEMMA ListedAt ==
    ASSUME NEW s, NEW path, NEW N, NEW S, NEW f, Listed(s, path, N, S, f),
           NEW P, P \subseteq 1..N, NEW Q, Q \subseteq S, \A p \in 1..N : p \in P <=> path[p] \in Q
    PROVE  \E sub, M : Listed(At(s, P), sub, M, Q, f)
<1> DEFINE t == At(s, P)
<1>1. /\ N \in Nat /\ path \in [1..N -> S] /\ DOMAIN s = 1..N
      /\ \A x \in S : \E p \in 1..N : path[p] = x
      /\ \A p, r \in 1..N : p < r => Precedes(path[p], path[r])
      /\ \A p \in 1..N : s[p] = f[path[p]]
  BY Zenon DEF Listed, Listing
<1>2. PICK order, M : Selects(order, M, t, s, P)
  BY <1>1, AtFacts
<1> HIDE DEF t
<1>3. /\ M \in Nat /\ DOMAIN t = 1..M /\ order \in [1..M -> P]
      /\ \A x \in P : \E k \in 1..M : order[k] = x
      /\ \A j, k \in 1..M : j < k => order[j] < order[k]
      /\ t = [k \in 1..M |-> t[k]] /\ \A k \in 1..M : t[k] = s[order[k]]
  BY <1>2, Zenon DEF Selects
<1> DEFINE sub == [k \in 1..M |-> path[order[k]]]
<1>4. \A k \in 1..M : sub[k] = path[order[k]] /\ order[k] \in P /\ order[k] \in 1..N
  BY <1>3
<1>5. sub \in [1..M -> Q]
  BY <1>4
<1> HIDE DEF sub
<1>6. ASSUME NEW x \in Q PROVE \E k \in 1..M : sub[k] = x
  <2>1. PICK p \in 1..N : path[p] = x
    BY <1>1, Zenon
  <2>2. p \in P
    BY <2>1, Zenon
  <2>3. PICK k \in 1..M : order[k] = p
    BY <1>3, <2>2, Zenon
  <2> QED BY <1>4, <2>1, <2>3, Zenon
<1>7. ASSUME NEW j \in 1..M, NEW k \in 1..M, j < k PROVE Precedes(sub[j], sub[k])
  <2>1. order[j] < order[k]
    BY <1>3, <1>7, Zenon
  <2>2. Precedes(path[order[j]], path[order[k]])
    BY <1>1, <1>4, <2>1, Zenon
  <2> QED BY <1>4, <2>2, Zenon
<1>8. \A k \in 1..M : t[k] = f[sub[k]]
  BY <1>1, <1>3, <1>4, Zenon
<1>9. Listing(sub, M, Q)
  BY <1>3, <1>5, <1>6, <1>7, Zenon DEF Listing
<1>10. Listed(t, sub, M, Q, f)
  BY <1>3, <1>8, <1>9, Zenon DEF Listed
<1> QED BY <1>10 DEF t

----------------------------------------------------------------------------
(* What a node reports is what the client reads. *)

(* The calls of n instructions, with keys of the transaction. *)
CallsWith(calls, n, keys) ==
    /\ n \in Nat /\ DOMAIN calls = 1..n /\ keys \in Seq(Keys)
    /\ \A i \in 1..n : calls[i] \in Seq(Calls)
    /\ \A i \in 1..n : \A k \in DOMAIN calls[i] :
         {calls[i][k].program} \cup Range(calls[i][k].accounts) \subseteq Range(keys)

LEMMA IndexReads ==
    ASSUME NEW keys \in Seq(Keys), NEW x \in Range(keys)
    PROVE  /\ CompiledIndex(keys, x) \in Nat /\ Len(keys) \in Nat
           /\ CompiledIndex(keys, x) < Len(keys) /\ keys[CompiledIndex(keys, x) + 1] = x
<1>1. PICK p \in DOMAIN keys : keys[p] = x
  BY InRange
<1>2. CompiledIndex(keys, x) \in 0..(Len(keys) - 1) /\ keys[CompiledIndex(keys, x) + 1] = x
  BY <1>1, IndexFacts
<1>3. Len(keys) \in Nat
  BY SeqFacts
<1> QED BY <1>2, <1>3

(* An instruction of the node's report stands for call. *)
ReadsBack(r, call, keys) ==
    /\ r.data = call.data
    /\ ~(r.programIdIndex >= Len(keys)) /\ keys[r.programIdIndex + 1] = call.program
    /\ \A index \in Range(r.accounts) : ~(index >= Len(keys))
    /\ InstructionAccountAddresses(r.accounts, keys) = call.accounts

LEMMA CallFacts ==
    ASSUME NEW call \in Calls
    PROVE  /\ call.accounts \in Seq(Keys) /\ call.accounts = [j \in DOMAIN call.accounts |-> call.accounts[j]]
           /\ call.data \in {"call", "event", "laterEvent", "trailingBytes"}
<1>1. call.accounts \in Seq(Keys) /\ call.data \in {"call", "event", "laterEvent", "trailingBytes"}
  BY DEF Calls
<1> DEFINE s == call.accounts
<1> HIDE DEF s
<1>2. s \in Seq(Keys)
  BY <1>1 DEF s
<1>3. s = [j \in DOMAIN s |-> s[j]]
  BY <1>2
<1> QED BY <1>1, <1>3 DEF s

LEMMA RpcFacts ==
    ASSUME NEW keys \in Seq(Keys), NEW call \in Calls,
           {call.program} \cup Range(call.accounts) \subseteq Range(keys)
    PROVE  ReadsBack(RpcInstruction(call, keys), call, keys)
<1> DEFINE r == RpcInstruction(call, keys)
           list == call.accounts
           ids == [j \in DOMAIN list |-> CompiledIndex(keys, list[j])]
<1>1. r.data = call.data /\ r.programIdIndex = CompiledIndex(keys, call.program) /\ r.accounts = ids
  BY DEF RpcInstruction
<1>2. list = [j \in DOMAIN list |-> list[j]]
  BY CallFacts
<1>3. ASSUME NEW x \in Range(keys)
      PROVE  ~(CompiledIndex(keys, x) >= Len(keys)) /\ keys[CompiledIndex(keys, x) + 1] = x
  BY IndexReads
<1>4. call.program \in Range(keys)
  OBVIOUS
<1>5. \A j \in DOMAIN list : list[j] \in Range(keys)
  BY InRange
<1> HIDE DEF list, r
<1>6. DOMAIN ids = DOMAIN list /\ \A j \in DOMAIN list : ids[j] = CompiledIndex(keys, list[j])
  OBVIOUS
<1> HIDE DEF ids
<1>7. ASSUME NEW index \in Range(ids) PROVE ~(index >= Len(keys))
  <2>1. PICK j \in DOMAIN ids : ids[j] = index
    BY InRange
  <2> QED BY <1>3, <1>5, <1>6, <2>1, Zenon
<1>8. InstructionAccountAddresses(ids, keys) = list
  <2>1. \A j \in DOMAIN ids : keys[ids[j] + 1] = list[j]
    BY <1>3, <1>5, <1>6, Zenon
  <2>2. InstructionAccountAddresses(ids, keys) = [j \in DOMAIN ids |-> keys[ids[j] + 1]]
    BY Zenon DEF InstructionAccountAddresses
  <2> QED BY <1>2, <1>6, <2>1, <2>2, Zenon
<1>9. ~(r.programIdIndex >= Len(keys)) /\ keys[r.programIdIndex + 1] = call.program
  BY <1>1, <1>3, <1>4, Zenon
<1>10. ReadsBack(r, call, keys)
  BY <1>1, <1>7, <1>8, <1>9, Zenon DEF ReadsBack, list
<1> QED BY <1>10 DEF r

(* The groups of the report: the instructions that made calls, in order. *)
IsGroups(groups, G, order, calls, n, keys) ==
    /\ G \in Nat /\ DOMAIN groups = 1..G /\ order \in [1..G -> 1..n]
    /\ \A j, g \in 1..G : j < g => order[j] < order[g]
    /\ \A i \in 1..n : calls[i] # <<>> => \E g \in 1..G : order[g] = i
    /\ \A g \in 1..G :
         /\ groups[g].index = order[g] - 1
         /\ DOMAIN groups[g].instructions = DOMAIN calls[order[g]]
         /\ \A k \in DOMAIN calls[order[g]] :
              /\ groups[g].instructions[k] = RpcInstruction(calls[order[g]][k], keys)
              /\ ReadsBack(groups[g].instructions[k], calls[order[g]][k], keys)

LEMMA GroupsFacts ==
    ASSUME NEW calls, NEW n, NEW keys, CallsWith(calls, n, keys)
    PROVE  \E G, order : IsGroups(RpcGroups(calls, keys), G, order, calls, n, keys)
<1> DEFINE groups == RpcGroups(calls, keys)
           made == {i \in DOMAIN calls : calls[i] # <<>>}
           list(i) == [k \in DOMAIN calls[i] |-> RpcInstruction(calls[i][k], keys)]
           s == [i \in DOMAIN calls |-> [index |-> i - 1, instructions |-> list(i)]]
<1>1. /\ n \in Nat /\ DOMAIN calls = 1..n /\ keys \in Seq(Keys)
      /\ \A i \in 1..n : calls[i] \in Seq(Calls)
      /\ \A i \in 1..n : \A k \in DOMAIN calls[i] :
           {calls[i][k].program} \cup Range(calls[i][k].accounts) \subseteq Range(keys)
  BY Zenon DEF CallsWith
<1>2. groups = At(s, made)
  BY Zenon DEF RpcGroups
<1>3. DOMAIN s = 1..n /\ made \subseteq 1..n /\ \A i \in 1..n : i \in made <=> calls[i] # <<>>
  BY <1>1
<1>4. ASSUME NEW i \in 1..n
      PROVE  /\ s[i].index = i - 1 /\ DOMAIN s[i].instructions = DOMAIN calls[i]
             /\ \A k \in DOMAIN calls[i] :
                  /\ s[i].instructions[k] = RpcInstruction(calls[i][k], keys)
                  /\ ReadsBack(s[i].instructions[k], calls[i][k], keys)
  <2>1. s[i] = [index |-> i - 1, instructions |-> list(i)]
    BY <1>1
  <2>2. s[i].index = i - 1 /\ s[i].instructions = list(i)
    BY <2>1
  <2>3. ASSUME NEW k \in DOMAIN calls[i] PROVE ReadsBack(RpcInstruction(calls[i][k], keys), calls[i][k], keys)
    <3>1. calls[i][k] \in Calls
      BY <1>1, SeqFacts
    <3>2. {calls[i][k].program} \cup Range(calls[i][k].accounts) \subseteq Range(keys)
      BY <1>1, Zenon
    <3> QED BY <1>1, <3>1, <3>2, RpcFacts
  <2>4. DOMAIN list(i) = DOMAIN calls[i] /\ \A k \in DOMAIN calls[i] : list(i)[k] = RpcInstruction(calls[i][k], keys)
    OBVIOUS
  <2> HIDE DEF s, list
  <2> QED BY <2>2, <2>3, <2>4, Zenon
<1> HIDE DEF s, made, groups
<1>5. PICK order, G : Selects(order, G, groups, s, made)
  BY <1>1, <1>2, <1>3, AtFacts
<1>6. /\ G \in Nat /\ DOMAIN groups = 1..G /\ order \in [1..G -> made]
      /\ \A x \in made : \E k \in 1..G : order[k] = x
      /\ \A j, k \in 1..G : j < k => order[j] < order[k]
      /\ \A k \in 1..G : groups[k] = s[order[k]]
  BY <1>5, Zenon DEF Selects
<1>7. order \in [1..G -> 1..n] /\ \A g \in 1..G : order[g] \in 1..n
  BY <1>3, <1>6
<1>8. ASSUME NEW g \in 1..G
      PROVE  /\ groups[g].index = order[g] - 1
             /\ DOMAIN groups[g].instructions = DOMAIN calls[order[g]]
             /\ \A k \in DOMAIN calls[order[g]] :
                  /\ groups[g].instructions[k] = RpcInstruction(calls[order[g]][k], keys)
                  /\ ReadsBack(groups[g].instructions[k], calls[order[g]][k], keys)
  <2> DEFINE i == order[g]
  <2>1. i \in 1..n /\ groups[g] = s[i]
    BY <1>6, <1>7, Zenon
  <2> HIDE DEF i
  <2>2. /\ s[i].index = i - 1 /\ DOMAIN s[i].instructions = DOMAIN calls[i]
        /\ \A k \in DOMAIN calls[i] :
             /\ s[i].instructions[k] = RpcInstruction(calls[i][k], keys)
             /\ ReadsBack(s[i].instructions[k], calls[i][k], keys)
    BY <1>4, <2>1, Zenon
  <2> QED BY <2>1, <2>2, Zenon DEF i
<1>9. IsGroups(groups, G, order, calls, n, keys)
  BY <1>3, <1>6, <1>7, <1>8, Zenon DEF IsGroups
<1> QED BY <1>9 DEF groups

(* Every call of a transaction. *)
Places(calls) == UNION {{<<i, k>> : k \in DOMAIN calls[i]} : i \in DOMAIN calls}

LEMMA PlacesFacts ==
    ASSUME NEW calls
    PROVE  /\ \A x \in Places(calls) : /\ x = <<x[1], x[2]>> /\ x[1] \in DOMAIN calls
                                       /\ x[2] \in DOMAIN calls[x[1]]
           /\ \A i \in DOMAIN calls : \A k \in DOMAIN calls[i] : <<i, k>> \in Places(calls)
<1>1. ASSUME NEW x \in Places(calls)
      PROVE  x = <<x[1], x[2]>> /\ x[1] \in DOMAIN calls /\ x[2] \in DOMAIN calls[x[1]]
  <2>1. PICK i \in DOMAIN calls : x \in {<<i, k>> : k \in DOMAIN calls[i]}
    BY Zenon DEF Places
  <2>2. PICK k \in DOMAIN calls[i] : x = <<i, k>>
    BY <2>1, Zenon
  <2>3. x[1] = i /\ x[2] = k
    BY <2>2
  <2> QED BY <2>2, <2>3, Zenon
<1>2. ASSUME NEW i \in DOMAIN calls, NEW k \in DOMAIN calls[i] PROVE <<i, k>> \in Places(calls)
  <2>1. <<i, k>> \in {<<i, l>> : l \in DOMAIN calls[i]}
    OBVIOUS
  <2>2. {<<i, l>> : l \in DOMAIN calls[i]} \in {{<<m, l>> : l \in DOMAIN calls[m]} : m \in DOMAIN calls}
    OBVIOUS
  <2> QED BY <2>1, <2>2 DEF Places
<1> QED BY <1>1, <1>2

(* A call as the client first reads it: its accounts still are indexes. *)
AsReported(calls, keys, i, k) ==
    [programAddress         |-> calls[i][k].program,
     accounts               |-> RpcInstruction(calls[i][k], keys).accounts,
     data                   |-> calls[i][k].data,
     parentInstructionIndex |-> i - 1,
     innerInstructionIndex  |-> k - 1]

Reported(calls, keys) == [x \in Places(calls) |-> AsReported(calls, keys, x[1], x[2])]

AreReported(s, calls, keys, i) ==
    /\ s = [k \in DOMAIN calls[i] |-> s[k]]
    /\ \A k \in DOMAIN calls[i] : s[k] = AsReported(calls, keys, i, k)

LEMMA OccurrencesFacts ==
    ASSUME NEW calls, NEW n, NEW keys, NEW groups, NEW G, NEW order,
           IsGroups(groups, G, order, calls, n, keys), NEW g \in 1..G
    PROVE  AreReported(Occurrences(groups[g], keys), calls, keys, order[g])
<1> DEFINE i == order[g]
           list == groups[g].instructions
           s == Occurrences(groups[g], keys)
<1>1. /\ groups[g].index = i - 1 /\ DOMAIN list = DOMAIN calls[i]
      /\ \A k \in DOMAIN calls[i] : /\ list[k] = RpcInstruction(calls[i][k], keys)
                                    /\ ReadsBack(list[k], calls[i][k], keys)
  BY Zenon DEF IsGroups
<1> HIDE DEF i
<1>2. s = [k \in DOMAIN list |->
             [programAddress         |-> keys[list[k].programIdIndex + 1],
              accounts               |-> list[k].accounts,
              data                   |-> list[k].data,
              parentInstructionIndex |-> groups[g].index,
              innerInstructionIndex  |-> k - 1]]
  BY Zenon DEF Occurrences
<1> HIDE DEF list, s
<1>3. s = [k \in DOMAIN calls[i] |-> s[k]]
  BY <1>1, <1>2
<1>4. ASSUME NEW k \in DOMAIN calls[i] PROVE s[k] = AsReported(calls, keys, i, k)
  <2>1. s[k] = [programAddress         |-> keys[list[k].programIdIndex + 1],
                accounts               |-> list[k].accounts,
                data                   |-> list[k].data,
                parentInstructionIndex |-> groups[g].index,
                innerInstructionIndex  |-> k - 1]
    BY <1>1, <1>2, Zenon
  <2>2. keys[list[k].programIdIndex + 1] = calls[i][k].program /\ list[k].data = calls[i][k].data
    BY <1>1, Zenon DEF ReadsBack
  <2>3. list[k] = RpcInstruction(calls[i][k], keys) /\ groups[g].index = i - 1
    BY <1>1, Zenon
  <2> QED BY <2>1, <2>2, <2>3, Zenon DEF AsReported
<1>5. AreReported(s, calls, keys, i)
  BY <1>3, <1>4, Zenon DEF AreReported
<1> QED BY <1>5 DEF s, i

(* The occurrences of all groups, one after the other. *)
AllOccurrences(groups, keys) ==
    FlattenSeq([g \in DOMAIN groups |-> Occurrences(groups[g], keys)])

LEMMA AllOccurrencesFacts ==
    ASSUME NEW calls, NEW n, NEW keys, CallsWith(calls, n, keys),
           NEW groups, NEW G, NEW order, IsGroups(groups, G, order, calls, n, keys)
    PROVE  \E path, N : Listed(AllOccurrences(groups, keys), path, N, Places(calls),
                               Reported(calls, keys))
<1> DEFINE S == Places(calls)
           f == Reported(calls, keys)
           ss == [g \in DOMAIN groups |-> Occurrences(groups[g], keys)]
           T == Range(f)
           len(g) == Len(calls[order[g]])
           all == FlattenSeq(ss)
<1>1. /\ G \in Nat /\ DOMAIN groups = 1..G /\ order \in [1..G -> 1..n]
      /\ \A j, g \in 1..G : j < g => order[j] < order[g]
      /\ \A i \in 1..n : calls[i] # <<>> => \E g \in 1..G : order[g] = i
  BY Zenon DEF IsGroups
<1>2. n \in Nat /\ DOMAIN calls = 1..n /\ \A i \in 1..n : calls[i] \in Seq(Calls)
  BY Zenon DEF CallsWith
<1>3. \A i \in 1..n : Len(calls[i]) \in Nat /\ DOMAIN calls[i] = 1..Len(calls[i])
  BY <1>2, SeqFacts
<1>4. \A g \in 1..G : order[g] \in 1..n /\ len(g) \in Nat /\ DOMAIN calls[order[g]] = 1..len(g)
  BY <1>1, <1>3
<1>5. /\ DOMAIN f = S /\ \A x \in S : f[x] = AsReported(calls, keys, x[1], x[2])
  BY Zenon DEF Reported
<1>6. ASSUME NEW i \in 1..n, NEW k \in 1..Len(calls[i])
      PROVE  <<i, k>> \in S /\ f[<<i, k>>] = AsReported(calls, keys, i, k)
  <2>1. i \in DOMAIN calls /\ k \in DOMAIN calls[i]
    BY <1>2, <1>3
  <2>2. <<i, k>> \in S
    BY <2>1, PlacesFacts
  <2>3. <<i, k>>[1] = i /\ <<i, k>>[2] = k
    OBVIOUS
  <2> QED BY <1>5, <2>2, <2>3, Zenon
<1> HIDE DEF f, S
<1>7. ss = [g \in 1..G |-> ss[g]] /\ DOMAIN ss = 1..G /\ \A g \in 1..G : ss[g] = Occurrences(groups[g], keys)
  BY <1>1
<1> HIDE DEF ss
<1>8. ASSUME NEW g \in 1..G
      PROVE  /\ ss[g] \in Seq(T) /\ Len(ss[g]) = len(g)
             /\ \A k \in 1..len(g) : <<order[g], k>> \in S /\ ss[g][k] = f[<<order[g], k>>]
  <2> DEFINE s == ss[g]
             m == len(g)
  <2>1. /\ s = [k \in DOMAIN calls[order[g]] |-> s[k]]
        /\ \A k \in DOMAIN calls[order[g]] : s[k] = AsReported(calls, keys, order[g], k)
    <3>1. AreReported(s, calls, keys, order[g])
      BY <1>7, OccurrencesFacts
    <3> HIDE DEF s
    <3> QED BY <3>1, Zenon DEF AreReported
  <2>2. m \in Nat /\ DOMAIN calls[order[g]] = 1..m /\ order[g] \in 1..n
    BY <1>4, Zenon
  <2>3. \A k \in 1..m : <<order[g], k>> \in S /\ s[k] = f[<<order[g], k>>]
    BY <1>6, <2>1, <2>2, Zenon
  <2>4. \A k \in 1..m : s[k] \in T
    BY <1>5, <2>3, InRange, Zenon
  <2> HIDE DEF s, T, m
  <2>5. s = [k \in 1..m |-> s[k]]
    BY <2>1, <2>2, Zenon
  <2>6. s \in Seq(T) /\ Len(s) = m
    BY <2>2, <2>4, <2>5, IsSequence
  <2> QED BY <2>3, <2>6, Zenon DEF s, m
<1> HIDE DEF T
<1>9. ss \in Seq(Seq(T))
  <2> DEFINE U == Seq(T)
  <2>1. \A g \in 1..G : ss[g] \in U
    BY <1>8
  <2> HIDE DEF U
  <2>2. ss \in Seq(U)
    BY <1>1, <1>7, <2>1, IsSequence
  <2> QED BY <2>2 DEF U
<1>10. all \in Seq(T) /\ \E off : Layout(off, G, ss, all)
  BY <1>1, <1>7, <1>9, Flattened
<1>11. PICK off : Layout(off, G, ss, all)
  BY <1>10
<1> HIDE DEF all
<1> DEFINE N == off[G]
<1>12. /\ off \in [0..G -> Nat] /\ DOMAIN all = 1..N
       /\ \A g \in 1..G : \A k \in 1..Len(ss[g]) :
            off[g - 1] + k \in 1..N /\ all[off[g - 1] + k] = ss[g][k]
       /\ \A p \in 1..N : \E g \in 1..G : \E k \in 1..Len(ss[g]) : p = off[g - 1] + k
  BY <1>11, Zenon DEF Layout
<1>13. N \in Nat
  BY <1>1, <1>12
<1> HIDE DEF N
<1> DEFINE IsPlace(p, g, k) == Located(off, ss, G, p, g, k)
<1>14. ASSUME NEW p \in 1..N PROVE \E x \in S : \E g, k : IsPlace(p, g, k) /\ x = <<order[g], k>>
  <2>1. PICK g \in 1..G : \E k \in 1..Len(ss[g]) : p = off[g - 1] + k
    BY <1>12, Zenon
  <2>2. PICK k \in 1..Len(ss[g]) : p = off[g - 1] + k
    BY <2>1, Zenon
  <2>3. k \in 1..len(g) /\ <<order[g], k>> \in S
    BY <1>8, <2>2, Zenon
  <2>4. IsPlace(p, g, k)
    BY <2>2, Zenon DEF Located
  <2> QED BY <2>3, <2>4, Zenon
<1> DEFINE Place(p) == CHOOSE x \in S : \E g, k : IsPlace(p, g, k) /\ x = <<order[g], k>>
           path == [p \in 1..N |-> Place(p)]
<1>15. ASSUME NEW p \in 1..N
       PROVE  path[p] \in S /\ \E g, k : IsPlace(p, g, k) /\ path[p] = <<order[g], k>>
  <2>1. Place(p) \in S /\ \E g, k : IsPlace(p, g, k) /\ Place(p) = <<order[g], k>>
    BY <1>14, Zenon
  <2> HIDE DEF Place
  <2>2. path[p] = Place(p)
    OBVIOUS
  <2> HIDE DEF path
  <2> QED BY <2>1, <2>2, Zenon
<1>16. path = [p \in 1..N |-> path[p]] /\ path \in [1..N -> S]
  <2>1. path = [p \in 1..N |-> path[p]]
    <3> HIDE DEF Place
    <3> QED OBVIOUS
  <2> HIDE DEF path
  <2> QED BY <1>15, <2>1
<1> HIDE DEF path
<1>17. \A g \in 1..G : Len(ss[g]) \in Nat /\ Len(ss[g]) = len(g)
  BY <1>4, <1>8, Zenon
<1>18. ASSUME NEW p \in 1..N, NEW r \in 1..N, p < r, NEW g, NEW k, IsPlace(p, g, k), NEW h, NEW j, IsPlace(r, h, j)
       PROVE  g < h \/ (g = h /\ k < j)
  <2>1. /\ g \in 1..G /\ k \in 1..Len(ss[g]) /\ h \in 1..G /\ j \in 1..Len(ss[h])
        /\ off[g - 1] + k < off[h - 1] + j
    BY <1>18, Zenon DEF Located
  <2>2. \A m \in 1..G : Len(ss[m]) \in Nat
    BY <1>17, Zenon
  <2> QED BY <1>1, <1>11, <2>1, <2>2, LayoutOrder
<1>19. ASSUME NEW p \in 1..N, NEW g, NEW k, IsPlace(p, g, k) PROVE path[p] = <<order[g], k>>
  <2>1. PICK h, j : IsPlace(p, h, j) /\ path[p] = <<order[h], j>>
    BY <1>15, Zenon
  <2>2. \A m \in 1..G : Len(ss[m]) \in Nat
    BY <1>17, Zenon
  <2>3. h = g /\ j = k
    BY <1>1, <1>11, <1>19, <2>1, <2>2, SamePlace
  <2> QED BY <2>1, <2>3, Zenon
<1>20. ASSUME NEW p \in 1..N PROVE all[p] = f[path[p]]
  <2>1. PICK g, k : IsPlace(p, g, k) /\ path[p] = <<order[g], k>>
    BY <1>15, Zenon
  <2>2. g \in 1..G /\ k \in 1..len(g) /\ k \in 1..Len(ss[g]) /\ p = off[g - 1] + k
    BY <1>17, <2>1, Zenon DEF Located
  <2>3. all[p] = ss[g][k]
    BY <1>12, <2>2, Zenon
  <2> QED BY <1>8, <2>1, <2>2, <2>3, Zenon
<1>21. ASSUME NEW x \in S PROVE \E p \in 1..N : path[p] = x
  <2> DEFINE i == x[1]
             k == x[2]
  <2>1. x = <<i, k>> /\ i \in DOMAIN calls /\ k \in DOMAIN calls[i]
    BY PlacesFacts DEF S
  <2> HIDE DEF i, k
  <2>2. i \in 1..n /\ calls[i] # <<>>
    BY <1>2, <2>1
  <2>3. PICK g \in 1..G : order[g] = i
    BY <1>1, <2>2, Zenon
  <2>4. k \in 1..len(g) /\ k \in 1..Len(ss[g])
    BY <1>4, <1>17, <2>1, <2>3, Zenon
  <2>5. off[g - 1] + k \in 1..N
    BY <1>12, <2>4, Zenon
  <2>6. path[off[g - 1] + k] = <<order[g], k>>
    <3>1. IsPlace(off[g - 1] + k, g, k)
      BY <2>4, Zenon DEF Located
    <3> QED BY <1>19, <2>5, <3>1, Zenon
  <2> QED BY <2>1, <2>3, <2>5, <2>6, Zenon
<1>22. ASSUME NEW p \in 1..N, NEW r \in 1..N, p < r PROVE Precedes(path[p], path[r])
  <2>1. PICK g, k : IsPlace(p, g, k) /\ path[p] = <<order[g], k>>
    BY <1>15, Zenon
  <2>2. PICK h, j : IsPlace(r, h, j) /\ path[r] = <<order[h], j>>
    BY <1>15, Zenon
  <2>3. g < h \/ (g = h /\ k < j)
    BY <1>18, <1>22, <2>1, <2>2, Zenon
  <2>4. g \in 1..G /\ h \in 1..G
    BY <2>1, <2>2, Zenon DEF Located
  <2>5. order[g] < order[h] \/ (order[g] = order[h] /\ k < j)
    BY <1>1, <2>3, <2>4, Zenon
  <2>6. path[p][1] = order[g] /\ path[p][2] = k /\ path[r][1] = order[h] /\ path[r][2] = j
    BY <2>1, <2>2
  <2> QED BY <2>5, <2>6, Zenon DEF Precedes
<1>23. all = [p \in 1..N |-> all[p]]
  BY <1>10, <1>12
<1>24. Listing(path, N, S)
  BY <1>13, <1>16, <1>21, <1>22, Zenon DEF Listing
<1>25. Listed(all, path, N, S, f)
  BY <1>12, <1>20, <1>23, <1>24, Zenon DEF Listed
<1>26. all = AllOccurrences(groups, keys)
  BY DEF all, ss, AllOccurrences
<1> QED BY <1>25, <1>26 DEF S, f

(* No index of the report is beyond the keys. *)
LEMMA AvailableFacts ==
    ASSUME NEW calls, NEW n, NEW keys, CallsWith(calls, n, keys),
           NEW tx, tx.innerInstructions = RpcGroups(calls, keys), RpcAccountKeys(tx) = keys
    PROVE  ~UnavailableKey(tx)
<1> SUFFICES ASSUME UnavailableKey(tx) PROVE FALSE
  OBVIOUS
<1> DEFINE groups == tx.innerInstructions
<1>1. PICK G, order : IsGroups(groups, G, order, calls, n, keys)
  BY GroupsFacts
<1>2. PICK g \in DOMAIN groups : \E inner \in Range(groups[g].instructions) :
            \/ inner.programIdIndex >= Len(keys)
            \/ /\ keys[inner.programIdIndex + 1] = ChanceryProgram
               /\ \E index \in Range(inner.accounts) : index >= Len(keys)
  BY Zenon DEF UnavailableKey
<1> HIDE DEF groups
<1>3. PICK inner \in Range(groups[g].instructions) :
            \/ inner.programIdIndex >= Len(keys)
            \/ \E index \in Range(inner.accounts) : index >= Len(keys)
  BY <1>2, Zenon
<1>4. PICK k \in DOMAIN groups[g].instructions : groups[g].instructions[k] = inner
  BY InRange
<1>5. ReadsBack(inner, calls[order[g]][k], keys)
  BY <1>1, <1>4, Zenon DEF IsGroups
<1> QED BY <1>3, <1>5, Zenon DEF ReadsBack

(* A call of the program itself, as the client reads it in the end. *)
AsExtracted(calls, i, k) ==
    [programAddress         |-> calls[i][k].program,
     accounts               |-> calls[i][k].accounts,
     data                   |-> calls[i][k].data,
     parentInstructionIndex |-> i - 1,
     innerInstructionIndex  |-> k - 1]

Extracted(calls) == [x \in Places(calls) |-> AsExtracted(calls, x[1], x[2])]

OwnPlaces(calls) == {x \in Places(calls) : calls[x[1]][x[2]].program = ChanceryProgram}

LEMMA ReadAccounts ==
    ASSUME NEW calls, NEW n, NEW keys, CallsWith(calls, n, keys), NEW i \in 1..n, NEW k \in DOMAIN calls[i],
           NEW o, o = AsReported(calls, keys, i, k)
    PROVE  [o EXCEPT !.accounts = InstructionAccountAddresses(@, keys)] = AsExtracted(calls, i, k)
<1> DEFINE call == calls[i][k]
           ids == RpcInstruction(call, keys).accounts
           list == InstructionAccountAddresses(ids, keys)
<1>1. ReadsBack(RpcInstruction(call, keys), call, keys)
  <2>1. /\ keys \in Seq(Keys) /\ calls[i] \in Seq(Calls)
        /\ {call.program} \cup Range(call.accounts) \subseteq Range(keys)
    BY Zenon DEF CallsWith
  <2>2. call \in Calls
    BY <2>1, SeqFacts
  <2> HIDE DEF call
  <2> QED BY <2>1, <2>2, RpcFacts
<1>2. list = call.accounts
  BY <1>1, Zenon DEF ReadsBack
<1>3. o = [programAddress |-> call.program, accounts |-> ids, data |-> call.data,
           parentInstructionIndex |-> i - 1, innerInstructionIndex |-> k - 1]
  BY Zenon DEF AsReported
<1> HIDE DEF call, ids
<1>4. o.accounts = ids
  BY <1>3
<1>5. [o EXCEPT !.accounts = InstructionAccountAddresses(@, keys)] = [o EXCEPT !.accounts = list]
  BY <1>4, Zenon
<1> HIDE DEF list
<1>6. [o EXCEPT !.accounts = list] =
        [programAddress |-> call.program, accounts |-> list, data |-> call.data,
         parentInstructionIndex |-> i - 1, innerInstructionIndex |-> k - 1]
  BY <1>3
<1> QED BY <1>2, <1>5, <1>6, Zenon DEF AsExtracted, call

LEMMA ExtractFacts ==
    ASSUME NEW calls, NEW n, NEW keys, CallsWith(calls, n, keys),
           NEW tx, tx.innerInstructions = RpcGroups(calls, keys), RpcAccountKeys(tx) = keys
    PROVE  \E path, N : Listed(ExtractInnerInstructions(tx), path, N, OwnPlaces(calls), Extracted(calls))
<1> DEFINE groups == tx.innerInstructions
           S == Places(calls)
           f == Reported(calls, keys)
           all == AllOccurrences(groups, keys)
           Q == OwnPlaces(calls)
           P == {m \in DOMAIN all : all[m].programAddress = ChanceryProgram}
           own == At(all, P)
           t == ExtractInnerInstructions(tx)
<1>1. PICK G, order : IsGroups(groups, G, order, calls, n, keys)
  BY GroupsFacts
<1>2. PICK path, N : Listed(all, path, N, S, f)
  BY <1>1, AllOccurrencesFacts
<1>3. t = [m \in DOMAIN own |-> [own[m] EXCEPT !.accounts = InstructionAccountAddresses(@, keys)]]
  BY Zenon DEF ExtractInnerInstructions, AllOccurrences
<1>4. /\ DOMAIN calls = 1..n /\ \A x \in S : /\ x = <<x[1], x[2]>> /\ x[1] \in 1..n
                                            /\ x[2] \in DOMAIN calls[x[1]]
  BY PlacesFacts DEF CallsWith
<1>5. \A x \in S : f[x] = AsReported(calls, keys, x[1], x[2])
  BY Zenon DEF Reported
<1>6. \A x \in S : f[x].programAddress = calls[x[1]][x[2]].program
  <2>1. ASSUME NEW i, NEW k PROVE AsReported(calls, keys, i, k).programAddress = calls[i][k].program
    BY DEF AsReported
  <2> SUFFICES ASSUME NEW x \in S PROVE f[x].programAddress = calls[x[1]][x[2]].program
    OBVIOUS
  <2>2. f[x] = AsReported(calls, keys, x[1], x[2])
    BY <1>5
  <2>3. AsReported(calls, keys, x[1], x[2]).programAddress = calls[x[1]][x[2]].program
    BY <2>1
  <2> HIDE DEF f, S
  <2> QED BY <2>2, <2>3, Zenon
<1>7. Q \subseteq S /\ \A x \in S : x \in Q <=> calls[x[1]][x[2]].program = ChanceryProgram
  BY DEF OwnPlaces
<1>8. \A x \in S : Extracted(calls)[x] = AsExtracted(calls, x[1], x[2])
  BY Zenon DEF Extracted
<1> HIDE DEF S, Q, f, all
<1>9. DOMAIN all = 1..N /\ path \in [1..N -> S] /\ \A p \in 1..N : all[p] = f[path[p]]
  BY <1>2, Zenon DEF Listed, Listing
<1>10. P \subseteq 1..N /\ \A p \in 1..N : p \in P <=> path[p] \in Q
  <2>1. \A p \in 1..N : path[p] \in S
    BY <1>9
  <2> QED BY <1>6, <1>7, <1>9, <2>1
<1> HIDE DEF P
<1>11. PICK sub, M : Listed(own, sub, M, Q, f)
  BY <1>2, <1>7, <1>10, ListedAt
<1> HIDE DEF own, t
<1>12. /\ DOMAIN own = 1..M /\ Listing(sub, M, Q) /\ sub \in [1..M -> Q] /\ \A p \in 1..M : own[p] = f[sub[p]]
  BY <1>11, Zenon DEF Listed, Listing
<1>13. t = [m \in 1..M |-> t[m]] /\ DOMAIN t = 1..M
  BY <1>3, <1>12
<1>14. ASSUME NEW p \in 1..M PROVE t[p] = Extracted(calls)[sub[p]]
  <2> DEFINE x == sub[p]
             o == own[p]
  <2>1. x \in S
    BY <1>7, <1>12
  <2>2. o = AsReported(calls, keys, x[1], x[2])
    BY <1>5, <1>12, <2>1, Zenon
  <2>3. x[1] \in 1..n /\ x[2] \in DOMAIN calls[x[1]]
    BY <1>4, <2>1, Zenon
  <2>4. t[p] = [o EXCEPT !.accounts = InstructionAccountAddresses(@, keys)]
    BY <1>3, <1>12, Zenon
  <2>5. [o EXCEPT !.accounts = InstructionAccountAddresses(@, keys)] = AsExtracted(calls, x[1], x[2])
    <3> HIDE DEF x, o
    <3> QED BY <2>2, <2>3, ReadAccounts
  <2> QED BY <1>8, <2>1, <2>4, <2>5, Zenon
<1>15. Listed(t, sub, M, Q, Extracted(calls))
  BY <1>12, <1>13, <1>14, Zenon DEF Listed
<1> QED BY <1>15 DEF t, Q

----------------------------------------------------------------------------
(* Decoding. *)

IsEmitted(calls, kinds, i, k) ==
    /\ calls[i][k].program = ChanceryProgram
    /\ calls[i][k].data \in kinds
    /\ calls[i][k].accounts # <<>>
    /\ calls[i][k].accounts[1] = EventAuthority

EmittedBy(calls, kinds) ==
    UNION {{<<i - 1, k - 1>> : k \in {k \in DOMAIN calls[i] : IsEmitted(calls, kinds, i, k)}} :
             i \in DOMAIN calls}

LEMMA EmittedFacts ==
    ASSUME NEW calls, NEW kinds
    PROVE  /\ \A y \in EmittedBy(calls, kinds) : \E i \in DOMAIN calls : \E k \in DOMAIN calls[i] :
                IsEmitted(calls, kinds, i, k) /\ y = <<i - 1, k - 1>>
           /\ \A i \in DOMAIN calls : \A k \in DOMAIN calls[i] :
                IsEmitted(calls, kinds, i, k) => <<i - 1, k - 1>> \in EmittedBy(calls, kinds)
<1> DEFINE at(i) == {k \in DOMAIN calls[i] : IsEmitted(calls, kinds, i, k)}
           of(i) == {<<i - 1, k - 1>> : k \in at(i)}
<1>1. EmittedBy(calls, kinds) = UNION {of(i) : i \in DOMAIN calls}
  BY Zenon DEF EmittedBy
<1>2. ASSUME NEW y \in EmittedBy(calls, kinds)
      PROVE  \E i \in DOMAIN calls : \E k \in DOMAIN calls[i] :
                IsEmitted(calls, kinds, i, k) /\ y = <<i - 1, k - 1>>
  <2>1. PICK i \in DOMAIN calls : y \in of(i)
    <3> HIDE DEF of
    <3> QED BY <1>1
  <2>2. PICK k \in at(i) : y = <<i - 1, k - 1>>
    BY <2>1
  <2> QED BY <2>2
<1>3. ASSUME NEW i \in DOMAIN calls, NEW k \in DOMAIN calls[i], IsEmitted(calls, kinds, i, k)
      PROVE  <<i - 1, k - 1>> \in EmittedBy(calls, kinds)
  <2>1. k \in at(i)
    BY <1>3
  <2>2. <<i - 1, k - 1>> \in of(i)
    BY <2>1
  <2> HIDE DEF of
  <2> QED BY <1>1, <2>2
<1> QED BY <1>2, <1>3

(* The outcome of decoding is right about the calls. *)
Decodes(e, calls) ==
    /\ e.result = "decoded" =>
         /\ Range(e.events) = EmittedBy(calls, {"event"})
         /\ \A m, n \in DOMAIN e.events : m < n => Precedes(e.events[m], e.events[n])
    /\ e.result = "error" => EmittedBy(calls, {"trailingBytes"}) # {}

LEMMA DecodeFacts ==
    ASSUME NEW calls, NEW n, NEW keys, CallsWith(calls, n, keys),
           NEW s, NEW path, NEW N, Listed(s, path, N, OwnPlaces(calls), Extracted(calls))
    PROVE  Decodes(DecodeEvents(s), calls)
<1> DEFINE S == OwnPlaces(calls)
           f == Extracted(calls)
           cpi == {p \in DOMAIN s : IsEventCpi(s[p])}
           P == {p \in cpi : DecodeEventData(s[p].data) = "decoded"}
           decoded == At(s, P)
           bad == \E p \in cpi : DecodeEventData(s[p].data) = "error"
           Q == {x \in S : IsEmitted(calls, {"event"}, x[1], x[2])}
           events == [p \in DOMAIN decoded |-> <<decoded[p].parentInstructionIndex,
                                                 decoded[p].innerInstructionIndex>>]
           e == DecodeEvents(s)
<1>1. e = IF bad THEN Evidence("error", TRUE, <<>>) ELSE Evidence("decoded", TRUE, events)
  BY Zenon DEF DecodeEvents
<1>2. /\ n \in Nat /\ DOMAIN calls = 1..n
      /\ \A i \in 1..n : Len(calls[i]) \in Nat /\ DOMAIN calls[i] = 1..Len(calls[i])
      /\ \A i \in 1..n : \A k \in DOMAIN calls[i] :
           calls[i][k].data \in {"call", "event", "laterEvent", "trailingBytes"}
  <2>1. n \in Nat /\ DOMAIN calls = 1..n /\ \A i \in 1..n : calls[i] \in Seq(Calls)
    BY Zenon DEF CallsWith
  <2>2. ASSUME NEW i \in 1..n
        PROVE  /\ Len(calls[i]) \in Nat /\ DOMAIN calls[i] = 1..Len(calls[i])
               /\ \A k \in DOMAIN calls[i] : calls[i][k] \in Calls
    BY <2>1, SeqFacts
  <2> QED BY <2>1, <2>2, CallFacts, Zenon
<1>3. \A x \in S : /\ x[1] \in 1..n /\ x[2] \in DOMAIN calls[x[1]]
                   /\ calls[x[1]][x[2]].program = ChanceryProgram
                   /\ f[x] = AsExtracted(calls, x[1], x[2])
  <2>1. \A x \in S : x \in Places(calls) /\ calls[x[1]][x[2]].program = ChanceryProgram
    BY DEF OwnPlaces
  <2>2. \A x \in Places(calls) : f[x] = AsExtracted(calls, x[1], x[2])
    BY Zenon DEF Extracted
  <2>3. \A x \in Places(calls) : x[1] \in DOMAIN calls /\ x[2] \in DOMAIN calls[x[1]]
    BY PlacesFacts
  <2> HIDE DEF S, f
  <2> QED BY <1>2, <2>1, <2>2, <2>3, Zenon
<1>4. \A i \in DOMAIN calls : \A k \in DOMAIN calls[i] :
        calls[i][k].program = ChanceryProgram => <<i, k>> \in S
  <2>1. ASSUME NEW i \in DOMAIN calls, NEW k \in DOMAIN calls[i], calls[i][k].program = ChanceryProgram
        PROVE  <<i, k>> \in S
    <3>1. <<i, k>> \in Places(calls)
      BY PlacesFacts
    <3>2. <<i, k>>[1] = i /\ <<i, k>>[2] = k
      OBVIOUS
    <3> QED BY <2>1, <3>1, <3>2, Zenon DEF OwnPlaces
  <2> QED BY <2>1
<1> HIDE DEF S, f
<1>5. ASSUME NEW i, NEW k, NEW o, o = AsExtracted(calls, i, k)
      PROVE  /\ o.data = calls[i][k].data /\ o.accounts = calls[i][k].accounts
             /\ o.parentInstructionIndex = i - 1 /\ o.innerInstructionIndex = k - 1
  BY <1>5 DEF AsExtracted
<1>6. N \in Nat /\ DOMAIN s = 1..N /\ path \in [1..N -> S] /\ \A p \in 1..N : s[p] = f[path[p]]
  BY Zenon DEF Listed, Listing, S, f
<1>7. ASSUME NEW p \in 1..N
      PROVE  LET x == path[p] IN
             /\ x \in S /\ s[p].data = calls[x[1]][x[2]].data /\ s[p].accounts = calls[x[1]][x[2]].accounts
  <2> DEFINE x == path[p]
             o == s[p]
  <2>1. x \in S
    BY <1>6
  <2>2. o = AsExtracted(calls, x[1], x[2])
    BY <1>3, <1>6, <2>1, Zenon
  <2> HIDE DEF x, o
  <2>3. o.data = calls[x[1]][x[2]].data /\ o.accounts = calls[x[1]][x[2]].accounts
    BY <1>5, <2>2
  <2> QED BY <2>1, <2>3, Zenon DEF x, o
<1>8. ASSUME NEW p \in 1..N
      PROVE  LET x == path[p] IN
             \A kind \in {"event", "laterEvent", "trailingBytes"} :
                IsEventCpi(s[p]) /\ s[p].data = kind <=> IsEmitted(calls, {kind}, x[1], x[2])
  <2> DEFINE x == path[p]
             call == calls[x[1]][x[2]]
  <2>1. x \in S /\ s[p].data = call.data /\ s[p].accounts = call.accounts /\ call.program = ChanceryProgram
    BY <1>3, <1>7, Zenon
  <2> SUFFICES ASSUME NEW kind \in {"event", "laterEvent", "trailingBytes"}
               PROVE  IsEventCpi(s[p]) /\ s[p].data = kind <=> IsEmitted(calls, {kind}, x[1], x[2])
    OBVIOUS
  <2>2. kind # "call"
    OBVIOUS
  <2>3. IsEmitted(calls, {kind}, x[1], x[2]) <=>
          call.data = kind /\ call.accounts # <<>> /\ call.accounts[1] = EventAuthority
    BY <2>1, Zenon DEF IsEmitted
  <2>4. IsEventCpi(s[p]) <=>
          call.data # "call" /\ call.accounts # <<>> /\ call.accounts[1] = EventAuthority
    BY <2>1, Zenon DEF IsEventCpi
  <2> QED BY <2>1, <2>2, <2>3, <2>4, Zenon
<1>9. ASSUME NEW data
      PROVE  /\ DecodeEventData(data) = "decoded" <=> data = "event"
             /\ DecodeEventData(data) = "error" => data # "event" /\ data # "laterEvent"
  BY DEF DecodeEventData
<1>10. CASE bad
  <2>1. PICK p \in cpi : DecodeEventData(s[p].data) = "error"
    BY <1>10
  <2> DEFINE x == path[p]
  <2>2. p \in 1..N /\ IsEventCpi(s[p]) /\ s[p].data # "call"
    BY <1>6, <2>1 DEF IsEventCpi
  <2>3. s[p].data # "event" /\ s[p].data # "laterEvent"
    BY <1>9, <2>1, Zenon
  <2>4. x \in S /\ s[p].data = calls[x[1]][x[2]].data
    BY <1>7, <2>2, Zenon
  <2>5. x[1] \in 1..n /\ x[2] \in DOMAIN calls[x[1]]
    BY <1>3, <2>4, Zenon
  <2> HIDE DEF x
  <2>6. s[p].data \in {"call", "event", "laterEvent", "trailingBytes"}
    BY <1>2, <2>4, <2>5, Zenon
  <2>7. s[p].data = "trailingBytes"
    BY <2>2, <2>3, <2>6
  <2>8. IsEmitted(calls, {"trailingBytes"}, x[1], x[2])
    BY <1>8, <2>2, <2>7 DEF x
  <2>9. <<x[1] - 1, x[2] - 1>> \in EmittedBy(calls, {"trailingBytes"})
    BY <1>2, <2>5, <2>8, EmittedFacts
  <2>10. e.result = "error"
    BY <1>1, <1>10 DEF Evidence
  <2> HIDE DEF e
  <2>11. EmittedBy(calls, {"trailingBytes"}) # {} /\ e.result # "decoded"
    BY <2>9, <2>10
  <2>12. Decodes(e, calls)
    BY <2>11, Zenon DEF Decodes
  <2> QED BY <2>12 DEF e
<1>11. CASE ~bad
  <2>1. e.result = "decoded" /\ e.events = events
    <3> HIDE DEF events
    <3> QED BY <1>1, <1>11 DEF Evidence
  <2>2. P \subseteq 1..N /\ \A p \in 1..N : p \in P <=> path[p] \in Q
    <3>1. ASSUME NEW p \in 1..N PROVE p \in P <=> path[p] \in Q
      <4>1. p \in P <=> IsEventCpi(s[p]) /\ s[p].data = "event"
        BY <1>6, <1>9
      <4>2. path[p] \in Q <=> IsEmitted(calls, {"event"}, path[p][1], path[p][2])
        BY <1>7
      <4>3. IsEventCpi(s[p]) /\ s[p].data = "event" <=> IsEmitted(calls, {"event"}, path[p][1], path[p][2])
        BY <1>8
      <4> QED BY <4>1, <4>2, <4>3, Zenon
    <3>2. P \subseteq 1..N
      BY <1>6
    <3> QED BY <3>1, <3>2
  <2>3. Q \subseteq S /\ \A x \in Q : IsEmitted(calls, {"event"}, x[1], x[2])
    OBVIOUS
  <2>4. \A i \in DOMAIN calls : \A k \in DOMAIN calls[i] :
          IsEmitted(calls, {"event"}, i, k) => <<i, k>> \in Q
    <3>1. ASSUME NEW i \in DOMAIN calls, NEW k \in DOMAIN calls[i], IsEmitted(calls, {"event"}, i, k)
          PROVE  <<i, k>> \in Q
      <4>1. <<i, k>> \in S
        BY <1>4, <3>1, Zenon DEF IsEmitted
      <4>2. <<i, k>>[1] = i /\ <<i, k>>[2] = k
        OBVIOUS
      <4> QED BY <3>1, <4>1, <4>2, Zenon
    <3> QED BY <3>1
  <2> HIDE DEF P, Q, bad
  <2>5. PICK sub, M : Listed(decoded, sub, M, Q, f)
    <3>1. Listed(s, path, N, S, f)
      BY DEF S, f
    <3> QED BY <2>2, <2>3, <3>1, ListedAt
  <2> HIDE DEF decoded, e
  <2>6. /\ M \in Nat /\ DOMAIN decoded = 1..M /\ sub \in [1..M -> Q]
        /\ \A x \in Q : \E p \in 1..M : sub[p] = x
        /\ \A p, r \in 1..M : p < r => Precedes(sub[p], sub[r])
        /\ \A p \in 1..M : decoded[p] = f[sub[p]]
    BY <2>5, Zenon DEF Listed, Listing
  <2>7. DOMAIN events = 1..M
    BY <2>6
  <2>8. ASSUME NEW p \in 1..M
        PROVE  /\ sub[p] \in Q /\ sub[p] \in S
               /\ events[p] = <<sub[p][1] - 1, sub[p][2] - 1>>
    <3>1. sub[p] \in Q /\ sub[p] \in S
      BY <2>3, <2>6
    <3> DEFINE x == sub[p]
               o == decoded[p]
    <3>2. o = AsExtracted(calls, x[1], x[2])
      BY <1>3, <2>6, <3>1, Zenon
    <3>3. o.parentInstructionIndex = x[1] - 1 /\ o.innerInstructionIndex = x[2] - 1
      <4> HIDE DEF x, o
      <4> QED BY <1>5, <3>2
    <3>4. events[p] = <<decoded[p].parentInstructionIndex, decoded[p].innerInstructionIndex>>
      BY <2>6, Zenon
    <3> QED BY <3>1, <3>3, <3>4, Zenon
  <2> HIDE DEF events
  <2>9. Range(events) \subseteq EmittedBy(calls, {"event"})
    <3> SUFFICES ASSUME NEW y \in Range(events) PROVE y \in EmittedBy(calls, {"event"})
      OBVIOUS
    <3>1. PICK p \in DOMAIN events : events[p] = y
      BY InRange
    <3>2. p \in 1..M
      BY <2>7
    <3> DEFINE x == sub[p]
    <3>3. x \in Q /\ x \in S /\ y = <<x[1] - 1, x[2] - 1>>
      BY <2>8, <3>1, <3>2, Zenon
    <3>4. IsEmitted(calls, {"event"}, x[1], x[2]) /\ x[1] \in DOMAIN calls /\ x[2] \in DOMAIN calls[x[1]]
      BY <1>2, <1>3, <2>3, <3>3, Zenon
    <3> HIDE DEF x
    <3> QED BY <3>3, <3>4, EmittedFacts
  <2>10. EmittedBy(calls, {"event"}) \subseteq Range(events)
    <3> SUFFICES ASSUME NEW y \in EmittedBy(calls, {"event"}) PROVE y \in Range(events)
      OBVIOUS
    <3>1. PICK i \in DOMAIN calls : \E k \in DOMAIN calls[i] :
            IsEmitted(calls, {"event"}, i, k) /\ y = <<i - 1, k - 1>>
      BY EmittedFacts
    <3>2. PICK k \in DOMAIN calls[i] : IsEmitted(calls, {"event"}, i, k) /\ y = <<i - 1, k - 1>>
      BY <3>1
    <3>3. <<i, k>> \in Q
      BY <2>4, <3>2, Zenon
    <3>4. PICK p \in 1..M : sub[p] = <<i, k>>
      BY <2>6, <3>3, Zenon
    <3>5. sub[p][1] = i /\ sub[p][2] = k
      BY <3>4
    <3>6. events[p] = y /\ p \in DOMAIN events
      BY <2>7, <2>8, <3>2, <3>5, Zenon
    <3> QED BY <3>6, InRange
  <2>11. ASSUME NEW p \in 1..M, NEW r \in 1..M, p < r PROVE Precedes(events[p], events[r])
    <3> DEFINE x == sub[p]
               y == sub[r]
    <3>1. Precedes(x, y)
      BY <2>6, <2>11, Zenon
    <3>2. x[1] \in 1..n /\ x[2] \in DOMAIN calls[x[1]] /\ y[1] \in 1..n /\ y[2] \in DOMAIN calls[y[1]]
      BY <1>3, <2>8, Zenon
    <3>3. x[1] \in Nat /\ x[2] \in Nat /\ y[1] \in Nat /\ y[2] \in Nat
      <4>1. ASSUME NEW i \in 1..n, NEW k \in DOMAIN calls[i] PROVE i \in Nat /\ k \in Nat
        BY <1>2
      <4> HIDE DEF x, y
      <4> QED BY <3>2, <4>1, Zenon
    <3>4. events[p] = <<x[1] - 1, x[2] - 1>> /\ events[r] = <<y[1] - 1, y[2] - 1>>
      BY <2>8, Zenon
    <3> DEFINE a == x[1]
               b == x[2]
               c == y[1]
               d == y[2]
    <3>5. a < c \/ (a = c /\ b < d)
      BY <3>1, Zenon DEF Precedes
    <3>6. events[p][1] = a - 1 /\ events[p][2] = b - 1 /\ events[r][1] = c - 1 /\ events[r][2] = d - 1
      BY <3>4
    <3> HIDE DEF a, b, c, d
    <3>7. a \in Nat /\ b \in Nat /\ c \in Nat /\ d \in Nat
      BY <3>3 DEF a, b, c, d
    <3>8. a - 1 < c - 1 \/ (a - 1 = c - 1 /\ b - 1 < d - 1)
      BY <3>5, <3>7
    <3> QED BY <3>6, <3>8, Zenon DEF Precedes
  <2>12. Range(events) = EmittedBy(calls, {"event"})
    BY <2>9, <2>10
  <2>13. e.result # "error"
    BY <2>1
  <2>14. \A p, r \in DOMAIN events : p < r => Precedes(events[p], events[r])
    BY <2>7, <2>11, Zenon
  <2>15. Decodes(e, calls)
    BY <2>1, <2>12, <2>13, <2>14, Zenon DEF Decodes
  <2> QED BY <2>15 DEF e
<1> QED BY <1>10, <1>11

----------------------------------------------------------------------------
(* Events: the invariant and its consequences. *)

(* The client rebuilds the very list of keys the node's indexes refer to. *)
LEMMA KeysFacts ==
    ASSUME NEW q \in Seq(Instructions), NEW B, NEW C, Extends(C, B),
           NEW c, c = CompileMessage(q, B), NEW failed, NEW calls
    PROVE  /\ RpcAccountKeys(RpcTransaction(failed, calls, c, C)) = RuntimeKeys(c, C)
           /\ RuntimeKeys(c, C) \in Seq(Keys)
<1> DEFINE M == AggregateAccountMetas(q)
           accounts == RuntimeAccounts(c, C)
           keys == AccountKeys(c.accountKeys, c.lookups, B)
<1>1. /\ Carries(accounts, keys, Len(c.accountKeys), c.numSigners, M)
      /\ AccountKeys(c.accountKeys, c.lookups, C) = keys
  BY RuntimeFacts
<1>2. RuntimeKeys(c, C) = [i \in DOMAIN accounts |-> accounts[i].address]
  BY Zenon DEF RuntimeKeys
<1>3. RpcAccountKeys(RpcTransaction(failed, calls, c, C)) = AccountKeys(c.accountKeys, c.lookups, C)
  BY DEF RpcAccountKeys, RpcTransaction, AccountKeys
<1> HIDE DEF M, accounts, keys
<1>4. /\ keys \in Seq(Keys) /\ Len(keys) \in Nat /\ DOMAIN keys = 1..Len(keys)
      /\ DOMAIN accounts = 1..Len(keys) /\ \A p \in 1..Len(keys) : accounts[p].address = keys[p]
  BY <1>1, Zenon DEF Carries
<1>5. keys = [i \in 1..Len(keys) |-> keys[i]]
  BY <1>4
<1>6. RuntimeKeys(c, C) = keys
  <2>1. [i \in DOMAIN accounts |-> accounts[i].address] = [i \in 1..Len(keys) |-> keys[i]]
    BY <1>4, Zenon
  <2> QED BY <1>2, <1>5, <2>1, Zenon
<1> QED BY <1>1, <1>3, <1>4, <1>6, Zenon

LEMMA ExecutableFacts ==
    ASSUME NEW q \in Seq(Instructions), NEW m, NEW C, NEW keys, keys = RuntimeKeys(m, C), keys \in Seq(Keys),
           NEW calls \in [DOMAIN q -> Executable(m, C)]
    PROVE  CallsWith(calls, Len(q), keys)
<1> DEFINE n == Len(q)
<1>1. n \in Nat /\ DOMAIN q = 1..n
  BY SeqFacts
<1> HIDE DEF n
<1>2. DOMAIN calls = 1..n /\ \A i \in 1..n : calls[i] \in Executable(m, C)
  BY <1>1
<1>3. ASSUME NEW s \in Executable(m, C)
      PROVE  /\ s \in Seq(Calls)
             /\ \A k \in DOMAIN s : {s[k].program} \cup Range(s[k].accounts) \subseteq Range(keys)
  BY <1>3, InnerAssumption, Zenon DEF Executable
<1> QED BY <1>1, <1>2, <1>3, Zenon DEF CallsWith, n

(* What the client makes of a successful transaction, reported in full. *)
LEMMA EvidenceFacts ==
    ASSUME NEW q \in Seq(Instructions), NEW B, NEW C, Extends(C, B), NEW c, c = CompileMessage(q, B),
           NEW calls \in [DOMAIN q -> Executable(c, C)], NEW failed,
           NEW tx, tx = RpcTransaction(failed, calls, c, C)
    PROVE  ~UnavailableKey(tx) /\ Decodes(DecodeEvents(ExtractInnerInstructions(tx)), calls)
<1> DEFINE keys == RuntimeKeys(c, C)
           n == Len(q)
           s == ExtractInnerInstructions(tx)
<1>1. RpcAccountKeys(tx) = keys /\ keys \in Seq(Keys)
  BY KeysFacts
<1>2. CallsWith(calls, n, keys)
  BY <1>1, ExecutableFacts
<1>3. tx.innerInstructions = RpcGroups(calls, keys)
  BY DEF RpcTransaction
<1> HIDE DEF keys, n
<1>4. ~UnavailableKey(tx)
  BY <1>1, <1>2, <1>3, AvailableFacts
<1>5. \E path, N : Listed(s, path, N, OwnPlaces(calls), Extracted(calls))
  BY <1>1, <1>2, <1>3, ExtractFacts
<1> HIDE DEF s
<1>6. PICK path, N : Listed(s, path, N, OwnPlaces(calls), Extracted(calls))
  BY <1>5
<1>7. Decodes(DecodeEvents(s), calls)
  BY <1>2, <1>6, DecodeFacts
<1> QED BY <1>4, <1>7 DEF s

LEMMA EmittedIs ==
    ASSUME NEW kinds
    PROVE  Emitted(kinds) = EmittedBy(trace, kinds)
BY Zenon DEF Emitted, EmittedBy, IsEmitted

LEMMA EmittedIsNext ==
    ASSUME NEW kinds
    PROVE  Emitted(kinds)' = EmittedBy(trace', kinds)
BY Zenon DEF Emitted, EmittedBy, IsEmitted

(* A message is executed once, when it is signed, with the tables of that
   time: from then on neither changes, so that the trace stays one that the
   accounts of the transaction allow. *)
EventInv ==
    /\ MessageInv
    /\ outcome \in {"unsent", "succeeded", "failed"}
    /\ outcome = "unsent" => evidence.result = "none"
    /\ outcome # "unsent" => status = "signed"
    /\ outcome = "succeeded" => trace \in [DOMAIN instructions -> Executable(message, tables)]
    /\ EvidenceIsTheProgramsOwn
    /\ EvidenceErrorsAreReal

LEMMA EventInvInit == EventInit => EventInv
BY MessageInvInit DEF EventInit, EventInv, Evidence, EvidenceIsTheProgramsOwn, EvidenceErrorsAreReal

LEMMA BuildingPreserves ==
    EventInv /\ Next /\ outcome = "unsent" /\ UNCHANGED eventVars => EventInv'
<1> SUFFICES ASSUME EventInv, Next, outcome = "unsent", UNCHANGED eventVars PROVE EventInv'
  OBVIOUS
<1>1. MessageInv'
  BY MessageInvNext DEF EventInv
<1>2. outcome' = "unsent" /\ evidence' = evidence /\ evidence.result = "none"
  BY DEF eventVars, EventInv
<1>3. EvidenceIsTheProgramsOwn' /\ EvidenceErrorsAreReal'
  BY <1>2 DEF EvidenceIsTheProgramsOwn, EvidenceErrorsAreReal
<1> QED BY <1>1, <1>2, <1>3 DEF EventInv

LEMMA SameMessage ==
    ASSUME MessageInv, UNCHANGED vars
    PROVE  /\ MessageInv' /\ status' = status /\ instructions' = instructions
           /\ message' = message /\ tables' = tables
BY MessageInvNext DEF vars

LEMMA ExecutePreserves == EventInv /\ Execute => EventInv'
<1> SUFFICES ASSUME EventInv, Execute PROVE EventInv'
  OBVIOUS
<1>1. /\ status = "signed" /\ outcome = "unsent" /\ evidence' = evidence /\ UNCHANGED vars
      /\ \/ outcome' = "succeeded" /\ trace' \in [DOMAIN instructions -> Executable(message, tables)]
         \/ outcome' = "failed"
  BY DEF Execute
<1>2. evidence.result = "none" /\ MessageInv
  BY <1>1 DEF EventInv
<1>3. /\ MessageInv' /\ status' = status /\ instructions' = instructions
      /\ message' = message /\ tables' = tables
  BY <1>1, <1>2, SameMessage
<1>4. EvidenceIsTheProgramsOwn' /\ EvidenceErrorsAreReal'
  BY <1>1, <1>2 DEF EvidenceIsTheProgramsOwn, EvidenceErrorsAreReal
<1>5. Executable(message, tables)' = Executable(message, tables)
  BY <1>3, Zenon
<1> QED BY <1>1, <1>2, <1>3, <1>4, <1>5 DEF EventInv

LEMMA DecodePreserves == EventInv /\ DecodeTransactionEvidence => EventInv'
<1> SUFFICES ASSUME EventInv, DecodeTransactionEvidence PROVE EventInv'
  OBVIOUS
<1> DEFINE tx == RpcTransaction(outcome = "failed", trace, message, tables)
           e == DecodeEvents(ExtractInnerInstructions(tx))
<1>1. /\ outcome # "unsent" /\ outcome' = outcome /\ trace' = trace /\ UNCHANGED vars
      /\ \/ evidence' = Evidence("null", FALSE, <<>>)
         \/ tx.err /\ evidence' = Evidence("error", TRUE, <<>>)
         \/ ~tx.err /\ evidence' = Evidence("decoded", FALSE, <<>>)
         \/ /\ ~tx.err
            /\ evidence' = IF UnavailableKey(tx) THEN Evidence("error", TRUE, <<>>) ELSE e
  BY Zenon DEF DecodeTransactionEvidence
<1>2. tx.err <=> outcome = "failed"
  BY DEF RpcTransaction
<1>3. /\ MessageInv /\ outcome \in {"unsent", "succeeded", "failed"} /\ status = "signed"
      /\ outcome = "succeeded" => trace \in [DOMAIN instructions -> Executable(message, tables)]
  BY <1>1 DEF EventInv
<1>4. /\ MessageInv' /\ status' = status /\ instructions' = instructions
      /\ message' = message /\ tables' = tables
  BY <1>1, <1>3, SameMessage
<1>5. ASSUME outcome = "succeeded" PROVE ~UnavailableKey(tx) /\ Decodes(e, trace)
  <2>1. Compiled
    BY <1>3 DEF Compiled
  <2>2. PICK known \in TableChoices : WasCompiled(known)
    BY <1>3, <2>1 DEF MessageInv
  <2>3. /\ instructions \in Seq(Instructions) /\ Extends(tables, known)
        /\ message = CompileMessage(instructions, known)
    BY <1>3, <2>2 DEF MessageInv, WasCompiled
  <2>4. trace \in [DOMAIN instructions -> Executable(message, tables)]
    BY <1>3, <1>5
  <2> QED BY <2>3, <2>4, EvidenceFacts
<1> HIDE DEF tx, e
<1>6. Emitted({"event"})' = EmittedBy(trace, {"event"})
  BY <1>1, EmittedIsNext, Zenon
<1>7. Emitted({"trailingBytes"})' = EmittedBy(trace, {"trailingBytes"})
  BY <1>1, EmittedIsNext, Zenon
<1>8. EvidenceIsTheProgramsOwn' /\ EvidenceErrorsAreReal'
  <2>1. CASE evidence' = Evidence("null", FALSE, <<>>)
    <3>1. evidence'.result = "null"
      BY <2>1 DEF Evidence
    <3> QED BY <3>1 DEF EvidenceIsTheProgramsOwn, EvidenceErrorsAreReal
  <2>2. CASE outcome = "failed" /\ evidence' = Evidence("error", TRUE, <<>>)
    <3>1. evidence'.result = "error" /\ outcome' = "failed"
      BY <1>1, <2>2 DEF Evidence
    <3> QED BY <3>1 DEF EvidenceIsTheProgramsOwn, EvidenceErrorsAreReal
  <2>3. CASE evidence' = Evidence("decoded", FALSE, <<>>)
    <3>1. evidence'.result = "decoded" /\ ~evidence'.recorded
      BY <2>3 DEF Evidence
    <3> QED BY <3>1 DEF EvidenceIsTheProgramsOwn, EvidenceErrorsAreReal
  <2>4. CASE outcome = "succeeded" /\ evidence' = e
    <3>1. outcome' = "succeeded" /\ Decodes(evidence', trace)
      BY <1>1, <1>5, <2>4
    <3>2. EvidenceIsTheProgramsOwn'
      BY <1>6, <3>1, Zenon DEF Decodes, EvidenceIsTheProgramsOwn
    <3>3. EvidenceErrorsAreReal'
      BY <1>7, <3>1, Zenon DEF Decodes, EvidenceErrorsAreReal
    <3> QED BY <3>2, <3>3
  <2>5. outcome # "failed" => outcome = "succeeded"
    BY <1>1, <1>3
  <2> QED BY <1>1, <1>2, <1>5, <2>1, <2>2, <2>3, <2>4, <2>5, Zenon
<1>9. Executable(message, tables)' = Executable(message, tables)
  BY <1>4, Zenon
<1> QED BY <1>1, <1>3, <1>4, <1>8, <1>9 DEF EventInv

LEMMA EventInvNext == EventInv /\ [EventNext]_<<vars, eventVars>> => EventInv'
<1> SUFFICES ASSUME EventInv, [EventNext]_<<vars, eventVars>> PROVE EventInv'
  OBVIOUS
<1>1. CASE UNCHANGED <<vars, eventVars>>
  <2>1. UNCHANGED vars /\ outcome' = outcome /\ trace' = trace /\ evidence' = evidence
    BY <1>1 DEF eventVars
  <2>2. /\ MessageInv' /\ status' = status /\ instructions' = instructions
        /\ message' = message /\ tables' = tables
    BY <2>1, SameMessage DEF EventInv
  <2>3. /\ Emitted({"event"})' = Emitted({"event"})
        /\ Emitted({"trailingBytes"})' = Emitted({"trailingBytes"})
    BY <2>1, EmittedIs, EmittedIsNext, Zenon
  <2>4. EvidenceIsTheProgramsOwn' /\ EvidenceErrorsAreReal'
    BY <2>1, <2>3, Zenon DEF EventInv, EvidenceIsTheProgramsOwn, EvidenceErrorsAreReal
  <2>5. Executable(message, tables)' = Executable(message, tables)
    BY <2>2, Zenon
  <2> QED BY <2>1, <2>2, <2>4, <2>5 DEF EventInv
<1> QED BY <1>1, BuildingPreserves, ExecutePreserves, DecodePreserves DEF EventNext

(* A behaviour with execution and decoding is, for the message, a behaviour of
   MessageCompilation: what is proved of Spec holds until the evidence is read. *)
THEOREM EventsImplementMessages == EventSpec => Spec
<1>1. EventInit => Init
  BY DEF EventInit
<1>2. [EventNext]_<<vars, eventVars>> => [Next]_vars
  BY DEF EventNext, Execute, DecodeTransactionEvidence
<1> QED BY <1>1, <1>2, PTL DEF EventSpec, Spec

(* decodeTransactionEvidence returns the events the program emitted, and only
   those, each once and in the order of execution, for any calls of any
   transaction and however its keys were split between message and tables. *)
THEOREM EvidenceIsOwn == EventSpec => []EvidenceIsTheProgramsOwn
<1>1. EventInv => EvidenceIsTheProgramsOwn
  BY DEF EventInv
<1> QED BY <1>1, EventInvInit, EventInvNext, PTL DEF EventSpec

(* Decoding a transaction fails only if it failed on the chain or carries an
   event that does not fit the schema: never because an index is not found. *)
THEOREM EvidenceErrorsReal == EventSpec => []EvidenceErrorsAreReal
<1>1. EventInv => EvidenceErrorsAreReal
  BY DEF EventInv
<1> QED BY <1>1, EventInvInit, EventInvNext, PTL DEF EventSpec

=============================================================================
