------------------------ MODULE StateDiscoveryProofs ------------------------
(***************************************************************************)
(* Discovery for every ledger, every order of the listing and any number   *)
(* of discoveries.                                                         *)
(*                                                                         *)
(* Sorting is shown once, for any finite set and strict total order        *)
(* (Ordered); the loop by an invariant that says which part of the ledger  *)
(* has been scanned.  A finished discovery then is a function of the       *)
(* ledger, and the properties are facts about that function.               *)
(***************************************************************************)
EXTENDS StateDiscovery, FiniteSetTheorems, TLAPS

----------------------------------------------------------------------------
(* Sorting. *)

StrictTotalOrder(S, before) ==
    /\ \A x \in S : <<x, x>> \notin before
    /\ \A x, y, z \in S : <<x, y>> \in before /\ <<y, z>> \in before => <<x, z>> \in before
    /\ \A x, y \in S : x = y \/ <<x, y>> \in before \/ <<y, x>> \in before

Before(S, before, x) == {y \in S : <<y, x>> \in before}

(* InOrder lists every element once, in the order. *)
LEMMA Ordered ==
    ASSUME NEW S, IsFiniteSet(S), NEW before, StrictTotalOrder(S, before)
    PROVE  LET s == InOrder(S, before)
           IN  /\ Cardinality(S) \in Nat /\ Len(s) = Cardinality(S)
               /\ s \in [1..Cardinality(S) -> S] /\ s \in Seq(S)
               /\ ToSet(s) = S
               /\ \A j, k \in DOMAIN s : s[j] = s[k] => j = k
               /\ \A j, k \in DOMAIN s : j < k => <<s[j], s[k]>> \in before
<1> DEFINE n == Cardinality(S)
           Rank(x) == Cardinality(Before(S, before, x))
           s == InOrder(S, before)
<1>1. n \in Nat
  BY FS_CardinalityType
<1>2. ASSUME NEW x \in S PROVE Rank(x) \in 0..(n - 1)
  <2> DEFINE B == Before(S, before, x)
  <2>1. B \subseteq S /\ x \notin B /\ B # S
    BY DEF Before, StrictTotalOrder
  <2> HIDE DEF B
  <2>2. IsFiniteSet(B) /\ Cardinality(B) <= n /\ n # Cardinality(B)
    BY <2>1, FS_Subset
  <2>3. Cardinality(B) \in Nat
    BY <2>2, FS_CardinalityType
  <2> QED BY <1>1, <2>2, <2>3 DEF B
<1>3. ASSUME NEW x \in S, NEW y \in S, <<x, y>> \in before PROVE Rank(x) < Rank(y)
  <2> DEFINE A == Before(S, before, x)
             B == Before(S, before, y)
  <2>1. A \subseteq B /\ x \in B /\ x \notin A /\ B \subseteq S
    BY <1>3 DEF Before, StrictTotalOrder
  <2> HIDE DEF A, B
  <2>2. IsFiniteSet(B)
    BY <2>1, FS_Subset
  <2>3. IsFiniteSet(A) /\ Cardinality(A) <= Cardinality(B) /\ Cardinality(A) # Cardinality(B)
    BY <2>1, <2>2, FS_Subset
  <2>4. Cardinality(A) \in Nat /\ Cardinality(B) \in Nat
    BY <2>2, <2>3, FS_CardinalityType
  <2> QED BY <2>3, <2>4 DEF A, B
<1> HIDE DEF Rank
<1>4. \A x, y \in S : Rank(x) = Rank(y) => x = y
  <2> SUFFICES ASSUME NEW x \in S, NEW y \in S, Rank(x) = Rank(y), x # y PROVE FALSE
    OBVIOUS
  <2>1. <<x, y>> \in before \/ <<y, x>> \in before
    BY DEF StrictTotalOrder
  <2> QED BY <1>1, <1>2, <1>3, <2>1
<1>5. ASSUME NEW k \in 1..n PROVE \E x \in S : Rank(x) = k - 1
  <2> DEFINE f == [x \in S |-> Rank(x)]
             T == 0..(n - 1)
  <2>1. f \in Injection(S, T)
    BY <1>2, <1>4 DEF Injection, IsInjective
  <2>2. IsFiniteSet(T) /\ Cardinality(T) = n
    <3>1. 0 \in Int /\ n - 1 \in Int
      BY <1>1
    <3>2. /\ IsFiniteSet(0..(n - 1))
          /\ Cardinality(0..(n - 1)) = IF 0 > n - 1 THEN 0 ELSE (n - 1) - 0 + 1
      BY <3>1, FS_Interval
    <3> QED BY <1>1, <3>2
  <2>3. f \in Surjection(S, T)
    <3> HIDE DEF f, T, n
    <3> QED BY <2>1, <2>2, FS_Injection DEF n
  <2>4. k - 1 \in T
    BY <1>1
  <2>5. \E x \in S : f[x] = k - 1
    BY <2>3, <2>4 DEF Surjection
  <2> QED BY <2>5
<1>6. /\ s = [k \in 1..n |-> CHOOSE x \in S : Rank(x) = k - 1]
      /\ DOMAIN s = 1..n
  BY DEF InOrder, Rank, Before
<1>7. \A k \in 1..n : s[k] \in S /\ Rank(s[k]) = k - 1
  <2> SUFFICES ASSUME NEW k \in 1..n PROVE s[k] \in S /\ Rank(s[k]) = k - 1
    OBVIOUS
  <2>1. s[k] = CHOOSE x \in S : Rank(x) = k - 1
    BY <1>6
  <2> HIDE DEF s
  <2> QED BY <1>5, <2>1
<1> HIDE DEF s
<1>8. s \in [1..n -> S]
  BY <1>6, <1>7
<1>9. s \in Seq(S) /\ Len(s) = n
  BY <1>1, <1>8
<1>10. ToSet(s) = S
  <2>1. ASSUME NEW x \in S PROVE x \in ToSet(s)
    <3>1. Rank(x) + 1 \in 1..n /\ (Rank(x) + 1) - 1 = Rank(x)
      BY <1>1, <1>2
    <3>2. s[Rank(x) + 1] = x
      BY <1>4, <1>7, <3>1
    <3> QED BY <1>6, <3>1, <3>2 DEF ToSet
  <2>2. ToSet(s) \subseteq S
    BY <1>6, <1>7 DEF ToSet
  <2> QED BY <2>1, <2>2
<1>11. \A j, k \in DOMAIN s : s[j] = s[k] => j = k
  BY <1>6, <1>7
<1>12. ASSUME NEW j \in DOMAIN s, NEW k \in DOMAIN s, j < k PROVE <<s[j], s[k]>> \in before
  <2>1. s[j] \in S /\ s[k] \in S /\ Rank(s[j]) = j - 1 /\ Rank(s[k]) = k - 1 /\ j \in Nat /\ k \in Nat
    BY <1>6, <1>7
  <2>2. s[j] # s[k] /\ ~(<<s[k], s[j]>> \in before)
    BY <1>3, <1>12, <2>1
  <2> QED BY <2>1, <2>2 DEF StrictTotalOrder
<1> QED BY <1>1, <1>6, <1>8, <1>9, <1>10, <1>11, <1>12 DEF s

(* What a list holds. *)
LEMMA InToSet ==
    ASSUME NEW s, NEW y
    PROVE  y \in ToSet(s) <=> \E k \in DOMAIN s : s[k] = y
BY Zenon DEF ToSet

(* Appending adds one element at the end. *)
LEMMA AppendFacts ==
    ASSUME NEW s, s \in Seq(ToSet(s)), NEW x
    PROVE  LET t == Append(s, x)
           IN  /\ t \in Seq(ToSet(t)) /\ ToSet(t) = ToSet(s) \cup {x}
               /\ Len(s) \in Nat /\ Len(t) = Len(s) + 1
               /\ DOMAIN s = 1..Len(s) /\ DOMAIN t = 1..(Len(s) + 1)
               /\ t[Len(s) + 1] = x /\ \A k \in DOMAIN s : t[k] = s[k]
<1> DEFINE S == ToSet(s)
           t == Append(s, x)
<1>1. s \in Seq(S)
  OBVIOUS
<1>2. /\ \A k \in DOMAIN s : s[k] \in S
      /\ \A y \in S : \E k \in DOMAIN s : s[k] = y
  BY DEF ToSet
<1> HIDE DEF S
<1>3. /\ t \in Seq(S \cup {x}) /\ Len(s) \in Nat /\ Len(t) = Len(s) + 1
      /\ DOMAIN s = 1..Len(s) /\ DOMAIN t = 1..(Len(s) + 1)
      /\ t[Len(s) + 1] = x /\ \A k \in DOMAIN s : t[k] = s[k]
  BY <1>1
<1> HIDE DEF t
<1>4. ToSet(t) = S \cup {x}
  <2>1. \A k \in 1..(Len(s) + 1) : k \in 1..Len(s) \/ k = Len(s) + 1
    BY <1>3
  <2>2. \A k \in 1..Len(s) : k \in 1..(Len(s) + 1)
    BY <1>3
  <2>3. Len(s) + 1 \in 1..(Len(s) + 1)
    BY <1>3
  <2>4. ASSUME NEW y \in ToSet(t) PROVE y \in S \cup {x}
    <3>1. PICK k \in DOMAIN t : t[k] = y
      BY <2>4 DEF ToSet
    <3> QED BY <1>2, <1>3, <2>1, <3>1
  <2>5. ASSUME NEW y \in S \cup {x} PROVE y \in ToSet(t)
    BY <1>2, <1>3, <2>2, <2>3 DEF ToSet
  <2> QED BY <2>4, <2>5
<1> QED BY <1>3, <1>4 DEF S, t

(* A filtered list holds what stands at the positions. *)
LEMMA AtFacts ==
    ASSUME NEW n \in Nat, NEW accounts, DOMAIN accounts = 1..n, NEW positions \in SUBSET (1..n)
    PROVE  /\ ToSet(At(accounts, positions)) = {accounts[k] : k \in positions}
           /\ DOMAIN At(accounts, positions) = 1..Cardinality(positions)
           /\ Cardinality(positions) \in Nat
<1> DEFINE before == {p \in positions \X positions : p[1] < p[2]}
           order == InOrder(positions, before)
<1>1. IsFiniteSet(positions)
  <2>1. IsFiniteSet(1..n)
    BY FS_Interval
  <2> QED BY <2>1, FS_Subset
<1>2. StrictTotalOrder(positions, before)
  <2>1. \A x, y \in positions : <<x, y>> \in before <=> x < y
    OBVIOUS
  <2>2. \A x \in positions : x \in Nat
    OBVIOUS
  <2> HIDE DEF before
  <2> QED BY <2>1, <2>2 DEF StrictTotalOrder
<1> HIDE DEF before
<1>3. /\ Cardinality(positions) \in Nat /\ order \in [1..Cardinality(positions) -> positions]
      /\ ToSet(order) = positions
  BY <1>1, <1>2, Ordered
<1>4. At(accounts, positions) = [k \in DOMAIN order |-> accounts[order[k]]]
  BY DEF At, before
<1> HIDE DEF order
<1>5. DOMAIN At(accounts, positions) = 1..Cardinality(positions)
  BY <1>3, <1>4
<1>6. ToSet(At(accounts, positions)) = {accounts[k] : k \in positions}
  <2>1. ASSUME NEW k \in DOMAIN order PROVE order[k] \in positions /\ At(accounts, positions)[k] = accounts[order[k]]
    BY <1>3, <1>4
  <2>2. ASSUME NEW j \in positions PROVE \E k \in DOMAIN order : order[k] = j
    BY <1>3 DEF ToSet
  <2>3. DOMAIN At(accounts, positions) = DOMAIN order
    BY <1>4
  <2> HIDE DEF order
  <2> DEFINE at == At(accounts, positions)
  <2>4. ASSUME NEW y \in ToSet(at) PROVE y \in {accounts[k] : k \in positions}
    <3>1. PICK k \in DOMAIN at : at[k] = y
      BY <2>4, InToSet
    <3> QED BY <2>1, <2>3, <3>1
  <2>5. ASSUME NEW y \in {accounts[k] : k \in positions} PROVE y \in ToSet(at)
    <3>1. PICK j \in positions : y = accounts[j]
      BY <2>5
    <3>2. PICK k \in DOMAIN order : order[k] = j
      BY <2>2
    <3>3. k \in DOMAIN at /\ at[k] = y
      BY <2>1, <2>3, <3>1, <3>2
    <3> QED BY <3>3, InToSet
  <2> QED BY <2>4, <2>5
<1> QED BY <1>3, <1>5, <1>6

(* The first of the positions is one of them. *)
LEMMA FirstFacts ==
    ASSUME NEW n \in Nat, NEW accounts, NEW positions \in SUBSET (1..n)
    PROVE  \/ positions = {} /\ First(accounts, positions) = Null
           \/ \E k \in positions : First(accounts, positions) = accounts[k].address
<1>1. CASE positions = {}
  BY <1>1 DEF First
<1>2. CASE positions # {}
  <2> DEFINE before == {p \in positions \X positions : p[1] < p[2]}
             order == InOrder(positions, before)
  <2>1. \E x \in positions : \A y \in positions : x <= y
    <3>1. IsFiniteSet(positions)
      <4>1. IsFiniteSet(1..n)
        BY FS_Interval
      <4> QED BY <4>1, FS_Subset
    <3>2. StrictTotalOrder(positions, before)
      <4>1. \A x, y \in positions : <<x, y>> \in before <=> x < y
        OBVIOUS
      <4>2. \A x \in positions : x \in Nat
        OBVIOUS
      <4> HIDE DEF before
      <4> QED BY <4>1, <4>2 DEF StrictTotalOrder
    <3>3. \A x, y \in positions : <<x, y>> \in before => x < y
      OBVIOUS
    <3> HIDE DEF before
    <3>4. /\ Cardinality(positions) \in Nat /\ order \in [1..Cardinality(positions) -> positions]
          /\ ToSet(order) = positions
          /\ \A j, k \in DOMAIN order : j < k => <<order[j], order[k]>> \in before
      BY <3>1, <3>2, Ordered
    <3>5. Cardinality(positions) # 0
      BY <1>2, <3>1, FS_EmptySet
    <3> HIDE DEF order
    <3>6. order[1] \in positions /\ 1 \in DOMAIN order
      BY <3>4, <3>5
    <3>7. ASSUME NEW y \in positions PROVE order[1] <= y
      <4>1. PICK k \in DOMAIN order : order[k] = y
        BY <3>4 DEF ToSet
      <4>2. k = 1 \/ 1 < k
        <5>1. DOMAIN order = 1..Cardinality(positions)
          BY <3>4
        <5> QED BY <3>4, <4>1, <5>1
      <4>3. order[1] = y \/ order[1] < y
        BY <3>3, <3>4, <3>6, <4>1, <4>2
      <4>4. order[1] \in Nat /\ y \in Nat
        <5>1. \A x \in positions : x \in Nat
          OBVIOUS
        <5> QED BY <3>6, <3>7, <5>1
      <4> QED BY <4>3, <4>4
    <3> QED BY <3>6, <3>7
  <2>2. Min(positions) \in positions
    BY <2>1 DEF Min
  <2> QED BY <1>2, <2>2 DEF First
<1> QED BY <1>1, <1>2

----------------------------------------------------------------------------
(* What a ledger holds, as discovery sees it. *)

IsLedger(L) ==
    L \subseteq Accounts /\ IsFiniteSet(L) /\ \A a, b \in L : a.address = b.address => a = b

Decoded(L) == {a \in L : a.name \in SchemaAccounts}
Recognized(L, policies) == {Discovered(a, policies) : a \in Decoded(L)}
PoliciesOf(L) == OfDomain(Recognized(L, {}))
Recognizable(L) == Recognized(L, PoliciesOf(L))
Unrecognizable(L) == {a.address : a \in L \ Decoded(L)}

(* Every account passes the loop's two checks. *)
Sound(L) == \A a \in L : ValidateProgramAccount(a) /\ DecodeChanceryAccount(a) # "malformed"

AccountsIn(L) == InOrder(Recognizable(L), CompareDiscoveredAccounts(Recognizable(L)))
OthersIn(L) == InOrder(Unrecognizable(L), CompareAddresses(Unrecognizable(L)))
InventoryOf(L) == BuildInventory(Cardinality(L), AccountsIn(L), OthersIn(L))

OutcomeOf(L) ==
    IF Bad(L) THEN [phase |-> "failed", inventory |-> Null]
    ELSE [phase |-> "done", inventory |-> InventoryOf(L)]

(* A reply lists the ledger's accounts, each once. *)
LEMMA ListingFacts ==
    ASSUME NEW L, IsFiniteSet(L), NEW s \in SetToSeqs(L)
    PROVE  s \in Seq(L) /\ Len(s) = Cardinality(L) /\ ToSet(s) = L /\ Cardinality(L) \in Nat
<1> DEFINE n == Cardinality(L)
<1>1. n \in Nat
  BY FS_CardinalityType
<1>2. s \in [1..n -> L] /\ \A i, j \in 1..n : i # j => s[i] # s[j]
  BY DEF SetToSeqs
<1>3. s \in Seq(L) /\ Len(s) = n
  BY <1>1, <1>2
<1>4. s \in Injection(1..n, L)
  BY <1>2, Zenon DEF Injection, IsInjective
<1>5. Cardinality(1..n) = n
  BY <1>1, FS_Interval
<1>6. s \in Surjection(1..n, L)
  <2> DEFINE D == 1..n
  <2> HIDE DEF D
  <2>1. s \in Injection(D, L) /\ Cardinality(D) = Cardinality(L)
    BY <1>4, <1>5 DEF D
  <2> QED BY <2>1, FS_Injection DEF D
<1>7. ToSet(s) = L
  <2>1. ASSUME NEW y \in L PROVE y \in ToSet(s)
    <3>1. PICK k \in 1..n : s[k] = y
      BY <1>6, Zenon DEF Surjection
    <3>2. k \in DOMAIN s
      BY <1>2
    <3> QED BY <3>1, <3>2, InToSet
  <2>2. ASSUME NEW y \in ToSet(s) PROVE y \in L
    <3>1. PICK k \in DOMAIN s : s[k] = y
      BY <2>2, InToSet
    <3> QED BY <1>2, <3>1
  <2> QED BY <2>1, <2>2
<1> QED BY <1>1, <1>3, <1>7

(* Discovery keeps an account's address, type and fields. *)
LEMMA DiscoveredFacts ==
    ASSUME NEW a, NEW policies
    PROVE  LET d == Discovered(a, policies)
           IN  d.address = a.address /\ d.name = a.name /\ d.values = a.values
BY DEF Discovered

(* Only a nonce's address depends on the policies. *)
LEMMA OnlyNoncesNeedPolicies ==
    ASSUME NEW a, NEW P, NEW Q, a.name # "RemoteNonce"
    PROVE  Discovered(a, P) = Discovered(a, Q)
<1>1. ObserveCanonicalPda(a.address, a.name, a.values, P) = ObserveCanonicalPda(a.address, a.name, a.values, Q)
  BY DEF ObserveCanonicalPda
<1> QED BY <1>1 DEF Discovered

(* The second pass does to an account what the first would have done with *)
(* every policy known.                                                     *)
LEMMA Relinked ==
    ASSUME NEW b, NEW P
    PROVE  LET a == Discovered(b, {})
           IN  (IF a.name # "RemoteNonce" THEN a
                ELSE [a EXCEPT !.canonicalPda = ObserveCanonicalPda(a.address, a.name, a.values, P)])
               = Discovered(b, P)
<1>1. CASE b.name # "RemoteNonce"
  <2>1. Discovered(b, {}).name # "RemoteNonce"
    BY <1>1, DiscoveredFacts
  <2>2. Discovered(b, {}) = Discovered(b, P)
    BY <1>1, OnlyNoncesNeedPolicies
  <2> QED BY <2>1, <2>2
<1>2. CASE b.name = "RemoteNonce"
  BY <1>2 DEF Discovered
<1> QED BY <1>1, <1>2

(* The set of the images of a finite set, and its size when no two agree. *)
LEMMA Images ==
    ASSUME NEW S, IsFiniteSet(S), NEW T, NEW f \in [S -> T],
           \A x, y \in S : f[x] = f[y] => x = y, \A t \in T : \E x \in S : f[x] = t
    PROVE  IsFiniteSet(T) /\ Cardinality(T) = Cardinality(S)
<1>1. f \in Surjection(S, T) /\ f \in Injection(S, T)
  BY Zenon DEF Surjection, Injection, IsInjective
<1> QED BY <1>1, FS_Surjection

(* Every account of a ledger is in exactly one of the two parts. *)
LEMMA LedgerFacts ==
    ASSUME NEW L, IsLedger(L)
    PROVE  /\ IsFiniteSet(Recognizable(L)) /\ IsFiniteSet(Unrecognizable(L))
           /\ Cardinality(Recognizable(L)) \in Nat /\ Cardinality(Unrecognizable(L)) \in Nat
           /\ Cardinality(Recognizable(L)) + Cardinality(Unrecognizable(L)) = Cardinality(L)
<1> DEFINE D == Decoded(L)
           O == L \ Decoded(L)
           P == PoliciesOf(L)
<1>1. IsFiniteSet(D) /\ IsFiniteSet(O)
  BY FS_Subset DEF IsLedger, Decoded
<1>2. Cardinality(L) = Cardinality(D) + Cardinality(O)
  <2>1. D \cup O = L /\ D \cap O = {}
    BY DEF Decoded
  <2>2. Cardinality({}) = 0
    BY FS_EmptySet
  <2>3. Cardinality(D) \in Nat /\ Cardinality(O) \in Nat
    BY <1>1, FS_CardinalityType
  <2> HIDE DEF D, O
  <2>4. Cardinality(D \cup O) = Cardinality(D) + Cardinality(O) - Cardinality(D \cap O)
    BY <1>1, FS_Union
  <2>5. Cardinality(D \cup O) = Cardinality(L) /\ Cardinality(D \cap O) = 0
    BY <2>1, <2>2, Zenon
  <2> QED BY <2>3, <2>4, <2>5
<1>3. IsFiniteSet(Recognizable(L)) /\ Cardinality(Recognizable(L)) = Cardinality(D)
  <2> DEFINE f == [a \in D |-> Discovered(a, P)]
             T == Recognizable(L)
  <2>1. f \in [D -> T] /\ \A t \in T : \E x \in D : f[x] = t
    BY DEF Recognizable, Recognized
  <2>2. \A x, y \in D : f[x] = f[y] => x = y
    <3>1. \A x, y \in D : f[x] = f[y] => x.address = y.address
      <4>1. \A x \in D : f[x].address = x.address
        BY DiscoveredFacts
      <4> HIDE DEF f, D
      <4> QED BY <4>1
    <3>2. \A x \in D : x \in L
      BY DEF Decoded
    <3> HIDE DEF f, D
    <3> QED BY <3>1, <3>2 DEF IsLedger
  <2> HIDE DEF f, T, D
  <2>3. IsFiniteSet(T) /\ Cardinality(T) = Cardinality(D)
    BY <1>1, <2>1, <2>2, Images
  <2> QED BY <2>3 DEF T
<1>4. IsFiniteSet(Unrecognizable(L)) /\ Cardinality(Unrecognizable(L)) = Cardinality(O)
  <2> DEFINE f == [a \in O |-> a.address]
             T == Unrecognizable(L)
  <2>1. f \in [O -> T] /\ \A t \in T : \E x \in O : f[x] = t
    BY DEF Unrecognizable
  <2>2. \A x, y \in O : f[x] = f[y] => x = y
    BY DEF IsLedger
  <2> HIDE DEF f, T, O
  <2>3. IsFiniteSet(T) /\ Cardinality(T) = Cardinality(O)
    BY <1>1, <2>1, <2>2, Images
  <2> QED BY <2>3 DEF T
<1>5. Cardinality(D) \in Nat /\ Cardinality(O) \in Nat
  BY <1>1, FS_CardinalityType
<1> QED BY <1>2, <1>3, <1>4, <1>5

(* The accounts sort by type and address, and no two agree on both. *)
LEMMA AccountsOrder ==
    ASSUME NEW L, IsLedger(L)
    PROVE  StrictTotalOrder(Recognizable(L), CompareDiscoveredAccounts(Recognizable(L)))
<1> DEFINE R == Recognizable(L)
           before == CompareDiscoveredAccounts(R)
           N(x) == NameRank[x.name]
           A(x) == AddressRank[x.address]
<1>1. ASSUME NEW x \in R PROVE \E a \in L : a.name \in SchemaAccounts /\ x = Discovered(a, PoliciesOf(L))
  BY DEF Recognizable, Recognized, Decoded
<1>2. \A x \in R : \E a \in L : /\ a \in Accounts /\ a.name \in SchemaAccounts /\ x = Discovered(a, PoliciesOf(L))
                                /\ x.name = a.name /\ x.address = a.address
  <2> SUFFICES ASSUME NEW x \in R
               PROVE  \E a \in L : /\ a \in Accounts /\ a.name \in SchemaAccounts /\ x = Discovered(a, PoliciesOf(L))
                                   /\ x.name = a.name /\ x.address = a.address
    OBVIOUS
  <2>1. PICK a \in L : a.name \in SchemaAccounts /\ x = Discovered(a, PoliciesOf(L))
    BY <1>1
  <2>2. a \in Accounts
    BY DEF IsLedger
  <2>3. x.name = a.name /\ x.address = a.address
    BY <2>1, DiscoveredFacts
  <2> QED BY <2>1, <2>2, <2>3
<1>3. \A x \in R : N(x) \in Nat /\ A(x) \in Nat
  BY <1>2, RankAssumption
<1>4. \A x, y \in R : N(x) = N(y) => x.name = y.name
  BY <1>2, RankAssumption
<1>5. \A x, y \in R : A(x) = A(y) => x = y
  <2> SUFFICES ASSUME NEW x \in R, NEW y \in R, A(x) = A(y) PROVE x = y
    OBVIOUS
  <2>1. PICK a \in L : a \in Accounts /\ x = Discovered(a, PoliciesOf(L)) /\ x.address = a.address
    BY <1>2
  <2>2. PICK b \in L : b \in Accounts /\ y = Discovered(b, PoliciesOf(L)) /\ y.address = b.address
    BY <1>2
  <2>3. a.address = b.address
    BY <2>1, <2>2, RankAssumption
  <2>4. a = b
    BY <2>3 DEF IsLedger
  <2> QED BY <2>1, <2>2, <2>4
<1>6. \A x, y \in R : x.name = y.name => N(x) = N(y)
  OBVIOUS
<1>7. \A x, y \in R : <<x, y>> \in before <=> N(x) < N(y) \/ (x.name = y.name /\ A(x) < A(y))
  BY DEF CompareDiscoveredAccounts
<1> HIDE DEF R, N, A, before
<1>8. StrictTotalOrder(R, before)
  <2>1. \A x \in R : <<x, x>> \notin before
    BY <1>3, <1>7
  <2>2. ASSUME NEW x \in R, NEW y \in R, NEW z \in R, <<x, y>> \in before, <<y, z>> \in before
        PROVE  <<x, z>> \in before
    BY <1>3, <1>6, <1>7, <2>2
  <2>3. ASSUME NEW x \in R, NEW y \in R PROVE x = y \/ <<x, y>> \in before \/ <<y, x>> \in before
    BY <1>3, <1>4, <1>5, <1>7
  <2> QED BY <2>1, <2>2, <2>3 DEF StrictTotalOrder
<1> QED BY <1>8 DEF R, before

(* The unrecognized accounts sort by address. *)
LEMMA OthersOrder ==
    ASSUME NEW L, IsLedger(L)
    PROVE  StrictTotalOrder(Unrecognizable(L), CompareAddresses(Unrecognizable(L)))
<1> DEFINE U == Unrecognizable(L)
           before == CompareAddresses(U)
<1>1. \A x \in U : \E a \in Accounts : x = a.address
  BY DEF Unrecognizable, IsLedger
<1>2. \A x \in U : AddressRank[x] \in Nat
  BY <1>1, RankAssumption
<1>3. \A x, y \in U : AddressRank[x] = AddressRank[y] => x = y
  BY <1>1, RankAssumption
<1>4. \A x, y \in U : <<x, y>> \in before <=> AddressRank[x] < AddressRank[y]
  BY DEF CompareAddresses
<1> HIDE DEF U, before
<1>5. StrictTotalOrder(U, before)
  BY <1>2, <1>3, <1>4 DEF StrictTotalOrder
<1> QED BY <1>5 DEF U, before

(* The two lists of an inventory. *)
LEMMA AccountsFacts ==
    ASSUME NEW L, IsLedger(L)
    PROVE  LET s == AccountsIn(L)
               n == Cardinality(Recognizable(L))
           IN  /\ n \in Nat /\ s \in Seq(Recognizable(L)) /\ Len(s) = n /\ DOMAIN s = 1..n
               /\ ToSet(s) = Recognizable(L)
               /\ \A j, k \in DOMAIN s : s[j] = s[k] => j = k
<1> DEFINE R == Recognizable(L)
           before == CompareDiscoveredAccounts(R)
<1>1. IsFiniteSet(R) /\ StrictTotalOrder(R, before)
  BY LedgerFacts, AccountsOrder
<1>2. AccountsIn(L) = InOrder(R, before)
  BY DEF AccountsIn
<1> HIDE DEF R, before
<1>3. LET s == InOrder(R, before)
      IN  /\ Cardinality(R) \in Nat /\ Len(s) = Cardinality(R)
          /\ s \in [1..Cardinality(R) -> R] /\ s \in Seq(R) /\ ToSet(s) = R
          /\ \A j, k \in DOMAIN s : s[j] = s[k] => j = k
  BY <1>1, Ordered
<1> QED BY <1>2, <1>3 DEF R

(* The unrecognized accounts of an inventory. *)
LEMMA OthersFacts ==
    ASSUME NEW L, IsLedger(L)
    PROVE  /\ OthersIn(L) \in Seq(Unrecognizable(L)) /\ Len(OthersIn(L)) = Cardinality(Unrecognizable(L))
           /\ ToSet(OthersIn(L)) = Unrecognizable(L)
<1> DEFINE U == Unrecognizable(L)
           before == CompareAddresses(U)
<1>1. IsFiniteSet(U) /\ StrictTotalOrder(U, before)
  BY LedgerFacts, OthersOrder
<1>2. OthersIn(L) = InOrder(U, before)
  BY DEF OthersIn
<1> HIDE DEF U, before
<1>3. LET s == InOrder(U, before) IN s \in Seq(U) /\ Len(s) = Cardinality(U) /\ ToSet(s) = U
  BY <1>1, Ordered
<1> QED BY <1>2, <1>3 DEF U

(* An entry of the list is an account of the ledger, and each is one. *)
LEMMA AccountAt ==
    ASSUME NEW L, IsLedger(L), NEW k \in DOMAIN AccountsIn(L)
    PROVE  \E a \in L : /\ a \in Accounts /\ a.name \in SchemaAccounts
                        /\ AccountsIn(L)[k] = Discovered(a, PoliciesOf(L))
                        /\ AccountsIn(L)[k].address = a.address /\ AccountsIn(L)[k].name = a.name
                        /\ AccountsIn(L)[k].values = a.values
<1>1. AccountsIn(L)[k] \in Recognizable(L)
  BY AccountsFacts, InToSet
<1>2. PICK a \in L : a.name \in SchemaAccounts /\ AccountsIn(L)[k] = Discovered(a, PoliciesOf(L))
  BY <1>1 DEF Recognizable, Recognized, Decoded
<1>3. a \in Accounts
  BY DEF IsLedger
<1>4. AccountsIn(L)[k].address = a.address /\ AccountsIn(L)[k].name = a.name
      /\ AccountsIn(L)[k].values = a.values
  BY <1>2, DiscoveredFacts
<1> QED BY <1>2, <1>3, <1>4

(* A decodable account has its entry. *)
LEMMA AccountListed ==
    ASSUME NEW L, IsLedger(L), NEW a \in L, a.name \in SchemaAccounts
    PROVE  \E k \in DOMAIN AccountsIn(L) :
               /\ AccountsIn(L)[k] = Discovered(a, PoliciesOf(L))
               /\ AccountsIn(L)[k].address = a.address /\ AccountsIn(L)[k].name = a.name
               /\ AccountsIn(L)[k].values = a.values
<1>1. Discovered(a, PoliciesOf(L)) \in Recognizable(L)
  BY DEF Recognizable, Recognized, Decoded
<1>2. PICK k \in DOMAIN AccountsIn(L) : AccountsIn(L)[k] = Discovered(a, PoliciesOf(L))
  BY <1>1, AccountsFacts, InToSet
<1>3. AccountsIn(L)[k].address = a.address /\ AccountsIn(L)[k].name = a.name
      /\ AccountsIn(L)[k].values = a.values
  BY <1>2, DiscoveredFacts
<1> QED BY <1>2, <1>3

(* Two entries share an id exactly when two accounts of the ledger do. *)
LEMMA DuplicatesAreTheLedgers ==
    ASSUME NEW L, IsLedger(L)
    PROVE  DuplicateIds(AccountsIn(L)) <=> \E a, b \in L : a # b /\ SameId(a, b)
<1> DEFINE s == AccountsIn(L)
           P == PoliciesOf(L)
<1>1. ASSUME NEW x, NEW y, NEW a, NEW b, x.name = a.name, x.values = a.values, y.name = b.name, y.values = b.values
      PROVE  SameId(x, y) <=> SameId(a, b)
  BY <1>1 DEF SameId
<1>2. ASSUME DuplicateIds(s) PROVE \E a, b \in L : a # b /\ SameId(a, b)
  <2>1. PICK j, k \in DOMAIN s : j # k /\ SameId(s[j], s[k])
    BY <1>2 DEF DuplicateIds
  <2>2. PICK a \in L : s[j] = Discovered(a, P) /\ s[j].name = a.name /\ s[j].values = a.values
    BY AccountAt
  <2>3. PICK b \in L : s[k] = Discovered(b, P) /\ s[k].name = b.name /\ s[k].values = b.values
    BY AccountAt
  <2>4. s[j] # s[k]
    BY <2>1, AccountsFacts
  <2>5. a # b
    BY <2>2, <2>3, <2>4
  <2>6. SameId(a, b)
    BY <1>1, <2>1, <2>2, <2>3
  <2> QED BY <2>5, <2>6
<1>3. ASSUME NEW a \in L, NEW b \in L, a # b, SameId(a, b) PROVE DuplicateIds(s)
  <2>1. a.name \in SchemaAccounts /\ b.name \in SchemaAccounts
    BY <1>3 DEF SameId, PolicyIds, SchemaAccounts, PdaSeeds
  <2>2. PICK j \in DOMAIN s : s[j].address = a.address /\ s[j].name = a.name /\ s[j].values = a.values
    BY <2>1, AccountListed
  <2>3. PICK k \in DOMAIN s : s[k].address = b.address /\ s[k].name = b.name /\ s[k].values = b.values
    BY <2>1, AccountListed
  <2>4. a.address # b.address
    BY <1>3 DEF IsLedger
  <2>5. j # k
    BY <2>2, <2>3, <2>4
  <2>6. SameId(s[j], s[k])
    BY <1>1, <1>3, <2>2, <2>3
  <2> QED BY <2>5, <2>6 DEF DuplicateIds
<1> QED BY <1>2, <1>3

----------------------------------------------------------------------------
(* The loop. *)

Prefix(s, n) == {s[k] : k \in 1..(n - 1)}
Holds(s, S) == s \in Seq(S) /\ ToSet(s) = S
AddressesOf(S) == {a.address : a \in S}

(* Between discoveries nothing is left of the last; in one, the reply is   *)
(* the ledger's.                                                           *)
IdleInv ==
    /\ phase = "idle" => listing = << >> /\ index = 1 /\ recognized = << >> /\ unrecognized = << >>
    /\ phase # "idle" => listing \in SetToSeqs(ledger)

ScanningInv ==
    phase = "scanning" =>
        /\ Holds(recognized, Recognized(Prefix(listing, index), {}))
        /\ Holds(unrecognized, Unrecognizable(Prefix(listing, index)))
        /\ Sound(Prefix(listing, index))

LinkingInv ==
    phase = "linking" =>
        /\ Holds(recognized, Recognizable(ledger)) /\ Holds(unrecognized, Unrecognizable(ledger))
        /\ index = Len(listing) + 1 /\ Sound(ledger)

(* A result is the ledger's, whatever the order of the reply. *)
ResultInv ==
    /\ phase = "done" => /\ recognized = AccountsIn(ledger) /\ unrecognized = OthersIn(ledger)
                         /\ inventory = InventoryOf(ledger) /\ ~Bad(ledger)
    /\ phase = "failed" => Bad(ledger)
    /\ previous # Null => previous = OutcomeOf(ledger)

DiscoveryInv ==
    TypeOK /\ IsLedger(ledger) /\ IdleInv /\ ScanningInv /\ LinkingInv /\ ResultInv

(* The loop's next step adds one account to those passed. *)
LEMMA PrefixGrows ==
    ASSUME NEW T, NEW s \in Seq(T), NEW n \in 1..Len(s)
    PROVE  Prefix(s, n + 1) = Prefix(s, n) \cup {s[n]}
<1>1. Len(s) \in Nat /\ n \in Nat /\ n >= 1
  OBVIOUS
<1>2. \A k : k \in 1..((n + 1) - 1) <=> k \in 1..(n - 1) \/ k = n
  BY <1>1
<1> QED BY <1>2, Zenon DEF Prefix

(* At its end the loop has passed the whole reply. *)
LEMMA WholePrefix ==
    ASSUME NEW T, NEW s \in Seq(T)
    PROVE  Prefix(s, Len(s) + 1) = ToSet(s)
<1>1. Len(s) \in Nat /\ DOMAIN s = 1..Len(s)
  OBVIOUS
<1>2. 1..((Len(s) + 1) - 1) = DOMAIN s
  BY <1>1
<1> QED BY <1>2, Zenon DEF Prefix, ToSet

(* A decoded account joins the first list only. *)
LEMMA RecognizedGrow ==
    ASSUME NEW M, NEW a, NEW N, N = M \cup {a}, NEW P, a.name \in SchemaAccounts
    PROVE  Recognized(N, P) = Recognized(M, P) \cup {Discovered(a, P)} /\ Unrecognizable(N) = Unrecognizable(M)
<1>1. Decoded(N) = Decoded(M) \cup {a}
  BY DEF Decoded
<1>2. N \ (Decoded(M) \cup {a}) = M \ Decoded(M)
  BY DEF Decoded
<1>3. Recognized(N, P) = Recognized(M, P) \cup {Discovered(a, P)}
  BY <1>1, Zenon DEF Recognized
<1>4. Unrecognizable(N) = Unrecognizable(M)
  BY <1>1, <1>2, Zenon DEF Unrecognizable
<1> QED BY <1>3, <1>4

(* An unknown discriminator joins the second list only. *)
LEMMA UnrecognizedGrow ==
    ASSUME NEW M, NEW a, NEW N, N = M \cup {a}, NEW P, a.name \notin SchemaAccounts
    PROVE  Recognized(N, P) = Recognized(M, P) /\ Unrecognizable(N) = Unrecognizable(M) \cup {a.address}
<1>1. Decoded(N) = Decoded(M)
  BY DEF Decoded
<1>2. N \ Decoded(M) = (M \ Decoded(M)) \cup {a}
  BY DEF Decoded
<1>3. Recognized(N, P) = Recognized(M, P)
  BY <1>1, Zenon DEF Recognized
<1>4. Unrecognizable(N) = Unrecognizable(M) \cup {a.address}
  BY <1>1, <1>2, Zenon DEF Unrecognizable
<1> QED BY <1>3, <1>4

(* The addresses of the two lists are those of the accounts seen. *)
LEMMA PartsCover ==
    ASSUME NEW M, NEW P
    PROVE  AddressesOf(Recognized(M, P)) \cup Unrecognizable(M) = AddressesOf(M)
<1> DEFINE R == AddressesOf(Recognized(M, P))
           U == Unrecognizable(M)
<1>1. \A a \in M : a.name \in SchemaAccounts => a.address \in R
  <2> SUFFICES ASSUME NEW a \in M, a.name \in SchemaAccounts PROVE a.address \in R
    OBVIOUS
  <2>1. Discovered(a, P) \in Recognized(M, P)
    BY DEF Recognized, Decoded
  <2>2. Discovered(a, P).address = a.address
    BY DiscoveredFacts
  <2> QED BY <2>1, <2>2 DEF AddressesOf
<1>2. \A a \in M : a.name \notin SchemaAccounts => a.address \in U
  BY DEF Unrecognizable, Decoded
<1>3. ASSUME NEW x \in R PROVE \E a \in M : x = a.address
  <2>1. PICK d \in Recognized(M, P) : x = d.address
    BY <1>3 DEF AddressesOf
  <2>2. PICK a \in M : d = Discovered(a, P)
    BY DEF Recognized, Decoded
  <2> QED BY <2>1, <2>2, DiscoveredFacts
<1>4. \A x \in U : \E a \in M : x = a.address
  BY DEF Unrecognizable
<1> HIDE DEF R, U
<1>5. R \cup U = AddressesOf(M)
  BY <1>1, <1>2, <1>3, <1>4 DEF AddressesOf
<1> QED BY <1>5 DEF R, U

(* The addresses of a list are those of what it holds. *)
LEMMA AddressesAre ==
    ASSUME NEW s, NEW S, ToSet(s) = S
    PROVE  ToSet(Addresses(s)) = AddressesOf(S)
<1> DEFINE t == Addresses(s)
<1>1. DOMAIN t = DOMAIN s /\ \A k \in DOMAIN s : t[k] = s[k].address
  BY DEF Addresses
<1> HIDE DEF t
<1>2. ASSUME NEW x \in ToSet(t) PROVE x \in AddressesOf(S)
  <2>1. PICK k \in DOMAIN s : t[k] = x
    BY <1>1, <1>2, InToSet
  <2>2. s[k] \in S
    BY InToSet
  <2> QED BY <1>1, <2>1, <2>2 DEF AddressesOf
<1>3. ASSUME NEW x \in AddressesOf(S) PROVE x \in ToSet(t)
  <2>1. PICK a \in S : x = a.address
    BY <1>3 DEF AddressesOf
  <2>2. PICK k \in DOMAIN s : s[k] = a
    BY InToSet
  <2>3. k \in DOMAIN t /\ t[k] = x
    BY <1>1, <2>1, <2>2
  <2> QED BY <2>3, InToSet
<1> QED BY <1>2, <1>3 DEF t

(* The addresses of the accounts passed. *)
LEMMA SeenAddresses ==
    ASSUME NEW s, NEW n
    PROVE  {s[k].address : k \in 1..(n - 1)} = AddressesOf(Prefix(s, n))
BY Zenon DEF AddressesOf, Prefix

(* What makes a ledger bad. *)
LEMMA BadFacts ==
    ASSUME NEW L
    PROVE  Bad(L) <=> ~Sound(L) \/ \E a, b \in L : a # b /\ SameId(a, b)
<1>1. ASSUME NEW a
      PROVE  (ValidateProgramAccount(a) /\ DecodeChanceryAccount(a) # "malformed")
             <=> ~(\/ a.owner # ProgramAddress \/ a.executable
                   \/ a.name \in SchemaAccounts /\ a.malformed)
  BY DEF ValidateProgramAccount, DecodeChanceryAccount
<1> QED BY <1>1, Zenon DEF Bad, Sound

(* Two lists that hold the parts have the addresses of the whole. *)
LEMMA CoversSeen ==
    ASSUME NEW s, NEW u, NEW P, NEW M, ToSet(s) = Recognized(M, P), ToSet(u) = Unrecognizable(M)
    PROVE  ToSet(Addresses(s)) \cup ToSet(u) = AddressesOf(M)
<1>1. ToSet(Addresses(s)) = AddressesOf(Recognized(M, P))
  BY AddressesAre
<1> QED BY <1>1, PartsCover, Zenon

----------------------------------------------------------------------------
(* One lemma for each action. *)

(* At its start the loop has passed nothing. *)
LEMMA NothingSeen ==
    ASSUME NEW l
    PROVE  /\ ToSet(Addresses(<< >>)) \cup ToSet(<< >>) = {l[k].address : k \in 1..(1 - 1)}
           /\ Prefix(l, 1) = {} /\ Recognized({}, {}) = {} /\ Unrecognizable({}) = {} /\ Sound({})
           /\ Holds(<< >>, {})
<1>1. 1..(1 - 1) = {} /\ DOMAIN << >> = {}
  OBVIOUS
<1>2. Prefix(l, 1) = {} /\ ToSet(<< >>) = {}
  BY <1>1 DEF Prefix, ToSet
<1>3. Recognized({}, {}) = {} /\ Unrecognizable({}) = {} /\ Sound({}) /\ Decoded({}) = {}
  BY DEF Recognized, Unrecognizable, Decoded, Sound
<1>4. Holds(<< >>, {})
  BY <1>2 DEF Holds
<1>5. ToSet(Addresses(<< >>)) \cup ToSet(<< >>) = {l[k].address : k \in 1..(1 - 1)}
  <2>1. DOMAIN Addresses(<< >>) = {}
    BY <1>1 DEF Addresses
  <2>2. ToSet(Addresses(<< >>)) = {}
    BY <2>1 DEF ToSet
  <2> QED BY <1>1, <1>2, <2>2
<1> QED BY <1>2, <1>3, <1>4, <1>5

(* The first state is idle, over an empty ledger. *)
LEMMA InitInv ==
    ASSUME Init
    PROVE  DiscoveryInv
<1>1. IsFiniteSet({}) /\ Cardinality({}) = 0
  BY FS_EmptySet
<1>2. IsLedger(ledger)
  BY <1>1 DEF Init, IsLedger
<1>3. TypeOK
  <2>1. ledger \subseteq Accounts /\ Cardinality(ledger) <= MaxAccounts
    BY <1>1, BoundAssumption DEF Init
  <2>2. /\ listing \in Seq(ledger) /\ index \in 1..(Len(listing) + 1)
        /\ Len(recognized) + Len(unrecognized) = index - 1
    BY DEF Init
  <2>3. ToSet(Addresses(recognized)) \cup ToSet(unrecognized) = {listing[k].address : k \in 1..(index - 1)}
    <3>1. recognized = << >> /\ unrecognized = << >> /\ index = 1
      BY DEF Init
    <3>2. ToSet(Addresses(<< >>)) \cup ToSet(<< >>) = {listing[k].address : k \in 1..(1 - 1)}
      BY NothingSeen
    <3> QED BY <3>1, <3>2, Zenon
  <2> QED BY <2>1, <2>2, <2>3 DEF TypeOK, Init
<1> QED BY <1>2, <1>3 DEF DiscoveryInv, IdleInv, ScanningInv, LinkingInv, ResultInv, Init

(* An account opened or closed keeps addresses distinct and leaves no result to compare. *)
LEMMA LedgerChangesInv ==
    ASSUME DiscoveryInv, LedgerChanges
    PROVE  DiscoveryInv'
<1>1. /\ phase = "idle" /\ phase' = "idle" /\ listing' = << >> /\ index' = 1 /\ recognized' = << >>
      /\ unrecognized' = << >> /\ inventory' = Null /\ previous' = Null
  BY DEF DiscoveryInv, IdleInv, LedgerChanges, TypeOK
<1>2. IsLedger(ledger) /\ Cardinality(ledger) \in Nat
  BY FS_CardinalityType DEF DiscoveryInv, IsLedger
<1>3. IsLedger(ledger') /\ Cardinality(ledger') <= MaxAccounts
  <2>1. CASE \E a \in Accounts : /\ Cardinality(ledger) < MaxAccounts
                                 /\ \A b \in ledger : b.address # a.address
                                 /\ ledger' = ledger \cup {a}
    <3>1. PICK a \in Accounts : /\ Cardinality(ledger) < MaxAccounts
                                /\ \A b \in ledger : b.address # a.address
                                /\ ledger' = ledger \cup {a}
      BY <2>1
    <3>2. IsFiniteSet(ledger)
      BY <1>2 DEF IsLedger
    <3>3. IsFiniteSet(ledger') /\ Cardinality(ledger') <= Cardinality(ledger) + 1
      <4>1. /\ IsFiniteSet(ledger \cup {a})
            /\ Cardinality(ledger \cup {a}) = IF a \in ledger THEN Cardinality(ledger) ELSE Cardinality(ledger) + 1
        BY <3>2, FS_AddElement
      <4>2. /\ IsFiniteSet(ledger')
            /\ Cardinality(ledger') = IF a \in ledger THEN Cardinality(ledger) ELSE Cardinality(ledger) + 1
        BY <3>1, <4>1, Zenon
      <4> QED BY <1>2, <4>2
    <3>4. Cardinality(ledger') \in Nat
      BY <3>3, FS_CardinalityType
    <3>5. IsLedger(ledger')
      BY <1>2, <3>1, <3>3 DEF IsLedger
    <3> QED BY <1>2, <3>1, <3>3, <3>4, <3>5, BoundAssumption
  <2>2. CASE \E a \in ledger : ledger' = ledger \ {a}
    <3>1. IsFiniteSet(ledger) /\ ledger' \subseteq ledger
      BY <1>2, <2>2 DEF IsLedger
    <3>2. IsFiniteSet(ledger') /\ Cardinality(ledger') <= Cardinality(ledger)
      BY <3>1, FS_Subset
    <3>3. Cardinality(ledger') \in Nat
      BY <3>2, FS_CardinalityType
    <3>4. IsLedger(ledger')
      BY <1>2, <3>1, <3>2 DEF IsLedger
    <3>5. Cardinality(ledger) <= MaxAccounts
      BY DEF DiscoveryInv, TypeOK
    <3> QED BY <1>2, <3>2, <3>3, <3>4, <3>5, BoundAssumption
  <2> QED BY <2>1, <2>2 DEF LedgerChanges
<1>4. TypeOK'
  <2>1. /\ listing' \in Seq(ledger') /\ index' \in 1..(Len(listing') + 1)
        /\ Len(recognized') + Len(unrecognized') = index' - 1
    BY <1>1
  <2>2. ToSet(Addresses(recognized')) \cup ToSet(unrecognized') = {listing'[k].address : k \in 1..(index' - 1)}
    <3>1. recognized' = << >> /\ unrecognized' = << >> /\ index' = 1
      BY <1>1
    <3>2. ToSet(Addresses(<< >>)) \cup ToSet(<< >>) = {listing'[k].address : k \in 1..(1 - 1)}
      BY NothingSeen
    <3> QED BY <3>1, <3>2, Zenon
  <2>3. ledger' \subseteq Accounts
    BY <1>3 DEF IsLedger
  <2> QED BY <1>1, <1>3, <2>1, <2>2, <2>3 DEF TypeOK
<1>5. IdleInv' /\ ScanningInv' /\ LinkingInv' /\ ResultInv'
  BY <1>1 DEF IdleInv, ScanningInv, LinkingInv, ResultInv
<1> QED BY <1>3, <1>4, <1>5 DEF DiscoveryInv

(* A reply lists the ledger and the scan starts with nothing passed. *)
LEMMA GetProgramAccountsInv ==
    ASSUME DiscoveryInv, GetProgramAccounts
    PROVE  DiscoveryInv'
<1>1. /\ phase' = "scanning" /\ index' = 1 /\ recognized' = << >>
      /\ unrecognized' = << >> /\ inventory' = Null /\ previous' = previous /\ ledger' = ledger
      /\ listing' \in SetToSeqs(ledger)
  BY DEF GetProgramAccounts
<1>2. IsLedger(ledger) /\ IsFiniteSet(ledger)
  BY DEF DiscoveryInv, IsLedger
<1>3. listing' \in Seq(ledger)
  BY <1>1, <1>2, ListingFacts
<1>4. TypeOK'
  <2>1. /\ index' \in 1..(Len(listing') + 1) /\ Len(recognized') + Len(unrecognized') = index' - 1
    BY <1>1, <1>3
  <2>2. ToSet(Addresses(recognized')) \cup ToSet(unrecognized') = {listing'[k].address : k \in 1..(index' - 1)}
    BY <1>1, NothingSeen, Zenon
  <2>3. ledger \subseteq Accounts /\ Cardinality(ledger) <= MaxAccounts
    BY DEF DiscoveryInv, TypeOK
  <2> QED BY <1>1, <1>3, <2>1, <2>2, <2>3 DEF TypeOK
<1>5. IdleInv'
  BY <1>1 DEF IdleInv
<1>6. ScanningInv'
  <2>1. /\ Prefix(listing', index') = {} /\ Recognized({}, {}) = {} /\ Unrecognizable({}) = {}
        /\ Sound({}) /\ Holds(<< >>, {})
    BY <1>1, NothingSeen
  <2>2. /\ Holds(recognized', Recognized(Prefix(listing', index'), {}))
        /\ Holds(unrecognized', Unrecognizable(Prefix(listing', index'))) /\ Sound(Prefix(listing', index'))
    BY <1>1, <2>1, Zenon
  <2> QED BY <2>2 DEF ScanningInv
<1>7. LinkingInv' /\ ResultInv'
  <2>1. ResultInv
    BY DEF DiscoveryInv
  <2> QED BY <1>1, <2>1 DEF LinkingInv, ResultInv
<1> QED BY <1>1, <1>2, <1>4, <1>5, <1>6, <1>7 DEF DiscoveryInv

(* One account more is in exactly one list. *)
LEMMA ScanInv ==
    ASSUME DiscoveryInv, Scan
    PROVE  DiscoveryInv'
<1> DEFINE a == listing[index]
           M == Prefix(listing, index)
           N == Prefix(listing, index + 1)
<1>1. /\ phase = "scanning" /\ index <= Len(listing) /\ ledger' = ledger /\ phase' = phase
      /\ listing' = listing /\ inventory' = inventory /\ previous' = previous /\ index' = index + 1
  BY DEF Scan
<1>2. /\ ledger \subseteq Accounts /\ Cardinality(ledger) <= MaxAccounts
      /\ listing \in Seq(ledger) /\ index \in 1..(Len(listing) + 1)
      /\ Len(recognized) + Len(unrecognized) = index - 1 /\ inventory = Null
  BY <1>1 DEF DiscoveryInv, TypeOK
<1>3. index \in 1..Len(listing) /\ Len(listing) \in Nat
  BY <1>1, <1>2
<1>4. /\ Holds(recognized, Recognized(M, {})) /\ Holds(unrecognized, Unrecognizable(M)) /\ Sound(M)
  BY <1>1 DEF DiscoveryInv, ScanningInv
<1>5. N = M \cup {a}
  BY <1>2, <1>3, PrefixGrows
<1>6. ValidateProgramAccount(a) /\ DecodeChanceryAccount(a) # "malformed"
  BY DEF Scan
<1>7. Sound(N)
  BY <1>4, <1>5, <1>6 DEF Sound
<1>8. DecodeChanceryAccount(a) = "unknown" <=> a.name \notin SchemaAccounts
  BY DEF DecodeChanceryAccount
<1>9. /\ Holds(recognized', Recognized(N, {})) /\ Holds(unrecognized', Unrecognizable(N))
      /\ Len(recognized') + Len(unrecognized') = index
  <2>1. /\ recognized \in Seq(ToSet(recognized)) /\ ToSet(recognized) = Recognized(M, {})
        /\ unrecognized \in Seq(ToSet(unrecognized)) /\ ToSet(unrecognized) = Unrecognizable(M)
    BY <1>4, Zenon DEF Holds
  <2>2. Len(recognized) \in Nat /\ Len(unrecognized) \in Nat
    BY <2>1, AppendFacts
  <2>3. CASE a.name \notin SchemaAccounts
    <3>1. unrecognized' = Append(unrecognized, a.address) /\ recognized' = recognized
      BY <1>8, <2>3 DEF Scan, KeepUnrecognized
    <3>2. /\ unrecognized' \in Seq(ToSet(unrecognized')) /\ ToSet(unrecognized') = ToSet(unrecognized) \cup {a.address}
          /\ Len(unrecognized') = Len(unrecognized) + 1
      BY <2>1, <3>1, AppendFacts
    <3>3. Recognized(N, {}) = Recognized(M, {}) /\ Unrecognizable(N) = Unrecognizable(M) \cup {a.address}
      <4> HIDE DEF a, M, N
      <4> QED BY <1>5, <2>3, UnrecognizedGrow
    <3>4. ToSet(unrecognized') = Unrecognizable(N)
      BY <2>1, <3>2, <3>3, Zenon
    <3>5. Holds(unrecognized', Unrecognizable(N))
      BY <3>2, <3>4, Zenon DEF Holds
    <3>6. Holds(recognized', Recognized(N, {}))
      BY <1>4, <3>1, <3>3, Zenon
    <3> QED BY <1>2, <1>3, <2>2, <3>1, <3>2, <3>5, <3>6
  <2>4. CASE a.name \in SchemaAccounts
    <3>1. recognized' = Append(recognized, Discovered(a, {})) /\ unrecognized' = unrecognized
      BY <1>8, <2>4 DEF Scan
    <3>2. /\ recognized' \in Seq(ToSet(recognized')) /\ ToSet(recognized') = ToSet(recognized) \cup {Discovered(a, {})}
          /\ Len(recognized') = Len(recognized) + 1
      BY <2>1, <3>1, AppendFacts
    <3>3. Unrecognizable(N) = Unrecognizable(M) /\ Recognized(N, {}) = Recognized(M, {}) \cup {Discovered(a, {})}
      <4> HIDE DEF a, M, N
      <4> QED BY <1>5, <2>4, RecognizedGrow
    <3>4. ToSet(recognized') = Recognized(N, {})
      BY <2>1, <3>2, <3>3, Zenon
    <3>5. Holds(recognized', Recognized(N, {}))
      BY <3>2, <3>4, Zenon DEF Holds
    <3>6. Holds(unrecognized', Unrecognizable(N))
      BY <1>4, <3>1, <3>3, Zenon
    <3> QED BY <1>2, <1>3, <2>2, <3>1, <3>2, <3>5, <3>6
  <2> QED BY <2>3, <2>4
<1>10. ToSet(Addresses(recognized')) \cup ToSet(unrecognized')
           = {listing'[k].address : k \in 1..(index' - 1)}
  <2>1. N = Prefix(listing', index')
    BY <1>1
  <2>2. ToSet(recognized') = Recognized(N, {}) /\ ToSet(unrecognized') = Unrecognizable(N)
    BY <1>9 DEF Holds
  <2> HIDE DEF N
  <2>3. ToSet(Addresses(recognized')) \cup ToSet(unrecognized') = AddressesOf(N)
    BY <2>2, CoversSeen
  <2>4. {listing'[k].address : k \in 1..(index' - 1)} = AddressesOf(Prefix(listing', index'))
    BY SeenAddresses
  <2> QED BY <2>1, <2>3, <2>4, Zenon
<1> HIDE DEF a, M
<1>11. TypeOK'
  <2>1. /\ listing' \in Seq(ledger') /\ index' \in 1..(Len(listing') + 1)
        /\ Len(recognized') + Len(unrecognized') = index' - 1
    BY <1>1, <1>2, <1>3, <1>9
  <2> QED BY <1>1, <1>2, <1>10, <2>1 DEF TypeOK
<1>12. ScanningInv'
  BY <1>1, <1>7, <1>9 DEF ScanningInv
<1>13. IdleInv' /\ LinkingInv' /\ ResultInv'
  <2>1. ResultInv /\ IdleInv
    BY DEF DiscoveryInv
  <2> QED BY <1>1, <2>1 DEF IdleInv, LinkingInv, ResultInv
<1>14. IsLedger(ledger')
  BY <1>1 DEF DiscoveryInv
<1> QED BY <1>11, <1>12, <1>13, <1>14 DEF DiscoveryInv

(* An error leaves the lists as they are. *)
LEMMA FailInv ==
    ASSUME DiscoveryInv, Fail, phase \in {"scanning", "linking"}, Bad(ledger)
    PROVE  DiscoveryInv'
<1>1. /\ phase' = "failed" /\ ledger' = ledger /\ listing' = listing /\ index' = index
      /\ recognized' = recognized /\ unrecognized' = unrecognized
      /\ inventory' = inventory /\ previous' = previous
  BY DEF Fail
<1>2. TypeOK'
  <2>1. TypeOK
    BY DEF DiscoveryInv
  <2> QED BY <1>1, <2>1, Zenon DEF TypeOK
<1>3. IdleInv' /\ ScanningInv' /\ LinkingInv' /\ ResultInv' /\ IsLedger(ledger')
  <2>1. IdleInv /\ ResultInv /\ IsLedger(ledger)
    BY DEF DiscoveryInv
  <2> QED BY <1>1, <2>1 DEF IdleInv, ScanningInv, LinkingInv, ResultInv
<1> QED BY <1>2, <1>3 DEF DiscoveryInv

(* The account the scan refuses is one of the ledger. *)
LEMMA ScanThrowsInv ==
    ASSUME DiscoveryInv, ScanThrows
    PROVE  DiscoveryInv'
<1>1. phase = "scanning" /\ index <= Len(listing) /\ Fail
  BY DEF ScanThrows
<1>2. listing \in Seq(ledger) /\ index \in 1..(Len(listing) + 1)
  BY DEF DiscoveryInv, TypeOK
<1>3. listing[index] \in ledger
  BY <1>1, <1>2
<1>4. ~Sound(ledger)
  BY <1>3 DEF Sound, ScanThrows
<1>5. Bad(ledger)
  BY <1>4, BadFacts
<1> QED BY <1>1, <1>5, FailInv

(* Two entries with one id are two accounts with one id. *)
LEMMA AssembleThrowsInv ==
    ASSUME DiscoveryInv, AssembleThrows
    PROVE  DiscoveryInv'
<1>1. phase = "linking" /\ DuplicateIds(Sorted(recognized)) /\ Fail
  BY DEF AssembleThrows
<1>2. IsLedger(ledger) /\ ToSet(recognized) = Recognizable(ledger)
  BY <1>1 DEF DiscoveryInv, LinkingInv, Holds
<1>3. Sorted(recognized) = AccountsIn(ledger)
  BY <1>2, Zenon DEF Sorted, AccountsIn
<1>4. \E a, b \in ledger : a # b /\ SameId(a, b)
  BY <1>1, <1>2, <1>3, DuplicatesAreTheLedgers
<1>5. Bad(ledger)
  BY <1>4, BadFacts
<1> QED BY <1>1, <1>5, FailInv

(* The second pass makes the list what it would be with every policy known. *)
LEMMA LinkNoncesInv ==
    ASSUME DiscoveryInv, LinkNonces
    PROVE  DiscoveryInv'
<1> DEFINE P == OfDomain(ToSet(recognized))
           Link(a) == IF a.name # "RemoteNonce" THEN a
                      ELSE [a EXCEPT !.canonicalPda = ObserveCanonicalPda(a.address, a.name, a.values, P)]
<1>1. /\ phase = "scanning" /\ index > Len(listing) /\ phase' = "linking" /\ ledger' = ledger
      /\ listing' = listing /\ index' = index /\ unrecognized' = unrecognized /\ inventory' = inventory
      /\ previous' = previous /\ recognized' = [k \in DOMAIN recognized |-> Link(recognized[k])]
  BY DEF LinkNonces
<1>2. /\ ledger \subseteq Accounts /\ Cardinality(ledger) <= MaxAccounts
      /\ listing \in Seq(ledger) /\ index \in 1..(Len(listing) + 1)
      /\ Len(recognized) + Len(unrecognized) = index - 1 /\ inventory = Null
      /\ IsLedger(ledger) /\ listing \in SetToSeqs(ledger) /\ IsFiniteSet(ledger)
  BY <1>1 DEF DiscoveryInv, TypeOK, IdleInv, IsLedger
<1>3. index = Len(listing) + 1 /\ Len(listing) \in Nat
  BY <1>1, <1>2
<1>4. Prefix(listing, index) = ledger
  <2>1. Prefix(listing, Len(listing) + 1) = ToSet(listing)
    BY <1>2, WholePrefix
  <2>2. ToSet(listing) = ledger
    BY <1>2, ListingFacts
  <2> QED BY <1>3, <2>1, <2>2
<1>5. Holds(recognized, Recognized(ledger, {})) /\ Holds(unrecognized, Unrecognizable(ledger)) /\ Sound(ledger)
  BY <1>1, <1>4 DEF DiscoveryInv, ScanningInv
<1>6. P = PoliciesOf(ledger)
  BY <1>5, Zenon DEF PoliciesOf, Holds
<1>7. ASSUME NEW b PROVE Link(Discovered(b, {})) = Discovered(b, P)
  <2> HIDE DEF P
  <2> QED BY Relinked
<1> HIDE DEF P, Link
<1>8. recognized \in Seq(Recognized(ledger, {})) /\ ToSet(recognized) = Recognized(ledger, {})
  BY <1>5, Zenon DEF Holds
<1>9. /\ DOMAIN recognized = 1..Len(recognized) /\ Len(recognized) \in Nat
      /\ \A k \in DOMAIN recognized : recognized[k] \in Recognized(ledger, {})
  <2> DEFINE T == Recognized(ledger, {})
  <2> HIDE DEF T
  <2>1. recognized \in Seq(T)
    BY <1>8 DEF T
  <2>2. /\ DOMAIN recognized = 1..Len(recognized) /\ Len(recognized) \in Nat
        /\ \A k \in DOMAIN recognized : recognized[k] \in T
    BY <2>1
  <2> QED BY <2>2 DEF T
<1>10. DOMAIN recognized' = DOMAIN recognized /\ \A k \in DOMAIN recognized : recognized'[k] = Link(recognized[k])
  BY <1>1
<1>11. ToSet(recognized') = Recognizable(ledger)
  <2>1. ASSUME NEW x \in ToSet(recognized') PROVE x \in Recognizable(ledger)
    <3>1. PICK k \in DOMAIN recognized : recognized'[k] = x
      BY <1>10, <2>1, InToSet
    <3>2. PICK b \in Decoded(ledger) : recognized[k] = Discovered(b, {})
      BY <1>9 DEF Recognized
    <3>3. x = Discovered(b, P)
      BY <1>7, <1>10, <3>1, <3>2
    <3> QED BY <1>6, <3>3 DEF Recognizable, Recognized
  <2>2. ASSUME NEW x \in Recognizable(ledger) PROVE x \in ToSet(recognized')
    <3>1. PICK b \in Decoded(ledger) : x = Discovered(b, P)
      BY <1>6, <2>2 DEF Recognizable, Recognized
    <3>2. Discovered(b, {}) \in ToSet(recognized)
      BY <1>8 DEF Recognized
    <3>3. PICK k \in DOMAIN recognized : recognized[k] = Discovered(b, {})
      BY <3>2, InToSet
    <3>4. k \in DOMAIN recognized' /\ recognized'[k] = x
      BY <1>7, <1>10, <3>1, <3>3
    <3> QED BY <3>4, InToSet
  <2> QED BY <2>1, <2>2
<1>12. recognized' \in Seq(Recognizable(ledger)) /\ Len(recognized') = Len(recognized)
  <2> DEFINE T == Recognizable(ledger)
             n == Len(recognized)
  <2>1. \A k \in DOMAIN recognized' : recognized'[k] \in T
    BY <1>11, InToSet
  <2>2. DOMAIN recognized' = 1..n /\ n \in Nat
    BY <1>9, <1>10
  <2>3. recognized' = [k \in 1..n |-> recognized'[k]]
    BY <1>1, <1>9, <1>10
  <2> HIDE DEF T, n
  <2>4. recognized' \in [1..n -> T]
    BY <2>1, <2>2, <2>3
  <2>5. recognized' \in Seq(T) /\ Len(recognized') = n
    BY <2>2, <2>4
  <2> QED BY <2>5 DEF T, n
<1>13. ToSet(Addresses(recognized')) \cup ToSet(unrecognized')
           = {listing'[k].address : k \in 1..(index' - 1)}
  <2>1. ledger = Prefix(listing', index')
    BY <1>1, <1>4
  <2>2. ToSet(recognized') = Recognized(ledger, PoliciesOf(ledger)) /\ ToSet(unrecognized') = Unrecognizable(ledger)
    BY <1>1, <1>5, <1>11 DEF Holds, Recognizable
  <2>3. ToSet(Addresses(recognized')) \cup ToSet(unrecognized') = AddressesOf(ledger)
    BY <2>2, CoversSeen
  <2>4. {listing'[k].address : k \in 1..(index' - 1)} = AddressesOf(Prefix(listing', index'))
    BY SeenAddresses
  <2> QED BY <2>1, <2>3, <2>4, Zenon
<1>14. TypeOK'
  <2>1. /\ listing' \in Seq(ledger') /\ index' \in 1..(Len(listing') + 1)
        /\ Len(recognized') + Len(unrecognized') = index' - 1
    BY <1>1, <1>2, <1>12, Zenon
  <2> QED BY <1>1, <1>2, <1>13, <2>1, Zenon DEF TypeOK
<1>15. LinkingInv'
  BY <1>1, <1>3, <1>5, <1>11, <1>12, Zenon DEF LinkingInv, Holds
<1>16. IdleInv' /\ ScanningInv' /\ ResultInv' /\ IsLedger(ledger')
  <2>1. ResultInv /\ IdleInv
    BY DEF DiscoveryInv
  <2> QED BY <1>1, <1>2, <2>1, Zenon DEF IdleInv, ScanningInv, ResultInv
<1> QED BY <1>14, <1>15, <1>16 DEF DiscoveryInv

(* The sorted lists depend on the ledger alone, and so does the inventory. *)
LEMMA AssembleInv ==
    ASSUME DiscoveryInv, Assemble
    PROVE  DiscoveryInv'
<1>1. /\ phase = "linking" /\ phase' = "done" /\ ledger' = ledger /\ listing' = listing /\ index' = index
      /\ previous' = previous /\ ~DuplicateIds(Sorted(recognized)) /\ recognized' = Sorted(recognized)
      /\ unrecognized' = InOrder(ToSet(unrecognized), CompareAddresses(ToSet(unrecognized)))
      /\ inventory' = BuildInventory(Len(listing), recognized', unrecognized')
  BY DEF Assemble
<1>2. /\ ledger \subseteq Accounts /\ Cardinality(ledger) <= MaxAccounts /\ listing \in Seq(ledger)
      /\ index \in 1..(Len(listing) + 1) /\ index = Len(listing) + 1
      /\ IsLedger(ledger) /\ listing \in SetToSeqs(ledger) /\ IsFiniteSet(ledger) /\ Sound(ledger)
      /\ ToSet(recognized) = Recognizable(ledger) /\ ToSet(unrecognized) = Unrecognizable(ledger)
  BY <1>1 DEF DiscoveryInv, TypeOK, IdleInv, IsLedger, LinkingInv, Holds
<1>3. Len(listing) = Cardinality(ledger) /\ ToSet(listing) = ledger /\ Cardinality(ledger) \in Nat
  BY <1>2, ListingFacts
<1>4. recognized' = AccountsIn(ledger)
  BY <1>1, <1>2, Zenon DEF Sorted, AccountsIn
<1>5. unrecognized' = OthersIn(ledger)
  BY <1>1, <1>2, Zenon DEF OthersIn
<1>6. inventory' = InventoryOf(ledger)
  BY <1>1, <1>3, <1>4, <1>5, Zenon DEF InventoryOf
<1>7. ~Bad(ledger)
  <2>1. ~DuplicateIds(AccountsIn(ledger))
    BY <1>1, <1>4
  <2>2. ~(\E a, b \in ledger : a # b /\ SameId(a, b))
    BY <1>2, <2>1, DuplicatesAreTheLedgers
  <2> QED BY <1>2, <2>2, BadFacts
<1>8. Len(recognized') + Len(unrecognized') = index' - 1
  <2>1. Len(recognized') = Cardinality(Recognizable(ledger))
    BY <1>2, <1>4, AccountsFacts
  <2>2. Len(unrecognized') = Cardinality(Unrecognizable(ledger))
    BY <1>2, <1>5, OthersFacts
  <2>3. Cardinality(Recognizable(ledger)) + Cardinality(Unrecognizable(ledger)) = Cardinality(ledger)
    BY <1>2, LedgerFacts
  <2> QED BY <1>1, <1>2, <1>3, <2>1, <2>2, <2>3
<1>9. ToSet(Addresses(recognized')) \cup ToSet(unrecognized')
           = {listing'[k].address : k \in 1..(index' - 1)}
  <2>1. ledger = Prefix(listing', index')
    BY <1>1, <1>2, <1>3, WholePrefix
  <2>2. ToSet(recognized') = Recognized(ledger, PoliciesOf(ledger)) /\ ToSet(unrecognized') = Unrecognizable(ledger)
    BY <1>2, <1>4, <1>5, AccountsFacts, OthersFacts DEF Recognizable
  <2>3. ToSet(Addresses(recognized')) \cup ToSet(unrecognized') = AddressesOf(ledger)
    BY <2>2, CoversSeen
  <2>4. {listing'[k].address : k \in 1..(index' - 1)} = AddressesOf(Prefix(listing', index'))
    BY SeenAddresses
  <2> QED BY <2>1, <2>3, <2>4, Zenon
<1>10. TypeOK'
  BY <1>1, <1>2, <1>8, <1>9, Zenon DEF TypeOK
<1>11. IdleInv' /\ ScanningInv' /\ LinkingInv' /\ ResultInv'
  <2>1. ResultInv /\ IdleInv
    BY DEF DiscoveryInv
  <2> QED BY <1>1, <1>4, <1>5, <1>6, <1>7, <2>1, Zenon DEF IdleInv, ScanningInv, LinkingInv, ResultInv
<1> QED BY <1>1, <1>2, <1>10, <1>11 DEF DiscoveryInv

(* The outcome kept is the ledger's. *)
LEMMA ReturnInv ==
    ASSUME DiscoveryInv, Return
    PROVE  DiscoveryInv'
<1>1. /\ phase \in {"done", "failed"} /\ previous' = [phase |-> phase, inventory |-> inventory]
      /\ phase' = "idle" /\ listing' = << >> /\ index' = 1 /\ recognized' = << >>
      /\ unrecognized' = << >> /\ inventory' = Null /\ ledger' = ledger
  BY DEF Return
<1>2. previous' = OutcomeOf(ledger)
  BY <1>1 DEF OutcomeOf, DiscoveryInv, ResultInv, TypeOK
<1>3. TypeOK'
  <2>1. /\ listing' \in Seq(ledger') /\ index' \in 1..(Len(listing') + 1)
        /\ Len(recognized') + Len(unrecognized') = index' - 1
    BY <1>1
  <2>2. ToSet(Addresses(recognized')) \cup ToSet(unrecognized') = {listing'[k].address : k \in 1..(index' - 1)}
    <3>1. recognized' = << >> /\ unrecognized' = << >> /\ index' = 1
      BY <1>1
    <3>2. ToSet(Addresses(<< >>)) \cup ToSet(<< >>) = {listing'[k].address : k \in 1..(1 - 1)}
      BY NothingSeen
    <3> QED BY <3>1, <3>2, Zenon
  <2>3. ledger \subseteq Accounts /\ Cardinality(ledger) <= MaxAccounts
    BY DEF DiscoveryInv, TypeOK
  <2> QED BY <1>1, <2>1, <2>2, <2>3 DEF TypeOK
<1>4. IdleInv' /\ ScanningInv' /\ LinkingInv' /\ ResultInv' /\ IsLedger(ledger')
  BY <1>1, <1>2 DEF IdleInv, ScanningInv, LinkingInv, ResultInv, DiscoveryInv
<1> QED BY <1>3, <1>4 DEF DiscoveryInv

(* A step that changes nothing. *)
LEMMA StutterInv ==
    ASSUME DiscoveryInv, UNCHANGED vars
    PROVE  DiscoveryInv'
<1>1. /\ phase' = phase /\ ledger' = ledger /\ listing' = listing /\ index' = index
      /\ recognized' = recognized /\ unrecognized' = unrecognized
      /\ inventory' = inventory /\ previous' = previous
  BY DEF vars
<1>2. TypeOK /\ IsLedger(ledger) /\ IdleInv /\ ScanningInv /\ LinkingInv /\ ResultInv
  BY DEF DiscoveryInv
<1>3. TypeOK'
  BY <1>1, <1>2, Zenon DEF TypeOK
<1>4. IsLedger(ledger') /\ IdleInv' /\ ScanningInv' /\ LinkingInv' /\ ResultInv'
  BY <1>1, <1>2, Zenon DEF IdleInv, ScanningInv, LinkingInv, ResultInv
<1> QED BY <1>3, <1>4 DEF DiscoveryInv

(* The scan covers a prefix of the reply, the linked list the ledger, and a *)
(* result depends on the ledger alone: for every ledger and reply.         *)
THEOREM DiscoveryInvariant == Spec => []DiscoveryInv
<1>1. Init => DiscoveryInv
  BY InitInv
<1>2. DiscoveryInv /\ [Next]_vars => DiscoveryInv'
  BY LedgerChangesInv, GetProgramAccountsInv, ScanInv, ScanThrowsInv, LinkNoncesInv,
     AssembleInv, AssembleThrowsInv, ReturnInv, StutterInv DEF Next
<1> QED BY <1>1, <1>2, PTL DEF Spec

----------------------------------------------------------------------------
(* The nonces of an inventory. *)

(* The domain policies of the scan are the ledger's. *)
LEMMA PoliciesFacts ==
    ASSUME NEW L
    PROVE  /\ \A p \in OfDomain(L) : Discovered(p, {}) \in PoliciesOf(L)
           /\ \A x \in PoliciesOf(L) : \E p \in OfDomain(L) : x = Discovered(p, {})
<1>1. "RemoteDomainPolicy" \in SchemaAccounts
  BY DEF SchemaAccounts, PdaSeeds
<1>2. ASSUME NEW p \in OfDomain(L) PROVE Discovered(p, {}) \in PoliciesOf(L)
  <2>1. p \in L /\ p.name = "RemoteDomainPolicy"
    BY DEF OfDomain
  <2>2. Discovered(p, {}) \in Recognized(L, {})
    BY <1>1, <2>1 DEF Recognized, Decoded
  <2>3. Discovered(p, {}).name = "RemoteDomainPolicy"
    BY <2>1, DiscoveredFacts
  <2> QED BY <2>2, <2>3 DEF PoliciesOf, OfDomain
<1>3. ASSUME NEW x \in PoliciesOf(L) PROVE \E p \in OfDomain(L) : x = Discovered(p, {})
  <2>1. x \in Recognized(L, {}) /\ x.name = "RemoteDomainPolicy"
    BY DEF PoliciesOf, OfDomain
  <2>2. PICK p \in L : x = Discovered(p, {})
    BY <2>1 DEF Recognized, Decoded
  <2>3. p.name = "RemoteDomainPolicy"
    BY <2>1, <2>2, DiscoveredFacts
  <2> QED BY <2>2, <2>3 DEF OfDomain
<1> QED BY <1>2, <1>3

(* The policies the scan offers a nonce are the ledger's, as many. *)
LEMMA LinkedPolicies ==
    ASSUME NEW L, IsLedger(L), NEW v
    PROVE  LET linked == DomainPolicies(v, PoliciesOf(L))
               policies == DomainPolicies(v, OfDomain(L))
           IN  /\ IsFiniteSet(linked) /\ Cardinality(linked) = Cardinality(policies)
               /\ \A x \in linked : \E p \in policies : x.values = p.values
               /\ \A p \in policies : \E x \in linked : x.values = p.values
<1> DEFINE linked == DomainPolicies(v, PoliciesOf(L))
           policies == DomainPolicies(v, OfDomain(L))
           f == [p \in policies |-> Discovered(p, {})]
<1>1. \A p \in policies : Discovered(p, {}) \in linked /\ Discovered(p, {}).values = p.values
  <2> SUFFICES ASSUME NEW p \in policies
               PROVE  Discovered(p, {}) \in linked /\ Discovered(p, {}).values = p.values
    OBVIOUS
  <2>1. p \in OfDomain(L) /\ p.values.remote_domain_id = v.remote_domain_id
    BY DEF DomainPolicies
  <2>2. Discovered(p, {}) \in PoliciesOf(L)
    BY <2>1, PoliciesFacts
  <2>3. Discovered(p, {}).values = p.values
    BY DiscoveredFacts
  <2> QED BY <2>1, <2>2, <2>3 DEF DomainPolicies
<1>2. \A x \in linked : \E p \in policies : x = Discovered(p, {}) /\ x.values = p.values
  <2> SUFFICES ASSUME NEW x \in linked
               PROVE  \E p \in policies : x = Discovered(p, {}) /\ x.values = p.values
    OBVIOUS
  <2>1. x \in PoliciesOf(L) /\ x.values.remote_domain_id = v.remote_domain_id
    BY DEF DomainPolicies
  <2>2. PICK p \in OfDomain(L) : x = Discovered(p, {})
    BY <2>1, PoliciesFacts
  <2>3. x.values = p.values
    BY <2>2, DiscoveredFacts
  <2> QED BY <2>1, <2>2, <2>3 DEF DomainPolicies
<1>3. policies \subseteq L
  BY DEF DomainPolicies, OfDomain
<1>4. IsFiniteSet(policies)
  BY <1>3, FS_Subset DEF IsLedger
<1>5. \A p, q \in policies : Discovered(p, {}) = Discovered(q, {}) => p = q
  <2>1. \A p : Discovered(p, {}).address = p.address
    BY DiscoveredFacts
  <2>2. \A p, q \in policies : p.address = q.address => p = q
    BY <1>3 DEF IsLedger
  <2> HIDE DEF policies
  <2> QED BY <2>1, <2>2
<1> HIDE DEF linked, policies
<1>6. f \in [policies -> linked] /\ \A p \in policies : f[p] = Discovered(p, {})
  BY <1>1
<1> HIDE DEF f
<1>7. (\A p, q \in policies : f[p] = f[q] => p = q) /\ \A x \in linked : \E p \in policies : f[p] = x
  BY <1>2, <1>5, <1>6
<1>8. IsFiniteSet(linked) /\ Cardinality(linked) = Cardinality(policies)
  BY <1>4, <1>6, <1>7, Images
<1> QED BY <1>1, <1>2, <1>8 DEF linked, policies

(* A nonce's verdict, from the ledger's policies of its domain. *)
LEMMA NonceVerdict ==
    ASSUME NEW L, IsLedger(L), NEW a \in L, a.name = "RemoteNonce"
    PROVE  LET verdict == Discovered(a, PoliciesOf(L)).canonicalPda
               policies == DomainPolicies(a.values, OfDomain(L))
               offered == {DeriveRemoteNonceAddress(p.values.remote_chain_kind,
                               a.values.remote_domain_id, a.values.scope_key) : p \in policies}
           IN  /\ (verdict # NoObservation /\ verdict.addressMatches) <=> a.address \in offered
               /\ verdict = NoObservation <=> a.address \notin offered /\ Cardinality(policies) # 1
               /\ verdict # NoObservation => verdict.expected \in offered
<1> DEFINE verdict == Discovered(a, PoliciesOf(L)).canonicalPda
           policies == DomainPolicies(a.values, OfDomain(L))
           linked == DomainPolicies(a.values, PoliciesOf(L))
           Candidate(p) == DeriveRemoteNonceAddress(p.values.remote_chain_kind,
                               a.values.remote_domain_id, a.values.scope_key)
           offered == {Candidate(p) : p \in policies}
           derived == DeriveRemoteNonceCanonicalPda(a.address, a.values, PoliciesOf(L))
<1>1. verdict = IF derived = Null THEN NoObservation
                ELSE [expected |-> derived, addressMatches |-> derived = a.address,
                      storedBumpMatches |-> a.values.bump = "derived"]
  BY DEF Discovered, ObserveCanonicalPda
<1>2. derived = IF \E p \in linked : Candidate(p) = a.address THEN a.address
                ELSE IF Cardinality(linked) = 1 THEN Candidate(CHOOSE p \in linked : TRUE) ELSE Null
  BY DEF DeriveRemoteNonceCanonicalPda
<1>3. /\ IsFiniteSet(linked) /\ Cardinality(linked) = Cardinality(policies)
      /\ \A x \in linked : \E p \in policies : x.values = p.values
      /\ \A p \in policies : \E x \in linked : x.values = p.values
  BY LinkedPolicies
<1>4. a \in Accounts /\ a.address # Null
  BY BoundAssumption DEF IsLedger
<1>5. \A p \in policies : Candidate(p) # Null
  <2> SUFFICES ASSUME NEW p \in policies PROVE Candidate(p) # Null
    OBVIOUS
  <2>1. p \in Accounts /\ p.name = "RemoteDomainPolicy"
    BY DEF DomainPolicies, OfDomain, IsLedger
  <2> QED BY <1>4, <2>1, NonceAssumption
<1>6. \A x, p : x.values = p.values => Candidate(x) = Candidate(p)
  OBVIOUS
<1> HIDE DEF verdict, policies, linked, Candidate, derived
<1>7. (\E p \in linked : Candidate(p) = a.address) <=> a.address \in offered
  BY <1>3, <1>6
<1>8. \A x \in linked : Candidate(x) \in offered
  BY <1>3, <1>6
<1>9. \A y \in offered : y # Null
  BY <1>5
<1> HIDE DEF offered
<1> DEFINE Goal == /\ (verdict # NoObservation /\ verdict.addressMatches) <=> a.address \in offered
                   /\ verdict = NoObservation <=> a.address \notin offered /\ Cardinality(policies) # 1
                   /\ verdict # NoObservation => verdict.expected \in offered
<1>10. ASSUME a.address \in offered PROVE Goal
  <2>1. derived = a.address
    BY <1>2, <1>7, <1>10
  <2>2. verdict = [expected |-> derived, addressMatches |-> derived = a.address,
                   storedBumpMatches |-> a.values.bump = "derived"]
    BY <1>1, <1>4, <2>1
  <2>3. verdict # NoObservation
    BY <1>4, <2>1, <2>2 DEF NoObservation
  <2>4. verdict.expected = a.address /\ verdict.addressMatches
    BY <2>1, <2>2
  <2> QED BY <1>10, <2>3, <2>4
<1>11. ASSUME a.address \notin offered, Cardinality(policies) = 1 PROVE Goal
  <2>1. PICK x : linked = {x}
    BY <1>3, <1>11, FS_Singleton
  <2>2. (CHOOSE p \in linked : TRUE) \in linked
    BY <2>1
  <2>3. derived = Candidate(CHOOSE p \in linked : TRUE)
    BY <1>2, <1>3, <1>7, <1>11
  <2>4. derived \in offered
    BY <1>8, <2>2, <2>3
  <2>5. derived # Null /\ derived # a.address
    BY <1>9, <1>11, <2>4
  <2>6. verdict = [expected |-> derived, addressMatches |-> derived = a.address,
                   storedBumpMatches |-> a.values.bump = "derived"]
    BY <1>1, <2>5
  <2>7. verdict # NoObservation
    BY <2>5, <2>6 DEF NoObservation
  <2>8. verdict.expected = derived /\ ~verdict.addressMatches
    BY <2>5, <2>6
  <2> QED BY <1>11, <2>4, <2>7, <2>8
<1>12. ASSUME a.address \notin offered, Cardinality(policies) # 1 PROVE Goal
  <2>1. derived = Null
    BY <1>2, <1>3, <1>7, <1>12
  <2>2. verdict = NoObservation
    BY <1>1, <2>1
  <2> QED BY <1>12, <2>2
<1>13. Goal
  BY <1>10, <1>11, <1>12
<1> QED BY <1>13 DEF verdict, policies, offered, Candidate

(* Every nonce of the result has the ledger's verdict. *)
LEMMA NonceInv ==
    ASSUME DiscoveryInv
    PROVE  NonceVerdictsAreComplete
<1> SUFFICES ASSUME phase = "done", NEW k \in DOMAIN recognized, recognized[k].name = "RemoteNonce"
             PROVE  LET nonce == recognized[k]
                        policies == DomainPolicies(nonce.values, OfDomain(ledger))
                        offered == {DeriveRemoteNonceAddress(p.values.remote_chain_kind,
                                        nonce.values.remote_domain_id, nonce.values.scope_key) : p \in policies}
                        verdict == nonce.canonicalPda
                    IN  /\ (verdict # NoObservation /\ verdict.addressMatches) <=> nonce.address \in offered
                        /\ verdict = NoObservation <=> nonce.address \notin offered /\ Cardinality(policies) # 1
                        /\ verdict # NoObservation => verdict.expected \in offered
  BY DEF NonceVerdictsAreComplete
<1>1. IsLedger(ledger) /\ recognized = AccountsIn(ledger)
  BY DEF DiscoveryInv, ResultInv
<1>2. PICK a \in ledger : /\ recognized[k] = Discovered(a, PoliciesOf(ledger))
                          /\ recognized[k].address = a.address /\ recognized[k].name = a.name
                          /\ recognized[k].values = a.values
  BY <1>1, AccountAt
<1>3. a.name = "RemoteNonce"
  BY <1>2
<1>4. LET verdict == Discovered(a, PoliciesOf(ledger)).canonicalPda
          policies == DomainPolicies(a.values, OfDomain(ledger))
          offered == {DeriveRemoteNonceAddress(p.values.remote_chain_kind,
                          a.values.remote_domain_id, a.values.scope_key) : p \in policies}
      IN  /\ (verdict # NoObservation /\ verdict.addressMatches) <=> a.address \in offered
          /\ verdict = NoObservation <=> a.address \notin offered /\ Cardinality(policies) # 1
          /\ verdict # NoObservation => verdict.expected \in offered
  BY <1>1, <1>3, NonceVerdict
<1>5. recognized[k].canonicalPda = Discovered(a, PoliciesOf(ledger)).canonicalPda
  BY <1>2
<1> QED BY <1>2, <1>4, <1>5, Zenon

----------------------------------------------------------------------------
(* The links of an inventory. *)

(* A link names the one policy of its type with the id. *)
LEMMA LinkExact ==
    ASSUME NEW L, IsLedger(L), ~Bad(L), NEW name \in DOMAIN PolicyIds, NEW id
    PROVE  LET link == LinkedPolicy(AccountsIn(L), name, id)
               found == {b.address : b \in {c \in L : /\ c.name = name
                                                      /\ c.values[PolicyIds[c.name]] = id
                                                      /\ c.values[PolicyIds[c.name]] # ZeroId}}
           IN  IF link = Null THEN found = {} ELSE found = {link}
<1> DEFINE s == AccountsIn(L)
           f == PolicyIds[name]
           H == Having(s, name, f, id)
           link == LinkedPolicy(s, name, id)
           Match(c) == c.name = name /\ c.values[PolicyIds[c.name]] = id /\ c.values[PolicyIds[c.name]] # ZeroId
           found == {b.address : b \in {c \in L : Match(c)}}
<1>1. CASE id = ZeroId
  <2>1. link = Null
    BY <1>1 DEF LinkedPolicy
  <2>2. found = {}
    BY <1>1
  <2> QED BY <2>1, <2>2
<1>2. CASE id # ZeroId
  <2>1. link = First(s, H)
    BY <1>2 DEF LinkedPolicy, FindByField
  <2>2. PICK n \in Nat : DOMAIN s = 1..n
    BY AccountsFacts
  <2>3. H \subseteq 1..n /\ \A k \in 1..n : k \in H <=> s[k].name = name /\ s[k].values[f] = id
    BY <2>2 DEF Having
  <2>4. \A c \in L : Match(c) <=> c.name = name /\ c.values[f] = id
    BY <1>2
  <2>5. \A x : x \in found <=> \E c \in L : Match(c) /\ x = c.address
    OBVIOUS
  <2>6. name \in SchemaAccounts
    BY DEF PolicyIds, SchemaAccounts, PdaSeeds
  <2> HIDE DEF H, link, found, Match, s
  <2>7. CASE H = {}
    <3>1. link = Null
      BY <2>1, <2>7 DEF First
    <3>2. ASSUME NEW c \in L, Match(c) PROVE FALSE
      <4>1. c.name \in SchemaAccounts
        BY <2>4, <2>6, <3>2
      <4>2. PICK k \in DOMAIN s : s[k].name = c.name /\ s[k].values = c.values
        BY <4>1, AccountListed DEF s
      <4>3. k \in H
        BY <2>2, <2>3, <2>4, <3>2, <4>2
      <4> QED BY <2>7, <4>3
    <3>3. found = {}
      BY <2>5, <3>2
    <3> QED BY <3>1, <3>3 DEF link, found, Match, s
  <2>8. CASE H # {}
    <3>1. PICK k \in H : link = s[k].address
      <4>1. \/ H = {} /\ First(s, H) = Null
            \/ \E k \in H : First(s, H) = s[k].address
        BY <2>3, FirstFacts
      <4> QED BY <2>1, <2>8, <4>1
    <3>2. k \in DOMAIN s /\ s[k].name = name /\ s[k].values[f] = id
      BY <2>2, <2>3
    <3>3. PICK a \in L : a \in Accounts /\ s[k].address = a.address /\ s[k].name = a.name /\ s[k].values = a.values
      BY <3>2, AccountAt DEF s
    <3>4. Match(a) /\ link = a.address
      BY <2>4, <3>1, <3>2, <3>3
    <3>5. link # Null
      BY <3>3, <3>4, BoundAssumption
    <3>6. ASSUME NEW c \in L, Match(c) PROVE c = a
      <4>1. c.name = name /\ c.values[f] = id /\ a.name = name /\ a.values[f] = id
        BY <2>4, <3>4, <3>6
      <4>2. SameId(a, c)
        BY <4>1 DEF SameId
      <4> QED BY <4>2, BadFacts
    <3>7. found = {link}
      BY <2>5, <3>4, <3>6
    <3> QED BY <3>5, <3>7 DEF link, found, Match, s
  <2> QED BY <2>7, <2>8
<1> QED BY <1>1, <1>2

(* Every pathway has its entry, with the links of its own ids. *)
LEMMA PathwayListed ==
    ASSUME NEW L, IsLedger(L), NEW a \in L, a.name = "PathwayPolicy"
    PROVE  \E k \in DOMAIN Pathways(AccountsIn(L)) :
               /\ Pathways(AccountsIn(L))[k].address = a.address
               /\ \A l \in DOMAIN PathwayLinks : Pathways(AccountsIn(L))[k].links[l]
                     = LinkedPolicy(AccountsIn(L), PathwayLinks[l][1], a.values[PathwayLinks[l][2]])
<1> DEFINE s == AccountsIn(L)
           positions == {k \in DOMAIN s : s[k].name = "PathwayPolicy"}
           ofType == OfType(s, "PathwayPolicy")
<1>1. PICK n \in Nat : DOMAIN s = 1..n
  BY AccountsFacts
<1>2. ofType = At(s, positions) /\ positions \in SUBSET (1..n)
  BY <1>1 DEF OfType
<1>3. a.name \in SchemaAccounts
  BY DEF SchemaAccounts, PdaSeeds
<1>4. PICK j \in DOMAIN s : s[j].address = a.address /\ s[j].name = a.name /\ s[j].values = a.values
  BY <1>3, AccountListed
<1>5. j \in positions
  BY <1>4
<1> HIDE DEF positions, s
<1>6. ToSet(At(s, positions)) = {s[k] : k \in positions}
  BY <1>1, <1>2, AtFacts
<1>7. PICK k \in DOMAIN ofType : ofType[k] = s[j]
  BY <1>2, <1>5, <1>6, InToSet
<1> HIDE DEF ofType
<1>8. /\ DOMAIN Pathways(s) = DOMAIN ofType
      /\ Pathways(s)[k] = BuildPathwayInventory(s[j], s)
  BY <1>7 DEF Pathways, ofType
<1>9. /\ BuildPathwayInventory(s[j], s).address = a.address
      /\ \A l \in DOMAIN PathwayLinks : BuildPathwayInventory(s[j], s).links[l]
             = LinkedPolicy(s, PathwayLinks[l][1], a.values[PathwayLinks[l][2]])
  <2>1. /\ BuildPathwayInventory(s[j], s).address = s[j].address
        /\ BuildPathwayInventory(s[j], s).links = [l \in DOMAIN PathwayLinks |->
                    LinkedPolicy(s, PathwayLinks[l][1], s[j].values[PathwayLinks[l][2]])]
    BY DEF BuildPathwayInventory
  <2> QED BY <1>4, <2>1
<1> QED BY <1>7, <1>8, <1>9 DEF s

(* A pathway is among those of its mint. *)
LEMMA OfMintFacts ==
    ASSUME NEW L, IsLedger(L), NEW a \in L, a.name = "PathwayPolicy", NEW mint, a.values.asset_mint = mint
    PROVE  a.address \in ToSet(OfMint(AccountsIn(L), "PathwayPolicy", mint))
<1> DEFINE s == AccountsIn(L)
           H == Having(s, "PathwayPolicy", "asset_mint", mint)
<1>1. PICK n \in Nat : DOMAIN s = 1..n
  BY AccountsFacts
<1>2. a.name \in SchemaAccounts
  BY DEF SchemaAccounts, PdaSeeds
<1>3. PICK j \in DOMAIN s : s[j].address = a.address /\ s[j].name = a.name /\ s[j].values = a.values
  BY <1>2, AccountListed
<1>4. H \in SUBSET (1..n) /\ j \in H
  BY <1>1, <1>3 DEF Having
<1> HIDE DEF H, s
<1>5. s[j] \in ToSet(At(s, H))
  BY <1>1, <1>4, AtFacts
<1>6. ToSet(Addresses(At(s, H))) = AddressesOf(ToSet(At(s, H)))
  BY AddressesAre
<1>7. a.address \in ToSet(Addresses(At(s, H)))
  BY <1>3, <1>5, <1>6 DEF AddressesOf
<1> QED BY <1>7 DEF OfMint, H, s

(* Every entry of the sorted assets is an asset of the ledger, with the    *)
(* pathways of its mint.                                                   *)
LEMMA AssetsFacts ==
    ASSUME NEW L, IsLedger(L), NEW k \in DOMAIN Assets(AccountsIn(L))
    PROVE  LET asset == Assets(AccountsIn(L))[k]
           IN  asset.pathways = OfMint(AccountsIn(L), "PathwayPolicy", asset.assetMint)
<1> DEFINE s == AccountsIn(L)
           positions == {j \in DOMAIN s : s[j].name = "AssetConfig"}
           ofType == OfType(s, "AssetConfig")
           assets == [j \in DOMAIN ofType |-> BuildAssetInventory(ofType[j], s)]
           D == DOMAIN assets
           before == {p \in D \X D : \/ MintRank(assets[p[1]]) < MintRank(assets[p[2]])
                                     \/ MintRank(assets[p[1]]) = MintRank(assets[p[2]]) /\ p[1] < p[2]}
           order == InOrder(D, before)
<1>1. PICK n \in Nat : DOMAIN s = 1..n
  BY AccountsFacts
<1>2. ofType = At(s, positions) /\ positions \in SUBSET (1..n)
  BY <1>1 DEF OfType
<1>3. \A j \in positions : s[j].name = "AssetConfig" /\ j \in DOMAIN s
  OBVIOUS
<1>4. Assets(s) = [j \in DOMAIN order |-> assets[order[j]]]
  BY Zenon DEF Assets, SortByMint
<1> HIDE DEF positions
<1>5. /\ ToSet(At(s, positions)) = {s[j] : j \in positions}
      /\ DOMAIN At(s, positions) = 1..Cardinality(positions) /\ Cardinality(positions) \in Nat
  <2> HIDE DEF s
  <2> QED BY <1>1, <1>2, AtFacts
<1>6. D = 1..Cardinality(positions)
  BY <1>2, <1>5
<1>7. IsFiniteSet(D)
  BY <1>5, <1>6, FS_Interval
<1>8. ASSUME NEW j \in D
      PROVE  /\ MintRank(assets[j]) \in Nat
             /\ assets[j].pathways = OfMint(s, "PathwayPolicy", assets[j].assetMint)
  <2>1. j \in DOMAIN ofType /\ assets[j] = BuildAssetInventory(ofType[j], s)
    BY <1>8
  <2>2. ofType[j] \in ToSet(At(s, positions))
    BY <1>2, <2>1, InToSet
  <2> HIDE DEF ofType, assets, D
  <2>3. PICK i \in positions : ofType[j] = s[i]
    BY <1>5, <2>2
  <2>4. PICK b \in L : b \in Accounts /\ s[i].name = b.name /\ s[i].values = b.values
    BY <1>3, AccountAt
  <2>5. b.name = "AssetConfig"
    BY <1>3, <2>4
  <2> HIDE DEF s
  <2>6. /\ assets[j].assetMint = ofType[j].values.asset_mint
        /\ assets[j].pathways = OfMint(s, "PathwayPolicy", ofType[j].values.asset_mint)
    BY <2>1 DEF BuildAssetInventory
  <2>7. assets[j].assetMint = b.values.asset_mint
    BY <2>3, <2>4, <2>6
  <2>8. AddressRank[<<b.values.asset_mint>>] \in Nat
    BY <2>4, <2>5, RankAssumption
  <2> QED BY <2>6, <2>7, <2>8 DEF MintRank
<1> HIDE DEF assets, ofType
<1>9. \A x, y \in D : <<x, y>> \in before <=>
          \/ MintRank(assets[x]) < MintRank(assets[y])
          \/ MintRank(assets[x]) = MintRank(assets[y]) /\ x < y
  OBVIOUS
<1>10. \A x \in D : x \in Nat
  BY <1>6
<1>11. \A x \in D : MintRank(assets[x]) \in Nat
  BY <1>8
<1> HIDE DEF D, before
<1>12. StrictTotalOrder(D, before)
  BY <1>9, <1>10, <1>11 DEF StrictTotalOrder
<1>13. order \in [1..Cardinality(D) -> D]
  BY <1>7, <1>12, Ordered
<1> HIDE DEF order
<1>14. k \in DOMAIN order /\ Assets(s)[k] = assets[order[k]] /\ order[k] \in D
  <2>1. k \in DOMAIN order
    BY <1>4
  <2> QED BY <1>4, <1>13, <2>1
<1> HIDE DEF s
<1>15. Assets(s)[k].pathways = OfMint(s, "PathwayPolicy", Assets(s)[k].assetMint)
  BY <1>8, <1>14
<1> QED BY <1>15 DEF s

(* The links of a result are exact. *)
LEMMA LinksInv ==
    ASSUME DiscoveryInv
    PROVE  LinksAreExact
<1> SUFFICES ASSUME phase = "done" PROVE LinksAreExact
  BY DEF LinksAreExact
<1> DEFINE s == AccountsIn(ledger)
           Policies(a, l) == {b.address : b \in {c \in ledger :
                                 /\ c.name = PathwayLinks[l][1]
                                 /\ c.values[PolicyIds[c.name]] = a.values[PathwayLinks[l][2]]
                                 /\ c.values[PolicyIds[c.name]] # ZeroId}}
<1>1. IsLedger(ledger) /\ ~Bad(ledger) /\ inventory = InventoryOf(ledger)
  BY DEF DiscoveryInv, ResultInv
<1>2. inventory.pathways = Pathways(s) /\ inventory.assets = Assets(s)
  BY <1>1 DEF InventoryOf, BuildInventory
<1>3. \A l \in DOMAIN PathwayLinks : PathwayLinks[l][1] \in DOMAIN PolicyIds
  BY DEF PathwayLinks, PolicyIds
<1>4. ASSUME NEW a \in ledger, a.name = "PathwayPolicy"
      PROVE  \E k \in DOMAIN inventory.pathways :
                 /\ inventory.pathways[k].address = a.address
                 /\ \A l \in DOMAIN PathwayLinks :
                        IF inventory.pathways[k].links[l] = Null THEN Policies(a, l) = {}
                        ELSE Policies(a, l) = {inventory.pathways[k].links[l]}
  <2>1. PICK k \in DOMAIN Pathways(s) :
               /\ Pathways(s)[k].address = a.address
               /\ \A l \in DOMAIN PathwayLinks : Pathways(s)[k].links[l]
                     = LinkedPolicy(s, PathwayLinks[l][1], a.values[PathwayLinks[l][2]])
    BY <1>1, <1>4, PathwayListed
  <2>2. ASSUME NEW l \in DOMAIN PathwayLinks
        PROVE  IF Pathways(s)[k].links[l] = Null THEN Policies(a, l) = {}
               ELSE Policies(a, l) = {Pathways(s)[k].links[l]}
    <3>1. PathwayLinks[l][1] \in DOMAIN PolicyIds
      BY <1>3
    <3>2. LET link == LinkedPolicy(s, PathwayLinks[l][1], a.values[PathwayLinks[l][2]])
          IN  IF link = Null THEN Policies(a, l) = {} ELSE Policies(a, l) = {link}
      BY <1>1, <3>1, LinkExact
    <3> HIDE DEF Policies
    <3> QED BY <2>1, <3>2
  <2> HIDE DEF Policies, s
  <2> QED BY <1>2, <2>1, <2>2
<1>5. ASSUME NEW k \in DOMAIN inventory.assets, NEW a \in ledger, a.name = "PathwayPolicy",
             a.values.asset_mint = inventory.assets[k].assetMint
      PROVE  a.address \in ToSet(inventory.assets[k].pathways)
  <2>1. k \in DOMAIN Assets(s)
    BY <1>2
  <2>2. inventory.assets[k].pathways = OfMint(s, "PathwayPolicy", inventory.assets[k].assetMint)
    BY <1>1, <1>2, <2>1, AssetsFacts
  <2>3. a.address \in ToSet(OfMint(s, "PathwayPolicy", inventory.assets[k].assetMint))
    BY <1>1, <1>5, OfMintFacts
  <2> QED BY <2>2, <2>3
<1> QED BY <1>4, <1>5, Zenon DEF LinksAreExact

(* A result leaves out no account. *)
LEMMA LossInv ==
    ASSUME DiscoveryInv
    PROVE  NothingIsLost
<1> SUFFICES ASSUME phase = "done" PROVE NothingIsLost
  BY DEF NothingIsLost
<1> DEFINE s == AccountsIn(ledger)
           u == OthersIn(ledger)
<1>1. IsLedger(ledger) /\ inventory = InventoryOf(ledger)
  BY DEF DiscoveryInv, ResultInv
<1>2. /\ inventory.accountCount = Cardinality(ledger) /\ inventory.recognizedAccounts = s
      /\ inventory.unrecognizedAccounts = u /\ inventory.knownPdas = BuildKnownPdaInventory(s)
  BY <1>1 DEF InventoryOf, BuildInventory
<1>3. Len(s) + Len(u) = Cardinality(ledger)
  <2>1. Len(s) = Cardinality(Recognizable(ledger))
    BY <1>1, AccountsFacts
  <2>2. Len(u) = Cardinality(Unrecognizable(ledger))
    BY <1>1, OthersFacts
  <2>3. Cardinality(Recognizable(ledger)) + Cardinality(Unrecognizable(ledger)) = Cardinality(ledger)
    BY <1>1, LedgerFacts
  <2> QED BY <2>1, <2>2, <2>3
<1>4. ASSUME NEW a \in ledger
      PROVE  \/ a.address \in ToSet(u)
             \/ \E k \in DOMAIN s : s[k].address = a.address /\ s[k].name = a.name
  <2>1. CASE a.name \in SchemaAccounts
    BY <1>1, <2>1, AccountListed
  <2>2. CASE a.name \notin SchemaAccounts
    <3>1. a.address \in Unrecognizable(ledger)
      BY <2>2 DEF Unrecognizable, Decoded
    <3> QED BY <1>1, <3>1, OthersFacts
  <2> QED BY <2>1, <2>2
<1>5. ASSUME NEW a \in ledger, NEW n \in DOMAIN KnownPdaAddresses,
             a.address = KnownPdaAddresses[n], a.name \in SchemaAccounts
      PROVE  BuildKnownPdaInventory(s)[n] = a.name
  <2> DEFINE at == {k \in DOMAIN s : s[k].address = KnownPdaAddresses[n]}
  <2>1. BuildKnownPdaInventory(s)[n] = IF at = {} THEN Null ELSE s[CHOOSE k \in at : TRUE].name
    BY DEF BuildKnownPdaInventory
  <2>2. PICK j \in DOMAIN s : s[j].address = a.address
    BY <1>1, <1>5, AccountListed
  <2>3. j \in at
    BY <1>5, <2>2
  <2>4. ASSUME NEW k \in at PROVE s[k].name = a.name
    <3>1. k \in DOMAIN s /\ s[k].address = a.address
      BY <1>5
    <3>2. PICK b \in ledger : s[k].address = b.address /\ s[k].name = b.name
      BY <1>1, <3>1, AccountAt
    <3>3. b = a
      BY <1>1, <3>1, <3>2 DEF IsLedger
    <3> QED BY <3>2, <3>3
  <2> HIDE DEF at, s
  <2>5. (CHOOSE k \in at : TRUE) \in at
    BY <2>3
  <2> QED BY <2>1, <2>3, <2>4, <2>5
<1>6. DOMAIN BuildKnownPdaInventory(s) = DOMAIN KnownPdaAddresses
  BY DEF BuildKnownPdaInventory
<1> HIDE DEF s, u
<1> QED BY <1>2, <1>3, <1>4, <1>5, <1>6, Zenon DEF NothingIsLost

----------------------------------------------------------------------------
(* The theorems. *)

(* Discovery never works on an account the ledger does not hold, or twice  *)
(* on one: what the loop of discoverChanceryState has put in its two lists *)
(* is at every step the part of the reply it has passed.                   *)
THEOREM DiscoveryTypeOK == Spec => []TypeOK
<1>1. DiscoveryInv => TypeOK
  BY DEF DiscoveryInv
<1> QED BY <1>1, DiscoveryInvariant, PTL

(* Two discoveries of an unchanged ledger agree, whatever the order of the *)
(* two replies: the sorts of discoverChanceryState and its second pass     *)
(* over the nonces leave nothing of getProgramAccounts' order.             *)
THEOREM OrderDoesNotMatter == Spec => []RepeatedDiscoveryAgrees
<1>1. ASSUME DiscoveryInv PROVE RepeatedDiscoveryAgrees
  <2> SUFFICES ASSUME phase \in {"done", "failed"}, previous # Null
               PROVE  previous = [phase |-> phase, inventory |-> inventory]
    BY DEF RepeatedDiscoveryAgrees
  <2>1. previous = OutcomeOf(ledger)
    BY <1>1 DEF DiscoveryInv, ResultInv
  <2>2. CASE phase = "done"
    BY <1>1, <2>1, <2>2 DEF DiscoveryInv, ResultInv, OutcomeOf
  <2>3. CASE phase = "failed"
    <3>1. inventory = Null /\ Bad(ledger)
      BY <1>1, <2>3 DEF DiscoveryInv, ResultInv, TypeOK
    <3> QED BY <2>1, <2>3, <3>1 DEF OutcomeOf
  <2> QED BY <2>2, <2>3
<1> QED BY <1>1, DiscoveryInvariant, PTL

(* A nonce's verdict counts every domain policy of the ledger and nothing  *)
(* else, though deriveRemoteNonceCanonicalPda first runs before the later  *)
(* policies are decoded.                                                   *)
THEOREM NoncesSeeEveryPolicy == Spec => []NonceVerdictsAreComplete
<1>1. DiscoveryInv => NonceVerdictsAreComplete
  BY NonceInv
<1> QED BY <1>1, DiscoveryInvariant, PTL

(* buildPathwayInventory links every pathway with the one policy of each   *)
(* id, never with a policy of another type or id, and an asset lists every *)
(* pathway of its mint.                                                    *)
THEOREM PathwaysAreLinkedExactly == Spec => []LinksAreExact
<1>1. DiscoveryInv => LinksAreExact
  BY LinksInv
<1> QED BY <1>1, DiscoveryInvariant, PTL

(* A discovery throws on exactly the ledgers with a culprit, wherever the  *)
(* reply lists it: the checks of the loop and of indexAccountsByBytes32.   *)
THEOREM ErrorsAreTheLedgers == Spec => []FailsExactlyOnBadLedger
<1>1. DiscoveryInv => FailsExactlyOnBadLedger
  BY DEF DiscoveryInv, ResultInv, FailsExactlyOnBadLedger
<1> QED BY <1>1, DiscoveryInvariant, PTL

(* Every account of the ledger is in the inventory once, and a known       *)
(* address shows the account that lies there (discoverChanceryState,       *)
(* buildKnownPdaInventory).                                                *)
THEOREM InventoryIsComplete == Spec => []NothingIsLost
<1>1. DiscoveryInv => NothingIsLost
  BY LossInv
<1> QED BY <1>1, DiscoveryInvariant, PTL
=============================================================================
