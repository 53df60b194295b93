------------------------ MODULE SettlementQuoteProofs ------------------------
(***************************************************************************)
(* What holds of a quote for every rate, fee policy, transfer fee, epoch   *)
(* and amount: it conserves, pays no more than the rate, no round trip     *)
(* gains, and asking for more never gives less.                            *)
(***************************************************************************)
EXTENDS SettlementQuote, TLAPS

(* Truncating division, as a bound on products. *)
LEMMA DivBounds ==
    ASSUME NEW n \in Nat, NEW d \in Nat \ {0}
    PROVE  /\ n \div d \in Nat
           /\ d * (n \div d) <= n
           /\ n < d * (n \div d) + d
OBVIOUS

(* Products and quotients grow with their arguments. *)
LEMMA MulMono ==
    ASSUME NEW a \in Nat, NEW b \in Nat, NEW c \in Nat, a <= b
    PROVE  a * c <= b * c /\ c * a <= c * b
OBVIOUS

LEMMA MulCancel ==
    ASSUME NEW a \in Nat, NEW b \in Nat, NEW d \in Nat \ {0}, d * a <= d * b
    PROVE  a <= b
OBVIOUS

LEMMA DivMono ==
    ASSUME NEW m \in Nat, NEW n \in Nat, NEW d \in Nat \ {0}, m <= n
    PROVE  m \div d <= n \div d
OBVIOUS

----------------------------------------------------------------------------
(* The parts of a quote. *)

(* The inputs of a quote keep their type. *)
THEOREM TypeCorrect == Spec => []TypeOK
<1>1. Init => TypeOK
  BY DEF Init, TypeOK
<1>2. TypeOK /\ [Next]_vars => TypeOK'
  BY DEF TypeOK, Next, RaiseAmount, NextEpoch, vars
<1> QED BY <1>1, <1>2, PTL DEF Spec

(* The configured rate truncates. *)
LEMMA GrossFacts ==
    ASSUME NEW t \in Terms, NEW action \in Actions, NEW input \in Nat
    PROVE  /\ GrossOutput(t, action, input) \in Nat
           /\ action = "mint" =>
                RatePrecision * GrossOutput(t, action, input) <= input * t.deposit_rate
           /\ action = "redeem" =>
                RatePrecision * GrossOutput(t, action, input) <= input * t.redeem_rate
<1>1. t.deposit_rate \in Nat /\ t.redeem_rate \in Nat
  BY TermsAssumption DEF IsTerms
<1>2. input * t.deposit_rate \in Nat /\ input * t.redeem_rate \in Nat
  BY <1>1
<1> QED BY <1>2, DivBounds, PrecisionAssumption DEF GrossOutput, Actions

LEMMA GrossMono ==
    ASSUME NEW t \in Terms, NEW action \in Actions, NEW m \in Nat, NEW n \in Nat, m <= n
    PROVE  GrossOutput(t, action, m) <= GrossOutput(t, action, n)
<1>1. t.deposit_rate \in Nat /\ t.redeem_rate \in Nat
  BY TermsAssumption DEF IsTerms
<1>2. ASSUME NEW r \in Nat PROVE (m * r) \div RatePrecision <= (n * r) \div RatePrecision
  <2>1. m * r <= n * r /\ m * r \in Nat /\ n * r \in Nat
    BY MulMono
  <2> QED BY <2>1, DivMono, PrecisionAssumption
<1> QED BY <1>1, <1>2 DEF GrossOutput

(* The fee is a natural number, so the net output is between 0 and the gross. *)
LEMMA FeeFacts ==
    ASSUME NEW t \in Terms, NEW gross \in Nat
    PROVE  /\ NetFee(t.fee_policy, gross) \in Nat
           /\ NetOutput(t.fee_policy, gross) \in Nat
           /\ NetOutput(t.fee_policy, gross) <= gross
<1> DEFINE p == t.fee_policy
<1>1. IsFeePolicy(p)
  BY TermsAssumption DEF IsTerms
<1>2. ASSUME NEW n \in Nat, NEW bps \in Nat PROVE (n * bps) \div BasisPoints \in Nat
  BY DivBounds, PrecisionAssumption
<1>3. RoundedBasisPoints(gross, p.percent_fee_bps, p.rounding_mode) \in Nat
  <2>1. (gross * p.percent_fee_bps) \div BasisPoints \in Nat
    BY <1>1, <1>2, PrecisionAssumption DEF IsFeePolicy
  <2>2. p.rounding_mode \in {"floor", "ceiling", "nearest"}
    BY <1>1 DEF IsFeePolicy
  <2> HIDE DEF p
  <2> QED BY <2>1, <2>2 DEF RoundedBasisPoints
<1>4. ASSUME NEW n \in Nat, NEW cap \in Nat PROVE CappedBy(n, cap) \in Nat
  BY DEF CappedBy
<1>5. AssessedFee(p, gross) \in Nat
  BY <1>1, <1>3, <1>4 DEF AssessedFee, IsFeePolicy
<1>6. NominalRebate(p, AssessedFee(p, gross)) \in Nat
  <2>1. /\ p.rebate_bps \in Nat /\ p.rebate_flat_amount \in Nat /\ p.rebate_cap_amount \in Nat
    BY <1>1, PrecisionAssumption DEF IsFeePolicy
  <2>2. (AssessedFee(p, gross) * p.rebate_bps) \div BasisPoints \in Nat
    BY <1>2, <1>5, <2>1
  <2> QED BY <1>4, <2>1, <2>2 DEF NominalRebate
<1>7. NetFee(p, gross) \in Nat
  BY <1>5, <1>6 DEF NetFee
<1> QED BY <1>7 DEF NetOutput

(* A transfer never withholds more than it moves. *)
LEMMA TransferFacts ==
    ASSUME NEW t \in Terms, NEW e \in Nat, NEW n \in Nat
    PROVE  TransferFee(t, e, n) \in Nat /\ TransferFee(t, e, n) <= n
<1> DEFINE fee == ActiveTransferFee(t, e)
<1>1. fee.bps \in 0..BasisPoints /\ fee.maximum \in Nat
  BY TermsAssumption DEF IsTerms, IsTransferFee, ActiveTransferFee
<1>2. n * fee.bps \in Nat /\ n * fee.bps <= n * BasisPoints
  BY <1>1, MulMono, PrecisionAssumption
<1>3. ASSUME NEW m \in Nat, m <= n * BasisPoints
      PROVE  DivideCeiling(m, BasisPoints) \in Nat /\ DivideCeiling(m, BasisPoints) <= n
  <2>1. DEFINE q == (m + BasisPoints - 1) \div BasisPoints
  <2>2. m + BasisPoints - 1 \in Nat
    BY PrecisionAssumption
  <2>3. q \in Nat /\ BasisPoints * q <= m + BasisPoints - 1
    BY <2>2, DivBounds, PrecisionAssumption
  <2>4. q <= n
    <3>1. BasisPoints * q < BasisPoints * (n + 1)
      BY <1>3, <2>3, PrecisionAssumption
    <3>2. q < n + 1
      BY <2>3, <3>1, MulCancel, PrecisionAssumption
    <3> QED BY <2>3, <3>2
  <2> QED BY <2>3, <2>4 DEF DivideCeiling
<1>4. /\ DivideCeiling(n * fee.bps, BasisPoints) \in Nat
      /\ DivideCeiling(n * fee.bps, BasisPoints) <= n
  BY <1>2, <1>3
<1> QED BY <1>1, <1>4 DEF TransferFee

(* What a principal receives is natural and within the configured rate. *)
LEMMA ReceiptFacts ==
    ASSUME NEW t \in Terms, NEW e \in Nat, NEW action \in Actions, NEW n \in Nat
    PROVE  LET q == EffectiveQuote(t, e, action, n) IN
           /\ q.rateInput \in Nat
           /\ q.grossOutput \in Nat
           /\ q.netOutput = NetOutput(t.fee_policy, q.grossOutput)
           /\ q.netFee = NetFee(t.fee_policy, q.grossOutput)
           /\ q.principalReceived \in Nat
           /\ q.configuredGrossOutput = GrossOutput(t, action, n)
           /\ q.principalReceived <= q.configuredGrossOutput
           /\ q.principalReceived + q.allInOutputReduction = q.configuredGrossOutput
<1> DEFINE rateInput == n - (IF action = "mint" THEN TransferFee(t, e, n) ELSE 0)
           gross     == GrossOutput(t, action, rateInput)
           net       == NetOutput(t.fee_policy, gross)
           received  == net - (IF action = "redeem" THEN TransferFee(t, e, net) ELSE 0)
<1>1. rateInput \in Nat /\ rateInput <= n
  <2>1. TransferFee(t, e, n) \in Nat /\ TransferFee(t, e, n) <= n
    BY TransferFacts
  <2> QED BY <2>1
<1>2. gross \in Nat /\ GrossOutput(t, action, n) \in Nat /\ gross <= GrossOutput(t, action, n)
  BY <1>1, GrossFacts, GrossMono
<1>3. net \in Nat /\ net <= gross
  BY <1>2, FeeFacts
<1>4. received \in Nat /\ received <= net
  <2> HIDE DEF net
  <2>1. TransferFee(t, e, net) \in Nat /\ TransferFee(t, e, net) <= net
    BY <1>3, TransferFacts
  <2> QED BY <1>3, <2>1
<1>5. received <= GrossOutput(t, action, n)
  BY <1>2, <1>3, <1>4
<1> DEFINE q == EffectiveQuote(t, e, action, n)
           configured == GrossOutput(t, action, n)
<1>6. /\ q.rateInput = rateInput /\ q.grossOutput = gross /\ q.netOutput = net
      /\ q.netFee = NetFee(t.fee_policy, gross)
  BY DEF EffectiveQuote
<1>7. /\ q.principalReceived = received /\ q.configuredGrossOutput = configured
      /\ q.allInOutputReduction = IF configured > received THEN configured - received ELSE 0
  BY DEF EffectiveQuote
<1> HIDE DEF q, rateInput, gross, net, received, configured
<1>8. received \in Nat /\ configured \in Nat /\ received <= configured
  BY <1>2, <1>4, <1>5 DEF configured
<1>9. q.principalReceived + q.allInOutputReduction = q.configuredGrossOutput
  BY <1>7, <1>8
<1>10. /\ q.rateInput \in Nat /\ q.grossOutput \in Nat /\ q.principalReceived \in Nat
       /\ q.principalReceived <= q.configuredGrossOutput
  BY <1>1, <1>2, <1>6, <1>7, <1>8
<1>11. /\ q.netOutput = NetOutput(t.fee_policy, q.grossOutput)
       /\ q.netFee = NetFee(t.fee_policy, q.grossOutput)
  BY <1>6, Zenon DEF net
<1> QED BY <1>7, <1>9, <1>10, <1>11, Zenon DEF q, configured

LEMMA Received ==
    ASSUME NEW t \in Terms, NEW e \in Nat, NEW action \in Actions, NEW n \in Nat
    PROVE  /\ EffectiveQuote(t, e, action, n).principalReceived \in Nat
           /\ EffectiveQuote(t, e, action, n).principalReceived <= GrossOutput(t, action, n)
<1> DEFINE q == EffectiveQuote(t, e, action, n)
<1>1. /\ q.principalReceived \in Nat
      /\ q.configuredGrossOutput = GrossOutput(t, action, n)
      /\ q.principalReceived <= q.configuredGrossOutput
  BY ReceiptFacts
<1> QED BY <1>1

----------------------------------------------------------------------------
(* Growth.  Fees are made of functions that grow, but never faster than their
   argument: what is left of an amount then grows with it too. *)

(* y is at least x, and at most k more. *)
Follows(x, y, k) == x \in Nat /\ y \in Nat /\ k \in Nat /\ x <= y /\ y <= x + k

LEMMA DivMod ==
    ASSUME NEW n \in Nat, NEW d \in Nat \ {0}
    PROVE  n \div d \in Nat /\ n % d \in 0..(d - 1) /\ n = d * (n \div d) + (n % d)
<1>1. n \div d \in Nat /\ n % d \in 0..(d - 1)
  OBVIOUS
<1>2. n % d = n - d * (n \div d) /\ d * (n \div d) \in Nat
  BY <1>1, SMTT(30)
<1> QED BY <1>1, <1>2

LEMMA QuotientBelow ==
    ASSUME NEW d \in Nat \ {0}, NEW q \in Nat, NEW p \in Nat, NEW r \in 0..(d - 1), NEW s \in 0..(d - 1),
           d * q + r <= d * p + s
    PROVE  q <= p
<1>1. d * (p + 1) = d * p + d /\ d * q \in Nat /\ d * p \in Nat /\ d * (p + 1) \in Nat
  OBVIOUS
<1>2. d * q < d * (p + 1)
  BY <1>1
<1>3. CASE p + 1 <= q
  <2>1. d * (p + 1) <= d * q
    BY <1>3, MulMono
  <2> QED BY <1>1, <1>2, <2>1
<1> QED BY <1>3

LEMMA DivUnique ==
    ASSUME NEW d \in Nat \ {0}, NEW q \in Nat, NEW r \in 0..(d - 1), NEW n, n = d * q + r
    PROVE  n \div d = q /\ n % d = r
<1> DEFINE p == n \div d
           s == n % d
<1>0. n \in Nat
  <2>1. d * q \in Nat
    OBVIOUS
  <2> QED BY <2>1
<1>1. p \in Nat /\ s \in 0..(d - 1) /\ n = d * p + s
  BY <1>0, DivMod
<1> HIDE DEF p, s
<1>2. d * q + r <= d * p + s /\ d * p + s <= d * q + r
  BY <1>0, <1>1
<1>3. q <= p /\ p <= q
  BY <1>1, <1>2, QuotientBelow
<1>4. p = q
  BY <1>1, <1>3
<1>5. s = r
  <2>1. d * q \in Nat /\ n = d * q + s
    BY <1>1, <1>4
  <2> QED BY <1>1, <2>1
<1> QED BY <1>4, <1>5 DEF p, s

(* roundedBasisPoints of a product that is already made. *)
Modes == {"floor", "ceiling", "nearest"}

Bump(r, mode) ==
    CASE mode = "floor"   -> 0
      [] mode = "ceiling" -> (IF r = 0 THEN 0 ELSE 1)
      [] mode = "nearest" -> (IF 2 * r >= BasisPoints THEN 1 ELSE 0)

Rounded(x, mode) == x \div BasisPoints + Bump(x % BasisPoints, mode)

LEMMA BumpFacts ==
    ASSUME NEW mode \in Modes, NEW r \in Nat, NEW s \in Nat
    PROVE  /\ Bump(r, mode) \in 0..1 /\ Bump(s, mode) \in 0..1
           /\ r <= s => Bump(r, mode) <= Bump(s, mode)
<1>1. CASE mode = "floor"
  BY <1>1 DEF Bump
<1>2. CASE mode = "ceiling"
  BY <1>2 DEF Bump
<1>3. CASE mode = "nearest"
  BY <1>3, PrecisionAssumption DEF Bump
<1> QED BY <1>1, <1>2, <1>3 DEF Modes

LEMMA RoundedGrows ==
    ASSUME NEW mode \in Modes, NEW x \in Nat, NEW y \in Nat, x <= y
    PROVE  /\ Rounded(x, mode) \in Nat /\ Rounded(y, mode) \in Nat
           /\ Rounded(x, mode) <= Rounded(y, mode)
<1> DEFINE d == BasisPoints
           p == x \div d
           q == y \div d
           r == x % d
           s == y % d
<1>1. d \in Nat \ {0}
  BY PrecisionAssumption
<1>2. p \in Nat /\ r \in 0..(d - 1) /\ x = d * p + r
  BY <1>1, DivMod
<1>3. q \in Nat /\ s \in 0..(d - 1) /\ y = d * q + s
  BY <1>1, DivMod
<1>4. Rounded(x, mode) = p + Bump(r, mode) /\ Rounded(y, mode) = q + Bump(s, mode)
  BY DEF Rounded
<1> HIDE DEF d, p, q, r, s
<1>5. p <= q
  BY <1>1, <1>2, <1>3, QuotientBelow
<1>6. r \in Nat /\ s \in Nat
  BY <1>1, <1>2, <1>3
<1>7. Bump(r, mode) \in 0..1 /\ Bump(s, mode) \in 0..1 /\ (r <= s => Bump(r, mode) <= Bump(s, mode))
  BY <1>6, BumpFacts
<1>8. CASE p = q
  <2>1. d * p \in Nat /\ d * p + r <= d * p + s
    BY <1>1, <1>2, <1>3, <1>8
  <2>2. r <= s
    BY <1>6, <2>1
  <2> QED BY <1>2, <1>3, <1>4, <1>7, <1>8, <2>2
<1>9. CASE p + 1 <= q
  BY <1>2, <1>3, <1>4, <1>7, <1>9
<1> QED BY <1>2, <1>3, <1>5, <1>8, <1>9

LEMMA RoundedShift ==
    ASSUME NEW mode \in Modes, NEW x \in Nat, NEW k \in Nat
    PROVE  Rounded(x + k * BasisPoints, mode) = Rounded(x, mode) + k
<1> DEFINE d == BasisPoints
           p == x \div d
           r == x % d
           b == Bump(r, mode)
           y == x + k * d
<1>1. d \in Nat \ {0}
  BY PrecisionAssumption
<1>2. p \in Nat /\ r \in 0..(d - 1) /\ x = d * p + r
  BY <1>1, DivMod
<1>3. Rounded(x, mode) = p + b /\ Rounded(y, mode) = y \div d + Bump(y % d, mode)
  BY DEF Rounded
<1> HIDE DEF d, p, r
<1>4. y = d * (p + k) + r /\ p + k \in Nat
  <2>1. d * (p + k) = d * p + k * d /\ d * p \in Nat /\ k * d \in Nat
    BY <1>1, <1>2
  <2> QED BY <1>1, <1>2, <2>1
<1> HIDE DEF y
<1>5. y \div d = p + k /\ y % d = r
  <2> DEFINE q == p + k
  <2>1. q \in Nat /\ y = d * q + r
    BY <1>4
  <2> HIDE DEF q
  <2>2. y \div d = q /\ y % d = r
    BY <1>1, <1>2, <2>1, DivUnique
  <2> QED BY <2>2 DEF q
<1>6. Rounded(y, mode) = (p + k) + b
  BY <1>3, <1>5, Zenon
<1>7. r \in Nat
  BY <1>1, <1>2
<1>8. b \in 0..1
  BY <1>7, BumpFacts
<1> HIDE DEF b
<1>9. Rounded(y, mode) = Rounded(x, mode) + k
  BY <1>2, <1>3, <1>6, <1>8
<1> QED BY <1>9 DEF y, d

LEMMA RoundedFollows ==
    ASSUME NEW mode \in Modes, NEW x \in Nat, NEW y \in Nat, NEW k \in Nat, x <= y, y <= x + k * BasisPoints
    PROVE  Follows(Rounded(x, mode), Rounded(y, mode), k)
<1> DEFINE z == x + k * BasisPoints
<1>1. z \in Nat
  <2>1. k * BasisPoints \in Nat
    BY PrecisionAssumption
  <2> QED BY <2>1
<1>2. Rounded(z, mode) = Rounded(x, mode) + k
  BY RoundedShift
<1>3. y <= z
  OBVIOUS
<1> HIDE DEF z
<1>4. Rounded(x, mode) \in Nat /\ Rounded(y, mode) \in Nat /\ Rounded(x, mode) <= Rounded(y, mode)
  BY RoundedGrows
<1>5. Rounded(y, mode) <= Rounded(z, mode)
  BY <1>1, <1>3, RoundedGrows
<1> QED BY <1>2, <1>4, <1>5 DEF Follows

(* A share of at most the whole. *)
LEMMA ShareFollows ==
    ASSUME NEW m, NEW n, NEW k, Follows(m, n, k), NEW bps \in 0..BasisPoints
    PROVE  m * bps \in Nat /\ n * bps \in Nat /\ m * bps <= n * bps /\ n * bps <= m * bps + k * BasisPoints
<1>1. m \in Nat /\ n \in Nat /\ k \in Nat /\ m <= n /\ n <= m + k /\ bps \in Nat /\ bps <= BasisPoints
  BY PrecisionAssumption DEF Follows
<1>2. BasisPoints \in Nat /\ m + k \in Nat
  BY <1>1, PrecisionAssumption
<1>3. m * bps \in Nat /\ n * bps \in Nat /\ k * bps \in Nat /\ k * BasisPoints \in Nat
  BY <1>1, <1>2
<1>4. m * bps <= n * bps /\ n * bps <= (m + k) * bps
  BY <1>1, <1>2, MulMono
<1>5. (m + k) * bps = m * bps + k * bps
  BY <1>1
<1>6. k * bps <= k * BasisPoints
  BY <1>1, <1>2, MulMono
<1> QED BY <1>3, <1>4, <1>5, <1>6

LEMMA PercentFollows ==
    ASSUME NEW m, NEW n, NEW k, Follows(m, n, k), NEW bps \in 0..BasisPoints, NEW mode \in Modes
    PROVE  Follows(RoundedBasisPoints(m, bps, mode), RoundedBasisPoints(n, bps, mode), k)
<1>1. \A i : RoundedBasisPoints(i, bps, mode) = Rounded(i * bps, mode)
  BY Zenon DEF RoundedBasisPoints, Rounded, Bump
<1>2. m * bps \in Nat /\ n * bps \in Nat /\ m * bps <= n * bps /\ n * bps <= m * bps + k * BasisPoints
  BY ShareFollows
<1>3. k \in Nat
  BY DEF Follows
<1>4. Follows(Rounded(m * bps, mode), Rounded(n * bps, mode), k)
  BY <1>2, <1>3, RoundedFollows
<1>5. /\ RoundedBasisPoints(m, bps, mode) = Rounded(m * bps, mode)
      /\ RoundedBasisPoints(n, bps, mode) = Rounded(n * bps, mode)
  BY <1>1
<1> QED BY <1>4, <1>5

LEMMA CapFollows ==
    ASSUME NEW m, NEW n, NEW k, Follows(m, n, k), NEW cap \in Nat
    PROVE  Follows(CappedBy(m, cap), CappedBy(n, cap), k)
BY DEF Follows, CappedBy

LEMMA ConstantFollows ==
    ASSUME NEW k \in Nat, NEW c \in Nat
    PROVE  Follows(c, c, k)
BY DEF Follows

(* m less x, floored at zero. *)
Rest(m, x) == IF x > m THEN 0 ELSE m - x

LEMMA RestFollows ==
    ASSUME NEW m \in Nat, NEW n \in Nat, m <= n, NEW x, NEW y, Follows(x, y, n - m)
    PROVE  Follows(Rest(m, x), Rest(n, y), n - m)
BY DEF Follows, Rest

LEMMA AssessedFollows ==
    ASSUME NEW p, IsFeePolicy(p), NEW m, NEW n, NEW k, Follows(m, n, k)
    PROVE  Follows(AssessedFee(p, m), AssessedFee(p, n), k)
<1> DEFINE raw(i) == IF p.flat_fee # 0 THEN p.flat_fee
                     ELSE IF p.percent_fee_bps = 0 THEN 0
                     ELSE RoundedBasisPoints(i, p.percent_fee_bps, p.rounding_mode)
           capped(i) == CappedBy(raw(i), p.fee_cap_amount)
<1>1. /\ p.flat_fee \in Nat /\ p.percent_fee_bps \in 0..BasisPoints /\ p.rounding_mode \in Modes
      /\ p.fee_cap_amount \in Nat /\ p.minimum_fee_amount \in Nat /\ k \in Nat
  BY DEF IsFeePolicy, Modes, Follows
<1>2. Follows(raw(m), raw(n), k)
  <2>1. CASE p.flat_fee # 0
    BY <1>1, <2>1, ConstantFollows
  <2>2. CASE p.flat_fee = 0 /\ p.percent_fee_bps = 0
    BY <1>1, <2>2, ConstantFollows
  <2>3. CASE p.flat_fee = 0 /\ p.percent_fee_bps # 0
    <3>1. Follows(RoundedBasisPoints(m, p.percent_fee_bps, p.rounding_mode),
                  RoundedBasisPoints(n, p.percent_fee_bps, p.rounding_mode), k)
      BY <1>1, PercentFollows
    <3> QED BY <2>3, <3>1
  <2> QED BY <2>1, <2>2, <2>3
<1> HIDE DEF raw
<1>3. Follows(capped(m), capped(n), k)
  BY <1>1, <1>2, CapFollows
<1>4. \A i : AssessedFee(p, i) = IF capped(i) >= p.minimum_fee_amount THEN capped(i) ELSE p.minimum_fee_amount
  BY Zenon DEF AssessedFee, raw
<1> HIDE DEF capped
<1>5. ASSUME NEW a, NEW b, Follows(a, b, k), NEW c \in Nat
      PROVE  Follows(IF a >= c THEN a ELSE c, IF b >= c THEN b ELSE c, k)
  BY <1>5 DEF Follows
<1> DEFINE raised(i) == IF capped(i) >= p.minimum_fee_amount THEN capped(i) ELSE p.minimum_fee_amount
<1>6. Follows(raised(m), raised(n), k)
  BY <1>1, <1>3, <1>5
<1>7. AssessedFee(p, m) = raised(m) /\ AssessedFee(p, n) = raised(n)
  BY <1>4, Zenon
<1> HIDE DEF raised
<1> QED BY <1>6, <1>7

LEMMA RebateFollows ==
    ASSUME NEW p, IsFeePolicy(p), NEW m, NEW n, NEW k, Follows(m, n, k)
    PROVE  Follows(NominalRebate(p, m), NominalRebate(p, n), k)
<1> DEFINE raw(i) == IF p.rebate_flat_amount # 0 THEN p.rebate_flat_amount
                     ELSE (i * p.rebate_bps) \div BasisPoints
<1>1. /\ p.rebate_flat_amount \in Nat /\ p.rebate_bps \in 0..BasisPoints
      /\ p.rebate_cap_amount \in Nat /\ k \in Nat
  BY DEF IsFeePolicy, Follows
<1>2. Follows((m * p.rebate_bps) \div BasisPoints, (n * p.rebate_bps) \div BasisPoints, k)
  <2> DEFINE x == m * p.rebate_bps
             y == n * p.rebate_bps
  <2>1. x \in Nat /\ y \in Nat /\ x <= y /\ y <= x + k * BasisPoints
    BY <1>1, ShareFollows
  <2> HIDE DEF x, y
  <2>2. Follows(Rounded(x, "floor"), Rounded(y, "floor"), k)
    BY <1>1, <2>1, RoundedFollows DEF Modes
  <2>3. ASSUME NEW z \in Nat PROVE Rounded(z, "floor") = z \div BasisPoints
    BY DivMod, PrecisionAssumption DEF Rounded, Bump
  <2>4. Rounded(x, "floor") = x \div BasisPoints /\ Rounded(y, "floor") = y \div BasisPoints
    BY <2>1, <2>3
  <2> QED BY <2>2, <2>4, Zenon DEF x, y
<1>3. Follows(raw(m), raw(n), k)
  BY <1>1, <1>2, ConstantFollows
<1>4. \A i : NominalRebate(p, i) = CappedBy(raw(i), p.rebate_cap_amount)
  BY Zenon DEF NominalRebate
<1> HIDE DEF raw
<1>5. Follows(CappedBy(raw(m), p.rebate_cap_amount), CappedBy(raw(n), p.rebate_cap_amount), k)
  BY <1>1, <1>3, CapFollows
<1>6. /\ NominalRebate(p, m) = CappedBy(raw(m), p.rebate_cap_amount)
      /\ NominalRebate(p, n) = CappedBy(raw(n), p.rebate_cap_amount)
  BY <1>4, Zenon
<1> QED BY <1>5, <1>6

(* The net fee grows with the gross output, and no faster; what is left grows. *)
LEMMA NetGrows ==
    ASSUME NEW p, IsFeePolicy(p), NEW m \in Nat, NEW n \in Nat, m <= n
    PROVE  NetOutput(p, m) \in Nat /\ NetOutput(p, n) \in Nat /\ NetOutput(p, m) <= NetOutput(p, n)
<1> DEFINE a(i) == AssessedFee(p, i)
           r(i) == NominalRebate(p, a(i))
           f(i) == NetFee(p, i)
           k == n - m
<1>0. k \in Nat /\ Follows(m, n, k)
  BY DEF Follows
<1> HIDE DEF k
<1>1. Follows(a(m), a(n), k)
  BY <1>0, AssessedFollows
<1>2. ASSUME NEW i \in {m, n} PROVE f(i) = IF ~p.present THEN 0 ELSE Rest(a(i), r(i))
  BY DEF NetFee, Rest
<1>3. ASSUME NEW i \in {m, n} PROVE NetOutput(p, i) = IF i >= f(i) THEN i - f(i) ELSE 0
  BY DEF NetOutput
<1>4. a(m) \in Nat /\ a(n) \in Nat /\ a(m) <= a(n) /\ a(n) - a(m) <= k
  <2> HIDE DEF a
  <2> QED BY <1>0, <1>1 DEF Follows
<1>5. Follows(r(m), r(n), a(n) - a(m))
  <2> HIDE DEF a
  <2>1. Follows(a(m), a(n), a(n) - a(m))
    BY <1>4 DEF Follows
  <2> QED BY <2>1, RebateFollows
<1> HIDE DEF a, r, f
<1>6. Follows(f(m), f(n), k)
  <2>1. CASE p.present
    <3> DEFINE x == Rest(a(m), r(m))
               y == Rest(a(n), r(n))
    <3>1. Follows(x, y, a(n) - a(m))
      BY <1>4, <1>5, RestFollows
    <3>2. f(m) = x /\ f(n) = y
      BY <1>2, <2>1
    <3> HIDE DEF x, y
    <3> QED BY <1>0, <1>4, <3>1, <3>2 DEF Follows
  <2>2. CASE ~p.present
    <3>1. f(m) = 0 /\ f(n) = 0
      BY <1>2, <2>2
    <3> QED BY <1>0, <3>1 DEF Follows
  <2> QED BY <2>1, <2>2
<1>7. Follows(Rest(m, f(m)), Rest(n, f(n)), k)
  BY <1>6, RestFollows DEF k
<1>8. f(m) \in Nat /\ f(n) \in Nat
  BY <1>6 DEF Follows
<1>9. NetOutput(p, m) = Rest(m, f(m)) /\ NetOutput(p, n) = Rest(n, f(n))
  BY <1>3, <1>8 DEF Rest
<1> QED BY <1>7, <1>9 DEF Follows

LEMMA TransferFollows ==
    ASSUME NEW t \in Terms, NEW e, NEW m, NEW n, NEW k, Follows(m, n, k)
    PROVE  Follows(TransferFee(t, e, m), TransferFee(t, e, n), k)
<1> DEFINE fee == ActiveTransferFee(t, e)
           d == BasisPoints
           up(i) == DivideCeiling(i * fee.bps, d)
<1>1. fee.bps \in 0..d /\ fee.maximum \in Nat /\ k \in Nat /\ d \in Nat \ {0}
  BY TermsAssumption, PrecisionAssumption DEF IsTerms, IsTransferFee, ActiveTransferFee, Follows
<1>2. Follows(up(m), up(n), k)
  <2> DEFINE x == m * fee.bps
             y == n * fee.bps
  <2>1. x \in Nat /\ y \in Nat /\ x <= y /\ y <= x + k * d
    <3> HIDE DEF fee
    <3> QED BY <1>1, ShareFollows
  <2> HIDE DEF x, y
  <2>2. Follows(Rounded(x, "ceiling"), Rounded(y, "ceiling"), k)
    BY <1>1, <2>1, RoundedFollows DEF Modes
  <2>3. ASSUME NEW z \in Nat PROVE Rounded(z, "ceiling") = DivideCeiling(z, d)
    <3> DEFINE q == z \div d
               r == z % d
               w == z + d - 1
    <3>1. q \in Nat /\ r \in 0..(d - 1) /\ z = d * q + r
      BY <1>1, DivMod
    <3>2. Rounded(z, "ceiling") = q + (IF r = 0 THEN 0 ELSE 1)
      BY DEF Rounded, Bump
    <3>3. DivideCeiling(z, d) = IF z = 0 THEN 0 ELSE w \div d
      BY DEF DivideCeiling
    <3> HIDE DEF q, r, d
    <3>4. CASE r = 0
      <4>1. w = d * q + (d - 1) /\ d - 1 \in 0..(d - 1)
        <5>1. d * q \in Nat
          BY <1>1, <3>1
        <5> QED BY <1>1, <3>1, <3>4, <5>1
      <4> HIDE DEF w
      <4>2. w \div d = q
        BY <1>1, <3>1, <4>1, DivUnique
      <4>3. z = 0 => q = 0
        <5>1. CASE q # 0
          <6>1. 1 <= q /\ d * 1 <= d * q
            BY <1>1, <3>1, <5>1, MulMono
          <6> QED BY <1>1, <3>1, <3>4, <6>1
        <5> QED BY <5>1
      <4> QED BY <3>1, <3>2, <3>3, <3>4, <4>2, <4>3
    <3>5. CASE r # 0
      <4>1. w = d * (q + 1) + (r - 1) /\ r - 1 \in 0..(d - 1) /\ q + 1 \in Nat /\ z # 0
        <5>1. d * q \in Nat /\ d * (q + 1) = d * q + d
          BY <1>1, <3>1
        <5> QED BY <1>1, <3>1, <3>5, <5>1
      <4> HIDE DEF w
      <4>2. w \div d = q + 1
        BY <1>1, <4>1, DivUnique
      <4> QED BY <3>1, <3>2, <3>3, <3>5, <4>1, <4>2
    <3> QED BY <3>4, <3>5
  <2>4. Rounded(x, "ceiling") = DivideCeiling(x, d) /\ Rounded(y, "ceiling") = DivideCeiling(y, d)
    BY <2>1, <2>3
  <2> QED BY <2>2, <2>4, Zenon DEF x, y
<1>3. \A i : TransferFee(t, e, i) = IF up(i) <= fee.maximum THEN up(i) ELSE fee.maximum
  BY Zenon DEF TransferFee
<1> HIDE DEF up, fee
<1>4. Follows(IF up(m) <= fee.maximum THEN up(m) ELSE fee.maximum,
              IF up(n) <= fee.maximum THEN up(n) ELSE fee.maximum, k)
  BY <1>1, <1>2 DEF Follows
<1>5. /\ TransferFee(t, e, m) = IF up(m) <= fee.maximum THEN up(m) ELSE fee.maximum
      /\ TransferFee(t, e, n) = IF up(n) <= fee.maximum THEN up(n) ELSE fee.maximum
  BY <1>3, Zenon
<1> QED BY <1>4, <1>5

(* What is left after a transfer. *)
LEMMA TransferredGrows ==
    ASSUME NEW t \in Terms, NEW e \in Nat, NEW m \in Nat, NEW n \in Nat, m <= n
    PROVE  m - TransferFee(t, e, m) <= n - TransferFee(t, e, n)
<1> DEFINE x == TransferFee(t, e, m)
           y == TransferFee(t, e, n)
<1>1. Follows(m, n, n - m)
  BY DEF Follows
<1>2. Follows(x, y, n - m)
  BY <1>1, TransferFollows
<1> HIDE DEF x, y
<1>3. m - x <= n - y
  BY <1>2 DEF Follows
<1> QED BY <1>3 DEF x, y

LEMMA ReceiptGrows ==
    ASSUME NEW t \in Terms, NEW e \in Nat, NEW action \in Actions, NEW m \in Nat, NEW n \in Nat, m <= n
    PROVE  EffectiveQuote(t, e, action, m).principalReceived <= EffectiveQuote(t, e, action, n).principalReceived
<1> DEFINE in(i)    == i - (IF action = "mint" THEN TransferFee(t, e, i) ELSE 0)
           gross(i) == GrossOutput(t, action, in(i))
           net(i)   == NetOutput(t.fee_policy, gross(i))
           got(i)   == net(i) - (IF action = "redeem" THEN TransferFee(t, e, net(i)) ELSE 0)
<1>1. ASSUME NEW i PROVE EffectiveQuote(t, e, action, i).principalReceived = got(i)
  BY DEF EffectiveQuote
<1>2. in(m) \in Nat /\ in(n) \in Nat /\ in(m) <= in(n)
  <2>1. /\ TransferFee(t, e, m) \in Nat /\ TransferFee(t, e, m) <= m
        /\ TransferFee(t, e, n) \in Nat /\ TransferFee(t, e, n) <= n
    BY TransferFacts
  <2>2. m - TransferFee(t, e, m) <= n - TransferFee(t, e, n)
    BY TransferredGrows
  <2> QED BY <2>1, <2>2
<1> HIDE DEF in
<1>3. gross(m) \in Nat /\ gross(n) \in Nat /\ gross(m) <= gross(n)
  BY <1>2, GrossFacts, GrossMono
<1> HIDE DEF gross
<1>4. net(m) \in Nat /\ net(n) \in Nat /\ net(m) <= net(n)
  <2>1. IsFeePolicy(t.fee_policy)
    BY TermsAssumption DEF IsTerms
  <2> QED BY <1>3, <2>1, NetGrows
<1> HIDE DEF net
<1>5. got(m) <= got(n)
  <2>1. net(m) - TransferFee(t, e, net(m)) <= net(n) - TransferFee(t, e, net(n))
    BY <1>4, TransferredGrows
  <2> QED BY <1>4, <2>1
<1> HIDE DEF got
<1>6. EffectiveQuote(t, e, action, m).principalReceived = got(m)
  BY <1>1
<1>7. EffectiveQuote(t, e, action, n).principalReceived = got(n)
  BY <1>1
<1> QED BY <1>5, <1>6, <1>7, Zenon

----------------------------------------------------------------------------
(* Results. *)

(* Fee and net output add up to the gross output in a quote that is not blocked,
   and a redeem takes no more out of the reserve. *)
THEOREM Conserves == Spec => []QuoteConserves
<1>1. ASSUME TypeOK PROVE QuoteConserves
  <2>1. SUFFICES ASSUME NEW action \in Actions,
                        terms.fee_policy.present, ~Quote(action).blocked
                 PROVE  /\ Quote(action).netOutput + Quote(action).netFee
                              = Quote(action).grossOutput
                        /\ Quote(action).reserveOutflow <= Quote(action).grossOutput
    BY DEF QuoteConserves
  <2> DEFINE gross == Quote(action).grossOutput
             p     == terms.fee_policy
  <2>2. /\ gross \in Nat
        /\ Quote(action).netOutput = NetOutput(p, gross)
        /\ Quote(action).netFee = NetFee(p, gross)
    BY <1>1, ReceiptFacts DEF TypeOK, Quote
  <2>3. /\ FeeObservations(p, gross) = {}
        /\ Quote(action).reserveOutflow
              = NetOutput(p, gross) + (IF Routed(p, gross) THEN NetFee(p, gross) ELSE 0)
    BY <2>1 DEF Quote, EffectiveQuote
  <2> HIDE DEF gross
  <2>4. NetOutput(p, gross) # 0
    BY <2>1, <2>3 DEF FeeObservations
  <2>5. NetFee(p, gross) \in Nat
    BY <1>1, <2>2, FeeFacts DEF TypeOK
  <2>6. NetOutput(p, gross) + NetFee(p, gross) = gross
    BY <2>2, <2>4, <2>5 DEF NetOutput
  <2>7. NetOutput(p, gross) \in Nat
    BY <1>1, <2>2, FeeFacts DEF TypeOK
  <2> HIDE DEF p
  <2>8. Quote(action).reserveOutflow <= gross
    BY <2>2, <2>3, <2>5, <2>6, <2>7
  <2> QED BY <2>2, <2>6, <2>8 DEF gross
<1> QED BY <1>1, TypeCorrect, PTL

(* No quote pays more than the configured rate, and none withholds more than it
   moves. *)
THEOREM WithinRate == Spec => []ReceiptWithinRate
<1>1. ASSUME TypeOK PROVE ReceiptWithinRate
  <2>1. SUFFICES ASSUME NEW action \in Actions
                 PROVE  /\ 0 <= Quote(action).rateInput /\ 0 <= Quote(action).principalReceived
                        /\ Quote(action).principalReceived + Quote(action).allInOutputReduction
                              = Quote(action).configuredGrossOutput
    BY DEF ReceiptWithinRate
  <2> QED BY <1>1, ReceiptFacts DEF TypeOK, Quote
<1> QED BY <1>1, TypeCorrect, PTL

(* Two truncated rates d/P and q/P whose product is at most 1, applied to n one
   after the other, give at most n. *)
LEMMA RoundTrip ==
    ASSUME NEW P \in Nat \ {0}, NEW n \in Nat, NEW d \in Nat, NEW q \in Nat,
           NEW m \in Nat, NEW r \in Nat,
           P * m <= n * d, P * r <= m * q, d * q <= P * P
    PROVE  r <= n
<1>1. P * (P * r) <= P * (m * q)
  BY MulMono
<1>2. P * (m * q) = (P * m) * q /\ (P * m) * q <= (n * d) * q
  BY MulMono
<1>3. (n * d) * q = n * (d * q) /\ n * (d * q) <= n * (P * P)
  BY MulMono
<1>4. P * (P * r) <= P * (P * n)
  BY <1>1, <1>2, <1>3
<1>5. P * r <= P * n
  BY <1>4, MulCancel
<1> QED BY <1>5, MulCancel

(* Minting and redeeming what was received never yields more than was put in. *)
THEOREM RoundTripGainsNothing == Spec => []NoFreeRoundTrip
<1>1. ASSUME TypeOK PROVE NoFreeRoundTrip
  <2> DEFINE minted   == Quote("mint").principalReceived
             redeemed == EffectiveQuote(terms, epoch, "redeem", minted).principalReceived
  <2>1. SUFFICES ASSUME terms.deposit_rate * terms.redeem_rate <= RatePrecision * RatePrecision
                 PROVE  redeemed <= amount
    BY DEF NoFreeRoundTrip
  <2>2. /\ terms \in Terms /\ epoch \in Nat /\ amount \in Nat
        /\ terms.deposit_rate \in Nat /\ terms.redeem_rate \in Nat
        /\ "mint" \in Actions /\ "redeem" \in Actions
    BY <1>1, TermsAssumption DEF TypeOK, IsTerms, Actions
  <2>3. minted \in Nat /\ minted <= GrossOutput(terms, "mint", amount)
    BY <2>2, Received DEF Quote
  <2> HIDE DEF minted
  <2>4. redeemed \in Nat /\ redeemed <= GrossOutput(terms, "redeem", minted)
    BY <2>2, <2>3, Received
  <2> HIDE DEF redeemed
  <2>5. RatePrecision * minted <= amount * terms.deposit_rate
    <3>1. /\ GrossOutput(terms, "mint", amount) \in Nat
          /\ RatePrecision * GrossOutput(terms, "mint", amount) <= amount * terms.deposit_rate
      BY <2>2, GrossFacts
    <3>2. RatePrecision * minted <= RatePrecision * GrossOutput(terms, "mint", amount)
      BY <2>3, <3>1, MulMono, PrecisionAssumption
    <3> QED BY <2>2, <2>3, <3>1, <3>2, PrecisionAssumption
  <2>6. RatePrecision * redeemed <= minted * terms.redeem_rate
    <3>1. /\ GrossOutput(terms, "redeem", minted) \in Nat
          /\ RatePrecision * GrossOutput(terms, "redeem", minted) <= minted * terms.redeem_rate
      BY <2>2, <2>3, GrossFacts
    <3>2. RatePrecision * redeemed <= RatePrecision * GrossOutput(terms, "redeem", minted)
      BY <2>4, <3>1, MulMono, PrecisionAssumption
    <3> QED BY <2>2, <2>3, <2>4, <3>1, <3>2, PrecisionAssumption
  <2> QED BY <2>1, <2>2, <2>3, <2>4, <2>5, <2>6, RoundTrip, PrecisionAssumption
<1> QED BY <1>1, TypeCorrect, PTL

(* Asking for more never gives less, in either direction and for every rate,
   fee policy and transfer fee. *)
THEOREM ReceiptIsMonotone == Spec => MonotoneInAmount
<1> DEFINE Grows == epoch' = epoch =>
             \A action \in Actions : Quote(action)'.principalReceived >= Quote(action).principalReceived
<1>1. ASSUME TypeOK, [Next]_vars PROVE [Grows]_vars
  <2>1. SUFFICES ASSUME Next, epoch' = epoch, NEW action \in Actions
                 PROVE  Quote(action)'.principalReceived >= Quote(action).principalReceived
    BY <1>1
  <2>2. terms \in Terms /\ amount \in Nat /\ epoch \in Nat
    BY <1>1 DEF TypeOK
  <2>3. terms' = terms /\ amount' = amount + 1
    BY <2>1, <2>2 DEF Next, RaiseAmount, NextEpoch
  <2> DEFINE x == EffectiveQuote(terms, epoch, action, amount).principalReceived
             y == EffectiveQuote(terms, epoch, action, amount + 1).principalReceived
  <2>4. Quote(action).principalReceived = x /\ Quote(action)'.principalReceived = y
    BY <2>1, <2>3, Zenon DEF Quote
  <2>5. amount + 1 \in Nat /\ amount <= amount + 1
    BY <2>2
  <2>6. x <= y
    BY <2>2, <2>5, ReceiptGrows
  <2>7. x \in Nat /\ y \in Nat
    BY <2>2, <2>5, Received
  <2> HIDE DEF x, y
  <2> QED BY <2>4, <2>6, <2>7
<1> QED BY <1>1, TypeCorrect, PTL DEF Spec, MonotoneInAmount
=============================================================================
