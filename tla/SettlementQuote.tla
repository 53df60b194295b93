--------------------------- MODULE SettlementQuote ---------------------------
(***************************************************************************)
(* The amounts a client predicts for a settlement: the configured rate,    *)
(* the Chancery fee with its rounding, cap, minimum and rebate, and the    *)
(* transfer fee a Token-2022 asset withholds on the way in (mint) or out   *)
(* (redeem).  All arithmetic is on non-negative integers of any size       *)
(* (bigint / int), every division truncates.                               *)
(*                                                                         *)
(* The state is one caller asking for quotes: the terms stay, the amount   *)
(* grows and epochs pass.                                                  *)
(***************************************************************************)
EXTENDS Integers

CONSTANTS
    RatePrecision,      \* RATE_PRECISION_E9 (10^9)
    BasisPoints,        \* 10_000
    Terms,              \* what a quote depends on: see IsTerms
    MaxAmount,          \* bound on the requested amount
    MaxEpoch            \* bound on the epoch

(* A fee policy record, the account's fields in the action's denomination. *)
IsFeePolicy(p) ==
    /\ p.flat_fee \in Nat /\ p.percent_fee_bps \in 0..BasisPoints
    /\ p.rounding_mode \in {"floor", "ceiling", "nearest"}
    /\ p.fee_cap_amount \in Nat /\ p.minimum_fee_amount \in Nat
    /\ p.rebate_flat_amount \in Nat /\ p.rebate_bps \in 0..BasisPoints
    /\ p.rebate_cap_amount \in Nat /\ p.net_fee_floor_zero \in BOOLEAN
    /\ p.recipient_routed \in BOOLEAN
    /\ p.present \in BOOLEAN /\ p.applicable \in BOOLEAN

IsTransferFee(f) == f.bps \in 0..BasisPoints /\ f.maximum \in Nat

(* older / newer: the two fees of a TransferFeeConfig, newer from its epoch on.
   A mint without the extension has both at 0. *)
IsTerms(t) ==
    /\ t.deposit_rate \in Nat /\ t.redeem_rate \in Nat
    /\ IsFeePolicy(t.fee_policy)
    /\ IsTransferFee(t.older) /\ IsTransferFee(t.newer) /\ t.newer_epoch \in Nat

ASSUME PrecisionAssumption == RatePrecision \in Nat \ {0} /\ BasisPoints \in Nat \ {0}
ASSUME TermsAssumption == \A t \in Terms : IsTerms(t)

VARIABLES terms, amount, epoch

vars == <<terms, amount, epoch>>

----------------------------------------------------------------------------
(* A plausible bug: the rate is rounded in the principal's favour. *)
GrossOutputUp(t, action, input) ==
    (input * (IF action = "mint" THEN t.deposit_rate ELSE t.redeem_rate)
        + RatePrecision - 1) \div RatePrecision

(* computeSettlementGrossOutput *)
GrossOutput(t, action, input) ==
    (input * (IF action = "mint" THEN t.deposit_rate ELSE t.redeem_rate)) \div RatePrecision

(* roundedBasisPoints *)
RoundedBasisPoints(n, bps, mode) ==
    LET product   == n * bps
        quotient  == product \div BasisPoints
        remainder == product % BasisPoints
    IN  quotient + (CASE mode = "floor"   -> 0
                      [] mode = "ceiling" -> (IF remainder = 0 THEN 0 ELSE 1)
                      [] mode = "nearest" -> (IF 2 * remainder >= BasisPoints THEN 1 ELSE 0))

CappedBy(n, cap) == IF cap = 0 \/ n <= cap THEN n ELSE cap

(* A plausible bug: a fee of zero is not raised to the minimum. *)
AssessedFeeZeroExempt(p, gross) ==
    LET raw == IF p.flat_fee # 0 THEN p.flat_fee
               ELSE RoundedBasisPoints(gross, p.percent_fee_bps, p.rounding_mode)
        capped == CappedBy(raw, p.fee_cap_amount)
    IN  IF capped = 0 \/ capped >= p.minimum_fee_amount THEN capped
        ELSE p.minimum_fee_amount

AssessedFee(p, gross) ==
    LET raw == IF p.flat_fee # 0 THEN p.flat_fee
               ELSE IF p.percent_fee_bps = 0 THEN 0
               ELSE RoundedBasisPoints(gross, p.percent_fee_bps, p.rounding_mode)
        capped == CappedBy(raw, p.fee_cap_amount)
    IN  IF capped >= p.minimum_fee_amount THEN capped ELSE p.minimum_fee_amount

NominalRebate(p, assessed) ==
    CappedBy(IF p.rebate_flat_amount # 0 THEN p.rebate_flat_amount
             ELSE (assessed * p.rebate_bps) \div BasisPoints,
             p.rebate_cap_amount)

NetFee(p, gross) ==
    LET assessed == AssessedFee(p, gross)
        rebate   == NominalRebate(p, assessed)
    IN  IF ~p.present \/ rebate > assessed THEN 0 ELSE assessed - rebate

NetOutput(p, gross) ==
    IF gross >= NetFee(p, gross) THEN gross - NetFee(p, gross) ELSE 0

(* A plausible bug: a net output of zero is not reported. *)
FeeObservationsWithoutZero(p, gross) ==
    {o \in {"notApplicable", "rebateExceedsFee"} :
        /\ p.present
        /\ o = "notApplicable" => ~p.applicable
        /\ o = "rebateExceedsFee" =>
             /\ ~p.net_fee_floor_zero
             /\ NominalRebate(p, AssessedFee(p, gross)) > AssessedFee(p, gross)}

(* The observations of computeFeeQuote, each a blocking issue: a policy that
   does not apply (denomination, percent-on-input, not effective), a rebate
   above the fee without zero-flooring, a net output of zero. *)
FeeObservations(p, gross) ==
    {o \in {"notApplicable", "rebateExceedsFee", "zeroOutput"} :
        /\ p.present
        /\ o = "notApplicable" => ~p.applicable
        /\ o = "rebateExceedsFee" =>
             /\ ~p.net_fee_floor_zero
             /\ NominalRebate(p, AssessedFee(p, gross)) > AssessedFee(p, gross)
        /\ o = "zeroOutput" => NetOutput(p, gross) = 0}

(* routed: the fee leaves the reserve for a recipient of its own. *)
Routed(p, gross) == p.present /\ NetFee(p, gross) > 0 /\ p.recipient_routed

----------------------------------------------------------------------------
(* selectActiveTransferFee *)
ActiveTransferFee(t, e) == IF e < t.newer_epoch THEN t.older ELSE t.newer

(* A plausible bug: one too many is added before the division. *)
DivideCeilingOver(n, d) == IF n = 0 THEN 0 ELSE (n + d) \div d

DivideCeiling(n, d) == IF n = 0 THEN 0 ELSE (n + d - 1) \div d

(* calculateTokenTransferFee: what is withheld of n.  It throws if that is more
   than n. *)
TransferFee(t, e, n) ==
    LET fee      == ActiveTransferFee(t, e)
        uncapped == DivideCeiling(n * fee.bps, BasisPoints)
    IN  IF uncapped <= fee.maximum THEN uncapped ELSE fee.maximum

(***************************************************************************)
(* computeSettlementEffectiveQuote                                         *)
(***************************************************************************)
EffectiveQuote(t, e, action, requested) ==
    LET p          == t.fee_policy
        inputFee   == IF action = "mint" THEN TransferFee(t, e, requested) ELSE 0
        rateInput  == requested - inputFee
        configured == GrossOutput(t, action, requested)
        gross      == GrossOutput(t, action, rateInput)
        net        == NetOutput(p, gross)
        outputFee  == IF action = "redeem" THEN TransferFee(t, e, net) ELSE 0
        received   == net - outputFee
        netFee     == NetFee(p, gross)
    IN  [configuredGrossOutput |-> configured,
         rateInput   |-> rateInput,
         grossOutput |-> gross,
         netFee      |-> netFee,
         netOutput   |-> net,
         routed      |-> Routed(p, gross),
         principalReceived |-> received,
         allInOutputReduction |->
             IF configured > received THEN configured - received ELSE 0,
         (* requiredReserveBalance of inspect, for a redeem *)
         reserveOutflow |-> net + (IF Routed(p, gross) THEN netFee ELSE 0),
         blocked     |-> FeeObservations(p, gross) # {}]

Actions == {"mint", "redeem"}
Quote(action) == EffectiveQuote(terms, epoch, action, amount)

----------------------------------------------------------------------------
Init == terms \in Terms /\ amount = 0 /\ epoch = 0

RaiseAmount ==
    /\ amount < MaxAmount
    /\ amount' = amount + 1
    /\ UNCHANGED <<terms, epoch>>

NextEpoch ==
    /\ epoch < MaxEpoch
    /\ epoch' = epoch + 1
    /\ UNCHANGED <<terms, amount>>

Next == RaiseAmount \/ NextEpoch

Spec == Init /\ [][Next]_vars

----------------------------------------------------------------------------
(* Properties. *)

(* The inputs keep their type. *)
TypeOK == terms \in Terms /\ amount \in Nat /\ epoch \in Nat

(* The books balance: in a quote that is not blocked, fee and net output add up
   to the gross output, and a redeem takes no more out of the reserve than the
   rate allows - although minimum fees, rebates and a routed fee are added and
   subtracted independently. *)
QuoteConserves ==
    \A action \in Actions :
        LET q == Quote(action) IN
        (terms.fee_policy.present /\ ~q.blocked) =>
            /\ q.netOutput + q.netFee = q.grossOutput
            /\ q.reserveOutflow <= q.grossOutput

(* No amount of rounding pays out more than the configured rate gives for the
   requested input, so allInOutputReduction never hides a surplus behind its
   zero floor; and a transfer never withholds more than it moves (the "fee
   exceeds transfer amount" error cannot occur), so no receipt is negative. *)
ReceiptWithinRate ==
    \A action \in Actions :
        LET q == Quote(action) IN
        /\ 0 <= q.rateInput /\ 0 <= q.principalReceived
        /\ q.principalReceived + q.allInOutputReduction = q.configuredGrossOutput

(* Minting and redeeming what was received never yields more than was put in,
   as long as the two configured rates do not favour it. *)
NoFreeRoundTrip ==
    LET minted == Quote("mint").principalReceived IN
    terms.deposit_rate * terms.redeem_rate <= RatePrecision * RatePrecision =>
        EffectiveQuote(terms, epoch, "redeem", minted).principalReceived <= amount

(* Asking for more never gives less: the predicted receipt grows with the amount
   in spite of percentage fees rounded up, caps, minimum fees, rebates and
   withheld transfer fees. *)
MonotoneInAmount ==
    [][epoch' = epoch =>
          \A action \in Actions :
              Quote(action)'.principalReceived >= Quote(action).principalReceived]_vars
=============================================================================
