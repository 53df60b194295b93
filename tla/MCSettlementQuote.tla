-------------------------- MODULE MCSettlementQuote --------------------------
(***************************************************************************)
(* A small scale - rates in quarters, fees in fifths - on which every      *)
(* rounding, cap, minimum and rebate case is hit by amounts up to 12.      *)
(***************************************************************************)
EXTENDS SettlementQuote

FeePolicies ==
    {[present |-> TRUE, applicable |-> TRUE, recipient_routed |-> TRUE,
      flat_fee |-> f[1], percent_fee_bps |-> f[2], rounding_mode |-> mode,
      fee_cap_amount |-> limit[1], minimum_fee_amount |-> limit[2],
      rebate_flat_amount |-> r[1], rebate_bps |-> r[2], rebate_cap_amount |-> r[3],
      net_fee_floor_zero |-> r[4]] :
        f \in {<<0, 1>>, <<0, 3>>, <<0, 5>>, <<2, 0>>},
        mode \in {"floor", "ceiling", "nearest"},
        limit \in {<<0, 0>>, <<2, 0>>, <<0, 2>>, <<1, 3>>},
        r \in {<<0, 0, 0, TRUE>>, <<0, 3, 0, TRUE>>, <<0, 4, 1, FALSE>>,
               <<2, 0, 0, TRUE>>, <<3, 0, 2, FALSE>>}}

NoFeePolicy ==
    [present |-> FALSE, applicable |-> TRUE, recipient_routed |-> FALSE,
     flat_fee |-> 0, percent_fee_bps |-> 0, rounding_mode |-> "floor",
     fee_cap_amount |-> 0, minimum_fee_amount |-> 0,
     rebate_flat_amount |-> 0, rebate_bps |-> 0, rebate_cap_amount |-> 0,
     net_fee_floor_zero |-> TRUE]

InapplicableFeePolicy ==
    [NoFeePolicy EXCEPT !.present = TRUE, !.applicable = FALSE, !.percent_fee_bps = 2]

NoTransferFee == [bps |-> 0, maximum |-> 0]

(* Rates: par, a redeem premium and a deposit premium, none of which pays for a
   round trip. *)
MCTerms ==
    {[fee_policy |-> p, deposit_rate |-> rate[1], redeem_rate |-> rate[2],
      older |-> fee[1], newer |-> fee[2], newer_epoch |-> 1] :
        p \in FeePolicies \cup {NoFeePolicy, InapplicableFeePolicy},
        rate \in {<<4, 4>>, <<3, 5>>, <<7, 2>>},
        fee \in {<<NoTransferFee, NoTransferFee>>,
                 <<[bps |-> 1, maximum |-> 2], [bps |-> 5, maximum |-> 9]>>}}
=============================================================================
