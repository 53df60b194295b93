--------------------------- MODULE MCInspection ---------------------------
(***************************************************************************)
(* Small instances of Inspection: two enforced window kinds with periods of *)
(* 2 and 4 seconds, so that a few slots cross the boundary of one and of    *)
(* both, and between them one that is not limited and is never read.        *)
(***************************************************************************)
EXTENDS Inspection

MCWindowKinds == {"hourly", "daily", "weekly"}
MCWindowOrder == <<"hourly", "weekly", "daily">>
MCPeriod      == [hourly |-> 2, daily |-> 4, weekly |-> 6]

MCPolicy ==
    [per_transaction_maximum |-> 2,
     maximum         |-> [hourly |-> 2, daily |-> 3, weekly |-> 0],
     maximum_actions |-> [hourly |-> 0, daily |-> 2, weekly |-> 0]]

(* One call takes the on-chain time, the other the caller's own timestamp. *)
MCRequest ==
    [o \in Operations |->
        IF o = "first" THEN [action |-> "mint", amount |-> 1, now |-> NoOverride]
                       ELSE [action |-> "redeem", amount |-> 1, now |-> 1]]

MCSettlements == {[action |-> "mint", amount |-> 2], [action |-> "redeem", amount |-> 1]}
MCTicks == {1, 2}
MCStartTime == -1
=============================================================================
