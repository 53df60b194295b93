---------------------------- MODULE UsageLimits ----------------------------
(***************************************************************************)
(* The settlement-limit rules the clients evaluate off-chain               *)
(* (observeLimitPolicy, canonicalWindowStart and validateLimits), and the  *)
(* usage accounting of the on-chain program those rules anticipate.        *)
(*                                                                         *)
(* A UsageWindow account accumulates, for one fixed period, the input of   *)
(* mints (gross_in), the output of redeems (gross_output_amount) and the   *)
(* number of settlements (action_count).  The program never clears a       *)
(* window: a window whose start lies in an earlier period simply counts    *)
(* for nothing and is restarted by the next settlement.                    *)
(***************************************************************************)
EXTENDS Integers

CONSTANTS
    WindowKinds,    \* the fixed periods: hourly, daily, weekly, monthly
    Period,         \* [WindowKinds -> length of the period in seconds]
    Policy          \* the LimitPolicy account: see IsPolicy

SettlementActions == {"mint", "redeem"}

(* A LimitPolicy.  A maximum of 0 means "not limited". *)
IsPolicy(p) ==
    /\ p.per_transaction_maximum \in Nat
    /\ p.maximum \in [WindowKinds -> Nat]
    /\ p.maximum_actions \in [WindowKinds -> Nat]

ASSUME PeriodAssumption == Period \in [WindowKinds -> Nat \ {0}]
ASSUME PolicyAssumption == IsPolicy(Policy)

(* What getAccountInfo returns for a window account that was never created. *)
NoAccount == [exists |-> FALSE]

UsageWindow(start, in, out, count) ==
    [exists |-> TRUE, window_start |-> start, gross_in |-> in,
     gross_output_amount |-> out, action_count |-> count]

(* What may be at a window's address. *)
WindowAccounts ==
    {NoAccount} \cup [exists : {TRUE}, window_start : Int, gross_in : Nat,
                      gross_output_amount : Nat, action_count : Nat]

(* Floor division, so that a timestamp before 1970 falls in the period that
   contains it (TLA+ \div already rounds towards minus infinity). *)
CanonicalWindowStart(w, t) == (t \div Period[w]) * Period[w]

(* The accumulator of the direction being settled. *)
Accumulator(window, action) ==
    IF action = "mint" THEN window.gross_in ELSE window.gross_output_amount

Enforced(w) == Policy.maximum[w] # 0 \/ Policy.maximum_actions[w] # 0

AtLeastZero(n) == IF n >= 0 THEN n ELSE 0

(* A plausible bug: a window of an earlier period still counts. *)
ObserveWindowNeverRolled(w, window, action, proposed, now) ==
    LET start      == CanonicalWindowStart(w, now)
        regression == window.exists /\ window.window_start > start
        amount     == IF window.exists THEN Accumulator(window, action) ELSE 0
        count      == IF window.exists THEN window.action_count ELSE 0
        max        == Policy.maximum[w]
        maxActions == Policy.maximum_actions[w]
    IN  [clockRegression |-> regression,
         allowed         |-> ~regression /\ (max = 0 \/ amount + proposed <= max),
         actionAllowed   |-> ~regression /\ (maxActions = 0 \/ count + 1 <= maxActions)]

(* A plausible bug: the usage so far is compared, not the projected one. *)
ObserveWindowBeforeCharge(w, window, action, proposed, now) ==
    LET start      == CanonicalWindowStart(w, now)
        regression == window.exists /\ window.window_start > start
        current    == window.exists /\ window.window_start = start
        amount     == IF current THEN Accumulator(window, action) ELSE 0
        count      == IF current THEN window.action_count ELSE 0
    IN  [clockRegression |-> regression,
         allowed         |-> Policy.maximum[w] = 0 \/ amount <= Policy.maximum[w],
         actionAllowed   |-> Policy.maximum_actions[w] = 0
                                \/ count <= Policy.maximum_actions[w]]

(***************************************************************************)
(* One LimitWindowObservation of observeLimitPolicy.                       *)
(***************************************************************************)
ObserveWindow(w, window, action, proposed, now) ==
    LET start      == CanonicalWindowStart(w, now)
        regression == window.exists /\ window.window_start > start
        current    == window.exists /\ window.window_start = start
        amount     == IF current THEN Accumulator(window, action) ELSE 0
        count      == IF current THEN window.action_count ELSE 0
        max        == Policy.maximum[w]
        maxActions == Policy.maximum_actions[w]
    IN  [clockRegression |-> regression,
         currentAmount   |-> amount,
         projectedAmount |-> amount + proposed,
         remainingBefore |-> AtLeastZero(max - amount),
         remainingAfter  |-> AtLeastZero(max - (amount + proposed)),
         allowed         |-> ~regression /\ (max = 0 \/ amount + proposed <= max),
         actionAllowed   |-> ~regression /\ (maxActions = 0 \/ count + 1 <= maxActions)]

PerTransactionAllowed(proposed) ==
    \/ Policy.per_transaction_maximum = 0
    \/ proposed <= Policy.per_transaction_maximum

(* validateLimits raises no blocking issue for the pathway dimension.  Only
   enforced windows are loaded (#loadLimitWindows); the others are null. *)
LimitsAccept(windows, action, proposed, now) ==
    /\ PerTransactionAllowed(proposed)
    /\ \A w \in WindowKinds :
          LET loaded == IF Enforced(w) THEN windows[w] ELSE NoAccount
              seen   == ObserveWindow(w, loaded, action, proposed, now)
          IN  /\ ~seen.clockRegression
              /\ seen.allowed
              /\ seen.actionAllowed
              /\ Enforced(w) => loaded.exists

(***************************************************************************)
(* External: the program's accounting of one settlement at time now, as    *)
(* the clients' rules assume it.  A window of an earlier period restarts.  *)
(***************************************************************************)
Charge(w, window, action, amount, now) ==
    LET start == CanonicalWindowStart(w, now)
        base  == IF window.window_start < start
                 THEN UsageWindow(start, 0, 0, 0) ELSE window
    IN  UsageWindow(base.window_start,
                    base.gross_in + (IF action = "mint" THEN amount ELSE 0),
                    base.gross_output_amount + (IF action = "redeem" THEN amount ELSE 0),
                    base.action_count + 1)
=============================================================================
