------------------------- MODULE SettlementExecution -------------------------
(***************************************************************************)
(* executePreparedMarketMakerSettlement: the integration helper that runs  *)
(* one prepared settlement through the host's execution port (prepare,     *)
(* simulate, submit, confirm, reconcile) and turns every failure into a    *)
(* SettlementExecutionError with a stage and, once there is one, the       *)
(* signature.  The TypeScript, Python and Rust helpers are the same.       *)
(*                                                                         *)
(* Several settlements may run at once.  The port is the host's: it may    *)
(* throw from any call, after having done its work or before.              *)
(***************************************************************************)
EXTENDS Naturals

CONSTANT Settlements

VARIABLES
    run,        \* run[s]: the local variables of the call for s
    ledger      \* external: ledger[s], what the chain holds of s

vars == <<run, ledger>>

Stages == {"preparation", "simulation", "submission", "confirmation", "reconciliation"}
Ledger == {"absent", "pending", "settled"}

(* An empty signature stands for no signature. *)
NotStarted == [pc |-> "preparation", stage |-> "none", signature |-> FALSE]

Init ==
    /\ run = [s \in Settlements |-> NotStarted]
    /\ ledger = [s \in Settlements |-> "absent"]

----------------------------------------------------------------------------
(* External: a pending settlement is executed. *)
Execute ==
    /\ \E s \in Settlements :
         /\ ledger[s] = "pending"
         /\ ledger' = [ledger EXCEPT ![s] = "settled"]
    /\ UNCHANGED run

At(s, stage) == run[s].pc = stage

Proceed(s, stage) == run' = [run EXCEPT ![s].pc = stage]

(* A plausible bug: the error is built without the signature. *)
ThrowForgetsSignature(s, stage) ==
    run' = [run EXCEPT ![s].pc = "failed", ![s].stage = stage, ![s].signature = FALSE]

(* A SettlementExecutionError; the signature is passed on from confirmation on. *)
Throw(s, stage) == run' = [run EXCEPT ![s].pc = "failed", ![s].stage = stage]

PrepareTransaction(s) ==
    /\ At(s, "preparation")
    /\ Proceed(s, "simulation") \/ Throw(s, "preparation")
    /\ UNCHANGED ledger

(* simulate throws, rejects or accepts. *)
Simulate(s) ==
    /\ At(s, "simulation")
    /\ Proceed(s, "submission") \/ Throw(s, "simulation")
    /\ UNCHANGED ledger

(* submit throws, returns a signature, or returns an empty one; in each case the
   transaction may be with the cluster, and it is when a signature came back. *)
Submit(s) ==
    /\ At(s, "submission")
    /\ \/ /\ ledger' = [ledger EXCEPT ![s] = "pending"]
          /\ \/ run' = [run EXCEPT ![s].pc = "confirmation", ![s].signature = TRUE]
             \/ Throw(s, "submission")
       \/ Throw(s, "submission") /\ UNCHANGED ledger

(* A plausible bug: confirmation.confirmed is not looked at. *)
ConfirmUnchecked(s) ==
    /\ At(s, "confirmation")
    /\ Proceed(s, "reconciliation")
    /\ UNCHANGED ledger

(* confirm throws, reports not confirmed, or - of a settled transaction only,
   the port's side of the contract - reports confirmed. *)
Confirm(s) ==
    /\ At(s, "confirmation")
    /\ \/ ledger[s] = "settled" /\ Proceed(s, "reconciliation")
       \/ Throw(s, "confirmation")
    /\ UNCHANGED ledger

Reconcile(s) ==
    /\ At(s, "reconciliation")
    /\ Proceed(s, "returned") \/ Throw(s, "reconciliation")
    /\ UNCHANGED ledger

ExecuteSettlement(s) ==
    \/ PrepareTransaction(s) \/ Simulate(s) \/ Submit(s) \/ Confirm(s) \/ Reconcile(s)

Next == Execute \/ \E s \in Settlements : ExecuteSettlement(s)

Spec == Init /\ [][Next]_vars

----------------------------------------------------------------------------
(* Properties. *)

(* Every variable keeps its type. *)
TypeOK ==
    /\ run \in [Settlements -> [pc: Stages \cup {"failed", "returned"},
                                stage: Stages \cup {"none"}, signature: BOOLEAN]]
    /\ ledger \in [Settlements -> Ledger]

(* Whoever's money moved can be told: once a call is over and its settlement is
   on the chain, the caller holds the signature or was told that the submission
   itself was interrupted.  No other outcome hides a settlement. *)
SettlementIsTraceable ==
    \A s \in Settlements :
        (run[s].pc \in {"failed", "returned"} /\ ledger[s] # "absent") =>
            run[s].signature \/ run[s].stage = "submission"

(* How a caller reads the result: the stages before the submission are refusals,
   a reconciliation error is a settlement that happened. *)
ReportOf(s) ==
    IF run[s].pc = "returned" \/ (run[s].pc = "failed" /\ run[s].stage = "reconciliation")
    THEN "acknowledged"
    ELSE IF run[s].pc # "failed" THEN "open"
    ELSE IF run[s].stage \in {"preparation", "simulation"} THEN "refused"
    ELSE "unknown"

Outcome == INSTANCE SettlementOutcome WITH
    Requests <- Settlements,
    effect   <- ledger,
    report   <- [s \in Settlements |-> ReportOf(s)]

(* The stage of the error (or the return) is a true report of the chain. *)
ImplementsOutcome == Outcome!Spec
=============================================================================
