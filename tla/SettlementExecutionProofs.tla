---------------------- MODULE SettlementExecutionProofs ----------------------
(***************************************************************************)
(* Proofs about SettlementExecution for every set of settlements: the      *)
(* stage of each error is a true report of the chain, and no settlement    *)
(* that happened is hidden from its caller.                                *)
(***************************************************************************)
EXTENDS SettlementExecution, TLAPS

(* The stages before the submission, while running and as an error. *)
BeforeSubmission(s) ==
    \/ run[s].pc \in {"preparation", "simulation", "submission"}
    \/ run[s].pc = "failed" /\ run[s].stage \in {"preparation", "simulation"}

(* The stages after a successful confirmation. *)
AfterConfirmation(s) ==
    \/ run[s].pc \in {"reconciliation", "returned"}
    \/ run[s].pc = "failed" /\ run[s].stage = "reconciliation"

StageTellsLedger(s) ==
    /\ BeforeSubmission(s) => ledger[s] = "absent"
    /\ run[s].pc = "confirmation" => run[s].signature
    /\ AfterConfirmation(s) => run[s].signature /\ ledger[s] = "settled"
    /\ run[s].pc = "failed" => \/ run[s].stage \in {"preparation", "simulation", "submission"}
                               \/ run[s].stage \in {"confirmation", "reconciliation"}
                                  /\ run[s].signature

(* The inductive invariant: the stage a call has reached tells what the chain
   holds, and the signature is never lost again. *)
IInv == TypeOK /\ \A s \in Settlements : StageTellsLedger(s)

----------------------------------------------------------------------------
(* Moving on and throwing, spelled out field by field. *)
LEMMA ProceedFields ==
    ASSUME TypeOK, NEW s \in Settlements, NEW stage, Proceed(s, stage)
    PROVE  /\ run'[s].pc = stage
           /\ run'[s].stage = run[s].stage /\ run'[s].signature = run[s].signature
           /\ \A t \in Settlements \ {s} : run'[t] = run[t]
BY DEF TypeOK, Proceed

LEMMA ThrowFields ==
    ASSUME TypeOK, NEW s \in Settlements, NEW stage, Throw(s, stage)
    PROVE  /\ run'[s].pc = "failed"
           /\ run'[s].stage = stage /\ run'[s].signature = run[s].signature
           /\ \A t \in Settlements \ {s} : run'[t] = run[t]
BY DEF TypeOK, Throw

(* Every step of the invariant's proof, for the settlement that moves: either it
   is what the chain executed, or it took one step of the helper. *)
LEMMA NextInv == IInv /\ [Next]_vars => IInv'
<1> SUFFICES ASSUME IInv, [Next]_vars PROVE IInv'
  OBVIOUS
<1>0. TypeOK /\ \A s \in Settlements : StageTellsLedger(s)
  BY DEF IInv
<1>1. CASE UNCHANGED vars
  BY <1>0, <1>1
     DEF IInv, TypeOK, StageTellsLedger, BeforeSubmission, AfterConfirmation, vars
<1>2. CASE Execute
  BY <1>0, <1>2
     DEF IInv, TypeOK, StageTellsLedger, BeforeSubmission, AfterConfirmation, Execute, Ledger
<1>3. ASSUME NEW s \in Settlements, PrepareTransaction(s) \/ Simulate(s) PROVE IInv'
  <2>1. /\ run[s].pc \in {"preparation", "simulation"} /\ ledger' = ledger
        /\ \/ Proceed(s, "simulation") \/ Proceed(s, "submission")
           \/ Throw(s, "preparation") \/ Throw(s, "simulation")
    BY <1>3 DEF PrepareTransaction, Simulate, At
  <2>2. TypeOK'
    BY <1>0, <2>1 DEF TypeOK, Proceed, Throw, Stages
  <2>3. ASSUME NEW t \in Settlements \ {s} PROVE StageTellsLedger(t)'
    <3>1. run'[t] = run[t]
      BY <1>0, <2>1, ProceedFields, ThrowFields
    <3> QED BY <1>0, <2>1, <3>1 DEF StageTellsLedger, BeforeSubmission, AfterConfirmation
  <2>4. StageTellsLedger(s)'
    BY <1>0, <2>1, ProceedFields, ThrowFields
       DEF StageTellsLedger, BeforeSubmission, AfterConfirmation
  <2> QED BY <2>2, <2>3, <2>4 DEF IInv
<1>4. ASSUME NEW s \in Settlements, Submit(s) PROVE IInv'
  <2>1. /\ run[s].pc = "submission"
        /\ \A t \in Settlements \ {s} : ledger'[t] = ledger[t] /\ run'[t] = run[t]
        /\ \/ run'[s].pc = "confirmation" /\ run'[s].signature = TRUE
           \/ run'[s].pc = "failed" /\ run'[s].stage = "submission"
    <3>1. CASE Throw(s, "submission")
      BY <1>0, <1>4, <3>1, ThrowFields DEF Submit, At, TypeOK
    <3>2. CASE run' = [run EXCEPT ![s].pc = "confirmation", ![s].signature = TRUE]
      BY <1>0, <1>4, <3>2 DEF Submit, At, TypeOK
    <3> QED BY <1>4, <3>1, <3>2 DEF Submit
  <2>2. TypeOK'
    BY <1>0, <1>4 DEF TypeOK, Submit, Throw, Stages, Ledger
  <2>3. ASSUME NEW t \in Settlements PROVE StageTellsLedger(t)'
    BY <1>0, <2>1 DEF StageTellsLedger, BeforeSubmission, AfterConfirmation
  <2> QED BY <2>2, <2>3 DEF IInv
<1>5. ASSUME NEW s \in Settlements, Confirm(s) \/ Reconcile(s) PROVE IInv'
  <2>1. /\ ledger' = ledger /\ run[s].signature
        /\ \/ run[s].pc = "confirmation" /\ Throw(s, "confirmation")
           \/ run[s].pc = "confirmation" /\ ledger[s] = "settled" /\ Proceed(s, "reconciliation")
           \/ run[s].pc = "reconciliation" /\ Throw(s, "reconciliation")
           \/ run[s].pc = "reconciliation" /\ Proceed(s, "returned")
    BY <1>0, <1>5 DEF Confirm, Reconcile, At, StageTellsLedger, AfterConfirmation
  <2>2. TypeOK'
    BY <1>0, <2>1 DEF TypeOK, Proceed, Throw, Stages
  <2>3. ASSUME NEW t \in Settlements \ {s} PROVE StageTellsLedger(t)'
    <3>1. run'[t] = run[t]
      BY <1>0, <2>1, ProceedFields, ThrowFields
    <3> QED BY <1>0, <2>1, <3>1 DEF StageTellsLedger, BeforeSubmission, AfterConfirmation
  <2>4. StageTellsLedger(s)'
    BY <1>0, <2>1, ProceedFields, ThrowFields
       DEF StageTellsLedger, BeforeSubmission, AfterConfirmation
  <2> QED BY <2>2, <2>3, <2>4 DEF IInv
<1> QED BY <1>1, <1>2, <1>3, <1>4, <1>5 DEF Next, ExecuteSettlement

THEOREM Inductive == Spec => []IInv
<1>1. Init => IInv
  BY DEF Init, IInv, TypeOK, StageTellsLedger, BeforeSubmission, AfterConfirmation,
         NotStarted, Stages, Ledger
<1> QED BY <1>1, NextInv, PTL DEF Spec

(* Once a call is over and its settlement is on the chain, the caller holds the
   signature or was told that the submission itself was interrupted. *)
THEOREM Traceable == Spec => []SettlementIsTraceable
<1>1. IInv => SettlementIsTraceable
  BY DEF IInv, StageTellsLedger, BeforeSubmission, AfterConfirmation, SettlementIsTraceable
<1> QED BY <1>1, Inductive, PTL

----------------------------------------------------------------------------
Report == [s \in Settlements |-> ReportOf(s)]

(* A call that moves on within its open stages is invisible. *)
LEMMA InvisibleStage ==
    ASSUME TypeOK, NEW s \in Settlements, run[s].pc \in Stages, NEW pc \in Stages,
           run'[s].pc = pc, \A t \in Settlements \ {s} : run'[t] = run[t]
    PROVE  Report' = Report
<1>1. ReportOf(s) = "open" /\ ReportOf(s)' = "open"
  BY DEF ReportOf, Stages
<1>2. \A t \in Settlements : ReportOf(t)' = ReportOf(t)
  BY <1>1 DEF ReportOf
<1> QED BY <1>2 DEF Report

(* A call that ends is reported once. *)
LEMMA ReportedStage ==
    ASSUME TypeOK, NEW s \in Settlements, run[s].pc \in Stages,
           NEW word, ReportOf(s)' = word, \A t \in Settlements \ {s} : run'[t] = run[t]
    PROVE  Report[s] = "open" /\ Report' = [Report EXCEPT ![s] = word]
<1>1. ReportOf(s) = "open"
  BY DEF ReportOf, Stages
<1>2. \A t \in Settlements \ {s} : ReportOf(t)' = ReportOf(t)
  BY DEF ReportOf
<1> QED BY <1>1, <1>2 DEF Report

(* A stage of the helper maps to one step of the abstract client or to none. *)
LEMMA StageStep ==
    ASSUME IInv, NEW s \in Settlements, ExecuteSettlement(s)
    PROVE  (ledger' = ledger /\ Report' = Report) \/ Outcome!Next
<1>0. TypeOK /\ StageTellsLedger(s)
  BY DEF IInv
<1>1. ASSUME run[s].pc \in Stages, NEW pc \in Stages, Proceed(s, pc) PROVE Report' = Report
  BY <1>0, <1>1, ProceedFields, InvisibleStage
<1>2. ASSUME run[s].pc \in {"preparation", "simulation"}, ledger' = ledger,
             NEW stage \in {"preparation", "simulation"}, Throw(s, stage)
      PROVE  Outcome!Next
  <2>1. ReportOf(s)' = "refused"
    BY <1>0, <1>2, ThrowFields DEF ReportOf
  <2>2. Report[s] = "open" /\ Report' = [Report EXCEPT ![s] = "refused"]
    BY <1>0, <1>2, <2>1, ThrowFields, ReportedStage DEF Stages
  <2>3. Outcome!Refuse(s)
    BY <1>0, <1>2, <2>2 DEF Outcome!Refuse, Report, StageTellsLedger, BeforeSubmission
  <2> QED BY <2>3 DEF Outcome!Next
<1>3. CASE PrepareTransaction(s)
  BY <1>1, <1>2, <1>3 DEF PrepareTransaction, At, Stages
<1>4. CASE Simulate(s)
  BY <1>1, <1>2, <1>4 DEF Simulate, At, Stages
<1>5. CASE Submit(s)
  <2>0. run[s].pc = "submission" /\ run[s].pc \in Stages /\ ledger[s] = "absent"
    BY <1>0, <1>5 DEF Submit, At, Stages, StageTellsLedger, BeforeSubmission
  <2>1. CASE Throw(s, "submission")
    <3>1. ReportOf(s)' = "unknown"
      BY <1>0, <2>1, ThrowFields DEF ReportOf
    <3>2. Report[s] = "open" /\ Report' = [Report EXCEPT ![s] = "unknown"]
      BY <1>0, <2>0, <2>1, <3>1, ThrowFields, ReportedStage
    <3>3. Outcome!LoseTrack(s)
      BY <1>5, <2>0, <3>2 DEF Submit, Outcome!LoseTrack, Report
    <3> QED BY <3>3 DEF Outcome!Next
  <2>2. CASE /\ run' = [run EXCEPT ![s].pc = "confirmation", ![s].signature = TRUE]
             /\ ledger' = [ledger EXCEPT ![s] = "pending"]
    <3>1. run'[s].pc = "confirmation" /\ \A t \in Settlements \ {s} : run'[t] = run[t]
      BY <1>0, <2>2 DEF TypeOK
    <3>2. Report' = Report
      BY <1>0, <2>0, <3>1, InvisibleStage DEF Stages
    <3>3. Report[s] = "open"
      BY <2>0 DEF Report, ReportOf
    <3>4. Outcome!Submit(s)
      BY <2>0, <2>2, <3>2, <3>3 DEF Outcome!Submit, Report
    <3> QED BY <3>4 DEF Outcome!Next
  <2> QED BY <1>5, <2>1, <2>2 DEF Submit
<1>6. CASE Confirm(s)
  <2>0. run[s].pc = "confirmation" /\ run[s].pc \in Stages /\ ledger' = ledger
    BY <1>6 DEF Confirm, At, Stages
  <2>1. CASE Proceed(s, "reconciliation")
    BY <1>1, <2>0, <2>1 DEF Stages
  <2>2. CASE Throw(s, "confirmation")
    <3>1. ReportOf(s)' = "unknown"
      BY <1>0, <2>2, ThrowFields DEF ReportOf
    <3>2. Report[s] = "open" /\ Report' = [Report EXCEPT ![s] = "unknown"]
      BY <1>0, <2>0, <2>2, <3>1, ThrowFields, ReportedStage
    <3>3. Outcome!LoseTrack(s)
      BY <2>0, <3>2 DEF Outcome!LoseTrack, Report
    <3> QED BY <3>3 DEF Outcome!Next
  <2> QED BY <1>6, <2>1, <2>2 DEF Confirm
<1>7. CASE Reconcile(s)
  <2>0. /\ run[s].pc = "reconciliation" /\ run[s].pc \in Stages /\ ledger' = ledger
        /\ ledger[s] = "settled"
    BY <1>0, <1>7 DEF Reconcile, At, Stages, StageTellsLedger, AfterConfirmation
  <2>1. ReportOf(s)' = "acknowledged" /\ \A t \in Settlements \ {s} : run'[t] = run[t]
    BY <1>0, <1>7, ThrowFields, ProceedFields DEF Reconcile, ReportOf
  <2>2. Report[s] = "open" /\ Report' = [Report EXCEPT ![s] = "acknowledged"]
    BY <1>0, <2>0, <2>1, ReportedStage
  <2>3. Outcome!Acknowledge(s)
    BY <2>0, <2>2 DEF Outcome!Acknowledge, Report
  <2> QED BY <2>3 DEF Outcome!Next
<1> QED BY <1>3, <1>4, <1>5, <1>6, <1>7 DEF ExecuteSettlement

(* The stage of the error, or the return, is a true report of the chain. *)
THEOREM ExecutionImplementsOutcome == Spec => ImplementsOutcome
<1>1. Init => Outcome!Init
  BY DEF Init, NotStarted, Outcome!Init, ReportOf
<1>2. ASSUME IInv, [Next]_vars PROVE [Outcome!Next]_(Outcome!vars)
  <2>1. CASE Execute
    <3>1. PICK s \in Settlements :
            ledger[s] = "pending" /\ ledger' = [ledger EXCEPT ![s] = "settled"]
      BY <2>1 DEF Execute
    <3>2. Report' = Report
      BY <2>1 DEF Execute, Report, ReportOf
    <3>3. Outcome!Settle({s})
      BY <1>2, <3>1, <3>2 DEF IInv, TypeOK, Outcome!Settle, Report
    <3> QED BY <3>3 DEF Outcome!Next
  <2>2. CASE \E s \in Settlements : ExecuteSettlement(s)
    BY <1>2, <2>2, StageStep DEF Outcome!vars, Report
  <2>3. CASE UNCHANGED vars
    BY <2>3 DEF vars, Outcome!vars, ReportOf
  <2> QED BY <1>2, <2>1, <2>2, <2>3 DEF Next
<1> QED BY <1>1, <1>2, Inductive, PTL DEF Spec, ImplementsOutcome, Outcome!Spec
=============================================================================
