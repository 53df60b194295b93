-------------------------- MODULE SettlementOutcome --------------------------
(***************************************************************************)
(* What a settlement client promises its caller, whatever the transport    *)
(* does: the report it gives for a request is true of the chain.           *)
(*                                                                         *)
(*   refused       nothing was submitted and nothing ever will be          *)
(*   unknown       the caller has to look at the chain                     *)
(*   acknowledged  the settlement happened                                 *)
(*                                                                         *)
(* The effect of a request may appear long after the report.  Implemented  *)
(* by ChanceryClient.submitTransaction (SettlementSubmission) and by the   *)
(* market-maker execution helper (SettlementExecution).                    *)
(***************************************************************************)
CONSTANT Requests

VARIABLES
    effect,     \* effect[r]: what the chain holds of request r
    report      \* report[r]: what the caller has been told

vars == <<effect, report>>

Effects == {"absent", "pending", "settled"}
Reports == {"open", "refused", "unknown", "acknowledged"}

Init ==
    /\ effect = [r \in Requests |-> "absent"]
    /\ report = [r \in Requests |-> "open"]

(* A transaction reaches the cluster; only while the call is running. *)
Submit(r) ==
    /\ report[r] = "open" /\ effect[r] = "absent"
    /\ effect' = [effect EXCEPT ![r] = "pending"]
    /\ UNCHANGED report

(* Pending settlements become irrevocable, at any time. *)
Settle(S) ==
    /\ \A r \in S : effect[r] = "pending"
    /\ effect' = [r \in Requests |-> IF r \in S THEN "settled" ELSE effect[r]]
    /\ UNCHANGED report

Refuse(r) ==
    /\ report[r] = "open" /\ effect[r] = "absent"
    /\ report' = [report EXCEPT ![r] = "refused"]
    /\ UNCHANGED effect

(* The call ends without knowing; its transaction may get through in that very
   step, when only the answer is lost. *)
LoseTrack(r) ==
    /\ report[r] = "open"
    /\ report' = [report EXCEPT ![r] = "unknown"]
    /\ \/ UNCHANGED effect
       \/ effect[r] = "absent" /\ effect' = [effect EXCEPT ![r] = "pending"]

Acknowledge(r) ==
    /\ report[r] = "open" /\ effect[r] = "settled"
    /\ report' = [report EXCEPT ![r] = "acknowledged"]
    /\ UNCHANGED effect

Next ==
    \/ \E S \in SUBSET Requests : Settle(S)
    \/ \E r \in Requests : Submit(r) \/ Refuse(r) \/ LoseTrack(r) \/ Acknowledge(r)

Spec == Init /\ [][Next]_vars
=============================================================================
