------------------------ MODULE SettlementSubmission ------------------------
(***************************************************************************)
(* ChanceryClient.submitTransaction: prepare, simulate, send, confirm and  *)
(* fetch, each an awaited JSON-RPC call that may be answered by a node     *)
(* behind the tip or not at all, while the cluster produces blocks, drops  *)
(* processed forks and lets a sent transaction land when it likes.         *)
(*                                                                         *)
(* A host calls submitTransaction again only where the operating guide     *)
(* (PRODUCTION-OPERATIONS.md) lets it: after a refusal that precedes the   *)
(* send, or after an expiry it resolved against the chain.  Slots and      *)
(* block heights are one count here: no slot is skipped.                   *)
(***************************************************************************)
EXTENDS Integers

CONSTANTS
    MaxAttempts,    \* calls of submitTransaction for one business request
    Commitment,     \* rank of the required commitment
    Validity,       \* blocks for which a blockhash stays valid (150 on Solana)
    ObservationValidity, \* OBSERVATION_VALIDITY_SLOTS
    MaximumPolls,   \* maximumPolls of #confirmTransaction
    MaxLag,         \* how many blocks an answering node may be behind
    MaxHeight       \* bound on the block height

Processed == 0
Confirmed == 1
Finalized == 2
Rank == {Processed, Confirmed, Finalized}

ASSUME CommitmentAssumption == Commitment \in Rank
ASSUME SizeAssumption ==
    /\ Validity \in Nat /\ ObservationValidity \in Nat /\ MaxLag \in Nat
    /\ MaximumPolls \in Nat \ {0} /\ MaxHeight \in Nat \ {0}
    /\ MaxAttempts \in Nat \ {0}

Attempts == 1..MaxAttempts

VARIABLES
    tip,        \* external: [Rank -> height of the newest block of that rank]
    sent,       \* external: sent[a] - the cluster holds attempt a's transaction
    landing,    \* external: landing[a] - where it landed: [height, ok]
    attempt,    \* the attempt being made, 0 before the first
    call        \* call[a] - the local variables of the a-th call

vars == <<tip, sent, landing, attempt, call>>

NotLanded == [height |-> 0, ok |-> FALSE]

Refusals == {"inspectionExpired", "notReady", "preparation", "simulation"}
Results  == Refusals \cup
            {"none", "submission", "failed", "expired", "pollLimit",
             "confirmation", "retrieval", "ok"}
Awaiting == {"slot", "blockhash", "lookup", "simulation", "send", "status",
             "height", "transaction", "events"}

NotCalled == [pc |-> "idle", result |-> "none", signature |-> FALSE,
              ready |-> FALSE, contextSlot |-> 0, lastValid |-> 0,
              polls |-> 0, events |-> FALSE]

Init ==
    /\ tip = [r \in Rank |-> 1]
    /\ sent = [a \in Attempts |-> FALSE]
    /\ landing = [a \in Attempts |-> NotLanded]
    /\ attempt = 0
    /\ call = [a \in Attempts |-> NotCalled]

----------------------------------------------------------------------------
(* External: the cluster. *)

Landed(a) == landing[a].height > 0

(* A transaction lands at most once, in a block its blockhash is valid for. *)
CanLand(a) == sent[a] /\ ~Landed(a) /\ tip[Processed] < call[a].lastValid

ProduceBlock ==
    /\ tip[Processed] < MaxHeight
    /\ tip' = [tip EXCEPT ![Processed] = @ + 1]
    /\ \E included \in SUBSET Attempts : \E ok \in [Attempts -> BOOLEAN] :
         /\ \A a \in included : CanLand(a)
         /\ landing' = [a \in Attempts |->
                          IF a \in included
                          THEN [height |-> tip[Processed] + 1, ok |-> ok[a]]
                          ELSE landing[a]]
    /\ UNCHANGED <<sent, attempt, call>>

AdvanceRoot ==
    /\ \E r \in {Confirmed, Finalized} :
         /\ tip[r] < tip[r - 1]
         /\ tip' = [tip EXCEPT ![r] = @ + 1]
    /\ UNCHANGED <<sent, landing, attempt, call>>

(* Blocks above the confirmed one may be abandoned for another fork; what
   landed in them may land again. *)
DropFork ==
    /\ \E height \in tip[Confirmed]..(tip[Processed] - 1) :
         /\ tip' = [tip EXCEPT ![Processed] = height]
         /\ landing' = [a \in Attempts |->
                          IF landing[a].height > height THEN NotLanded
                          ELSE landing[a]]
    /\ UNCHANGED <<sent, attempt, call>>

(* The blocks of each rank known to a node that lags by lag blocks. *)
Lags == 0..MaxLag
View(lag, rank) == IF tip[rank] > lag THEN tip[rank] - lag ELSE 0

----------------------------------------------------------------------------
(* The client. *)

At(a, pc) == attempt = a /\ call[a].pc = pc

Goto(a, pc) == call' = [call EXCEPT ![a].pc = pc]

(* The error reaches the caller; signature: its text names the transaction. *)
Throw(a, result, signature) ==
    call' = [call EXCEPT ![a].pc = "done", ![a].result = result,
                         ![a].signature = signature]

(* prepareTransaction: getSlot carries no minimum context slot. *)
SlotReply(a) ==
    /\ At(a, "slot")
    /\ \E lag \in Lags :
         IF View(lag, Commitment) > call[a].contextSlot + ObservationValidity
         THEN Throw(a, "inspectionExpired", FALSE)
         ELSE IF ~call[a].ready THEN Throw(a, "notReady", FALSE)
         ELSE Goto(a, "blockhash")
    /\ UNCHANGED <<tip, sent, landing, attempt>>

(* getLatestBlockhash carries the floor the inspection left in the client. *)
BlockhashReply(a) ==
    /\ At(a, "blockhash")
    /\ \E lag \in Lags :
         /\ View(lag, Commitment) >= call[a].contextSlot
         /\ call' = [call EXCEPT ![a].pc = "lookup",
                                 ![a].lastValid = View(lag, Commitment) + Validity]
    /\ UNCHANGED <<tip, sent, landing, attempt>>

(* Lookup tables are read, the message is compiled and signed. *)
LookupReply(a) ==
    /\ At(a, "lookup")
    /\ Goto(a, "simulation")
    /\ UNCHANGED <<tip, sent, landing, attempt>>

(* External: a node processes the transaction only if its bank knows the
   blockhash and the blockhash is not too old; what the program then answers
   depends on state the client does not control. *)
BlockhashKnown(a, lag) ==
    /\ View(lag, Commitment) + Validity >= call[a].lastValid
    /\ View(lag, Commitment) <= call[a].lastValid

(* A plausible bug: the send does not wait for the simulation's answer. *)
SimulationReplyAfterSend(a) ==
    /\ At(a, "simulation")
    /\ sent' = [sent EXCEPT ![a] = TRUE]
    /\ Goto(a, "status") \/ Throw(a, "simulation", FALSE)
    /\ UNCHANGED <<tip, landing, attempt>>

(* simulateTransaction with signature verification; err # null stops here. *)
SimulationReply(a) ==
    /\ At(a, "simulation")
    /\ \/ \E lag \in Lags : BlockhashKnown(a, lag) /\ Goto(a, "send")
       \/ Throw(a, "simulation", FALSE)
    /\ UNCHANGED <<tip, sent, landing, attempt>>

(* sendTransaction, with the node's preflight.  The node may reject, accept,
   or accept while its answer is lost. *)
SendReply(a) ==
    /\ At(a, "send")
    /\ \/ \E lag \in Lags :
            /\ BlockhashKnown(a, lag)
            /\ sent' = [sent EXCEPT ![a] = TRUE]
            /\ Goto(a, "status") \/ Throw(a, "submission", FALSE)
       \/ Throw(a, "submission", FALSE) /\ UNCHANGED sent
    /\ UNCHANGED <<tip, landing, attempt>>

(* A plausible bug: any status will do. *)
CommitmentSatisfiedByAny(a, lag) ==
    \E r \in Rank : landing[a].height <= View(lag, r)

(* commitmentSatisfied of the status a node reports for a landed transaction:
   the highest rank whose block it has seen. *)
CommitmentSatisfied(a, lag) ==
    \E r \in Rank : r >= Commitment /\ landing[a].height <= View(lag, r)

(* One poll: the signature status ... *)
StatusReply(a) ==
    /\ At(a, "status")
    /\ \E lag \in Lags :
         LET known == Landed(a) /\ landing[a].height <= View(lag, Processed) IN
         IF known /\ ~landing[a].ok THEN Throw(a, "failed", TRUE)
         ELSE IF known /\ CommitmentSatisfied(a, lag) THEN Goto(a, "transaction")
         ELSE Goto(a, "height")
    /\ UNCHANGED <<tip, sent, landing, attempt>>

(* A plausible bug: the polls are not counted. *)
HeightReplyUncounted(a) ==
    /\ At(a, "height")
    /\ \E lag \in Lags :
         IF View(lag, Commitment) > call[a].lastValid
         THEN Throw(a, "expired", TRUE)
         ELSE Goto(a, "status")
    /\ UNCHANGED <<tip, sent, landing, attempt>>

(* A plausible bug: the block height of the processed fork decides the expiry. *)
HeightReplyProcessed(a) ==
    /\ At(a, "height")
    /\ \E lag \in Lags :
         IF View(lag, Processed) > call[a].lastValid
         THEN Throw(a, "expired", TRUE)
         ELSE IF call[a].polls + 1 = MaximumPolls THEN Throw(a, "pollLimit", TRUE)
         ELSE call' = [call EXCEPT ![a].pc = "status", ![a].polls = @ + 1]
    /\ UNCHANGED <<tip, sent, landing, attempt>>

(* A plausible bug: one poll too many. *)
HeightReplyOneMore(a) ==
    /\ At(a, "height")
    /\ \E lag \in Lags :
         IF View(lag, Commitment) > call[a].lastValid
         THEN Throw(a, "expired", TRUE)
         ELSE IF call[a].polls + 1 > MaximumPolls THEN Throw(a, "pollLimit", TRUE)
         ELSE call' = [call EXCEPT ![a].pc = "status", ![a].polls = @ + 1]
    /\ UNCHANGED <<tip, sent, landing, attempt>>

(* ... then the block height at the required commitment, then the delay. *)
HeightReply(a) ==
    /\ At(a, "height")
    /\ \E lag \in Lags :
         IF View(lag, Commitment) > call[a].lastValid
         THEN Throw(a, "expired", TRUE)
         ELSE IF call[a].polls + 1 = MaximumPolls THEN Throw(a, "pollLimit", TRUE)
         ELSE call' = [call EXCEPT ![a].pc = "status", ![a].polls = @ + 1]
    /\ UNCHANGED <<tip, sent, landing, attempt>>

(* getTransaction: a null answer is kept as null. *)
TransactionReply(a) ==
    /\ At(a, "transaction")
    /\ Goto(a, "events")
    /\ UNCHANGED <<tip, sent, landing, attempt>>

(* getChanceryEvents fetches the transaction again: null from a node that has
   not got it at the commitment, otherwise decoded. *)
EventsReply(a) ==
    /\ At(a, "events")
    /\ \E lag \in Lags :
         call' = [call EXCEPT ![a].pc = "done", ![a].result = "ok",
                              ![a].signature = TRUE,
                              ![a].events = landing[a].height <= View(lag, Commitment)]
    /\ UNCHANGED <<tip, sent, landing, attempt>>

(* Any awaited call may reject; the rejection propagates as it is, without the
   signature.  A rejected send is in SendReply. *)
ErrorResult(pc) ==
    CASE pc \in {"slot", "blockhash", "lookup"} -> "preparation"
      [] pc = "simulation"                      -> "simulation"
      [] pc \in {"status", "height"}            -> "confirmation"
      [] pc \in {"transaction", "events"}       -> "retrieval"

RequestFails(a) ==
    /\ attempt = a
    /\ call[a].pc \in Awaiting \ {"send"}
    /\ Throw(a, ErrorResult(call[a].pc), FALSE)
    /\ UNCHANGED <<tip, sent, landing, attempt>>

Reply(a) ==
    \/ SlotReply(a) \/ BlockhashReply(a) \/ LookupReply(a)
    \/ SimulationReply(a) \/ SendReply(a)
    \/ StatusReply(a) \/ HeightReply(a)
    \/ TransactionReply(a) \/ EventsReply(a)
    \/ RequestFails(a)

----------------------------------------------------------------------------
(* The host.  External, from the operating guide. *)

(* A fresh status lookup for an expired attempt, answered by a node that is
   itself past the last valid block height, finds nothing. *)
ResolvedAbsent(a) ==
    /\ call[a].result = "expired"
    /\ \E lag \in Lags :
         /\ View(lag, Commitment) > call[a].lastValid
         /\ ~Landed(a) \/ landing[a].height > View(lag, Processed)

(* A plausible bug of a host: an expiry is taken for an absence. *)
MayResubmitUnresolved(a) == call[a].result \in Refusals \cup {"expired"}

MayResubmit(a) == call[a].result \in Refusals \/ ResolvedAbsent(a)

(* inspect, then submitTransaction with its result. *)
StartAttempt ==
    /\ attempt + 1 \in Attempts
    /\ attempt > 0 => MayResubmit(attempt)
    /\ attempt' = attempt + 1
    /\ \E lag \in Lags : \E ready \in BOOLEAN :
         call' = [call EXCEPT ![attempt + 1] =
                    [NotCalled EXCEPT !.pc = "slot", !.ready = ready,
                                      !.contextSlot = View(lag, Commitment)]]
    /\ UNCHANGED <<tip, sent, landing>>

Next ==
    \/ ProduceBlock \/ AdvanceRoot \/ DropFork
    \/ StartAttempt
    \/ \E a \in Attempts : Reply(a)

(* Every awaited fetch settles: it is answered or rejects. *)
Fairness == \A a \in Attempts : WF_vars(Reply(a))

Spec == Init /\ [][Next]_vars
FairSpec == Spec /\ Fairness

----------------------------------------------------------------------------
(* Properties. *)

Calls == [pc: Awaiting \cup {"idle", "done"}, result: Results,
          signature: BOOLEAN, ready: BOOLEAN, contextSlot: Nat,
          lastValid: Nat, polls: 0..(MaximumPolls - 1), events: BOOLEAN]

(* Every variable keeps its type, commitment ranks are nested, and nothing has
   landed above the newest block. *)
TypeOK ==
    /\ tip \in [Rank -> 1..MaxHeight]
    /\ tip[Finalized] <= tip[Confirmed] /\ tip[Confirmed] <= tip[Processed]
    /\ sent \in [Attempts -> BOOLEAN]
    /\ landing \in [Attempts -> [height: Nat, ok: BOOLEAN]]
    /\ \A a \in Attempts : landing[a].height <= tip[Processed]
    /\ attempt \in Attempts \cup {0}
    /\ call \in [Attempts -> Calls]

(* submitTransaction returns only what happened: once it has returned, its
   transaction stands in a block of the required commitment and succeeded, now
   and for ever, whatever forks are dropped.  (Required commitment confirmed or
   finalized; a processed block may be dropped.) *)
ReturnedMeansSettled ==
    \A a \in Attempts :
        call[a].result = "ok" =>
            Landed(a) /\ landing[a].ok /\ landing[a].height <= tip[Commitment]

(* A refusal before the send (expired or blocked inspection, failed preparation,
   failed simulation) is definite: the transaction is not in the cluster and
   never settles afterwards, so the caller may start over. *)
RefusalNeverSettles ==
    \A a \in Attempts :
        call[a].result \in Refusals => ~sent[a] /\ ~Landed(a)

(* One business request settles at most once, although calls are repeated after
   refusals and after expiries the host resolved, and processed forks are
   dropped under the polls. *)
Settled(a) == Landed(a) /\ landing[a].ok
AtMostOneSettlement ==
    \A a, b \in Attempts : Settled(a) /\ Settled(b) => a = b

(* An "expired" error settles the outcome even though it does not say which:
   from then on nothing lands and nothing that landed is dropped, so a single
   later lookup decides. *)
ExpiryIsFinal ==
    [][\A a \in Attempts :
          call[a].result = "expired" => landing'[a] = landing[a]]_vars

(* Every call ends: no poll loop runs for ever, even when the chain stops
   before the last valid block height. *)
EveryCallEnds ==
    \A a \in Attempts : call[a].pc \in Awaiting ~> call[a].pc = "done"

(* How a caller reads a result, and what the chain irrevocably holds. *)
ReportOf(a) ==
    IF call[a].result = "none" THEN "open"
    ELSE IF call[a].result \in Refusals THEN "refused"
    ELSE IF call[a].result = "ok" THEN "acknowledged"
    ELSE "unknown"

EffectOf(a) ==
    IF Settled(a) /\ landing[a].height <= tip[Confirmed] THEN "settled"
    ELSE IF sent[a] THEN "pending" ELSE "absent"

Outcome == INSTANCE SettlementOutcome WITH
    Requests <- Attempts,
    effect   <- [a \in Attempts |-> EffectOf(a)],
    report   <- [a \in Attempts |-> ReportOf(a)]

(* Each result of submitTransaction is a true report of the chain, with every
   error after the send read as "unknown". *)
ImplementsOutcome == Outcome!Spec

----------------------------------------------------------------------------
(* What the repository says of submitTransaction and the code does not do. *)

(* The error text of #confirmTransaction: the transaction "expired before
   reaching" the required commitment. *)
ExpiredMeansNotReached ==
    \A a \in Attempts :
        call[a].result = "expired" =>
            ~(Settled(a) /\ landing[a].height <= tip[Commitment])
=============================================================================
