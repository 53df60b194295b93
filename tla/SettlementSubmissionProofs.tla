--------------------- MODULE SettlementSubmissionProofs ---------------------
(***************************************************************************)
(* Proofs about SettlementSubmission for every number of attempts, every   *)
(* poll limit, lag and validity: the type invariant, and - when the        *)
(* required commitment is confirmed or finalized - that refusals, returns  *)
(* and expiries are what they say and that a request settles at most once. *)
(***************************************************************************)
EXTENDS SettlementSubmission, TLAPS

(* The stages before the transaction has left the client. *)
BeforeSend == {"idle", "slot", "blockhash", "lookup", "simulation", "send"}

(* What holds of one call and its transaction at every moment. *)
UnsentBefore(a) ==
    (call[a].pc \in BeforeSend \/ call[a].result \in Refusals) => ~sent[a]
RunningHasNoResult(a) == call[a].pc # "done" => call[a].result = "none"
LandsInTime(a) ==
    Landed(a) => sent[a] /\ landing[a].height <= call[a].lastValid
ReachedCommitment(a) ==
    (call[a].pc \in {"transaction", "events"} \/ call[a].result = "ok") =>
        Landed(a) /\ landing[a].ok /\ landing[a].height <= tip[Commitment]
ExpiredIsPast(a) ==
    call[a].result = "expired" => call[a].lastValid < tip[Commitment]
FutureIsIdle(a) == a > attempt => call[a].pc = "idle"
PastNeverLands(a) ==
    a < attempt => ~Landed(a) /\ call[a].result \in Refusals \cup {"expired"}

CallInv(a) ==
    /\ UnsentBefore(a) /\ RunningHasNoResult(a) /\ LandsInTime(a)
    /\ ReachedCommitment(a) /\ ExpiredIsPast(a)
    /\ FutureIsIdle(a) /\ PastNeverLands(a)

(* The inductive invariant. *)
IInv == TypeOK /\ \A a \in Attempts : CallInv(a)

----------------------------------------------------------------------------
(* A node never knows more blocks of a rank than there are. *)
LEMMA ViewBound ==
    ASSUME TypeOK, NEW lag \in Lags, NEW r \in Rank
    PROVE  View(lag, r) \in Nat /\ View(lag, r) <= tip[r]
BY SizeAssumption DEF TypeOK, View, Lags

(* The initial state satisfies the type invariant. *)
LEMMA InitType == Init => TypeOK
BY SizeAssumption
   DEF Init, TypeOK, NotCalled, NotLanded, Calls, Results, Refusals, Awaiting, Rank,
       Processed, Confirmed, Finalized

(* The cluster's steps keep the type. *)
LEMMA ClusterType ==
    ASSUME TypeOK, ProduceBlock \/ AdvanceRoot \/ DropFork
    PROVE  TypeOK'
<1>1. CASE ProduceBlock
  BY <1>1, SizeAssumption
     DEF TypeOK, ProduceBlock, Rank, Processed, Confirmed, Finalized
<1>2. CASE AdvanceRoot
  BY <1>2, SizeAssumption
     DEF TypeOK, AdvanceRoot, Rank, Processed, Confirmed, Finalized
<1>3. CASE DropFork
  BY <1>3, SizeAssumption
     DEF TypeOK, DropFork, NotLanded, Rank, Processed, Confirmed, Finalized
<1> QED BY <1>1, <1>2, <1>3

(* Moving a call on, or ending it, keeps the type of the calls. *)
LEMMA GotoType ==
    ASSUME TypeOK, NEW a \in Attempts, NEW pc \in Awaiting \cup {"idle", "done"}, Goto(a, pc)
    PROVE  call' \in [Attempts -> Calls]
<1>1. call[a] \in Calls
  BY DEF TypeOK
<1>2. [call[a] EXCEPT !.pc = pc] \in Calls
  BY <1>1 DEF Calls
<1>3. call' = [call EXCEPT ![a] = [call[a] EXCEPT !.pc = pc]]
  BY DEF Goto
<1> QED BY <1>2, <1>3 DEF TypeOK

LEMMA ThrowType ==
    ASSUME TypeOK, NEW a \in Attempts, NEW result \in Results,
           NEW signature \in BOOLEAN, Throw(a, result, signature)
    PROVE  call' \in [Attempts -> Calls]
<1> DEFINE new == [call[a] EXCEPT !.pc = "done", !.result = result, !.signature = signature]
<1>1. call[a] \in Calls
  BY DEF TypeOK
<1>2. new \in Calls
  BY <1>1 DEF Calls
<1>3. call' = [call EXCEPT ![a] = new]
  BY DEF Throw
<1> QED BY <1>2, <1>3 DEF TypeOK

(* So do the replies: each changes one field or a few of one call. *)
LEMMA ReplyType ==
    ASSUME TypeOK, NEW a \in Attempts, Reply(a)
    PROVE  TypeOK'
<1> DEFINE Same == UNCHANGED <<tip, landing, attempt>> /\ sent' \in [Attempts -> BOOLEAN]
<1>0. /\ Refusals \subseteq Results
      /\ {"submission", "failed", "expired", "pollLimit", "confirmation", "retrieval", "ok"}
            \subseteq Results
      /\ {"blockhash", "simulation", "send", "status", "height", "transaction", "events"}
            \subseteq Awaiting \cup {"idle", "done"}
  BY DEF Results, Awaiting
<1>A. ASSUME NEW pc \in Awaiting \cup {"idle", "done"}, Goto(a, pc), Same PROVE TypeOK'
  BY <1>A, GotoType DEF TypeOK
<1>B. ASSUME NEW result \in Results, NEW signature \in BOOLEAN,
             Throw(a, result, signature), Same
      PROVE  TypeOK'
  BY <1>B, ThrowType DEF TypeOK
<1>C. ASSUME NEW new \in Calls, call' = [call EXCEPT ![a] = new], Same PROVE TypeOK'
  BY <1>C DEF TypeOK
<1>D. call[a] \in Calls /\ sent \in [Attempts -> BOOLEAN]
  BY DEF TypeOK
<1>1. CASE SlotReply(a)
  BY <1>0, <1>A, <1>B, <1>D, <1>1, Zenon DEF SlotReply, Refusals
<1>2. CASE BlockhashReply(a)
  <2>1. PICK lag \in Lags :
          call' = [call EXCEPT ![a] = [call[a] EXCEPT
                      !.pc = "lookup", !.lastValid = View(lag, Commitment) + Validity]]
    BY <1>2 DEF BlockhashReply
  <2>2. View(lag, Commitment) + Validity \in Nat
    BY ViewBound, CommitmentAssumption, SizeAssumption
  <2>3. ASSUME NEW n \in Nat
        PROVE  [call[a] EXCEPT !.pc = "lookup", !.lastValid = n] \in Calls
    BY <1>D DEF Calls, Awaiting
  <2> QED BY <1>2, <1>C, <1>D, <2>1, <2>2, <2>3, Zenon DEF BlockhashReply
<1>3. CASE LookupReply(a)
  BY <1>0, <1>A, <1>D, <1>3 DEF LookupReply
<1>4. CASE SimulationReply(a)
  BY <1>0, <1>A, <1>B, <1>D, <1>4, Zenon DEF SimulationReply, Refusals
<1>5. CASE SendReply(a)
  <2>1. sent' \in [Attempts -> BOOLEAN]
    BY <1>5, <1>D DEF SendReply
  <2>2. Goto(a, "status") \/ Throw(a, "submission", FALSE)
    BY <1>5 DEF SendReply
  <2> QED BY <1>0, <1>5, <1>A, <1>B, <2>1, <2>2 DEF SendReply
<1>6. CASE StatusReply(a)
  BY <1>0, <1>A, <1>B, <1>D, <1>6, Zenon DEF StatusReply
<1>7. CASE HeightReply(a)
  <2> DEFINE next == call[a].polls + 1
  <2>1. ASSUME NEW n \in 0..(MaximumPolls - 1)
        PROVE  [call[a] EXCEPT !.pc = "status", !.polls = n] \in Calls
    BY <1>D DEF Calls, Awaiting
  <2>2. next # MaximumPolls => next \in 0..(MaximumPolls - 1)
    BY <1>D, SizeAssumption DEF Calls
  <2>3. \/ Throw(a, "expired", TRUE)
        \/ Throw(a, "pollLimit", TRUE)
        \/ /\ next # MaximumPolls
           /\ call' = [call EXCEPT ![a] = [call[a] EXCEPT !.pc = "status", !.polls = next]]
    BY <1>7 DEF HeightReply
  <2> HIDE DEF next
  <2> QED BY <1>0, <1>7, <1>B, <1>C, <1>D, <2>1, <2>2, <2>3, Zenon DEF HeightReply
<1>8. CASE TransactionReply(a)
  BY <1>0, <1>A, <1>D, <1>8 DEF TransactionReply
<1>9. CASE EventsReply(a)
  <2>1. PICK lag \in Lags :
          call' = [call EXCEPT ![a] = [call[a] EXCEPT
                     !.pc = "done", !.result = "ok", !.signature = TRUE,
                     !.events = landing[a].height <= View(lag, Commitment)]]
    BY <1>9 DEF EventsReply
  <2>2. (landing[a].height <= View(lag, Commitment)) \in BOOLEAN
    OBVIOUS
  <2>3. ASSUME NEW e \in BOOLEAN
        PROVE  [call[a] EXCEPT !.pc = "done", !.result = "ok", !.signature = TRUE,
                               !.events = e] \in Calls
    BY <1>D DEF Calls, Results
  <2> QED BY <1>9, <1>C, <1>D, <2>1, <2>2, <2>3 DEF EventsReply
<1>10. CASE RequestFails(a)
  <2>1. ErrorResult(call[a].pc) \in Results
    BY <1>10 DEF RequestFails, ErrorResult, Awaiting, Results, Refusals
  <2> QED BY <1>10, <1>B, <1>D, <2>1 DEF RequestFails
<1> QED BY <1>1, <1>2, <1>3, <1>4, <1>5, <1>6, <1>7, <1>8, <1>9, <1>10 DEF Reply

(* A new attempt starts from a well-typed record. *)
LEMMA StartType ==
    ASSUME TypeOK, StartAttempt
    PROVE  TypeOK'
<1>1. \A lag \in Lags : View(lag, Commitment) \in Nat
  BY ViewBound, CommitmentAssumption
<1>2. ASSUME NEW slot \in Nat, NEW ready \in BOOLEAN
      PROVE  [NotCalled EXCEPT !.pc = "slot", !.ready = ready, !.contextSlot = slot] \in Calls
  <2>1. NotCalled \in Calls
    BY SizeAssumption DEF NotCalled, Calls, Results
  <2> QED BY <2>1 DEF Calls, Awaiting
<1>3. call' \in [Attempts -> Calls]
  <2>1. PICK lag \in Lags, ready \in BOOLEAN :
          call' = [call EXCEPT ![attempt + 1] =
                     [NotCalled EXCEPT !.pc = "slot", !.ready = ready,
                                       !.contextSlot = View(lag, Commitment)]]
    BY Zenon DEF StartAttempt
  <2>2. [NotCalled EXCEPT !.pc = "slot", !.ready = ready,
                          !.contextSlot = View(lag, Commitment)] \in Calls
    BY <1>1, <1>2, Zenon
  <2> QED BY <2>1, <2>2 DEF TypeOK
<1> QED BY <1>3 DEF TypeOK, StartAttempt

(* Every step keeps the type. *)
LEMMA NextType == TypeOK /\ [Next]_vars => TypeOK'
<1> SUFFICES ASSUME TypeOK, [Next]_vars PROVE TypeOK'
  OBVIOUS
<1>1. CASE UNCHANGED vars
  BY <1>1 DEF TypeOK, vars
<1>2. CASE Next
  BY <1>2, ClusterType, ReplyType, StartType DEF Next
<1> QED BY <1>1, <1>2

(* Every variable keeps its type, for every instance of the constants. *)
THEOREM TypeCorrect == Spec => []TypeOK
BY InitType, NextType, PTL DEF Spec

----------------------------------------------------------------------------
(* The inductive invariant. *)

(* What the parts of CallInv speak about. *)
LEMMA CallFields ==
    ASSUME TypeOK, NEW a \in Attempts
    PROVE  /\ call[a].pc \in Awaiting \cup {"idle", "done"}
           /\ call[a].result \in Results
           /\ call[a].lastValid \in Nat
           /\ landing[a].height \in Nat
           /\ landing[a].height <= tip[Processed]
           /\ sent[a] \in BOOLEAN
           /\ attempt \in Nat /\ a \in Nat
<1>1. call[a] \in Calls /\ landing[a] \in [height: Nat, ok: BOOLEAN]
  BY DEF TypeOK
<1>2. attempt \in Nat /\ a \in Nat
  BY SizeAssumption DEF TypeOK, Attempts
<1>3. sent[a] \in BOOLEAN /\ landing[a].height <= tip[Processed]
  BY DEF TypeOK
<1> QED BY <1>1, <1>2, <1>3 DEF Calls

LEMMA Tips ==
    ASSUME TypeOK
    PROVE  /\ \A r \in Rank : tip[r] \in Nat /\ tip[r] <= tip[Processed]
           /\ tip[Finalized] <= tip[Confirmed]
BY DEF TypeOK, Rank, Processed, Confirmed, Finalized

(* Initially no call has been made. *)
LEMMA InitInv == Init => IInv
<1> SUFFICES ASSUME Init PROVE IInv
  OBVIOUS
<1>1. TypeOK
  BY InitType
<1>2. ASSUME NEW a \in Attempts PROVE CallInv(a)
  BY <1>2, SizeAssumption
     DEF Init, CallInv, UnsentBefore, RunningHasNoResult, LandsInTime,
         ReachedCommitment, ExpiredIsPast, FutureIsIdle, PastNeverLands, NotCalled,
         NotLanded, Landed, Refusals, Attempts
<1> QED BY <1>1, <1>2 DEF IInv

(* A new block takes only what may still land in it. *)
LEMMA ProduceInv ==
    ASSUME Commitment # Processed, IInv, ProduceBlock, NEW a \in Attempts
    PROVE  CallInv(a)'
<1>0. TypeOK /\ CallInv(a)
  BY DEF IInv
<1>1. /\ tip'[Commitment] = tip[Commitment]
      /\ UNCHANGED <<sent, attempt, call>>
  BY <1>0, CommitmentAssumption DEF ProduceBlock, TypeOK
<1>2. \/ landing'[a] = landing[a]
      \/ /\ CanLand(a)
         /\ landing'[a].height = tip[Processed] + 1
  BY DEF ProduceBlock
<1>3. CASE landing'[a] = landing[a]
  BY <1>0, <1>1, <1>3
     DEF CallInv, UnsentBefore, RunningHasNoResult, LandsInTime,
         ReachedCommitment, ExpiredIsPast, FutureIsIdle, PastNeverLands, Landed
<1>4. CASE CanLand(a) /\ landing'[a].height = tip[Processed] + 1
  <2>1. /\ sent[a] /\ ~Landed(a) /\ tip[Processed] < call[a].lastValid
        /\ tip[Processed] \in Nat /\ tip[Commitment] \in Nat
        /\ tip[Commitment] <= tip[Processed]
    BY <1>0, <1>4, Tips, CommitmentAssumption DEF CanLand, Rank, Processed
  <2>2. call[a].result # "expired" /\ call[a].result \notin Refusals
    BY <1>0, <2>1, CallFields DEF CallInv, ExpiredIsPast, UnsentBefore
  <2>3. /\ ~(a < attempt)
        /\ ~(call[a].pc \in {"transaction", "events"} \/ call[a].result = "ok")
    BY <1>0, <2>1, <2>2 DEF CallInv, PastNeverLands, ReachedCommitment
  <2>4. LandsInTime(a)'
    BY <1>1, <1>4, <2>1, CallFields, <1>0 DEF LandsInTime
  <2> QED
    BY <1>0, <1>1, <2>2, <2>3, <2>4
       DEF CallInv, UnsentBefore, RunningHasNoResult,
           ReachedCommitment, ExpiredIsPast, FutureIsIdle, PastNeverLands
<1> QED BY <1>2, <1>3, <1>4

(* Roots only rise. *)
LEMMA AdvanceInv ==
    ASSUME IInv, AdvanceRoot, NEW a \in Attempts
    PROVE  CallInv(a)'
<1>0. TypeOK /\ CallInv(a)
  BY DEF IInv
<1>1. tip'[Commitment] \in Nat /\ tip[Commitment] \in Nat /\ tip[Commitment] <= tip'[Commitment]
  BY <1>0, CommitmentAssumption
     DEF AdvanceRoot, TypeOK, Rank, Processed, Confirmed, Finalized
<1>2. UNCHANGED <<sent, landing, attempt, call>>
  BY DEF AdvanceRoot
<1> QED
  BY <1>0, <1>1, <1>2, CallFields
     DEF CallInv, UnsentBefore, RunningHasNoResult, LandsInTime,
         ReachedCommitment, ExpiredIsPast, FutureIsIdle, PastNeverLands, Landed

(* A dropped fork takes nothing that reached the required commitment. *)
LEMMA DropInv ==
    ASSUME Commitment # Processed, IInv, DropFork, NEW a \in Attempts
    PROVE  CallInv(a)'
<1>0. TypeOK /\ CallInv(a)
  BY DEF IInv
<1>1. PICK height \in tip[Confirmed]..(tip[Processed] - 1) :
        /\ tip' = [tip EXCEPT ![Processed] = height]
        /\ landing' = [b \in Attempts |->
                         IF landing[b].height > height THEN NotLanded ELSE landing[b]]
  BY DEF DropFork
<1>2. /\ tip'[Commitment] = tip[Commitment] /\ tip[Commitment] \in Nat
      /\ tip[Commitment] <= height /\ height \in Nat
  BY <1>0, <1>1, CommitmentAssumption DEF TypeOK, Rank, Processed, Confirmed, Finalized
<1>3. UNCHANGED <<sent, attempt, call>>
  BY DEF DropFork
<1>4. CASE landing[a].height > height
  <2>1. ~Landed(a)'
    BY <1>1, <1>4 DEF Landed, NotLanded
  <2>2. ~(call[a].pc \in {"transaction", "events"} \/ call[a].result = "ok")
    BY <1>0, <1>2, <1>4, CallFields DEF CallInv, ReachedCommitment
  <2> QED
    BY <1>0, <1>2, <1>3, <2>1, <2>2
       DEF CallInv, UnsentBefore, RunningHasNoResult, LandsInTime,
           ReachedCommitment, ExpiredIsPast, FutureIsIdle, PastNeverLands
<1>5. CASE ~(landing[a].height > height)
  <2>1. landing'[a] = landing[a]
    BY <1>1, <1>5
  <2> QED
    BY <1>0, <1>2, <1>3, <2>1
       DEF CallInv, UnsentBefore, RunningHasNoResult, LandsInTime,
           ReachedCommitment, ExpiredIsPast, FutureIsIdle, PastNeverLands, Landed
<1> QED BY <1>4, <1>5

(* A step of one call leaves what holds of the others. *)
LEMMA OtherCalls ==
    ASSUME NEW b \in Attempts, CallInv(b), call'[b] = call[b], sent'[b] = sent[b],
           UNCHANGED <<tip, landing, attempt>>
    PROVE  CallInv(b)'
BY DEF CallInv, UnsentBefore, RunningHasNoResult, LandsInTime,
       ReachedCommitment, ExpiredIsPast, FutureIsIdle, PastNeverLands, Landed

(* A running call moves on to the next await: nothing about the past of its
   transaction changes, so only the two parts that read pc are at stake. *)
LEMMA GotoInv ==
    ASSUME IInv, NEW a \in Attempts, attempt = a, NEW pc \in Awaiting, Goto(a, pc),
           call[a].pc # "done", UNCHANGED <<tip, landing, attempt>>,
           sent'[a] \in BOOLEAN, sent[a] => sent'[a],
           pc \in BeforeSend => ~sent'[a],
           pc \in {"transaction", "events"} =>
               Landed(a) /\ landing[a].ok /\ landing[a].height <= tip[Commitment]
    PROVE  CallInv(a)'
<1>1. TypeOK /\ CallInv(a) /\ call[a] \in Calls
  BY DEF IInv, TypeOK
<1>2. /\ call'[a].pc = pc
      /\ call'[a].result = call[a].result
      /\ call'[a].lastValid = call[a].lastValid
  BY <1>1 DEF Goto, TypeOK, Calls
<1>3. call[a].result = "none"
  BY <1>1 DEF CallInv, RunningHasNoResult
<1>4. ~(a > attempt) /\ ~(a < attempt)
  BY <1>1, CallFields
<1> QED
  BY <1>1, <1>2, <1>3, <1>4
     DEF CallInv, UnsentBefore, RunningHasNoResult, LandsInTime,
         ReachedCommitment, ExpiredIsPast, FutureIsIdle, PastNeverLands, Landed, Refusals

(* A running call ends with an error: a refusal only if nothing was sent, an
   expiry only past the last valid block. *)
LEMMA ThrowInv ==
    ASSUME IInv, NEW a \in Attempts, attempt = a, NEW result \in Results \ {"ok"},
           NEW signature \in BOOLEAN, Throw(a, result, signature),
           UNCHANGED <<tip, landing, attempt>>,
           sent'[a] \in BOOLEAN, sent[a] => sent'[a],
           result \in Refusals => ~sent'[a],
           result = "expired" => call[a].lastValid < tip[Commitment]
    PROVE  CallInv(a)'
<1>1. TypeOK /\ CallInv(a) /\ call[a] \in Calls
  BY DEF IInv, TypeOK
<1>2. /\ call'[a].pc = "done"
      /\ call'[a].result = result
      /\ call'[a].lastValid = call[a].lastValid
  BY <1>1 DEF Throw, TypeOK, Calls
<1>4. ~(a > attempt) /\ ~(a < attempt)
  BY <1>1, CallFields
<1> QED
  BY <1>1, <1>2, <1>4
     DEF CallInv, UnsentBefore, RunningHasNoResult, LandsInTime, BeforeSend,
         ReachedCommitment, ExpiredIsPast, FutureIsIdle, PastNeverLands, Landed

(* Every reply of a running call keeps what holds of it. *)
LEMMA OwnReplyInv ==
    ASSUME IInv, NEW a \in Attempts, Reply(a)
    PROVE  CallInv(a)'
<1> DEFINE Same == UNCHANGED <<tip, sent, landing, attempt>>
           Reached == Landed(a) /\ landing[a].ok /\ landing[a].height <= tip[Commitment]
<1>0. /\ TypeOK /\ CallInv(a) /\ call[a] \in Calls /\ sent[a] \in BOOLEAN
      /\ tip[Commitment] \in Nat /\ landing[a].height \in Nat
      /\ call[a].lastValid \in Nat
  BY CallFields, Tips, CommitmentAssumption DEF IInv, TypeOK
<1>1. attempt = a /\ call[a].pc \in Awaiting
  BY DEF Reply, At, SlotReply, BlockhashReply, LookupReply, SimulationReply, SendReply,
         StatusReply, HeightReply, TransactionReply, EventsReply, RequestFails, Awaiting
<1>2. call[a].pc # "done" /\ call[a].result = "none"
  BY <1>0, <1>1 DEF Awaiting, CallInv, RunningHasNoResult
<1>3. call[a].pc \in BeforeSend => ~sent[a]
  BY <1>0 DEF CallInv, UnsentBefore
<1>G. ASSUME NEW pc \in Awaiting, Goto(a, pc), Same, pc \in BeforeSend => ~sent[a],
             pc \in {"transaction", "events"} => Reached
      PROVE  CallInv(a)'
  BY <1>0, <1>1, <1>2, <1>G, GotoInv
<1>T. ASSUME NEW result \in Results \ {"ok"}, NEW signature \in BOOLEAN,
             Throw(a, result, signature), Same, result \in Refusals => ~sent[a],
             result = "expired" => call[a].lastValid < tip[Commitment]
      PROVE  CallInv(a)'
  BY <1>0, <1>1, <1>2, <1>T, ThrowInv
<1>11. CASE SlotReply(a)
  <2>1. ~sent[a] /\ Same
    BY <1>3, <1>11 DEF SlotReply, At, BeforeSend
  <2>2. \/ Throw(a, "inspectionExpired", FALSE) \/ Throw(a, "notReady", FALSE)
        \/ Goto(a, "blockhash")
    BY <1>11 DEF SlotReply
  <2> QED BY <1>G, <1>T, <2>1, <2>2 DEF Awaiting, Results, Refusals
<1>12. CASE BlockhashReply(a)
  <2>1. ~sent[a] /\ Same
    BY <1>3, <1>12 DEF BlockhashReply, At, BeforeSend
  <2>2. call'[a].pc = "lookup" /\ call'[a].result = "none"
    BY <1>0, <1>2, <1>12 DEF BlockhashReply, TypeOK, Calls
  <2>3. ~(a > attempt) /\ ~(a < attempt)
    BY <1>0, <1>1, CallFields
  <2> QED
    BY <1>0, <2>1, <2>2, <2>3
       DEF CallInv, UnsentBefore, RunningHasNoResult, LandsInTime, BeforeSend,
           ReachedCommitment, ExpiredIsPast, FutureIsIdle, PastNeverLands, Landed, Refusals
<1>13. CASE LookupReply(a)
  <2>1. ~sent[a] /\ Same
    BY <1>3, <1>13 DEF LookupReply, At, BeforeSend
  <2> QED BY <1>G, <1>13, <2>1 DEF LookupReply, Awaiting
<1>14. CASE SimulationReply(a)
  <2>1. ~sent[a] /\ Same
    BY <1>3, <1>14 DEF SimulationReply, At, BeforeSend
  <2>2. Goto(a, "send") \/ Throw(a, "simulation", FALSE)
    BY <1>14 DEF SimulationReply
  <2> QED BY <1>G, <1>T, <2>1, <2>2 DEF Awaiting, Results, Refusals
<1>15. CASE SendReply(a)
  <2>1. /\ sent'[a] \in BOOLEAN /\ (sent[a] => sent'[a])
        /\ UNCHANGED <<tip, landing, attempt>>
    BY <1>0, <1>15 DEF SendReply, TypeOK
  <2>2. Goto(a, "status") \/ Throw(a, "submission", FALSE)
    BY <1>15 DEF SendReply
  <2>3. /\ "status" \in Awaiting /\ "status" \notin BeforeSend
        /\ "status" \notin {"transaction", "events"}
        /\ "submission" \in Results \ {"ok"} /\ "submission" \notin Refusals
        /\ "submission" # "expired"
    BY DEF Awaiting, BeforeSend, Results, Refusals
  <2>4. CASE Goto(a, "status")
    BY <1>1, <1>2, <2>1, <2>3, <2>4, GotoInv
  <2>5. CASE Throw(a, "submission", FALSE)
    BY <1>1, <2>1, <2>3, <2>5, ThrowInv
  <2> QED BY <2>2, <2>4, <2>5
<1>16. CASE StatusReply(a)
  <2>1. PICK lag \in Lags :
          \/ Throw(a, "failed", TRUE)
          \/ /\ Landed(a) /\ landing[a].ok /\ CommitmentSatisfied(a, lag)
             /\ Goto(a, "transaction")
          \/ Goto(a, "height")
    BY <1>16 DEF StatusReply
  <2>2. CommitmentSatisfied(a, lag) => landing[a].height <= tip[Commitment]
    <3>1. SUFFICES ASSUME NEW r \in Rank, r >= Commitment, landing[a].height <= View(lag, r)
                   PROVE  landing[a].height <= tip[Commitment]
      BY DEF CommitmentSatisfied
    <3>2. View(lag, r) \in Nat /\ View(lag, r) <= tip[r] /\ tip[r] \in Nat
      BY <1>0, ViewBound, Tips
    <3>3. tip[r] <= tip[Commitment]
      BY <1>0, <3>1, CommitmentAssumption
         DEF TypeOK, Rank, Processed, Confirmed, Finalized
    <3> QED BY <1>0, <3>1, <3>2, <3>3
  <2>3. Same
    BY <1>16 DEF StatusReply
  <2> QED BY <1>G, <1>T, <2>1, <2>2, <2>3 DEF Awaiting, BeforeSend, Results, Refusals
<1>17. CASE HeightReply(a)
  <2>1. PICK lag \in Lags :
          \/ View(lag, Commitment) > call[a].lastValid /\ Throw(a, "expired", TRUE)
          \/ Throw(a, "pollLimit", TRUE)
          \/ call' = [call EXCEPT ![a].pc = "status", ![a].polls = @ + 1]
    BY <1>17 DEF HeightReply
  <2>2. View(lag, Commitment) > call[a].lastValid => call[a].lastValid < tip[Commitment]
    BY <1>0, ViewBound, CommitmentAssumption
  <2>3. Same
    BY <1>17 DEF HeightReply
  <2>4. CASE call' = [call EXCEPT ![a].pc = "status", ![a].polls = @ + 1]
    <3>1. /\ call'[a].pc = "status" /\ call'[a].result = "none"
          /\ call'[a].lastValid = call[a].lastValid
      BY <1>0, <1>2, <2>4 DEF TypeOK, Calls
    <3>2. ~(a > attempt) /\ ~(a < attempt)
      BY <1>0, <1>1, CallFields
    <3> QED
      BY <1>0, <2>3, <3>1, <3>2
         DEF CallInv, UnsentBefore, RunningHasNoResult, LandsInTime, BeforeSend,
             ReachedCommitment, ExpiredIsPast, FutureIsIdle, PastNeverLands, Landed, Refusals
  <2> QED BY <1>T, <2>1, <2>2, <2>3, <2>4 DEF Results, Refusals
<1>18. CASE TransactionReply(a)
  <2>1. Reached /\ Same
    BY <1>0, <1>18 DEF TransactionReply, At, CallInv, ReachedCommitment
  <2> QED BY <1>G, <1>18, <2>1 DEF TransactionReply, Awaiting, BeforeSend
<1>19. CASE EventsReply(a)
  <2>1. Reached /\ Same
    BY <1>0, <1>19 DEF EventsReply, At, CallInv, ReachedCommitment
  <2>2. /\ call'[a].pc = "done" /\ call'[a].result = "ok"
        /\ call'[a].lastValid = call[a].lastValid
    BY <1>0, <1>19 DEF EventsReply, TypeOK, Calls
  <2>3. ~(a > attempt) /\ ~(a < attempt)
    BY <1>0, <1>1, CallFields
  <2> QED
    BY <1>0, <2>1, <2>2, <2>3
       DEF CallInv, UnsentBefore, RunningHasNoResult, LandsInTime, BeforeSend,
           ReachedCommitment, ExpiredIsPast, FutureIsIdle, PastNeverLands, Landed, Refusals
<1>20. CASE RequestFails(a)
  <2>1. /\ call[a].pc \in Awaiting \ {"send"} /\ Same
        /\ Throw(a, ErrorResult(call[a].pc), FALSE)
    BY <1>20 DEF RequestFails
  <2>2. /\ ErrorResult(call[a].pc) \in Results \ {"ok", "expired"}
        /\ ErrorResult(call[a].pc) \in Refusals => call[a].pc \in BeforeSend
    BY <2>1 DEF ErrorResult, Awaiting, Results, Refusals, BeforeSend
  <2> QED BY <1>3, <1>T, <2>1, <2>2
<1> QED
  BY <1>11, <1>12, <1>13, <1>14, <1>15, <1>16, <1>17, <1>18, <1>19, <1>20 DEF Reply

(* ... and touches no other call. *)
LEMMA ReplyInv ==
    ASSUME IInv, NEW a \in Attempts, Reply(a), NEW b \in Attempts
    PROVE  CallInv(b)'
<1>1. CASE b = a
  BY <1>1, OwnReplyInv
<1>2. CASE b # a
  <2>1. UNCHANGED <<tip, landing, attempt>>
    BY DEF Reply, SlotReply, BlockhashReply, LookupReply, SimulationReply, SendReply,
           StatusReply, HeightReply, TransactionReply, EventsReply, RequestFails
  <2>2. sent'[b] = sent[b]
    BY <1>2 DEF IInv, TypeOK, Reply, SlotReply, BlockhashReply, LookupReply, SimulationReply,
           SendReply, StatusReply, HeightReply, TransactionReply, EventsReply, RequestFails
  <2>3. call'[b] = call[b]
    BY <1>2 DEF IInv, TypeOK, Reply, SlotReply, BlockhashReply, LookupReply, SimulationReply,
           SendReply, StatusReply, HeightReply, TransactionReply, EventsReply, RequestFails,
           Goto, Throw
  <2>4. CallInv(b)
    BY DEF IInv
  <2> QED BY <2>1, <2>2, <2>3, <2>4, OtherCalls
<1> QED BY <1>1, <1>2

(* An expired attempt that a node past its last valid block does not know has
   not landed: it could only have landed below that node's view. *)
LEMMA AbsentIsAbsent ==
    ASSUME TypeOK, NEW a \in Attempts, CallInv(a), ResolvedAbsent(a)
    PROVE  ~Landed(a)
<1>1. PICK lag \in Lags :
        /\ View(lag, Commitment) > call[a].lastValid
        /\ ~Landed(a) \/ landing[a].height > View(lag, Processed)
  BY DEF ResolvedAbsent
<1>2. View(lag, Commitment) <= View(lag, Processed)
  <2>1. /\ tip[Commitment] \in Nat /\ tip[Processed] \in Nat
        /\ tip[Commitment] <= tip[Processed] /\ lag \in Nat
    BY Tips, CommitmentAssumption, SizeAssumption DEF Rank, Lags
  <2> QED BY <2>1 DEF View
<1>3. View(lag, Commitment) \in Nat /\ View(lag, Processed) \in Nat
  BY ViewBound, CommitmentAssumption DEF Rank
<1> QED BY <1>1, <1>2, <1>3, CallFields DEF CallInv, LandsInTime

(* A new attempt starts only when the last one can no longer land. *)
LEMMA StartInv ==
    ASSUME IInv, StartAttempt, NEW b \in Attempts
    PROVE  CallInv(b)'
<1>0. /\ TypeOK /\ CallInv(b)
      /\ attempt \in Nat /\ attempt + 1 \in Attempts /\ b \in Nat
      /\ attempt' = attempt + 1
      /\ UNCHANGED <<tip, sent, landing>>
  BY CallFields DEF IInv, StartAttempt
<1>1. CASE b = attempt + 1
  <2>1. /\ call'[b].pc = "slot" /\ call'[b].result = "none"
    BY <1>0, <1>1 DEF StartAttempt, TypeOK, NotCalled
  <2>2. ~sent[b]
    BY <1>0, <1>1 DEF CallInv, FutureIsIdle, UnsentBefore, BeforeSend
  <2>3. ~(b > attempt') /\ ~(b < attempt')
    BY <1>0, <1>1
  <2> QED
    BY <1>0, <2>1, <2>2, <2>3
       DEF CallInv, UnsentBefore, RunningHasNoResult, LandsInTime,
           ReachedCommitment, ExpiredIsPast, FutureIsIdle, PastNeverLands, Landed, Refusals
<1>2. CASE b # attempt + 1
  <2>1. call'[b] = call[b]
    BY <1>0, <1>2 DEF StartAttempt, TypeOK
  <2>2. PastNeverLands(b)'
    <3>1. CASE b = attempt
      <4>1. attempt > 0 /\ MayResubmit(b)
        BY <1>0, <3>1 DEF StartAttempt, Attempts
      <4>2. CASE call[b].result \in Refusals
        BY <1>0, <2>1, <4>2 DEF CallInv, UnsentBefore, LandsInTime, PastNeverLands, Landed
      <4>3. CASE ResolvedAbsent(b)
        BY <1>0, <2>1, <4>3, AbsentIsAbsent DEF ResolvedAbsent, PastNeverLands, Landed
      <4> QED BY <4>1, <4>2, <4>3 DEF MayResubmit
    <3>2. CASE b # attempt
      <4>1. b < attempt' => b < attempt
        BY <1>0, <3>2
      <4> QED BY <1>0, <2>1, <4>1 DEF CallInv, PastNeverLands, Landed
    <3> QED BY <3>1, <3>2
  <2>3. FutureIsIdle(b)'
    BY <1>0, <2>1 DEF CallInv, FutureIsIdle
  <2> QED
    BY <1>0, <2>1, <2>2, <2>3
       DEF CallInv, UnsentBefore, RunningHasNoResult, LandsInTime,
           ReachedCommitment, ExpiredIsPast, Landed
<1> QED BY <1>1, <1>2

(* The invariant is inductive when a block of the required commitment is never
   dropped. *)
LEMMA NextInv ==
    ASSUME Commitment # Processed
    PROVE  IInv /\ [Next]_vars => IInv'
<1> SUFFICES ASSUME IInv, [Next]_vars PROVE IInv'
  OBVIOUS
<1>1. TypeOK'
  BY NextType DEF IInv
<1>2. ASSUME NEW a \in Attempts PROVE CallInv(a)'
  <2>1. CASE UNCHANGED vars
    <3>1. CallInv(a)
      BY DEF IInv
    <3>2. UNCHANGED <<tip, sent, landing, attempt, call>>
      BY <2>1 DEF vars
    <3> QED BY <3>1, <3>2, OtherCalls
  <2>2. CASE Next
    BY <2>2, ProduceInv, AdvanceInv, DropInv, StartInv, ReplyInv DEF Next
  <2> QED BY <2>1, <2>2
<1> QED BY <1>1, <1>2 DEF IInv

THEOREM Inductive ==
    ASSUME Commitment # Processed
    PROVE  Spec => []IInv
<1>1. Init => IInv
  BY InitInv
<1>2. IInv /\ [Next]_vars => IInv'
  BY NextInv
<1> QED BY <1>1, <1>2, PTL DEF Spec

----------------------------------------------------------------------------
(* Results. *)

(* A call that returned has settled, and no fork undoes it, for every number of
   attempts, lag, validity and poll limit. *)
THEOREM ReturnedSettles ==
    ASSUME Commitment # Processed
    PROVE  Spec => []ReturnedMeansSettled
<1>1. IInv => ReturnedMeansSettled
  BY DEF IInv, CallInv, ReachedCommitment, ReturnedMeansSettled
<1> QED BY <1>1, Inductive, PTL

(* A refusal before the send is definite. *)
THEOREM RefusalsAreDefinite ==
    ASSUME Commitment # Processed
    PROVE  Spec => []RefusalNeverSettles
<1>1. IInv => RefusalNeverSettles
  BY DEF IInv, CallInv, UnsentBefore, LandsInTime, RefusalNeverSettles
<1> QED BY <1>1, Inductive, PTL

(* Repeated calls of one request, as the operating guide allows them, settle it
   at most once: every attempt before the current one never lands, and none
   after it has been sent. *)
THEOREM SettlesAtMostOnce ==
    ASSUME Commitment # Processed
    PROVE  Spec => []AtMostOneSettlement
<1>1. ASSUME IInv, NEW a \in Attempts, Settled(a) PROVE a = attempt
  <2>1. TypeOK /\ CallInv(a) /\ Landed(a)
    BY <1>1 DEF IInv, Settled
  <2>2. ~(a < attempt)
    BY <2>1 DEF CallInv, PastNeverLands
  <2>3. ~(a > attempt)
    BY <2>1 DEF CallInv, FutureIsIdle, LandsInTime, UnsentBefore, BeforeSend
  <2> QED BY <2>1, <2>2, <2>3, CallFields
<1>2. IInv => AtMostOneSettlement
  BY <1>1 DEF AtMostOneSettlement
<1> QED BY <1>2, Inductive, PTL

(* Once a call reported expiry nothing lands for it any more and nothing that
   landed is dropped. *)
THEOREM ExpiryDecides ==
    ASSUME Commitment # Processed
    PROVE  Spec => ExpiryIsFinal
<1> DEFINE Final == \A a \in Attempts : call[a].result = "expired" => landing'[a] = landing[a]
<1>1. ASSUME IInv, [Next]_vars PROVE [Final]_vars
  <2>1. SUFFICES ASSUME NEW a \in Attempts, call[a].result = "expired"
                 PROVE  landing'[a] = landing[a]
    OBVIOUS
  <2>2. /\ TypeOK
        /\ call[a].lastValid < tip[Commitment] /\ tip[Commitment] <= tip[Processed]
        /\ tip[Commitment] <= tip[Confirmed]
        /\ landing[a].height <= call[a].lastValid \/ landing[a].height = 0
        /\ tip[Commitment] \in Nat /\ tip[Processed] \in Nat /\ tip[Confirmed] \in Nat
        /\ call[a].lastValid \in Nat /\ landing[a].height \in Nat
    <3>1. TypeOK /\ CallInv(a)
      BY <1>1 DEF IInv
    <3>2. /\ tip[Commitment] <= tip[Processed] /\ tip[Commitment] <= tip[Confirmed]
          /\ tip[Commitment] \in Nat /\ tip[Processed] \in Nat /\ tip[Confirmed] \in Nat
      BY <3>1, Tips, CommitmentAssumption DEF Rank, Processed, Confirmed, Finalized
    <3>3. landing[a].height <= call[a].lastValid \/ landing[a].height = 0
      BY <3>1, CallFields DEF CallInv, LandsInTime, Landed
    <3> QED BY <2>1, <3>1, <3>2, <3>3, CallFields DEF CallInv, ExpiredIsPast
  <2>3. CASE ProduceBlock
    BY <2>2, <2>3 DEF ProduceBlock, CanLand, TypeOK
  <2>4. CASE DropFork
    BY <2>2, <2>4 DEF DropFork, TypeOK
  <2>5. CASE AdvanceRoot \/ StartAttempt \/ UNCHANGED vars
    BY <2>5 DEF AdvanceRoot, StartAttempt, vars
  <2>6. CASE \E b \in Attempts : Reply(b)
    BY <2>6 DEF Reply, SlotReply, BlockhashReply, LookupReply, SimulationReply, SendReply,
           StatusReply, HeightReply, TransactionReply, EventsReply, RequestFails
  <2> QED BY <1>1, <2>3, <2>4, <2>5, <2>6 DEF Next
<1> QED BY <1>1, Inductive, PTL DEF Spec, ExpiryIsFinal

----------------------------------------------------------------------------
(* submitTransaction implements the abstract settlement client. *)

Effect == [a \in Attempts |-> EffectOf(a)]
Report == [a \in Attempts |-> ReportOf(a)]

(* What the mapped state of one attempt depends on. *)
LEMMA EffectFacts ==
    ASSUME IInv, NEW a \in Attempts
    PROVE  /\ EffectOf(a) = "absent" <=> ~sent[a]
           /\ EffectOf(a) = "settled" <=> Settled(a) /\ landing[a].height <= tip[Confirmed]
           /\ EffectOf(a) \in {"absent", "pending", "settled"}
<1>1. CallInv(a)
  BY DEF IInv
<1> QED BY <1>1 DEF EffectOf, Settled, CallInv, LandsInTime

(* The effect of an attempt the cluster and the call leave alone is unchanged. *)
LEMMA EffectSame ==
    ASSUME UNCHANGED <<tip, landing>>, NEW a \in Attempts, sent'[a] = sent[a]
    PROVE  EffectOf(a)' = EffectOf(a)
BY DEF EffectOf, Settled, Landed

(* Blocks that come and go change no effect; a risen root settles some. *)
LEMMA ClusterStep ==
    ASSUME Commitment # Processed, IInv, ProduceBlock \/ AdvanceRoot \/ DropFork
    PROVE  /\ Report' = Report
           /\ Effect' = Effect \/ Outcome!Next
<1>0. TypeOK
  BY DEF IInv
<1>1. Report' = Report
  BY DEF Report, ReportOf, ProduceBlock, AdvanceRoot, DropFork
<1>2. CASE ProduceBlock
  <2>1. ASSUME NEW a \in Attempts PROVE EffectOf(a)' = EffectOf(a)
    <3>1. tip'[Confirmed] = tip[Confirmed] /\ sent' = sent
      BY <1>0, <1>2 DEF ProduceBlock, TypeOK, Confirmed, Processed
    <3>2. /\ tip[Confirmed] <= tip[Processed]
          /\ tip[Confirmed] \in Nat /\ tip[Processed] \in Nat
      BY <1>0, Tips DEF Rank
    <3>3. CASE landing'[a] = landing[a]
      BY <3>1, <3>3 DEF EffectOf, Settled, Landed
    <3>4. CASE ~Landed(a) /\ landing'[a].height = tip[Processed] + 1
      BY <3>1, <3>2, <3>4 DEF EffectOf, Settled
    <3> QED BY <1>2, <3>3, <3>4 DEF ProduceBlock, CanLand
  <2> QED BY <1>1, <2>1 DEF Effect
<1>3. CASE DropFork
  <2>1. ASSUME NEW a \in Attempts PROVE EffectOf(a)' = EffectOf(a)
    <3>1. PICK height \in tip[Confirmed]..(tip[Processed] - 1) :
            /\ tip' = [tip EXCEPT ![Processed] = height]
            /\ landing' = [b \in Attempts |->
                             IF landing[b].height > height THEN NotLanded ELSE landing[b]]
      BY <1>3 DEF DropFork
    <3>2. /\ tip'[Confirmed] = tip[Confirmed] /\ sent' = sent
          /\ tip[Confirmed] \in Nat /\ height \in Nat /\ tip[Confirmed] <= height
      BY <1>0, <1>3, <3>1 DEF DropFork, TypeOK, Rank, Confirmed, Processed
    <3>3. CASE landing[a].height > height
      BY <1>0, <3>1, <3>2, <3>3, CallFields DEF EffectOf, Settled, Landed, NotLanded
    <3>4. CASE ~(landing[a].height > height)
      BY <3>1, <3>2, <3>4 DEF EffectOf, Settled, Landed
    <3> QED BY <3>3, <3>4
  <2> QED BY <1>1, <2>1 DEF Effect
<1>4. CASE AdvanceRoot
  <2> DEFINE S == {a \in Attempts : EffectOf(a) # "settled" /\ EffectOf(a)' = "settled"}
  <2>1. /\ sent' = sent /\ landing' = landing
        /\ tip[Confirmed] \in Nat /\ tip'[Confirmed] \in Nat
        /\ tip[Confirmed] <= tip'[Confirmed]
    BY <1>0, <1>4 DEF AdvanceRoot, TypeOK, Rank, Processed, Confirmed, Finalized
  <2>2. IInv'
    BY <1>4, NextInv DEF Next
  <2>3. ASSUME NEW a \in S PROVE EffectOf(a) = "pending"
    <3>1. sent[a]
      BY <2>1, <2>2, EffectFacts DEF IInv, CallInv, LandsInTime, Settled, Landed, EffectOf
    <3> QED BY <3>1, EffectFacts
  <2>4. ASSUME NEW a \in Attempts
        PROVE  EffectOf(a)' = (IF a \in S THEN "settled" ELSE EffectOf(a))
    <3>1. landing[a].height \in Nat
      BY <1>0, CallFields
    <3>2. CASE EffectOf(a) = "settled"
      BY <2>1, <3>1, <3>2 DEF EffectOf, Settled, Landed
    <3>3. CASE EffectOf(a) # "settled" /\ EffectOf(a)' # "settled"
      BY <2>1, <3>3 DEF EffectOf
    <3> QED BY <3>2, <3>3
  <2>5. Outcome!Settle(S)
    BY <1>1, <2>3, <2>4 DEF Outcome!Settle, Report
  <2> HIDE DEF S
  <2>6. S \in SUBSET Attempts
    BY DEF S
  <2> QED BY <1>1, <2>5, <2>6 DEF Outcome!Next
<1> QED BY <1>1, <1>2, <1>3, <1>4

(* A reply that does not end the call and sends nothing is invisible. *)
LEMMA InvisibleReply ==
    ASSUME IInv, NEW a \in Attempts, UNCHANGED <<tip, sent, landing>>,
           \A b \in Attempts : call'[b].result = call[b].result
    PROVE  Effect' = Effect /\ Report' = Report
<1>1. ASSUME NEW b \in Attempts PROVE EffectOf(b)' = EffectOf(b) /\ ReportOf(b)' = ReportOf(b)
  BY EffectSame DEF ReportOf
<1> QED BY <1>1 DEF Effect, Report

(* A running call is an open request. *)
LEMMA RunningIsOpen ==
    ASSUME IInv, NEW a \in Attempts, call[a].pc \in Awaiting
    PROVE  Report[a] = "open"
<1>1. call[a].result = "none"
  BY DEF IInv, CallInv, RunningHasNoResult, Awaiting
<1> QED BY <1>1 DEF Report, ReportOf

(* An error that ends a running call is a refusal or leaves the caller not
   knowing, with or without the transaction having got through. *)
LEMMA ThrowStep ==
    ASSUME IInv, NEW a \in Attempts, call[a].pc \in Awaiting,
           NEW result \in Results \ {"ok", "none"}, NEW signature \in BOOLEAN,
           Throw(a, result, signature), UNCHANGED <<tip, landing>>,
           \/ UNCHANGED sent
           \/ ~sent[a] /\ sent' = [sent EXCEPT ![a] = TRUE] /\ result \notin Refusals,
           result \in Refusals => ~sent[a]
    PROVE  Outcome!Next
<1>0. TypeOK /\ CallInv(a) /\ Report[a] = "open"
  BY RunningIsOpen DEF IInv
<1>1. /\ call'[a].result = result
      /\ \A b \in Attempts \ {a} : call'[b].result = call[b].result
  BY <1>0 DEF Throw, TypeOK, Calls
<1>2. Report' = [Report EXCEPT ![a] = IF result \in Refusals THEN "refused" ELSE "unknown"]
  BY <1>1 DEF Report, ReportOf
<1>3. CASE UNCHANGED sent
  <2>1. Effect' = Effect
    BY <1>3, EffectSame DEF Effect
  <2>2. CASE result \in Refusals
    <3>1. Effect[a] = "absent"
      BY <2>2, EffectFacts DEF Effect
    <3>2. Outcome!Refuse(a)
      BY <1>0, <1>2, <2>1, <2>2, <3>1 DEF Outcome!Refuse, Effect, Report
    <3> QED BY <3>2 DEF Outcome!Next
  <2>3. CASE result \notin Refusals
    <3>1. Outcome!LoseTrack(a)
      BY <1>0, <1>2, <2>1, <2>3 DEF Outcome!LoseTrack, Effect, Report
    <3> QED BY <3>1 DEF Outcome!Next
  <2> QED BY <2>2, <2>3
<1>4. CASE ~sent[a] /\ sent' = [sent EXCEPT ![a] = TRUE] /\ result \notin Refusals
  <2>1. Effect[a] = "absent" /\ ~Landed(a)
    BY <1>0, <1>4, EffectFacts DEF Effect, CallInv, LandsInTime
  <2>2. EffectOf(a)' = "pending"
    BY <1>0, <1>4, <2>1 DEF EffectOf, Settled, Landed, TypeOK
  <2>3. Effect' = [Effect EXCEPT ![a] = "pending"]
    BY <1>0, <1>4, <2>2, EffectSame DEF Effect, TypeOK
  <2>4. Outcome!LoseTrack(a)
    BY <1>0, <1>2, <1>4, <2>1, <2>3 DEF Outcome!LoseTrack, Effect, Report
  <2> QED BY <2>4 DEF Outcome!Next
<1> QED BY <1>3, <1>4

(* A reply maps to one step of the abstract client or to none. *)
LEMMA ReplyStep ==
    ASSUME Commitment # Processed, IInv, NEW a \in Attempts, Reply(a)
    PROVE  (Effect' = Effect /\ Report' = Report) \/ Outcome!Next
<1> DEFINE Same == UNCHANGED <<tip, sent, landing, attempt>>
           Goal == (Effect' = Effect /\ Report' = Report) \/ Outcome!Next
<1>0. TypeOK /\ CallInv(a)
  BY DEF IInv
<1>1. call[a].pc \in Awaiting
  BY DEF Reply, At, SlotReply, BlockhashReply, LookupReply, SimulationReply, SendReply,
         StatusReply, HeightReply, TransactionReply, EventsReply, RequestFails, Awaiting
<1>2. call[a].pc \in BeforeSend => ~sent[a]
  BY <1>0 DEF CallInv, UnsentBefore
<1>G. ASSUME NEW pc, Goto(a, pc), Same PROVE Goal
  <2>1. \A b \in Attempts : call'[b].result = call[b].result
    BY <1>0, <1>G DEF Goto, TypeOK, Calls
  <2> QED BY <1>G, <2>1, InvisibleReply
<1>T. ASSUME NEW result \in Results \ {"ok", "none"}, NEW signature \in BOOLEAN,
             Throw(a, result, signature), Same, result \in Refusals => ~sent[a]
      PROVE  Goal
  BY <1>1, <1>T, ThrowStep
<1>11. CASE SlotReply(a)
  <2>1. ~sent[a] /\ Same
    BY <1>2, <1>11 DEF SlotReply, At, BeforeSend
  <2>2. \/ Throw(a, "inspectionExpired", FALSE) \/ Throw(a, "notReady", FALSE)
        \/ Goto(a, "blockhash")
    BY <1>11 DEF SlotReply
  <2> QED BY <1>G, <1>T, <2>1, <2>2 DEF Results, Refusals
<1>12. CASE BlockhashReply(a)
  <2>1. /\ Same
        /\ \A b \in Attempts : call'[b].result = call[b].result
    BY <1>0, <1>12 DEF BlockhashReply, TypeOK, Calls
  <2> QED BY <2>1, InvisibleReply
<1>13. CASE LookupReply(a)
  BY <1>13, <1>G DEF LookupReply
<1>14. CASE SimulationReply(a)
  <2>1. ~sent[a] /\ Same
    BY <1>2, <1>14 DEF SimulationReply, At, BeforeSend
  <2>2. Goto(a, "send") \/ Throw(a, "simulation", FALSE)
    BY <1>14 DEF SimulationReply
  <2> QED BY <1>G, <1>T, <2>1, <2>2 DEF Results, Refusals
<1>15. CASE SendReply(a)
  <2>1. ~sent[a] /\ UNCHANGED <<tip, landing, attempt>>
    BY <1>2, <1>15 DEF SendReply, At, BeforeSend
  <2>2. "submission" \in Results \ {"ok", "none"} /\ "submission" \notin Refusals
    BY DEF Results, Refusals
  <2>3. CASE Throw(a, "submission", FALSE) /\ UNCHANGED sent
    BY <1>1, <2>1, <2>2, <2>3, ThrowStep
  <2>4. CASE Throw(a, "submission", FALSE) /\ sent' = [sent EXCEPT ![a] = TRUE]
    BY <1>1, <2>1, <2>2, <2>4, ThrowStep
  <2>5. CASE Goto(a, "status") /\ sent' = [sent EXCEPT ![a] = TRUE]
    <3>1. Report' = Report
      BY <1>0, <2>5 DEF Goto, Report, ReportOf, TypeOK, Calls
    <3>2. Effect[a] = "absent" /\ ~Landed(a) /\ Report[a] = "open"
      BY <1>0, <1>1, <2>1, EffectFacts, RunningIsOpen DEF Effect, CallInv, LandsInTime
    <3>3. EffectOf(a)' = "pending"
      BY <1>0, <2>1, <2>5, <3>2 DEF EffectOf, Settled, Landed, TypeOK
    <3>4. Effect' = [Effect EXCEPT ![a] = "pending"]
      BY <1>0, <2>1, <2>5, <3>3, EffectSame DEF Effect, TypeOK
    <3>5. Outcome!Submit(a)
      BY <3>1, <3>2, <3>4 DEF Outcome!Submit, Effect, Report
    <3> QED BY <3>5 DEF Outcome!Next
  <2> QED BY <1>15, <2>3, <2>4, <2>5 DEF SendReply
<1>16. CASE StatusReply(a)
  <2>1. Throw(a, "failed", TRUE) \/ Goto(a, "transaction") \/ Goto(a, "height")
    BY <1>16 DEF StatusReply
  <2>2. Same
    BY <1>16 DEF StatusReply
  <2> QED BY <1>G, <1>T, <2>1, <2>2 DEF Results, Refusals
<1>17. CASE HeightReply(a)
  <2>1. \/ Throw(a, "expired", TRUE) \/ Throw(a, "pollLimit", TRUE)
        \/ call' = [call EXCEPT ![a].pc = "status", ![a].polls = @ + 1]
    BY <1>17 DEF HeightReply
  <2>2. Same
    BY <1>17 DEF HeightReply
  <2>3. CASE call' = [call EXCEPT ![a].pc = "status", ![a].polls = @ + 1]
    <3>1. \A b \in Attempts : call'[b].result = call[b].result
      BY <1>0, <2>3 DEF TypeOK, Calls
    <3> QED BY <2>2, <3>1, InvisibleReply
  <2> QED BY <1>T, <2>1, <2>2, <2>3 DEF Results, Refusals
<1>18. CASE TransactionReply(a)
  BY <1>18, <1>G DEF TransactionReply
<1>19. CASE EventsReply(a)
  <2>1. Same
    BY <1>19 DEF EventsReply
  <2>2. Effect' = Effect
    BY <2>1, EffectSame DEF Effect
  <2>3. /\ call'[a].result = "ok"
        /\ \A b \in Attempts \ {a} : call'[b].result = call[b].result
    BY <1>0, <1>19 DEF EventsReply, TypeOK, Calls
  <2>4. Report' = [Report EXCEPT ![a] = "acknowledged"]
    BY <2>3 DEF Report, ReportOf, Refusals
  <2>5. Settled(a) /\ landing[a].height <= tip[Commitment]
    BY <1>0, <1>19 DEF EventsReply, At, CallInv, ReachedCommitment, Settled
  <2>6. /\ tip[Commitment] <= tip[Confirmed]
        /\ tip[Commitment] \in Nat /\ tip[Confirmed] \in Nat
    BY <1>0, Tips, CommitmentAssumption DEF Rank, Processed, Confirmed, Finalized
  <2>7. Effect[a] = "settled"
    BY <1>0, <2>5, <2>6, EffectFacts, CallFields DEF Effect
  <2>8. Outcome!Acknowledge(a)
    BY <1>1, <2>2, <2>4, <2>7, RunningIsOpen DEF Outcome!Acknowledge, Effect, Report
  <2> QED BY <2>8 DEF Outcome!Next
<1>20. CASE RequestFails(a)
  <2>1. /\ call[a].pc \in Awaiting \ {"send"} /\ Same
        /\ Throw(a, ErrorResult(call[a].pc), FALSE)
    BY <1>20 DEF RequestFails
  <2>2. /\ ErrorResult(call[a].pc) \in Results \ {"ok", "none"}
        /\ ErrorResult(call[a].pc) \in Refusals => call[a].pc \in BeforeSend
    BY <2>1 DEF ErrorResult, Awaiting, Results, Refusals, BeforeSend
  <2> QED BY <1>2, <1>T, <2>1, <2>2
<1> QED
  BY <1>11, <1>12, <1>13, <1>14, <1>15, <1>16, <1>17, <1>18, <1>19, <1>20 DEF Reply

(* Each result of submitTransaction is a true report of the chain: with every
   error after the send read as "unknown", the calls implement the abstract
   settlement client. *)
THEOREM SubmissionImplementsOutcome ==
    ASSUME Commitment # Processed
    PROVE  Spec => ImplementsOutcome
<1>1. Init => Outcome!Init
  BY DEF Init, Outcome!Init, EffectOf, ReportOf, Settled, Landed, NotLanded, NotCalled
<1>2. ASSUME IInv, [Next]_vars PROVE [Outcome!Next]_(Outcome!vars)
  <2>1. CASE ProduceBlock \/ AdvanceRoot \/ DropFork
    BY <1>2, <2>1, ClusterStep DEF Outcome!vars, Effect, Report
  <2>2. CASE \E a \in Attempts : Reply(a)
    BY <1>2, <2>2, ReplyStep DEF Outcome!vars, Effect, Report
  <2>3. CASE StartAttempt
    <3>1. TypeOK /\ attempt + 1 \in Attempts /\ CallInv(attempt + 1)
      BY <1>2, <2>3 DEF IInv, StartAttempt
    <3>2. call[attempt + 1].result = "none"
      BY <3>1, CallFields DEF CallInv, FutureIsIdle, RunningHasNoResult
    <3>3. \A b \in Attempts : call'[b].result = call[b].result
      BY <2>3, <3>1, <3>2 DEF StartAttempt, TypeOK, NotCalled
    <3>4. UNCHANGED <<tip, sent, landing>>
      BY <2>3 DEF StartAttempt
    <3> QED BY <1>2, <3>1, <3>3, <3>4, InvisibleReply DEF Outcome!vars, Effect, Report
  <2>4. CASE UNCHANGED vars
    BY <1>2, <2>4
       DEF vars, Outcome!vars, EffectOf, ReportOf, Settled, Landed
  <2> QED BY <1>2, <2>1, <2>2, <2>3, <2>4 DEF Next
<1> QED BY <1>1, <1>2, Inductive, PTL DEF Spec, ImplementsOutcome, Outcome!Spec
=============================================================================
