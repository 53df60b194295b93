-------------------------- MODULE TransactionEvents ---------------------------
(***************************************************************************)
(* The evidence of a settlement: after a signed message was executed, a    *)
(* client fetches the transaction and decodes the events the program       *)
(* emitted by calling itself.  The node reports every inner instruction by *)
(* indexes into the message's keys followed by the loaded ones, so that    *)
(* what a program, an event authority or a parent instruction is depends   *)
(* on the client rebuilding that list of keys.                             *)
(***************************************************************************)
EXTENDS MessageCompilation

(* The data of an inner instruction is "event", an event of the schema;
   "laterEvent", one of a later schema; "trailingBytes", one of the schema with
   bytes left over; or "call", any data without the event prefix. *)
CONSTANTS
    ChanceryProgram, EventAuthority,
    InnerSequences, \* the calls one instruction may make: sequences of [program, accounts, data]
    MaxExecuted     \* messages with more mentions are not executed

Calls == [program: Programs, accounts: Seq(Keys),
          data: {"call", "event", "laterEvent", "trailingBytes"}]

ASSUME InnerAssumption == InnerSequences \subseteq Seq(Calls)

VARIABLES
    outcome,    \* "unsent", then "succeeded" or "failed"
    trace,      \* trace[i]: the calls instruction i of a successful transaction made
    evidence    \* the result of decodeTransactionEvidence, once there is one

eventVars == <<outcome, trace, evidence>>

(* recorded is the node's, unknown to the client: it keeps inner instructions. *)
Evidence(result, recorded, events) ==
    [result |-> result, recorded |-> recorded, events |-> events]

EventInit ==
    /\ Init
    /\ outcome = "unsent"
    /\ trace = <<>>
    /\ evidence = Evidence("none", FALSE, <<>>)

----------------------------------------------------------------------------
(* External: execution, and how a node reports it. *)

RuntimeKeys(m, known) ==
    LET accounts == RuntimeAccounts(m, known)
    IN  [i \in DOMAIN accounts |-> accounts[i].address]

(* A program can call with the accounts of the transaction only. *)
Executable(m, known) ==
    LET keys == Range(RuntimeKeys(m, known))
    IN  {calls \in InnerSequences : \A k \in DOMAIN calls :
            {calls[k].program} \cup Range(calls[k].accounts) \subseteq keys}

Execute ==
    /\ status = "signed" /\ outcome = "unsent" /\ Mentioned <= MaxExecuted
    /\ \/ outcome' = "succeeded" /\ trace' \in [DOMAIN instructions -> Executable(message, tables)]
       \/ outcome' = "failed" /\ UNCHANGED trace
    /\ UNCHANGED evidence /\ UNCHANGED vars

RpcInstruction(call, keys) ==
    [programIdIndex |-> CompiledIndex(keys, call.program),
     accounts       |-> [j \in DOMAIN call.accounts |-> CompiledIndex(keys, call.accounts[j])],
     data           |-> call.data]

(* The calls of each instruction that made any. *)
RpcGroups(calls, keys) ==
    At([i \in DOMAIN calls |->
          [index        |-> i - 1,
           instructions |-> [k \in DOMAIN calls[i] |-> RpcInstruction(calls[i][k], keys)]]],
       {i \in DOMAIN calls : calls[i] # <<>>})

RpcTransaction(failed, calls, m, known) ==
    [err |-> failed,
     accountKeys |-> m.accountKeys,
     writable |-> WritableLoadedAddresses(m.lookups, known),
     readonly |-> ReadonlyLoadedAddresses(m.lookups, known),
     innerInstructions |-> RpcGroups(calls, RuntimeKeys(m, known))]

----------------------------------------------------------------------------
(* The client. *)

(* A plausible bug: the loaded keys are forgotten. *)
RpcAccountKeysStatic(tx) == tx.accountKeys

RpcAccountKeys(tx) == tx.accountKeys \o tx.writable \o tx.readonly

(* An index no key has: of a program, or of an account of the Chancery program. *)
UnavailableKey(tx) ==
    LET keys == RpcAccountKeys(tx) IN
    \E g \in DOMAIN tx.innerInstructions :
        \E inner \in Range(tx.innerInstructions[g].instructions) :
            \/ inner.programIdIndex >= Len(keys)
            \/ /\ keys[inner.programIdIndex + 1] = ChanceryProgram
               /\ \E index \in Range(inner.accounts) : index >= Len(keys)

InstructionAccountAddresses(accounts, keys) ==
    [j \in DOMAIN accounts |-> keys[accounts[j] + 1]]

Occurrences(group, keys) ==
    [k \in DOMAIN group.instructions |->
        [programAddress         |-> keys[group.instructions[k].programIdIndex + 1],
         accounts               |-> group.instructions[k].accounts,
         data                   |-> group.instructions[k].data,
         parentInstructionIndex |-> group.index,
         innerInstructionIndex  |-> k - 1]]

(* The Chancery program's inner instructions, in the order they are reported. *)
ExtractInnerInstructions(tx) ==
    LET keys == RpcAccountKeys(tx)
        all  == FlattenSeq([g \in DOMAIN tx.innerInstructions |->
                              Occurrences(tx.innerInstructions[g], keys)])
        own  == At(all, {n \in DOMAIN all : all[n].programAddress = ChanceryProgram})
    IN  [n \in DOMAIN own |-> [own[n] EXCEPT
            !.accounts = InstructionAccountAddresses(@, keys)]]

(* A plausible bug: whoever is named first may emit. *)
IsEventCpiByAnyone(inner) == inner.data # "call" /\ inner.accounts # <<>>

IsEventCpi(inner) ==
    /\ inner.data # "call"
    /\ inner.accounts # <<>> /\ inner.accounts[1] = EventAuthority

(* What decoding data with the event prefix comes to. *)
DecodeEventData(data) ==
    IF data = "event" THEN "decoded" ELSE IF data = "laterEvent" THEN "unknown" ELSE "error"

(* An unknown discriminator is passed over, any other decoding error is not. *)
DecodeEvents(inner) ==
    LET own     == {n \in DOMAIN inner : IsEventCpi(inner[n])}
        decoded == At(inner, {n \in own : DecodeEventData(inner[n].data) = "decoded"})
    IN  IF \E n \in own : DecodeEventData(inner[n].data) = "error"
        THEN Evidence("error", TRUE, <<>>)
        ELSE Evidence("decoded", TRUE,
                [n \in DOMAIN decoded |-> <<decoded[n].parentInstructionIndex,
                                            decoded[n].innerInstructionIndex>>])

(* getChanceryEvents: the node does not know the transaction, or reports it
   with or without its inner instructions. *)
DecodeTransactionEvidence ==
    /\ outcome # "unsent" /\ evidence.result = "none"
    /\ LET tx == RpcTransaction(outcome = "failed", trace, message, tables) IN
       \/ evidence' = Evidence("null", FALSE, <<>>)
       \/ tx.err /\ evidence' = Evidence("error", TRUE, <<>>)
       \/ ~tx.err /\ evidence' = Evidence("decoded", FALSE, <<>>)
       \/ /\ ~tx.err
          /\ evidence' = IF UnavailableKey(tx) THEN Evidence("error", TRUE, <<>>)
                         ELSE DecodeEvents(ExtractInnerInstructions(tx))
    /\ UNCHANGED <<outcome, trace>> /\ UNCHANGED vars

EventNext ==
    \/ Next /\ outcome = "unsent" /\ UNCHANGED eventVars
    \/ Execute
    \/ DecodeTransactionEvidence

EventSpec == EventInit /\ [][EventNext]_<<vars, eventVars>>

----------------------------------------------------------------------------
(* Properties. *)

(* The events of the chain: the calls of Chancery that its own authority signed. *)
Emitted(kinds) ==
    UNION {{<<i - 1, k - 1>> : k \in
              {k \in DOMAIN trace[i] :
                 /\ trace[i][k].program = ChanceryProgram
                 /\ trace[i][k].data \in kinds
                 /\ trace[i][k].accounts # <<>>
                 /\ trace[i][k].accounts[1] = EventAuthority}} : i \in DOMAIN trace}

Precedes(p, q) == p[1] < q[1] \/ (p[1] = q[1] /\ p[2] < q[2])

(* When the node reports inner instructions, decodeTransactionEvidence returns
   the events the program emitted in a successful transaction, each once, in
   the order of execution, under the instruction that caused it: no call made
   by or with anyone else passes for an event, however the keys were split
   between the message and its lookup tables. *)
EvidenceIsTheProgramsOwn ==
    evidence.result = "decoded" /\ evidence.recorded =>
        /\ outcome = "succeeded"
        /\ Range(evidence.events) = Emitted({"event"})
        /\ \A m, n \in DOMAIN evidence.events :
             m < n => Precedes(evidence.events[m], evidence.events[n])

(* Decoding fails only for a reason in the transaction itself: it failed on the
   chain, or the program emitted an event that does not have the layout of the
   schema. *)
EvidenceErrorsAreReal ==
    evidence.result = "error" =>
        outcome = "failed" \/ Emitted({"trailingBytes"}) # {}
=============================================================================
