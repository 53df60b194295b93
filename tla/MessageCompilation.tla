-------------------------- MODULE MessageCompilation --------------------------
(***************************************************************************)
(* From instructions to a Solana message: the accounts all instructions    *)
(* mention are merged, some are moved into address lookup tables, the rest *)
(* is ordered by privilege, and every mention becomes a one-byte index.    *)
(* Nothing in the message repeats who may sign or be written: the runtime  *)
(* infers it from three counts and from positions.  The Squads vault       *)
(* message is the same message with other counts, executed from a list of  *)
(* accounts the client resolves itself.                                    *)
(*                                                                         *)
(* The caller adds instructions, compiles them as a transaction and signs  *)
(* it, or as a vault message; lookup tables may grow in the meantime.      *)
(***************************************************************************)
EXTENDS Integers, Sequences, FiniteSetsExt, Functions, SequencesExt

CONSTANTS
    Addresses,          \* accounts an instruction may mention
    Programs,           \* programs it may invoke
    FeePayer,           \* the fee payer, or the vault
    EphemeralSigners,   \* further addresses the Squads program signs for
    TableChoices,       \* lookup tables of a request: sequences of sequences
    MaxKeys,            \* 256: what a one-byte index can tell apart
    MaxInstructions, MaxMentions, MaxTableLength

ASSUME PayerAssumption == FeePayer \notin Programs
ASSUME KeysAssumption == MaxKeys \in Nat \ {0}

Keys == Addresses \cup Programs \cup {FeePayer}

ASSUME TablesAssumption == TableChoices \subseteq Seq(Seq(Keys))

VARIABLES
    instructions,   \* the caller's, in order: [program, accounts]
    tables,         \* the lookup tables, as they are on the chain now
    status,         \* "building", then what became of the request
    message,        \* the compiled message
    executeAccounts,\* vault only: the accounts passed to its execution
    signatures      \* signatures[k]: whose key made the k-th signature

vars == <<instructions, tables, status, message, executeAccounts, signatures>>

NoMessage == [accountKeys |-> <<>>, numSigners |-> 0, readonlySigned |-> 0,
              readonlyUnsigned |-> 0, instructions |-> <<>>, lookups |-> <<>>]

Init ==
    /\ instructions = <<>>
    /\ tables \in TableChoices
    /\ status = "building"
    /\ message = NoMessage
    /\ executeAccounts = <<>>
    /\ signatures = <<>>

----------------------------------------------------------------------------
(* The caller's instructions, and the growth of tables on the chain. *)

AccountMetas == [address: Addresses, isSigner: BOOLEAN, isWritable: BOOLEAN]

Instructions == [program: Programs, accounts: Seq(AccountMetas)]

Mentioned == Len(FlattenSeq([i \in DOMAIN instructions |-> instructions[i].accounts]))

BeginInstruction ==
    /\ status = "building" /\ Len(instructions) < MaxInstructions
    /\ \E p \in Programs :
         instructions' = Append(instructions, [program |-> p, accounts |-> <<>>])
    /\ UNCHANGED <<tables, status, message, executeAccounts, signatures>>

AddAccount ==
    /\ status = "building" /\ instructions # <<>> /\ Mentioned < MaxMentions
    /\ \E meta \in AccountMetas :
         instructions' = [instructions EXCEPT ![Len(instructions)].accounts = Append(@, meta)]
    /\ UNCHANGED <<tables, status, message, executeAccounts, signatures>>

(* External: tables are append-only, and may grow until the message is executed. *)
ExtendTable ==
    /\ status \in {"signed", "vault"}
    /\ \E t \in DOMAIN tables : \E x \in Addresses :
         /\ Len(tables[t]) < MaxTableLength
         /\ tables' = [tables EXCEPT ![t] = Append(@, x)]
    /\ UNCHANGED <<instructions, status, message, executeAccounts, signatures>>

----------------------------------------------------------------------------
(* Merging. *)

Mention(address, isSigner, isWritable, isProgram) ==
    [address |-> address, isSigner |-> isSigner, isWritable |-> isWritable,
     isProgram |-> isProgram]

InstructionMentions(ins) ==
    [j \in DOMAIN ins.accounts |->
        Mention(ins.accounts[j].address, ins.accounts[j].isSigner,
                ins.accounts[j].isWritable, FALSE)]
    \o <<Mention(ins.program, FALSE, FALSE, TRUE)>>

(* Every mention in order; its position is the firstSeenIndex it is merged with. *)
Mentions(requested) ==
    <<Mention(FeePayer, TRUE, TRUE, FALSE)>> \o
    FlattenSeq([i \in DOMAIN requested |-> InstructionMentions(requested[i])])

MergeAccountMeta(mentions, address) ==
    LET at == {i \in DOMAIN mentions : mentions[i].address = address}
    IN  [address |-> address, firstSeenIndex |-> Min(at),
         isSigner   |-> \E i \in at : mentions[i].isSigner,
         isWritable |-> \E i \in at : mentions[i].isWritable,
         isProgram  |-> \E i \in at : mentions[i].isProgram]

AggregateAccountMetas(requested) ==
    LET mentions == Mentions(requested)
    IN  {MergeAccountMeta(mentions, x) : x \in {m.address : m \in Range(mentions)}}

----------------------------------------------------------------------------
(* Ordering. *)

(* S in the strict total order before: the i-th has i - 1 elements before it. *)
InOrder(S, before) ==
    [i \in 1..Cardinality(S) |->
        CHOOSE x \in S : Cardinality({y \in S : <<y, x>> \in before}) = i - 1]

(* The elements of s at some of its positions, in the order of s. *)
At(s, positions) ==
    LET order == InOrder(positions, {p \in positions \X positions : p[1] < p[2]})
    IN  [i \in DOMAIN order |-> s[order[i]]]

(* A plausible bug: written accounts first, signers among them. *)
AccountOrderGroupWritable(m) ==
    (IF m.isWritable THEN 0 ELSE 2) + (IF m.isSigner THEN 0 ELSE 1)

AccountOrderGroup(m) ==
    (IF m.isSigner THEN 0 ELSE 2) + (IF m.isWritable THEN 0 ELSE 1)

FirstSeen(metas) ==
    {p \in metas \X metas : p[1].firstSeenIndex < p[2].firstSeenIndex}

CompareStatic(metas) ==
    {p \in metas \X metas :
        \/ AccountOrderGroup(p[1]) < AccountOrderGroup(p[2])
        \/ /\ AccountOrderGroup(p[1]) = AccountOrderGroup(p[2])
           /\ p[1].firstSeenIndex < p[2].firstSeenIndex}

OrderStaticAccountMetas(metas) == InOrder(metas, CompareStatic(metas))

----------------------------------------------------------------------------
(* Lookup tables.  A table is named by its position in the request. *)

TablesWith(m, known) == {t \in DOMAIN known : m.address \in Range(known[t])}

(* A signer (so the fee payer) and a program stay in the message itself. *)
Placed(m, known) == ~m.isSigner /\ ~m.isProgram /\ TablesWith(m, known) # {}

(* In the first table with the address. *)
PlacedIn(metas, known, t, isWritable) ==
    {m \in metas : /\ Placed(m, known) /\ m.isWritable = isWritable
                   /\ Min(TablesWith(m, known)) = t}

(* The first entry with the address, from 0. *)
LookupIndexes(metas, known, t, isWritable) ==
    LET here    == PlacedIn(metas, known, t, isWritable)
        ordered == InOrder(here, FirstSeen(here))
    IN  [i \in DOMAIN ordered |->
            Min({j \in DOMAIN known[t] : known[t][j] = ordered[i].address}) - 1]

Lookup(metas, known, t) ==
    [table           |-> t,
     writableIndexes |-> LookupIndexes(metas, known, t, TRUE),
     readonlyIndexes |-> LookupIndexes(metas, known, t, FALSE)]

(* Tables nothing was placed in are left out. *)
PlaceAccountsInLookupTables(metas, known) ==
    LET lookups == [t \in DOMAIN known |-> Lookup(metas, known, t)]
    IN  At(lookups, {t \in DOMAIN known : \/ lookups[t].writableIndexes # <<>>
                                         \/ lookups[t].readonlyIndexes # <<>>})

AddressesAt(known, t, indexes) == [i \in DOMAIN indexes |-> known[t][indexes[i] + 1]]

(* The loaded accounts in the order the runtime loads them: those written of
   all tables, then those read of all tables. *)
WritableLoadedAddresses(lookups, known) ==
    FlattenSeq([k \in DOMAIN lookups |->
                  AddressesAt(known, lookups[k].table, lookups[k].writableIndexes)])
ReadonlyLoadedAddresses(lookups, known) ==
    FlattenSeq([k \in DOMAIN lookups |->
                  AddressesAt(known, lookups[k].table, lookups[k].readonlyIndexes)])

----------------------------------------------------------------------------
(* The message. *)

(* A plausible bug: table by table, each with its writable and readonly part. *)
AccountKeysByTable(static, lookups, known) ==
    static \o FlattenSeq([k \in DOMAIN lookups |->
        AddressesAt(known, lookups[k].table, lookups[k].writableIndexes)
        \o AddressesAt(known, lookups[k].table, lookups[k].readonlyIndexes)])

(* accountIndexByAddress, as the sequence of all keys. *)
AccountKeys(static, lookups, known) ==
    static \o WritableLoadedAddresses(lookups, known) \o ReadonlyLoadedAddresses(lookups, known)

CompiledIndex(keys, address) ==
    Min({k \in DOMAIN keys : keys[k] = address}) - 1

CompileInstructions(requested, keys) ==
    [i \in DOMAIN requested |->
        [program  |-> CompiledIndex(keys, requested[i].program),
         accounts |-> [j \in DOMAIN requested[i].accounts |->
                         CompiledIndex(keys, requested[i].accounts[j].address)]]]

CompileMessage(requested, known) ==
    LET metas       == AggregateAccountMetas(requested)
        staticMetas == {m \in metas : ~Placed(m, known)}
        ordered     == OrderStaticAccountMetas(staticMetas)
        static      == [i \in DOMAIN ordered |-> ordered[i].address]
        lookups     == PlaceAccountsInLookupTables(metas, known)
    IN  [accountKeys      |-> static,
         numSigners       |-> Cardinality({m \in staticMetas : m.isSigner}),
         readonlySigned   |-> Cardinality({m \in staticMetas : m.isSigner /\ ~m.isWritable}),
         readonlyUnsigned |-> Cardinality({m \in staticMetas : ~m.isSigner /\ ~m.isWritable}),
         instructions     |-> CompileInstructions(requested, AccountKeys(static, lookups, known)),
         lookups          |-> lookups]

(* A plausible bug: only the static keys are counted. *)
TooLargeStatic(compiled, known) == Len(compiled.accountKeys) > MaxKeys

(* The errors of the compiler: a table, the static keys or all keys exceed what
   a byte can index, or a count does not fit one. *)
TooLarge(compiled, known) ==
    \/ \E t \in DOMAIN known : Len(known[t]) > MaxKeys
    \/ Len(AccountKeys(compiled.accountKeys, compiled.lookups, known)) > MaxKeys
    \/ \E n \in {compiled.numSigners, compiled.readonlyUnsigned} : n > MaxKeys - 1

(* compileUnversionedMessage without tables, compileVersionZeroMessage with. *)
CompileTransaction ==
    /\ status = "building" /\ instructions # <<>>
    /\ LET compiled == CompileMessage(instructions, tables) IN
       IF TooLarge(compiled, tables)
       THEN status' = "rejected" /\ UNCHANGED message
       ELSE status' = "compiled" /\ message' = compiled
    /\ UNCHANGED <<instructions, tables, executeAccounts, signatures>>

SignerAddresses(m) == SubSeq(m.accountKeys, 1, m.numSigners)

(* signSolanaTransaction with the keys a host has; a missing one, or a
   transaction larger than a packet, is an error. *)
SignTransaction ==
    /\ status = "compiled"
    /\ \/ \E keys \in SUBSET Addresses :
            /\ Range(SignerAddresses(message)) \subseteq keys
            /\ status' = "signed" /\ signatures' = SignerAddresses(message)
       \/ status' = "refused" /\ UNCHANGED signatures
    /\ UNCHANGED <<instructions, tables, message, executeAccounts>>

----------------------------------------------------------------------------
(* The vault message and its execution accounts. *)

NumWritableSigners(m) == m.numSigners - m.readonlySigned
NumWritableNonSigners(m) == Len(m.accountKeys) - m.numSigners - m.readonlyUnsigned

ProgramSignerAddresses == {FeePayer} \cup EphemeralSigners

(* A plausible bug: the writable non-signers are counted from the first key. *)
StaticWritableFromStart(m, i) ==
    \/ i <= NumWritableSigners(m)
    \/ i <= m.numSigners + NumWritableNonSigners(m)

StaticWritable(m, i) ==
    \/ i <= NumWritableSigners(m)
    \/ i > m.numSigners /\ i <= m.numSigners + NumWritableNonSigners(m)

LoadedMetas(addresses, isWritable) ==
    [i \in DOMAIN addresses |->
        [address |-> addresses[i], isSigner |-> FALSE, isWritable |-> isWritable]]

(* resolveSquadsVaultTransactionExecuteAccounts, without the tables themselves
   at its head.  The vault and the ephemeral signers do not sign outside. *)
ExecuteAccounts(m, known) ==
    [i \in DOMAIN m.accountKeys |->
        [address    |-> m.accountKeys[i],
         isSigner   |-> i <= m.numSigners /\ m.accountKeys[i] \notin ProgramSignerAddresses,
         isWritable |-> StaticWritable(m, i)]]
    \o FlattenSeq([k \in DOMAIN m.lookups |->
         LET l == m.lookups[k] IN
            LoadedMetas(AddressesAt(known, l.table, l.writableIndexes), TRUE)
            \o LoadedMetas(AddressesAt(known, l.table, l.readonlyIndexes), FALSE)])

(* compileSquadsVaultTransactionMessage: one static key less than a byte holds. *)
CompileVault ==
    /\ status = "building" /\ instructions # <<>>
    /\ LET compiled == CompileMessage(instructions, tables) IN
       IF TooLarge(compiled, tables) \/ Len(compiled.accountKeys) > MaxKeys - 1
       THEN status' = "rejected" /\ UNCHANGED <<message, executeAccounts>>
       ELSE /\ status' = "vault"
            /\ message' = compiled
            /\ executeAccounts' = ExecuteAccounts(compiled, tables)
    /\ UNCHANGED <<instructions, tables, signatures>>

Next ==
    \/ BeginInstruction \/ AddAccount \/ ExtendTable
    \/ CompileTransaction \/ SignTransaction \/ CompileVault

Spec == Init /\ [][Next]_vars

----------------------------------------------------------------------------
(* External: how the runtime and the Squads program read the message. *)

RuntimeWritable(m, i) ==
    /\ i <= m.numSigners => i <= m.numSigners - m.readonlySigned
    /\ i > m.numSigners => i <= Len(m.accountKeys) - m.readonlyUnsigned

RuntimeAccounts(m, known) ==
    [i \in DOMAIN m.accountKeys |->
        [address    |-> m.accountKeys[i],
         isSigner   |-> i <= m.numSigners,
         isWritable |-> RuntimeWritable(m, i)]]
    \o LoadedMetas(WritableLoadedAddresses(m.lookups, known), TRUE)
    \o LoadedMetas(ReadonlyLoadedAddresses(m.lookups, known), FALSE)

(* The Squads program takes its accounts from the list, one lookup after the
   other, and sorts the loaded ones into written and read. *)
Offset(m, k) ==
    Len(m.accountKeys) +
    Len(FlattenSeq([j \in 1..(k - 1) |->
                      m.lookups[j].writableIndexes \o m.lookups[j].readonlyIndexes]))

Taken(accounts, from, count) == SubSeq(accounts, from + 1, from + count)

SquadsAccounts(m, accounts) ==
    Taken(accounts, 0, Len(m.accountKeys))
    \o FlattenSeq([k \in DOMAIN m.lookups |->
         Taken(accounts, Offset(m, k), Len(m.lookups[k].writableIndexes))])
    \o FlattenSeq([k \in DOMAIN m.lookups |->
         Taken(accounts, Offset(m, k) + Len(m.lookups[k].writableIndexes),
               Len(m.lookups[k].readonlyIndexes))])

----------------------------------------------------------------------------
(* Properties. *)

Compiled == status \in {"compiled", "signed", "refused", "vault"}

Indexes == UNION {{message.instructions[i].program} \cup Range(message.instructions[i].accounts) :
                    i \in DOMAIN message.instructions}

(* Every variable keeps its type: in particular every count and index of a
   message the compiler did not reject fits its byte. *)
TypeOK ==
    /\ status \in {"building", "rejected", "compiled", "signed", "refused", "vault"}
    /\ Indexes \subseteq 0..(MaxKeys - 1)
    /\ {message.numSigners, message.readonlySigned, message.readonlyUnsigned}
           \subseteq 0..(MaxKeys - 1)
    /\ \A k \in DOMAIN message.lookups :
         /\ Range(message.lookups[k].writableIndexes) \subseteq 0..(MaxKeys - 1)
         /\ Range(message.lookups[k].readonlyIndexes) \subseteq 0..(MaxKeys - 1)

(* What the runtime executes is what the caller asked for: each index of each
   instruction denotes the requested account with at least the requested
   privileges, and each program index a key of the message itself, although
   lookup tables have grown since they were read. In a signed transaction the
   signature at a signer's index is that signer's, and the first is the payer's. *)
ExecutesAsRequested ==
    /\ status = "signed" => signatures[1] = FeePayer
    /\ Compiled =>
         LET accounts == RuntimeAccounts(message, tables) IN
         \A i \in DOMAIN instructions :
            /\ message.instructions[i].program < Len(message.accountKeys)
            /\ message.accountKeys[message.instructions[i].program + 1]
                   = instructions[i].program
            /\ \A j \in DOMAIN instructions[i].accounts :
                 LET asked == instructions[i].accounts[j]
                     index == message.instructions[i].accounts[j]
                     given == accounts[index + 1]
                 IN  /\ given.address = asked.address
                     /\ asked.isSigner =>
                          /\ given.isSigner
                          /\ status = "signed" => signatures[index + 1] = asked.address
                     /\ asked.isWritable => given.isWritable

(* Nothing else is signed or written: a privilege in the message was asked for
   by some instruction, or is the fee payer's. *)
NoExtraPrivilege ==
    Compiled =>
        \A given \in Range(RuntimeAccounts(message, tables)) :
            LET asked == {a \in UNION {Range(instructions[i].accounts) :
                                         i \in DOMAIN instructions} :
                             a.address = given.address}
            IN  given.address # FeePayer =>
                    /\ given.isSigner => \E a \in asked : a.isSigner
                    /\ given.isWritable => \E a \in asked : a.isWritable

(* The Squads program finds, in the accounts the client resolved when it made
   the proposal, the accounts of the stored message in the stored order, with
   the signatures only the outer transaction can give. *)
VaultExecutesMessage ==
    status = "vault" =>
        LET accounts == RuntimeAccounts(message, tables) IN
        SquadsAccounts(message, executeAccounts) =
            [i \in DOMAIN accounts |->
               [accounts[i] EXCEPT
                  !.isSigner = @ /\ accounts[i].address \notin ProgramSignerAddresses]]
=============================================================================
