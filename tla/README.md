# TLA+ models of the Chancery settlement clients

Chancery is a Solana program that settles mints and redeems between a reserve
asset and an issued asset. This repository holds the clients of that program:
a TypeScript and a Python reference client that mirror each other, market-maker
integration helpers (TypeScript, Python, Rust), devnet tools, Squads proposals
and a browser instruction builder. The on-chain program is not part of it.

What the clients have to get right is distributed: each answer they act on comes
from some RPC node that may be behind the tip, each transaction they send may
land, land on a fork that is dropped, or land after the client stopped waiting,
and other parties change the same accounts at the same time. The modules here
state what the clients promise under those conditions, TLC checks it on small
instances and TLAPS proves the most important results for every instance.

Paths below are relative to `src/`; line numbers are in `PROJECT.json` ("map").

## 1. Inventory

| Component | State | Operations | What is hard | What makes it correct |
|---|---|---|---|---|
| Inspection (`ChanceryClient.inspect`, `ChanceryRpc`, `client.py`, `rpc.py`) | the client's `minContextSlot` floor, shared by all calls; the locals of each call | getSlot, Clock read, dozens of ordered account reads, verdict | answers from lagging nodes; calls that overlap on one client; Clock and usage windows read at different slots | no account older than the observation; a `ready` verdict hides no breach; a refusal has a cause |
| Usage limits (`observeLimitPolicy`, `canonicalWindowStart`, `validateLimits`) | none (accounts are on chain) | period start, roll-over, regression, caps | period boundaries, negative time, exact caps | agrees with the settlement history of the chain |
| Quote (`computeFeeQuote`, `computeSettlementEffectiveQuote`, `SplToken`) | none | rate, fee, cap, minimum, rebate, transfer fee by epoch | rounding, order of the clamps, epoch change | value is conserved, rounding is never in the client's favour, a round trip gains nothing |
| Submission (`prepareTransaction`, `simulateTransaction`, `submitTransaction`, `#confirmTransaction`) | locals of a call: inspection context, blockhash, polls | nine awaited calls in sequence | lost answers, forks, expiry race, bounded polling, repeated calls by the host | a result is a true report of the chain; one request settles at most once; every call ends |
| Execution helper (`settlement_execution.{ts,py,rs}`) | stage and signature of a call | prepare, simulate, submit, confirm, reconcile over the host's port | the port throws after its work was done | the stage of the error is a true report, no settlement is hidden |
| Permission grant (`integration/devnet/permissions/Grant.ts`, `execution/Transaction.ts`) | record and expiry read at the start, pending change, current transaction | read, propose, timelock, accept, apply, read back | concurrent grants, stale reads, process gone between the steps, transactions that land late | no grant is lost, dangerous roles are never permanent |
| Devnet setup (`pathway/DirectPathway.ts`, `setup/Setup.ts`, `assets/Faucet.ts`) | locals of a command | register the pathway, grant, create token accounts, faucet | one step of several failing, repetition while earlier transactions land, shared administration | a setup that returns is complete; roles are granted only on the testing profile |
| Message compilation (`SolanaTransaction.ts`, `solana_transaction.py`) | none | merge account metas, order, resolve lookup tables, sign | merged flags, index order across tables | every index denotes the account and the flags the instruction asked for |
| Transaction events (`ChanceryEvent.ts`) | none | rebuild the keys of a transaction, extract and decode inner instructions | indexes across message and lookup tables, calls that imitate events | the events of the program and no others |
| Discovery (`ChanceryDiscovery.ts`, `discovery.py`) | none | list all program accounts, decode, derive, link | any order of the listing, duplicates, malformed accounts | the inventory is a function of the ledger, and complete |
| Readiness (`#resolve*`, `validate*`, `buildInstruction*` of the client) | accounts read so far | some twenty reads, selection of the pathway, about sixty conditions, the instruction's accounts | accounts of different slots; interaction of activation, pause, policy, permission and limits | `ready` means that the program accepts |
| Squads (`SquadsProposal.ts`, `SquadsVaultMessage.ts`) | none | vault message, create / approve / execute proposals | stale transaction index | the vault message has the meaning of the instruction |
| Market-maker preparation and operation documents (TypeScript, Python, Rust) | none | validate a host document, build the instruction | three implementations must agree | same verdict in the three languages |
| Instruction account resolution (`ChanceryInstruction.ts`, `chancery.mjs`) | none | defaults, repeated derivation passes, verification | accounts derived from each other | a caller's address is never replaced |
| Browser builder (`web/instruction-builder/app.mjs`) | the page | templates, edits, generate, export | edits while a generation waits; results left behind | what is exported is what is shown, of one template and one vault |
| Codecs, schema, addresses | none | encode / decode, program addresses | byte layouts | round trip |
| Oracles, command line, compatibility and validation scripts | none | argument parsing, hashing | - | - |

Interactions. `inspect` leaves the floor in the `ChanceryRpc` object and hands
an inspection (context slot, expiry slot, accounts, verdict) to
`prepareTransaction`; `submitTransaction` calls prepare, simulate, send,
confirm and fetch one after the other; a host repeats inspect and submit
according to `integration/PRODUCTION-OPERATIONS.md`. The execution helper drives
any host port of the same shape. The devnet tools send through their own
`submitInstructions`; setup calls the permission grant. The browser builder and
the clients use the same account resolution. All of them share only the chain.

The hazards these parts are exposed to are listed with their lines in
`PROJECT.json` ("hazards").

## 2. Modules

| Module | Models | Kind |
|---|---|---|
| `UsageLimits` | limit rules and the accounting of usage windows they anticipate | operators |
| `Inspection` (extends `UsageLimits`), `MCInspection` | inspect calls on one client against lagging nodes | state machine |
| `SettlementQuote`, `MCSettlementQuote` | fee, rate and transfer-fee arithmetic | operators, driven by a machine that walks through amounts and epochs |
| `SettlementOutcome` | what any settlement client promises its caller | abstract specification |
| `SettlementSubmission` | submitTransaction over a cluster with forks, implements `SettlementOutcome` | state machine |
| `SettlementExecution` | the market-maker helper, implements `SettlementOutcome` | state machine |
| `SettlementReadiness`, `MCSettlementReadiness` | `inspect` from its first read to its verdict: account reads, pathway selection, checks, instruction (what is left out is in section 6) | state machine |
| `PermissionGrant` | concurrent grantPermission calls on one record | state machine |
| `DevnetSetup` (extends `PermissionGrant`), `MCDevnetSetup` | setupDirectTesting around the grant, repeated | composition |
| `MessageCompilation` | from instructions to a compiled message, its signing and the Squads vault message | operators, driven by a machine that builds every small request |
| `TransactionEvents` (extends `MessageCompilation`), `MCMessageCompilation` | execution of a compiled message and the decoding of its events | composition |
| `AccountResolution` | resolveChanceryInstructionAccounts | operators |
| `InstructionBuilder` (extends `AccountResolution`), `MCInstructionBuilder` | the browser builder | state machine |
| `StateDiscovery`, `MCStateDiscovery` | discoverChanceryState | state machine |
| `InspectionProofs`, `SettlementSubmissionProofs`, `SettlementExecutionProofs`, `SettlementQuoteProofs`, `DevnetSetupProofs` (with those of `PermissionGrant`), `InstructionBuilderProofs` (with those of `AccountResolution`), `StateDiscoveryProofs`, `TransactionEventsProofs` (with those of `MessageCompilation`) | theorems | proofs |

### Inspection

`inspection[o]` holds the locals of one call of `inspect`; `floor` is
`ChanceryRpc.#minimumContextSlot`; `chain` (external) is one record per slot with
its time, the settlement it carries and the resulting usage windows. A step is
what the event loop runs between two awaits: `SlotReply`, `ClockReply` and
`ReadReply` take an answer from any node at most `MaxLag` slots behind but not
below the request's minimum context slot, update the client, and build the next
request with the floor the client holds at that moment. `RequestFails` stands
for every rejected call. Reads before the windows are one "core" read, those
after them one "tokens" read; only the limit part of the verdict is evaluated,
the rest of it is in `SettlementReadiness`.

`Spec` lets calls overlap, as nothing in the TypeScript client prevents it.
`SequentialSpec` starts a call when no other is running: the Python client is
synchronous, and this is how the command line tools use the TypeScript one.

### SettlementSubmission

`tip[r]` is the newest block of each commitment rank, `landing[a]` where attempt
a's transaction stands, `call[a]` the locals of the a-th call. There is one
action per awaited answer, from `SlotReply` to `EventsReply`; each picks the node
that answers. `RequestFails` is a rejection of any awaited call; `SendReply`
includes the case in which the transaction is accepted and the answer is lost.
External: `ProduceBlock`, `AdvanceRoot`, `DropFork` (only blocks above the
confirmed one are dropped; what landed in them may land again, with another
result) and the host, which repeats the call only after a refusal or after an
expiry it resolved by a fresh lookup (`MayResubmit`). Slots and block heights
are one count.

### SettlementExecution

`run[s]` is the stage and the signature of the call for s, `ledger[s]`
(external) what the chain holds. One action per stage; each has the outcomes of
the host's port: success, rejection, throwing before or after the work was done.
The port's side of the contract is that it reports `confirmed` of a settled
transaction only.

### SettlementOutcome

`effect[r]` is absent, pending or settled; `report[r]` open, refused, unknown or
acknowledged. Refuse and Acknowledge are possible only when they are true;
after a refusal nothing can be submitted any more. The refinement mappings read
the results of submitTransaction (`ReportOf`, `EffectOf`) and the error stages
of the helper; "settled" is what no dropped fork can take away.

### SettlementQuote

`FeeQuote`, `TransferFee` and the quotes for both directions, with the code's
truncation, ceiling, cap, minimum and rebate order. The machine steps through
amounts and epochs for each member of `Terms` so that properties can compare the
quotes of neighbouring amounts. Numbers are unbounded as in the code (`bigint`);
the u64 bounds of the wire format are checked elsewhere in the source.

### PermissionGrant

`grant[g]` holds the record read, the new value and the stage; `versions`,
`clock`, `pending` and `tx` (external) are the record's history, the on-chain
time, the pending configuration changes and what became of the latest
transaction. `GiveUp` ends a call anywhere - a check that throws, an RPC error, a
timeout, the process killed - while its transaction stays with the cluster.
The program applies a change only if its old-value hash is the hash of the
record at that time.

### DevnetSetup

`setup[g]` is the stage of a setup and the balance it read; `pathways`,
`balances` and `accounts` (external) are what the chain holds, the first two with
their past, because a node may be behind. While a setup is at "grant" the actions
of `PermissionGrant` for the same g run. A tester's setups follow each other
(`Earlier`), bare grants run at any time, and `Administer` is the public
administration that pauses the pathway or takes its address first. `Abandon` ends
a setup anywhere and leaves its transaction with the cluster.

### SettlementReadiness

One call of `inspect`. A chain state maps account names to contents; `history` has
one per slot and each slot changes at most one account. `pending` is the list of
reads still to be made - it grows as the pathway, its policies and the limit
dimensions become known - and `seen` what was answered, each answer from any slot
at or above the floor. A read may throw (`ThrownBy`): an account that must exist
does not, the intent contradicts the request, not exactly one pathway matches, a
mint or a token account is not the expected one, an owner has several accounts.
When nothing is left to read the verdict (`NoBlockingIssue`) and the instruction
(`BuildInstruction`) are computed from `seen`.

The token accounts of a holder are the associated one and the others; the listing of
an owner's accounts (`OwnerAccounts`) has both, so an associated account that was
absent when it was looked up may be in the listing that follows. The instruction of
a direct settlement carries the amount and the minimum, that of the other modes only
the intent and the pathway, as in the code.

`Accepts` and `Settleable` (external) are what the program checks of an instruction,
written from the accounts and arguments the instruction hands to it: `ready` is
compared with the program's verdict, not with the conditions of the client.
`Observed(s)` is the chain state put together from the reads, the accounts not read
being those of slot s; it need never have existed.

Data is abstracted to what these conditions tell apart. `bound` stands for the
comparisons of program, mint and owner of a token account, `canonical` for the stored
id and bump of a settlement policy, `supported` for the evidence level and for the
denomination and kinds of a fee policy, `daily_only` for the caps a dimension policy
may not have. A slot lasts a second and a fee is an amount: arithmetic is in
`SettlementQuote`, the four windows of the pathway's own limit are in `Inspection`;
here are the daily windows of asset, counterparty and executor, with their roll-over
and clock regression (`Day`).

### AccountResolution and InstructionBuilder

Addresses are tuples of their seeds, so that an address tells where it came from.
A generation is a record with the stage it waits at and what it captured before;
the actions between `Generate` and `Finish` are the continuations of its awaits,
and every action of the user may come in between. Values typed by the user name
their template and control. `EncodingFails` stands for every parse or encode error
of a single field. `Nothing` is the page's `null`. Three things are assumed of the
constants: account names of a schema are distinct, the templates' sets of controls
do not contain each other (a form tells which template it belongs to), and an
address a user types is not by coincidence the address of a vault.

### StateDiscovery

`GetProgramAccounts` answers with the ledger in any order; the first pass decodes
and checks one account per step, the second links nonces with the domain policies
of the whole listing, and `Assemble` sorts, checks the ids and builds the inventory.
The ledger changes between discoveries, and `previous` keeps the outcome of the last
one over the same ledger. A sort is `InOrder`: the k-th element of a set is the one
with k - 1 elements before it, and `localeCompare` is a rank that tells different
addresses and different types apart (`RankAssumption`). A list is filtered by the
positions of what it keeps (`At`).

### MessageCompilation

`instructions` is the caller's request, built one account at a time;
`CompileTransaction`, `SignTransaction` and `CompileVault` are the library calls.
Maps become sets of merged records; sorts and filtered lists are `InOrder` and `At`
as in `StateDiscovery`. Compiling is a function of the request and of the tables
as they were read (`CompileMessage`). A table is named by its position in the
request, and may grow afterwards. Keys and indexes keep their limits (`MaxKeys` is
256 in the code); the byte encoding and the 1232-byte packet limit are left out,
the latter as a refusal that is always possible. `RuntimeAccounts` and
`SquadsAccounts` (external) are how the two readers of a message recover accounts
and privileges from counts and positions.

### TransactionEvents

`Execute` (external) runs a signed message: each instruction makes one of a few
sequences of calls whose accounts the message has. `RpcTransaction` is how a node
reports that, by indexes; `DecodeTransactionEvidence` is the client's way back
to addresses, events and their parents. Properties compare its result with the
calls that were made, which the client never sees.

## 3. Runs

Deadlock checking is off in every run but `discovery`: all calls end and the
chain is bounded. A discovery can always be repeated.

| Run | Shows | Instance and why it is enough |
|---|---|---|
| `inspection` | sequential inspections read at or above their floor, `ready` hides no limit breach, refusals have a cause | two calls (on-chain time / caller's timestamp), limits over periods of 2 and 4 s and a third window without a limit, clock from -1 with ticks of 1 or 2: three slots cross one and both boundaries and the epoch |
| `inspection_overlap` (violation) | overlapping calls share the floor | two calls, three slots |
| `submission` | results are true reports (implements `SettlementOutcome`), at most one settlement, expiry is final, every call ends | two attempts, blockhash valid for 2 blocks, 2 polls, height 5: the first attempt can expire, settle or be dropped before the second is made, and the chain can stop anywhere |
| `submission_expired` (violation) | see section 5 | one attempt |
| `execution` | no settlement is hidden; implements `SettlementOutcome` | three concurrent settlements |
| `quote` | conservation, rounding direction, no free round trip, monotonicity | rates in quarters, fees in fifths, all combinations of fee, rounding, cap, minimum, rebate and transfer fee, amounts 0 to 12 across an epoch change |
| `devnet_setup` | no lost grant, returned grants hold, dangerous roles expire; a returned setup is complete, roles only on the testing profile | a setup, its repetition and a dangerous grant with or without an expiry, on a record that is absent or has either kind of expiry; the pathway is missing, foreign, registered, paused; two timelocks fit into the clock and a proposal can expire |
| `message` | indexes, privileges, signatures and vault execution are what was asked for; decoded events are the program's own | up to three account mentions in up to two instructions, three addresses with all flags, three programs one of which is also an account; tables that overlap, repeat an entry, contain the payer and a program, grow, or are too long; four keys are allowed where five can be mentioned, so the limits are met. Messages of up to two mentions are executed, enough for the program and its event authority to be loaded from two tables |
| `readiness` | the instruction of a `ready` inspection is one the program settles in the state that was read, a refusal names something for which it could not be settled; where only one account changed after the Clock that was read, such a state was on the chain. Two cases in which the code does otherwise are excepted, see section 5 | four requests (direct mint, direct redeem with a pathway id and a second pathway, delegated redeem with a minimum below the intent's, trilateral mint); three slots, so up to two accounts change before or while the reads are made, each to one of several contents that one check or another refuses; the destination has no associated account and one other, which is where creating the former matters; a day of two seconds ends within the run |
| `readiness_pathway` (violation) | see section 5 | as `readiness` |
| `builder` | a result belongs to one template, one vault and one reading of the form; exports match what is shown; buttons come back | three settlement templates two of which share a control's name, and an instruction with an account derived from another; two multisigs, four edits before, during and between two generations. No instruction of the schema derives from an account that is itself derived; such chains are in the theorems only |
| `discovery` | discovery does not depend on the listing's order, links are exact, nothing is lost, and it fails exactly on a bad ledger | every ledger of up to four of eighteen accounts, in every order, discovered repeatedly; accounts are opened and closed between discoveries |

The type invariants of `SettlementReadiness`, `InstructionBuilder`, `StateDiscovery`
and `PermissionGrant` hold in the same instances; they document the state and are
not listed with the properties of the runs. All but the first are proved.

Each property has a mutant: a change to one mapped definition, as a plausible bug
would make it, under which TLC finds the property violated.

**Fairness.** `FairSpec` of `SettlementSubmission` has weak fairness on `Reply(a)` only: an awaited `fetch`
is answered or rejects. The cluster is given none: blocks may stop, which is why
`EveryCallEnds` rests on the poll limit and not on the expiry of the blockhash.
`InstructionBuilder` has weak fairness on the continuations of a generation: they
await digests of the browser, which always answer. Loading the interface files
gets none, and neither does the user.

## 4. Proofs

All theorems hold for every value of the constants allowed by the named
assumptions of the modules.

* `SettlementSubmissionProofs`. `TypeCorrect` is the type invariant. `Inductive`
  proves `IInv`: the type invariant and, for each attempt, that nothing is sent
  before its send, a transaction lands no later than its last valid height, an
  expired attempt's last valid height is below the confirmed tip, a call that
  has seen the commitment has a successful landing below the tip of that rank,
  and earlier attempts are refused or can never land. From it follow
  `ReturnedSettles`, `RefusalsAreDefinite`, `SettlesAtMostOnce` and
  `ExpiryDecides`; `SubmissionImplementsOutcome` maps every step to a step of
  `SettlementOutcome` or a stutter. All but `TypeCorrect` assume
  `Commitment # Processed`: a processed block may be dropped after it was
  acknowledged, and no client can promise otherwise. None of the properties is
  inductive by itself: at most one settlement, for instance, needs that the
  expiry was decided on the required rank and that no block of that rank is
  ever dropped.
* `SettlementExecutionProofs`. `Inductive`, `Traceable` and
  `ExecutionImplementsOutcome`, for any set of concurrent settlements. The
  invariant ties the stage to the signature and to the ledger.
* `InspectionProofs`, for any number of calls, any chain, lag, policy, set of
  windows and order of reading them. `ObservationInv` holds of every behaviour: a
  usage window on the chain is the sum of the settlements of its period
  (`ChainSound`), and each call keeps what it read together with a slot it read it
  from (`CallSound`). `FloorInv` holds of sequential ones: at most one call is
  running, and while it reads the floor is its context slot - the fact overlapping
  calls destroy. `SequentialReadsAtOrAboveFloor`, `SequentialReadyWithinCap` and
  `SequentialRefusalJustified` follow. `FloorMakesVerdictsSound` says the same of
  overlapping calls as long as no read was below its context slot: the shared floor
  of section 5 is the only way to a wrong limit verdict.
* `DevnetSetupProofs`. `IInv` of the grants: roles on the record only grow, a grant
  works on a value the record has had, what it proposes follows that value and holds
  its roles, and a pending change follows the value it names. A change that is
  applied late then finds the very value it was made from or is refused, which gives
  `GrantInForce`, `DangerousRolesAlwaysExpire` and the action property
  `NoGrantIsLost`, for any number of concurrent grants. `SetupImplementsGrants` is
  the composition: a setup's steps are steps of the grants or leave them alone, so
  their theorems hold in it (`SetupKeepsGrants`). `SInv` adds to each stage of a
  setup what the stages before it have done, and that the balance holds every faucet
  request seen executed; from it `SetupGrantsOnTheProfile` and `SetupIsComplete`.
* `InstructionBuilderProofs`, for every schema and set of templates. First what
  `ResolvedAddresses` returns, by induction over the steps of its passes (stated with
  sets of numbers, which the provers can instantiate): a caller's address is kept, every other one is a default or verified as derived.
  Then `PageInv`: the controls hold what was rendered or typed for the template
  shown, a waiting generation has only what it captured, and what is kept for the
  export is what is shown. `ResultIsOneTemplates`, `ResolutionKeepsAddresses`,
  `ExportsWhatIsShown` and `ProposalIsForItsVault` follow.
* `StateDiscoveryProofs`, for ledgers of any size and any order of the reply.
  `Ordered` shows once that `InOrder` lists every element of a finite set exactly
  once and in order. `DiscoveryInv` says which part of the ledger the loop has
  passed and that the lists hold exactly that part; after the second pass they hold
  what they would with every policy known from the start (`Relinked`). A result is
  then `InventoryOf(ledger)`, in which the listing does not occur:
  `OrderDoesNotMatter`. `NoncesSeeEveryPolicy`, `PathwaysAreLinkedExactly`,
  `ErrorsAreTheLedgers` and `InventoryIsComplete` are facts about that function.
* `TransactionEventsProofs`, for requests, tables, messages and calls of any size.
  First the facts both modules rest on, each shown once: a sort lists each element
  once and in order (`Ordered`), a selection keeps the order (`AtFacts`), and a
  flattened list has a place for each element of each part (`Flattened`, by
  induction over the parts, stated with a set of numbers). Then `RuntimeFacts`: the
  keys of a compiled message are the merged accounts, each once, with the signers
  and the written ones where the three counts of the header put them, and the loaded
  ones where the runtime loads them; and `VaultFacts`: the Squads program, which
  takes lookup after lookup from the resolved list, meets the same accounts. The
  invariant `MessageInv` says that a compiled message is `CompileMessage` of the
  request and of *some* tables the present ones extend. That is what the properties
  lack by themselves: they speak of the tables as they are now, and survive a
  table's growth only because what was looked up is still there (`GrownTables`).
  `TypeCorrect`, `MessageExecutesAsRequested`, `MessageAddsNoPrivilege` and
  `VaultMessageExecutes` follow.
  `EventInv` adds that a message is executed when it is signed and that the calls it
  made are calls its accounts allow. The client's keys are then the runtime's
  (`KeysFacts`), every index of the report reads back to the address it was made
  from (`RpcFacts`), and the extracted instructions are the program's calls in the
  order of execution (`ExtractFacts`): `EvidenceIsOwn` and `EvidenceErrorsReal`.
  `EventsImplementMessages` shows that adding execution and decoding leaves the
  message a behaviour of `MessageCompilation`.
* `SettlementQuoteProofs`. `Conserves`, `WithinRate` and
  `RoundTripGainsNothing`, for all rates, fee policies and amounts.
  `ReceiptIsMonotone`: asking for more never gives less. Every fee is composed of
  functions that grow, but never by more than their argument (`Follows`: rounded
  shares, the cap, the minimum, the rebate, the transfer fee), so what is left after
  it grows too, through each step of the quote.

Assumptions on constants are named in the module that declares them, and TLC
evaluates them in the runs: bounds are natural numbers, periods are positive, the
order of reading names every window, settlement amounts are positive, initial
records are such as the program admits, lookup tables are sequences of sequences of
keys and calls name a program and keys, and those of the builder and of discovery
described in section 2. `MaxAccounts`, `MaxSlot`, `MaxClock` and the other bounds are
arbitrary in the theorems.

Only model-checked:

* liveness (`EveryCallEnds`, `GenerationEnds`): TLAPS has no support for fairness and
  `ENABLED` here;
* `SettlementReadiness`: its two properties relate a verdict of some sixty conditions
  over accounts read at different slots to the program's conditions on one state. The
  case split is TLC's, not a prover's. That such a state was on the chain is claimed
  only where one account changed: after two changes the contents combined need never
  have been there together.

## 5. Where the code and its documents differ

* `inspection_overlap`: `setMinimumContextSlot` assigns one number shared by all
  calls of a client. Two `inspect` calls that overlap can read accounts older
  than their own recorded context slot, which `CORRECTNESS-CONTRACT.md` excludes.
* `submission_expired`: the status is read before the block height and not again
  after it; a transaction that reached the commitment in between is reported as
  "expired before reaching" it. `ExpiryIsFinal` says what the error is good for:
  the outcome no longer changes and one lookup decides it.
* `readiness_pathway`: the selection of a pathway does not look at its status, so
  that one active and one paused pathway are ambiguous, while the README's filters
  include the status and promise that one eligible pathway proceeds.

Two more are met in the run `readiness`, whose properties except exactly these cases;
without the exceptions TLC finds both:

* the minimum of a delegated or trilateral request replaces the intent's when the
  output is compared with it (`ChanceryClient.ts` 532-534), but the instruction names
  only the intent and the pathway (1504-1507). With a request minimum below the
  intent's, `inspect` can return `ready` for a settlement that the intent's own minimum
  refuses; the repository's README says that delegated settlement reads the minimum
  output from the intent (`MinimumUndercut`);
* an associated token account that is created after its lookup, or that the node of
  the lookup did not have yet, is in the listing of the owner's accounts. If the owner
  has one other account, `inspect` throws that the account is ambiguous (1273-1301),
  although the settlement was possible in every state (`AssociatedListed`). Repeating
  the call resolves it.

Further observations from reading the code with the models at hand. No run states
them as a claim:

* a missing source, destination or reserve account is recorded as a blocking issue and
  then makes the construction of the instruction throw, so that the issue is not
  returned; the repository's README says "Missing required accounts are reported as
  blocking issues". The model has the throw ("unavailable");
* an error in a status of any rank is final for `#confirmTransaction`; on a fork
  that is dropped, the transaction may still succeed afterwards. The models treat
  the error as "unknown", which is what `ImplementsOutcome` needs;
* an RPC rejection after the send propagates without the signature that
  `PRODUCTION-OPERATIONS.md` asks to preserve (the execution helper does preserve
  it: `Traceable`);
* the expiry slot is compared with a slot that may come from a node behind, and the
  blockhash is fetched afterwards, so a transaction can be prepared after its
  inspection expired;
* a node that does not keep inner instructions makes `getChanceryEvents` return an
  empty list, not null;
* the faucet's readback compares two balances: a late request of an earlier setup
  makes it fail although the collateral arrived. Setup is repeatable, so this costs
  another request.

## 6. Not modelled

* The on-chain program, beyond what the clients rely on: window accounting, the
  timelock, the old-value hash of a configuration change, and what a settlement
  checks of the accounts it is handed.
* Codecs, schema, program addresses: byte layouts, single-call pure conversions
  whose subject is the bytes; their callers are modelled with addresses as
  functions of seeds and encodings that may fail.
* Operation documents and market-maker preparation: a document is compared with a
  fixed shape and becomes one instruction or an error. There is no state and no
  order of steps, and the fixtures compare the three languages.
* Of `inspect`: token-account overrides, malformed requests (`normalizeRequest`),
  program accounts with the wrong owner or type and token programs that are not
  supported (all of which throw), and fields that are only copied for display.
* Of the permission grant: the refusals of a record that is paused or has another role
  schema are among the ways a grant gives up, and nobody revokes roles or pauses the
  record meanwhile. Of the other devnet tools: the airdrop, wallet files and the checks
  of the deployment before a command.
* Of message compilation: the one-byte counts of instructions and of the accounts of
  one instruction, the error for a table given twice, and an unversioned header's signer count
  running into the version bit at 128. The limits on keys and indexes are modelled.
* Oracles, command lines, compatibility and validation scripts: argument parsing,
  hashing and formatting.
* Skipped slots (slot and block height are one count), and clocks that go
  backwards on the chain.

## 7. Plan

Modelled: all parts that keep state, wait or compose several steps. Proved: the
theorems of section 4, which state every safety property the passing runs check
except the two of `SettlementReadiness`. What is left is a proof for that module: that
the program accepts the instruction in the observed state follows check by check, and
would hold for every set of accounts and any number of changes.
