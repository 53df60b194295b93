--------------------------- MODULE StateDiscovery ---------------------------
(***************************************************************************)
(* ChanceryClient.discover: one getProgramAccounts request lists every     *)
(* account of the program in whatever order the node keeps them, and       *)
(* discoverChanceryState (ChanceryDiscovery.ts) turns the listing into an  *)
(* inventory: canonical addresses, accounts by type, pathways linked with  *)
(* their policies, assets with theirs, the known PDAs.                     *)
(*                                                                         *)
(* A derived address is the tuple of its seeds, any other key a tuple of   *)
(* one, and an id, key or number in an account is a string.  The ledger    *)
(* changes only between discoveries: nothing after the reply reads it.     *)
(***************************************************************************)
EXTENDS Integers, Sequences, FiniteSets, SequencesExt, TLC

CONSTANTS
    Accounts,        \* the accounts that may come to exist
    AddressRank,     \* address -> its place in the order of localeCompare
    NameRank,        \* account type -> its place in that order
    KnownPdas,       \* CHANCERY_SCHEMA.known_pdas: name -> address
    ProgramAddress,  \* CHANCERY_PROGRAM_ADDRESS
    ZeroId,          \* thirty-two zero bytes
    Null,
    MaxAccounts      \* bound: accounts at a time

VARIABLES
    ledger,          \* the accounts the program owns now
    phase,           \* "idle", "scanning", "linking", "done" or "failed"
    listing,         \* the reply, in the node's order
    index,           \* the loop's next position in it
    recognized,      \* recognizedAccounts
    unrecognized,    \* unrecognizedAccounts
    inventory,       \* what the last discovery returned, or Null
    previous         \* outcome of the discovery before, of the same ledger

vars == <<ledger, phase, listing, index, recognized, unrecognized, inventory, previous>>

-----------------------------------------------------------------------------
(* Canonical addresses *)

(* An account type's seed text and the fields that follow it. *)
PdaSeeds ==
    [AuthorityTransfer     |-> <<"authority-transfer", <<"role_kind">> >>,
     AssetConfig           |-> <<"asset-config", <<"asset_mint">> >>,
     AssetPauseState       |-> <<"asset-pause", <<"asset_mint">> >>,
     BasicFreezeRecord     |-> <<"basic-freeze-record", <<"issued_token_account">> >>,
     CrossChainSignerSet   |-> <<"cross-chain-signer-set", <<"signer_set_id">> >>,
     PathwayPolicy         |-> <<"pathway-policy", <<"pathway_id">> >>,
     PermissionRecord      |-> <<"permission", <<"subject", "scope_kind", "scope_key">> >>,
     FeePolicy             |-> <<"fee-policy", <<"fee_policy_id">> >>,
     LimitPolicy           |-> <<"limit-policy", <<"limit_policy_id">> >>,
     EvidencePolicy        |-> <<"evidence-policy", <<"evidence_policy_id">> >>,
     OutboundReclaimRecord |-> <<"outbound-reclaim",
                                 <<"remote_chain_kind", "remote_domain_id", "source_nonce">> >>,
     PendingConfigChange   |-> <<"pending-config-change", <<"change_id">> >>,
     RemoteDomainPolicy    |-> <<"remote-domain-policy", <<"remote_chain_kind", "remote_domain_id">> >>,
     ReserveDestination    |-> <<"reserve-destination", <<"asset_mint", "destination_token_account">> >>,
     UsageWindow           |-> <<"usage-window", <<"scope_hash", "window_kind">> >>,
     SettlementIntent      |-> <<"settlement-intent", <<"intent_id">> >>,
     SettlementPolicy      |-> <<"settlement-policy", <<"policy_id">> >>]

SingletonForAccount ==
    [ModuleActivationState |-> "module-activation-state",
     ChanceryConfig        |-> "chancery-config",
     PauseState            |-> "pause-state",
     IssuedTokenControl    |-> "issued-token-control"]

SchemaAccounts == DOMAIN PdaSeeds \cup DOMAIN SingletonForAccount \cup {"RemoteNonce"}

(* localeCompare tells different addresses, and different types, apart. *)
ASSUME RankAssumption ==
    /\ \A a \in Accounts : AddressRank[a.address] \in Nat
    /\ \A a, b \in Accounts : AddressRank[a.address] = AddressRank[b.address] => a.address = b.address
    /\ \A a \in Accounts : a.name \in SchemaAccounts => NameRank[a.name] \in Nat
    /\ \A a, b \in Accounts : {a.name, b.name} \subseteq SchemaAccounts /\ NameRank[a.name] = NameRank[b.name]
                                  => a.name = b.name
    /\ \A a \in Accounts : a.name = "AssetConfig" => AddressRank[<<a.values.asset_mint>>] \in Nat
ASSUME BoundAssumption == MaxAccounts \in Nat /\ Null \notin {a.address : a \in Accounts}

DeriveCanonicalPda(name, values) ==
    IF name \in DOMAIN PdaSeeds
    THEN LET fields == PdaSeeds[name][2]
         IN  <<PdaSeeds[name][1]>> \o [k \in DOMAIN fields |-> values[fields[k]]]
    ELSE IF name \in DOMAIN SingletonForAccount THEN <<SingletonForAccount[name]>>
    ELSE Null

DeriveRemoteNonceAddress(chain, domain, scope) == <<"remote-nonce", chain, domain, scope>>

ASSUME NonceAssumption ==
    \A a, p \in Accounts : a.name = "RemoteNonce" /\ p.name = "RemoteDomainPolicy" =>
        DeriveRemoteNonceAddress(p.values.remote_chain_kind, a.values.remote_domain_id, a.values.scope_key) # Null

(* A nonce does not store its chain kind: each policy of its domain offers *)
(* one, the one that yields the account's address wins, else the only one. *)
DomainPolicies(values, policies) ==
    {p \in policies : p.values.remote_domain_id = values.remote_domain_id}

DeriveRemoteNonceCanonicalPda(address, values, policies) ==
    LET linked == DomainPolicies(values, policies)
        Candidate(p) == DeriveRemoteNonceAddress(p.values.remote_chain_kind,
                                                 values.remote_domain_id, values.scope_key)
    IN  IF \E p \in linked : Candidate(p) = address THEN address
        ELSE IF Cardinality(linked) = 1 THEN Candidate(CHOOSE p \in linked : TRUE) ELSE Null

(* null: the account's canonical address cannot be told. *)
NoObservation == [expected |-> Null]

(* values.bump is the bump the account stores: the derivation's, or not. *)
ObserveCanonicalPda(address, name, values, policies) ==
    LET derived == IF name = "RemoteNonce"
                   THEN DeriveRemoteNonceCanonicalPda(address, values, policies)
                   ELSE DeriveCanonicalPda(name, values)
    IN  IF derived = Null THEN NoObservation
        ELSE [expected |-> derived, addressMatches |-> derived = address,
              storedBumpMatches |-> values.bump = "derived"]

-----------------------------------------------------------------------------
(* The inventory *)

(* A finite set in a strict total order: the k-th has k - 1 elements before it. *)
InOrder(S, before) ==
    [k \in 1..Cardinality(S) |->
        CHOOSE x \in S : Cardinality({y \in S : <<y, x>> \in before}) = k - 1]

CompareDiscoveredAccounts(S) ==
    {p \in S \X S : \/ NameRank[p[1].name] < NameRank[p[2].name]
                    \/ p[1].name = p[2].name /\ AddressRank[p[1].address] < AddressRank[p[2].address]}

CompareAddresses(S) == {p \in S \X S : AddressRank[p[1]] < AddressRank[p[2]]}

(* A plausible bug: the accounts stay in the node's order. *)
SortedUnsorted(accounts) == accounts

Sorted(accounts) == InOrder(ToSet(accounts), CompareDiscoveredAccounts(ToSet(accounts)))

(* filter: the accounts at the positions, in order. *)
At(accounts, positions) ==
    LET order == InOrder(positions, {p \in positions \X positions : p[1] < p[2]})
    IN  [k \in DOMAIN order |-> accounts[order[k]]]

(* groupAccountsByType: each type's accounts, in order. *)
OfType(accounts, name) == At(accounts, {k \in DOMAIN accounts : accounts[k].name = name})

PolicyIds == [FeePolicy |-> "fee_policy_id", LimitPolicy |-> "limit_policy_id",
              EvidencePolicy |-> "evidence_policy_id"]

SameId(a, b) ==
    /\ a.name \in DOMAIN PolicyIds /\ a.name = b.name
    /\ a.values[PolicyIds[a.name]] = b.values[PolicyIds[b.name]]

(* A plausible bug: a repeated id goes unnoticed. *)
DuplicateIdsIgnored(accounts) == FALSE

(* indexAccountsByBytes32 throws when two policies of a type share an id. *)
DuplicateIds(accounts) == \E j, k \in DOMAIN accounts : j # k /\ SameId(accounts[j], accounts[k])

(* Address of the first of the accounts at the positions, or Null. *)
First(accounts, positions) == IF positions = {} THEN Null ELSE accounts[Min(positions)].address

(* The accounts of a type whose field has the value. *)
Having(accounts, name, field, value) ==
    {k \in DOMAIN accounts : accounts[k].name = name /\ accounts[k].values[field] = value}

FindByField(accounts, name, field, value) == First(accounts, Having(accounts, name, field, value))

LinkedPolicy(accounts, name, id) ==
    IF id = ZeroId THEN Null ELSE FindByField(accounts, name, PolicyIds[name], id)

(* A pathway's links: what each is called, the policy type, the pathway's field. *)
PathwayLinks ==
    [feePolicy               |-> <<"FeePolicy", "fee_policy_id">>,
     pathwayLimitPolicy      |-> <<"LimitPolicy", "limit_policy_id">>,
     assetMintLimitPolicy    |-> <<"LimitPolicy", "asset_mint_limit_policy_id">>,
     assetRedeemLimitPolicy  |-> <<"LimitPolicy", "asset_redeem_limit_policy_id">>,
     counterpartyLimitPolicy |-> <<"LimitPolicy", "counterparty_limit_policy_id">>,
     executorLimitPolicy     |-> <<"LimitPolicy", "executor_limit_policy_id">>,
     evidencePolicy          |-> <<"EvidencePolicy", "evidence_policy_id">>]

Addresses(accounts) == [k \in DOMAIN accounts |-> accounts[k].address]

OfMint(accounts, name, mint) == Addresses(At(accounts, Having(accounts, name, "asset_mint", mint)))

(* A plausible bug: the executor's limit is looked up under the counterparty's id. *)
BuildPathwayInventoryWrongField(pathway, accounts) ==
    [address |-> pathway.address, assetMint |-> pathway.values.asset_mint,
     links |-> [l \in DOMAIN PathwayLinks |->
                    LinkedPolicy(accounts, PathwayLinks[l][1],
                        pathway.values[IF l = "executorLimitPolicy" THEN "counterparty_limit_policy_id"
                                       ELSE PathwayLinks[l][2]])],
     reserveDestinations |-> OfMint(accounts, "ReserveDestination", pathway.values.asset_mint)]

BuildPathwayInventory(pathway, accounts) ==
    [address |-> pathway.address, assetMint |-> pathway.values.asset_mint,
     links |-> [l \in DOMAIN PathwayLinks |->
                    LinkedPolicy(accounts, PathwayLinks[l][1], pathway.values[PathwayLinks[l][2]])],
     reserveDestinations |-> OfMint(accounts, "ReserveDestination", pathway.values.asset_mint)]

BuildAssetInventory(asset, accounts) ==
    LET mint == asset.values.asset_mint
    IN  [assetConfig |-> asset.address, assetMint |-> mint,
         assetPauseState |-> FindByField(accounts, "AssetPauseState", "asset_mint", mint),
         pathways |-> OfMint(accounts, "PathwayPolicy", mint),
         reserveDestinations |-> OfMint(accounts, "ReserveDestination", mint)]

(* The assets are listed by mint; of one mint, as the accounts are. *)
MintRank(asset) == AddressRank[<<asset.assetMint>>]
SortByMint(assets) ==
    LET order == InOrder(DOMAIN assets, {p \in (DOMAIN assets) \X (DOMAIN assets) :
                    \/ MintRank(assets[p[1]]) < MintRank(assets[p[2]])
                    \/ MintRank(assets[p[1]]) = MintRank(assets[p[2]]) /\ p[1] < p[2]})
    IN  [k \in DOMAIN order |-> assets[order[k]]]

(* The schema's fixed addresses, and the mint authority when it lacks it. *)
KnownPdaAddresses == KnownPdas @@ [mint_authority_pda |-> <<"mint-authority">>]

(* What lies at each of them: an account type, or Null. *)
BuildKnownPdaInventory(accounts) ==
    [n \in DOMAIN KnownPdaAddresses |->
        LET at == {k \in DOMAIN accounts : accounts[k].address = KnownPdaAddresses[n]}
        IN  IF at = {} THEN Null ELSE accounts[CHOOSE k \in at : TRUE].name]

FirstAccount(accounts, name) == First(accounts, {k \in DOMAIN accounts : accounts[k].name = name})

Pathways(accounts) ==
    LET ofType == OfType(accounts, "PathwayPolicy")
    IN  [k \in DOMAIN ofType |-> BuildPathwayInventory(ofType[k], accounts)]

Assets(accounts) ==
    LET ofType == OfType(accounts, "AssetConfig")
    IN  SortByMint([k \in DOMAIN ofType |-> BuildAssetInventory(ofType[k], accounts)])

BuildInventory(count, accounts, others) ==
    [accountCount         |-> count,
     recognizedAccounts   |-> accounts,
     unrecognizedAccounts |-> others,
     knownPdas            |-> BuildKnownPdaInventory(accounts),
     chanceryConfig       |-> FirstAccount(accounts, "ChanceryConfig"),
     issuedTokenControl   |-> FirstAccount(accounts, "IssuedTokenControl"),
     assets               |-> Assets(accounts),
     pathways             |-> Pathways(accounts)]

-----------------------------------------------------------------------------
(* The ledger and one discovery *)

Init ==
    /\ ledger = {} /\ phase = "idle" /\ listing = << >> /\ index = 1
    /\ recognized = << >> /\ unrecognized = << >> /\ inventory = Null /\ previous = Null

(* The program's instructions, or its operators, open and close accounts. *)
LedgerChanges ==
    /\ phase = "idle"
    /\ \/ \E a \in Accounts : /\ Cardinality(ledger) < MaxAccounts
                              /\ \A b \in ledger : b.address # a.address
                              /\ ledger' = ledger \cup {a}
       \/ \E a \in ledger : ledger' = ledger \ {a}
    /\ previous' = Null
    /\ UNCHANGED <<phase, listing, index, recognized, unrecognized, inventory>>

Fail ==
    /\ phase' = "failed"
    /\ UNCHANGED <<ledger, listing, index, recognized, unrecognized, inventory, previous>>

(* getProgramAccounts answers with all the program's accounts, in any order. *)
(* A request that fails is thrown at once, and leaves nothing behind.       *)
GetProgramAccounts ==
    /\ phase = "idle"
    /\ phase' = "scanning" /\ index' = 1 /\ recognized' = << >> /\ unrecognized' = << >>
    /\ inventory' = Null
    /\ listing' \in SetToSeqs(ledger)
    /\ UNCHANGED <<ledger, previous>>

ValidateProgramAccount(a) == a.owner = ProgramAddress /\ ~a.executable

(* decodeChanceryAccount: an unknown discriminator, or a size or field the *)
(* layout refuses, is an error; only the first is told apart by the caller. *)
DecodeChanceryAccount(a) ==
    IF a.name \notin SchemaAccounts THEN "unknown" ELSE IF a.malformed THEN "malformed" ELSE "decoded"

(* A plausible bug: an account with an unknown discriminator is forgotten. *)
KeepUnrecognizedNothing(a) == unrecognized' = unrecognized

KeepUnrecognized(a) == unrecognized' = Append(unrecognized, a.address)

(* An account with its canonical address, as far as the policies tell it. *)
Discovered(a, policies) ==
    [address |-> a.address, name |-> a.name, values |-> a.values,
     canonicalPda |-> ObserveCanonicalPda(a.address, a.name, a.values, policies)]

OfDomain(accounts) == {a \in accounts : a.name = "RemoteDomainPolicy"}

Scan ==
    /\ phase = "scanning" /\ index <= Len(listing)
    /\ LET a == listing[index]
       IN  /\ ValidateProgramAccount(a) /\ DecodeChanceryAccount(a) # "malformed"
           /\ IF DecodeChanceryAccount(a) = "unknown"
              THEN KeepUnrecognized(a) /\ UNCHANGED recognized
              ELSE recognized' = Append(recognized, Discovered(a, {})) /\ UNCHANGED unrecognized
    /\ index' = index + 1
    /\ UNCHANGED <<ledger, phase, listing, inventory, previous>>

ScanThrows ==
    /\ phase = "scanning" /\ index <= Len(listing)
    /\ ~ValidateProgramAccount(listing[index]) \/ DecodeChanceryAccount(listing[index]) = "malformed"
    /\ Fail

(* A plausible bug: only the policies listed before a nonce count. *)
LinkNoncesWithEarlierPolicies ==
    /\ phase = "scanning" /\ index > Len(listing)
    /\ recognized' = [k \in DOMAIN recognized |->
           LET a == recognized[k]
           IN  IF a.name # "RemoteNonce" THEN a
               ELSE [a EXCEPT !.canonicalPda = ObserveCanonicalPda(a.address, a.name, a.values,
                         OfDomain({recognized[j] : j \in 1..k}))]]
    /\ phase' = "linking"
    /\ UNCHANGED <<ledger, listing, index, unrecognized, inventory, previous>>

(* The second pass: the nonces again, now that every domain policy is known. *)
LinkNonces ==
    /\ phase = "scanning" /\ index > Len(listing)
    /\ LET policies == OfDomain(ToSet(recognized))
       IN  recognized' = [k \in DOMAIN recognized |->
               LET a == recognized[k]
               IN  IF a.name # "RemoteNonce" THEN a
                   ELSE [a EXCEPT !.canonicalPda =
                             ObserveCanonicalPda(a.address, a.name, a.values, policies)]]
    /\ phase' = "linking"
    /\ UNCHANGED <<ledger, listing, index, unrecognized, inventory, previous>>

Assemble ==
    /\ phase = "linking" /\ ~DuplicateIds(Sorted(recognized))
    /\ recognized' = Sorted(recognized)
    /\ unrecognized' = InOrder(ToSet(unrecognized), CompareAddresses(ToSet(unrecognized)))
    /\ inventory' = BuildInventory(Len(listing), recognized', unrecognized')
    /\ phase' = "done"
    /\ UNCHANGED <<ledger, listing, index, previous>>

AssembleThrows == phase = "linking" /\ DuplicateIds(Sorted(recognized)) /\ Fail

(* The caller has its answer, and may ask again. *)
Return ==
    /\ phase \in {"done", "failed"}
    /\ previous' = [phase |-> phase, inventory |-> inventory]
    /\ phase' = "idle" /\ listing' = << >> /\ index' = 1 /\ recognized' = << >>
    /\ unrecognized' = << >> /\ inventory' = Null
    /\ UNCHANGED ledger

Next ==
    \/ LedgerChanges \/ GetProgramAccounts \/ Scan \/ ScanThrows
    \/ LinkNonces \/ Assemble \/ AssembleThrows \/ Return

Spec == Init /\ [][Next]_vars

-----------------------------------------------------------------------------
(* Properties *)

(* The accounts a discovery works on are the ledger's, each at most once.  *)
TypeOK ==
    /\ ledger \subseteq Accounts /\ Cardinality(ledger) <= MaxAccounts
    /\ phase \in {"idle", "scanning", "linking", "done", "failed"}
    /\ listing \in Seq(ledger) /\ index \in 1..(Len(listing) + 1)
    /\ Len(recognized) + Len(unrecognized) = index - 1
    /\ ToSet(Addresses(recognized)) \cup ToSet(unrecognized)
           = {listing[k].address : k \in 1..(index - 1)}
    /\ phase # "done" => inventory = Null

(* Two discoveries of one unchanged ledger report the same, inventory or   *)
(* error, whatever order the node lists the accounts in: the sort of       *)
(* discoverChanceryState, findByPublicKeyField's and firstAccount's choice *)
(* of the first match, and the order-sensitive scan for nonces.            *)
RepeatedDiscoveryAgrees ==
    phase \in {"done", "failed"} /\ previous # Null =>
        previous = [phase |-> phase, inventory |-> inventory]

(* A nonce is verified exactly when a domain policy of the ledger yields   *)
(* its address, wherever the two stand in the listing; it is unresolved    *)
(* only if the policies of its domain are several or missing               *)
(* (deriveRemoteNonceCanonicalPda and the second pass).                    *)
NonceVerdictsAreComplete ==
    phase = "done" => \A k \in DOMAIN recognized : recognized[k].name = "RemoteNonce" =>
        LET nonce == recognized[k]
            policies == DomainPolicies(nonce.values, OfDomain(ledger))
            offered == {DeriveRemoteNonceAddress(p.values.remote_chain_kind,
                            nonce.values.remote_domain_id, nonce.values.scope_key) : p \in policies}
            verdict == nonce.canonicalPda
        IN  /\ (verdict # NoObservation /\ verdict.addressMatches) <=> nonce.address \in offered
            /\ verdict = NoObservation <=> nonce.address \notin offered /\ Cardinality(policies) # 1
            /\ verdict # NoObservation => verdict.expected \in offered

(* Each link of a pathway names the one policy account of the ledger with  *)
(* the pathway's id for that link, and is empty only if the id is zero or  *)
(* no account has it; the asset of a pathway's mint lists the pathway      *)
(* (buildPathwayInventory, linkedPolicy, the assets loop).                 *)
LinksAreExact ==
    phase = "done" =>
        /\ \A a \in ledger : a.name = "PathwayPolicy" =>
              \E k \in DOMAIN inventory.pathways :
                  LET pathway == inventory.pathways[k]
                      Policies(l) == {b.address : b \in {c \in ledger :
                                         /\ c.name = PathwayLinks[l][1]
                                         /\ c.values[PolicyIds[c.name]] = a.values[PathwayLinks[l][2]]
                                         /\ c.values[PolicyIds[c.name]] # ZeroId}}
                  IN  /\ pathway.address = a.address
                      /\ \A l \in DOMAIN PathwayLinks :
                             IF pathway.links[l] = Null THEN Policies(l) = {}
                             ELSE Policies(l) = {pathway.links[l]}
        /\ \A k \in DOMAIN inventory.assets, a \in ledger :
              a.name = "PathwayPolicy" /\ a.values.asset_mint = inventory.assets[k].assetMint
                  => a.address \in ToSet(inventory.assets[k].pathways)

(* A foreign or executable account, one its layout refuses, or two policies of a
   type with one id. *)
Bad(accounts) ==
    \/ \E a \in accounts : \/ a.owner # ProgramAddress \/ a.executable
                           \/ a.name \in SchemaAccounts /\ a.malformed
    \/ \E a, b \in accounts : a # b /\ SameId(a, b)

(* A discovery fails only over a listing no inventory could be right for:  *)
(* a foreign or executable account, one its layout refuses, or two         *)
(* policies with one id; and over such a listing it always fails, wherever *)
(* the culprit stands.                                                     *)
FailsExactlyOnBadLedger == /\ phase = "failed" => Bad(ledger)
                           /\ phase = "done" => ~Bad(ledger)

(* Every account of the ledger is reported once, recognized or not, and    *)
(* every fixed address says what the ledger holds there.                   *)
NothingIsLost ==
    phase = "done" =>
        /\ inventory.accountCount = Cardinality(ledger)
        /\ Len(inventory.recognizedAccounts) + Len(inventory.unrecognizedAccounts) = inventory.accountCount
        /\ \A a \in ledger :
              \/ a.address \in ToSet(inventory.unrecognizedAccounts)
              \/ \E k \in DOMAIN inventory.recognizedAccounts :
                    /\ inventory.recognizedAccounts[k].address = a.address
                    /\ inventory.recognizedAccounts[k].name = a.name
        /\ \A a \in ledger, n \in DOMAIN inventory.knownPdas :
              a.address = KnownPdaAddresses[n] /\ a.name \in SchemaAccounts => inventory.knownPdas[n] = a.name
=============================================================================
