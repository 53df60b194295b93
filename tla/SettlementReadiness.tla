------------------------ MODULE SettlementReadiness ------------------------
(***************************************************************************)
(* ChanceryClient.inspect as a staged evaluation: the accounts it reads,   *)
(* in which order, what makes it throw, what it reports as blocking and    *)
(* the instruction it builds, while administrators and other users keep    *)
(* changing those accounts.                                                *)
(*                                                                         *)
(* The chain is the sequence of its states, one per slot; an account is    *)
(* named by a tuple and a state maps every name to the account's contents, *)
(* or to Missing.  Every read is answered by some node, from the state of  *)
(* some slot at or above the context floor.  The floor of overlapping      *)
(* calls and the windows of the pathway limit are the subject of           *)
(* Inspection, fee arithmetic is that of SettlementQuote; here a slot      *)
(* lasts one second and a fee is an amount.                                *)
(***************************************************************************)
EXTENDS Integers, Sequences, FiniteSets

CONSTANTS
    Cases,      \* pairs of a request and the chain state it is made in
    Pathways,   \* pathway identifiers
    Changes(_, _, _), \* Changes(w, a, s): what account a of state w may become in slot s
    Missing,    \* what getAccountInfo returns for no account
    None,       \* an optional value that is absent, or the zero address
    Day,        \* the period of a daily usage window, in seconds
    MaxSlot     \* bound on the number of slots

ASSUME ReadinessAssumption == MaxSlot \in Nat /\ Day \in Nat \ {0}

VARIABLES
    request,            \* the request being inspected
    history,            \* history[s + 1] is the chain state of slot s
    minimumContextSlot, \* the context floor of ChanceryRpc
    clock,              \* the slot of the Clock sysvar read, or None
    pending,            \* the reads still to be made, in order
    seen,               \* what the reads so far returned
    pathway,            \* the pathway selected, or None
    result,             \* "running", or how inspect ended
    instruction         \* the settlement instruction, once built

vars == <<request, history, minimumContextSlot, clock, pending, seen, pathway, result, instruction>>

Tip == Len(history) - 1
World(s) == history[s + 1]

(***************************************************************************)
(* The cluster: a slot in which nothing happens, or one account is given   *)
(* other contents by an administrator, a settlement or its owner.          *)
(***************************************************************************)
ProduceSlot ==
    /\ result = "running"
    /\ Tip < MaxSlot
    /\ \/ history' = Append(history, World(Tip))
       \/ \E a \in DOMAIN World(Tip) : \E c \in Changes(World(Tip), a, Tip + 1) :
              history' = Append(history, [World(Tip) EXCEPT ![a] = c])
    /\ UNCHANGED <<request, minimumContextSlot, clock, pending, seen, pathway, result, instruction>>

(* getSlot, then the Clock sysvar at or above it; both raise the floor. *)
SlotReply(s) ==
    /\ result = "running"
    /\ minimumContextSlot = None
    /\ minimumContextSlot' = s
    /\ UNCHANGED <<request, history, clock, pending, seen, pathway, result, instruction>>

ClockReply(s) ==
    /\ result = "running"
    /\ clock = None
    /\ minimumContextSlot # None
    /\ s >= minimumContextSlot
    /\ clock' = s
    /\ minimumContextSlot' = s
    /\ UNCHANGED <<request, history, pending, seen, pathway, result, instruction>>

Have(a) == a \in DOMAIN seen

(***************************************************************************)
(* The operation's identity: the request's own for a direct settlement,    *)
(* the intent's otherwise.                                                 *)
(***************************************************************************)
Identity(i) ==
    IF request.mode = "direct"
    THEN [principal_a |-> request.principal, principal_b |-> request.principal,
          executor |-> request.principal, amount |-> request.amount,
          minimum |-> None, pathway |-> request.pathway_id]
    ELSE [principal_a |-> i.principal_a, principal_b |-> i.principal_b,
          executor |-> i.executor, amount |-> i.amount,
          minimum |-> i.minimum_output, pathway |-> i.pathway]

Intent == IF request.mode = "direct" THEN None ELSE seen[<<"intent">>]
Operation == Identity(Intent)

(* An optional field of the request that contradicts the intent throws. *)
IntentRejected(i) ==
    \/ i.principal_a # request.principal
    \/ request.principal_b \notin {None, i.principal_b}
    \/ request.executor \notin {None, i.executor}
    \/ request.amount \notin {None, i.amount}
    \/ request.pathway_id \notin {None, i.pathway}

IssuedTokenMint == seen[<<"config">>].issued_token_mint

PathwayMatches(p, c) ==
    /\ c.kind = request.mode
    /\ c.asset = request.asset
    /\ c.issued_token = IssuedTokenMint
    /\ Operation.pathway \in {None, p}

(* selectPathwayCandidate: the status of a pathway is not looked at. *)
MatchingPathways(listing) == {p \in Pathways : listing[p] # Missing /\ PathwayMatches(p, listing[p])}

PathwayValues == seen[<<"pathway", pathway>>]

(***************************************************************************)
(* The parties that need a permission on the pathway, in the order in      *)
(* which the records are read, and the role each must hold.                *)
(***************************************************************************)
RequiredPrincipalRole(action, mode) ==
    IF mode = "direct" THEN <<action, "direct">> ELSE <<action, "delegated">>

PermissionDefinitions ==
    <<[subject |-> Operation.principal_a,
       role |-> RequiredPrincipalRole(request.action, request.mode)]>>
    \o (IF request.mode = "trilateral"
        THEN <<[subject |-> Operation.principal_b, role |-> <<"use", "trilateral">>]>>
        ELSE <<>>)
    \o (IF request.mode # "direct"
        THEN <<[subject |-> Operation.executor, role |-> <<"execute", "settlement">>]>>
        ELSE <<>>)

PermissionRecord(n) == <<"permission", PermissionDefinitions[n].subject, pathway>>

(***************************************************************************)
(* The daily limits besides the pathway's own: the policy bound by the     *)
(* pathway and the party (or asset) whose usage window it is charged to.   *)
(***************************************************************************)
AllDimensions ==
    <<[label |-> "asset", policy |-> "asset", scope |-> request.asset]>>
    \o (IF request.mode = "trilateral"
        THEN <<[label |-> "counterparty_a", policy |-> "counterparty", scope |-> Operation.principal_a],
               [label |-> "counterparty_b", policy |-> "counterparty", scope |-> Operation.principal_b]>>
        ELSE <<[label |-> "counterparty", policy |-> "counterparty", scope |-> Operation.principal_a]>>)
    \o (IF request.mode # "direct"
        THEN <<[label |-> "executor", policy |-> "executor", scope |-> Operation.executor]>>
        ELSE <<>>)

LimitDimensions == SelectSeq(AllDimensions, LAMBDA d : d.policy \in PathwayValues.limits)

LimitPolicies ==
    SelectSeq(<<"asset", "counterparty">> \o (IF request.mode = "direct" THEN <<>> ELSE <<"executor">>),
              LAMBDA l : l \in PathwayValues.limits)

(***************************************************************************)
(* The reads of inspect, in order.  What is read later depends on what was *)
(* read before: a reply puts the reads it leads to before or behind the    *)
(* ones still pending.                                                     *)
(***************************************************************************)
FirstReads ==
    <<<<"module">>, <<"config">>, <<"pause">>, <<"asset_config">>, <<"asset_pause">>,
      <<"issued_token_control">>>>
    \o (IF request.mode = "direct" THEN <<>> ELSE <<<<"intent">>>>) \o <<<<"pathways">>>>

BoundPolicy(name, bound) == IF bound THEN <<<<name>>>> ELSE <<>>

(* The policies, permission records, usage windows and token accounts. *)
PathwayReads ==
    BoundPolicy("fee_policy", PathwayValues.fee)
    \o BoundPolicy("evidence_policy", PathwayValues.evidence)
    \o [n \in 1..Len(LimitPolicies) |-> <<"limit_policy", LimitPolicies[n]>>]
    \o [n \in 1..Len(PermissionDefinitions) |-> PermissionRecord(n)]
    \o [n \in 1..Len(LimitDimensions) |-> <<"usage", LimitDimensions[n].scope>>]
    \o <<<<"associated", "source">>, <<"associated", "destination">>, <<"associated", "reserve">>>>

Routed(fee_policy) == fee_policy.fee > 0 /\ fee_policy.routed
FeeRouted == PathwayValues.fee /\ Routed(seen[<<"fee_policy">>])

(* An absent associated token account is looked for among the owner's. *)
ReadsBefore(a, c) ==
    CASE a = <<"issued_token_control">> -> <<<<"mint", request.asset>>, <<"mint", IssuedTokenMint>>>>
      [] a = <<"intent">>   -> BoundPolicy("settlement_policy", c.policy)
      [] a = <<"pathways">> -> <<<<"pathway", pathway'>>>>
      [] a[1] = "associated" /\ a[2] # "reserve" /\ c = Missing -> <<<<"owned", a[2]>>>>
      [] OTHER -> <<>>

ReadsBehind(a, c) ==
    CASE a[1] = "pathway"     -> PathwayReads'
      [] a = <<"fee_policy">> -> IF Routed(c) THEN <<<<"associated", "fee_recipient">>>> ELSE <<>>
      [] OTHER                -> <<>>

Init ==
    /\ \E c \in Cases : request = c.request /\ history = <<c.world>>
    /\ minimumContextSlot = None
    /\ clock = None
    /\ pending = FirstReads
    /\ seen = [a \in {} |-> Missing]
    /\ pathway = None
    /\ result = "running"
    /\ instruction = None

(* Accounts whose absence does not throw where they are read. *)
AllowMissing == {"asset_pause", "mint", "permission", "usage", "associated"}

(***************************************************************************)
(* The accounts of one holder t (a role of the settlement) for one mint:   *)
(* the associated one and the others.  "bound" says that an account        *)
(* belongs to the expected token program, mint and owner.  The listing of  *)
(* the owner's accounts has the associated one too, if it exists by then;  *)
(* what is not bound is skipped.                                           *)
(***************************************************************************)
OwnerAccounts(w, t) ==
    LET associated == IF w[<<"associated", t>>] = Missing THEN <<>> ELSE <<w[<<"associated", t>>]>>
    IN  SelectSeq(associated \o w[<<"others", t>>], LAMBDA c : c.bound)

Contents(w, a) ==
    CASE a = <<"pathways">> -> [p \in Pathways |-> w[<<"pathway", p>>]]
      [] a[1] = "owned"     -> OwnerAccounts(w, a[2])
      [] OTHER              -> w[a]

(* What a read throws, if it does. *)
ThrownBy(a, c) ==
    CASE a = <<"pathways">>             -> IF Cardinality(MatchingPathways(c)) = 1 THEN None ELSE "pathway"
      [] c = Missing                    -> IF a[1] \in AllowMissing THEN None ELSE "missing"
      [] a = <<"intent">>               -> IF IntentRejected(c) THEN "identity" ELSE None
      [] a[1] \in {"associated", "mint"} -> IF c.bound THEN None ELSE "binding"
      [] a[1] = "owned"                 -> IF Len(c) > 1 THEN "ambiguous" ELSE None
      [] OTHER                          -> None

(* The reply: the contents of some slot at or above the floor. *)
ReadReply ==
    /\ result = "running"
    /\ clock # None
    /\ pending # <<>>
    /\ UNCHANGED <<request, history, minimumContextSlot, clock, instruction>>
    /\ LET a == Head(pending)
       IN  \E c \in {Contents(World(s), a) : s \in minimumContextSlot..Tip} :
           /\ seen' = [b \in DOMAIN seen \cup {a} |-> IF b = a THEN c ELSE seen[b]]
           /\ IF ThrownBy(a, c) = None
              THEN /\ pathway' = IF a = <<"pathways">> THEN CHOOSE p \in MatchingPathways(c) : TRUE ELSE pathway
                   /\ pending' = ReadsBefore(a, c) \o Tail(pending) \o ReadsBehind(a, c)
                   /\ result' = result
              ELSE result' = ThrownBy(a, c) /\ UNCHANGED <<pathway, pending>>

(***************************************************************************)
(* The checks.  Each is a local rule over the snapshots; a check that      *)
(* fails adds a blocking issue and the evaluation goes on.                 *)
(***************************************************************************)
Effective(now, from, until) == (from = 0 \/ now >= from) /\ (until = 0 \/ now < until)

(* A plausible bug: the expiry slot of a pause is ignored. *)
PauseInForceForever(c, action, slot) == c # Missing /\ action \in c.bits

PauseInForce(c, action, slot) ==
    /\ c # Missing
    /\ c.expires_at_slot = 0 \/ slot < c.expires_at_slot
    /\ action \in c.bits

(* The extension no collateral mint may carry, whatever its asset approves. *)
COLLATERAL_TRANSFER_HOOK_EXTENSION == "hook"

(* The canonical mint-authority address. *)
MINT_AUTHORITY == "mint_authority"

ExtensionFresh(c, slot) ==
    /\ c.observed_at <= slot
    /\ c.max_age = 0 \/ slot - c.observed_at <= c.max_age

ValidateCoreSettlementGates(slot) ==
    LET asset  == seen[<<"asset_config">>]
        issued == seen[<<"issued_token_control">>]
    IN  /\ seen[<<"module">>].settlement = "active"
        /\ asset.mode = "active" \/ (request.action = "redeem" /\ asset.mode = "wind_down")
        /\ ExtensionFresh(asset, slot)
        /\ asset.observed \subseteq asset.approved
        /\ COLLATERAL_TRANSFER_HOOK_EXTENSION \notin asset.observed
        /\ asset.observed \cap (asset.forbidden \cup PathwayValues.forbidden_collateral) = {}
        /\ issued.ready
        /\ ExtensionFresh(issued, slot)
        /\ issued.active \cap PathwayValues.forbidden_issued = {}
        /\ PathwayValues.evidence => seen[<<"evidence_policy">>].supported

(* A source or destination account policy is one the settlement handlers refuse. *)
PathwayIsActive == PathwayValues.initialized /\ ~PathwayValues.paused
AccountPoliciesSupported == PathwayValues.source_account_policy = 0 /\ PathwayValues.destination_account_policy = 0

DesignatedExecutorAllowed ==
    request.mode = "direct" \/ PathwayValues.designated_executor \in {None, Operation.executor}

ValidateIntentAgainstPathway(now) ==
    request.mode = "direct" \/
        /\ Intent.mode = request.mode
        /\ Intent.action = request.action
        /\ Intent.asset = request.asset
        /\ Intent.issued_token = IssuedTokenMint
        /\ Intent.pathway = pathway
        /\ Intent.status = "pending"
        /\ Effective(now, Intent.valid_after, Intent.expires_at)

(* canonical: the stored id and bump are those of the address it was read at. *)
ObserveSettlementPolicy(now) ==
    Have(<<"settlement_policy">>) =>
        LET policy == seen[<<"settlement_policy">>]
        IN  /\ policy.canonical
            /\ policy.flags = {}
            /\ policy.modes # {} /\ policy.modes \subseteq {"delegated", "trilateral"}
            /\ request.mode \in policy.modes
            /\ policy.asset \in {None, request.asset}
            /\ policy.principal_a \in {None, Operation.principal_a}
            /\ policy.principal_b \in {None, Operation.principal_b}
            /\ policy.executor \in {None, Operation.executor}
            /\ policy.maximum = 0 \/ policy.minimum <= policy.maximum
            /\ Operation.amount >= policy.minimum
            /\ policy.maximum = 0 \/ Operation.amount <= policy.maximum
            /\ policy.expires_at = 0 \/ policy.valid_after < policy.expires_at
            /\ Effective(now, policy.valid_after, policy.expires_at)

(* The quote: the output at the configured rate, less the policy's fee. *)
GrossOutput == Operation.amount * seen[<<"asset_config">>].rate
NetFee == IF PathwayValues.fee THEN seen[<<"fee_policy">>].fee ELSE 0
NetOutput == IF GrossOutput >= NetFee THEN GrossOutput - NetFee ELSE 0

(* supported: the denomination is the output's, and the percentage and the
   rebate are of a kind the program settles. *)
FeePolicyEffective(now) ==
    PathwayValues.fee =>
        /\ seen[<<"fee_policy">>].active
        /\ Effective(now, seen[<<"fee_policy">>].from, seen[<<"fee_policy">>].until)
        /\ seen[<<"fee_policy">>].supported
        /\ NetOutput # 0

MinimumOutput ==
    IF request.minimum_output # None THEN request.minimum_output
    ELSE IF Operation.minimum # None THEN Operation.minimum ELSE NetOutput

ValidateAmount ==
    LET asset == seen[<<"asset_config">>]
    IN  /\ Operation.amount >= asset.minimum[request.action]
        /\ asset.maximum = 0 \/ Operation.amount <= asset.maximum
        /\ MinimumOutput <= NetOutput

PermissionUsable(n, now) ==
    LET record == seen[PermissionRecord(n)]
    IN  /\ record # Missing
        /\ PermissionDefinitions[n].role \in record.roles
        /\ record.schema = 1
        /\ ~record.paused
        /\ record.expires_at = 0 \/ now < record.expires_at

LimitNotional == IF request.action = "mint" THEN Operation.amount ELSE GrossOutput

(* A policy bound to a dimension has the dimension's scope, that of an asset
   limit with the asset as its key. *)
PolicyScope(policy) == <<policy, IF policy = "asset" THEN request.asset ELSE None>>

CanonicalDay(now) == (now \div Day) * Day

(* observeLimitPolicy of the daily window: a window of an earlier day counts
   for nothing, one of a later day is a clock regression, enforced or not. *)
ValidateDimension(d, now) ==
    LET policy  == seen[<<"limit_policy", d.policy>>]
        usage   == seen[<<"usage", d.scope>>]
        current == usage # Missing /\ usage.start = CanonicalDay(now)
    IN  /\ policy.scope = PolicyScope(d.policy)
        /\ policy.daily_only
        /\ d.policy = "counterparty" /\ request.mode = "delegated" => policy.maximum # 0
        /\ policy.per_transaction = 0 \/ LimitNotional <= policy.per_transaction
        /\ usage # Missing => usage.start <= CanonicalDay(now)
        /\ policy.maximum # 0 =>
              usage # Missing /\ (IF current THEN usage.used ELSE 0) + LimitNotional <= policy.maximum

(* #resolveTokenAccount: the associated account, else the owner's only one. *)
TokenAccount(t) ==
    CASE seen[<<"associated", t>>] # Missing -> seen[<<"associated", t>>]
      [] Have(<<"owned", t>>) /\ Len(seen[<<"owned", t>>]) = 1 -> seen[<<"owned", t>>][1]
      [] OTHER -> Missing

RequiredReserve == IF request.action = "redeem" THEN NetOutput + (IF FeeRouted THEN NetFee ELSE 0) ELSE 0

ValidateTokenAccounts ==
    /\ TokenAccount("source") # Missing /\ TokenAccount("source").amount >= Operation.amount
    /\ TokenAccount("destination") # Missing
    /\ TokenAccount("reserve") # Missing /\ TokenAccount("reserve").amount >= RequiredReserve
    /\ FeeRouted => TokenAccount("fee_recipient") # Missing

ObservePauses(slot) ==
    /\ ~PauseInForce(seen[<<"pause">>], request.action, slot)
    /\ ~PauseInForce(seen[<<"asset_pause">>], request.action, slot)

(* The mints exist, and the singletons name each other's mint and authority. *)
DeploymentBound ==
    LET config  == seen[<<"config">>]
        control == seen[<<"issued_token_control">>]
    IN  /\ \A m \in {request.asset, IssuedTokenMint} :
              seen[<<"mint", m>>] # Missing /\ seen[<<"mint", m>>].initialized
        /\ seen[<<"asset_config">>].asset = request.asset
        /\ control.issued_token_mint = IssuedTokenMint
        /\ control.issued_token_program = config.issued_token_program
        /\ config.mint_authority = MINT_AUTHORITY

NoBlockingIssue ==
    /\ DeploymentBound
    /\ PathwayIsActive
    /\ AccountPoliciesSupported
    /\ DesignatedExecutorAllowed
    /\ ValidateIntentAgainstPathway(clock)
    /\ ValidateCoreSettlementGates(clock)
    /\ ObserveSettlementPolicy(clock)
    /\ ValidateAmount
    /\ FeePolicyEffective(clock)
    /\ \A n \in 1..Len(PermissionDefinitions) : PermissionUsable(n, clock)
    /\ \A n \in 1..Len(LimitDimensions) : ValidateDimension(LimitDimensions[n], clock)
    /\ ValidateTokenAccounts
    /\ ObservePauses(clock)

(***************************************************************************)
(* buildInstructionArguments and buildInstructionAccounts: the accounts    *)
(* by the position's name, taken from the permission and limit lists by    *)
(* index and label.  A required token account that is missing throws, so   *)
(* the issue already recorded for it is never returned.                    *)
(***************************************************************************)
TokenAccountsUnavailable ==
    \E t \in {"source", "destination", "reserve"} : TokenAccount(t) = Missing

(* A plausible bug: the executor's record taken by the delegated index. *)
PermissionAccountsByFirstTwo ==
    CASE request.mode = "direct"     -> [principal |-> PermissionRecord(1)]
      [] request.mode = "delegated"  -> [principal |-> PermissionRecord(1), executor |-> PermissionRecord(2)]
      [] request.mode = "trilateral" -> [principal |-> PermissionRecord(1), principal_b |-> PermissionRecord(2),
                                         executor |-> PermissionRecord(2)]

PermissionAccounts ==
    CASE request.mode = "direct"     -> [principal |-> PermissionRecord(1)]
      [] request.mode = "delegated"  -> [principal |-> PermissionRecord(1), executor |-> PermissionRecord(2)]
      [] request.mode = "trilateral" -> [principal |-> PermissionRecord(1), principal_b |-> PermissionRecord(2),
                                         executor |-> PermissionRecord(3)]

(* Windows that do not exist are left out, as compactAccountInputs does. *)
WindowAccounts ==
    LET present == SelectSeq(LimitDimensions, LAMBDA d : seen[<<"usage", d.scope>>] # Missing)
        labels  == {present[n].label : n \in 1..Len(present)}
    IN  [l \in labels |->
            <<"usage", present[CHOOSE n \in 1..Len(present) : present[n].label = l].scope>>]

(* Only a direct instruction carries the amount and a minimum; the others name
   the intent, whose minimum the program applies. *)
BuildInstructionArguments ==
    IF request.mode = "direct"
    THEN [pathway_id |-> pathway, amount |-> Operation.amount, minimum |-> MinimumOutput]
    ELSE [pathway_id |-> pathway, intent_id |-> <<"intent">>]

PartyAccounts ==
    CASE request.mode = "direct"     -> [principal |-> Operation.principal_a]
      [] request.mode = "delegated"  -> [principal |-> Operation.principal_a, executor |-> Operation.executor]
      [] request.mode = "trilateral" -> [principal_a |-> Operation.principal_a,
                                         principal_b |-> Operation.principal_b, executor |-> Operation.executor]

TokenAccounts ==
    [t \in {"source", "destination", "reserve"}
             \cup (IF FeeRouted /\ TokenAccount("fee_recipient") # Missing THEN {"fee_recipient"} ELSE {})
        |-> TokenAccount(t).account]

BuildInstruction ==
    [arguments |-> BuildInstructionArguments, parties |-> PartyAccounts,
     permissions |-> PermissionAccounts, windows |-> WindowAccounts, tokens |-> TokenAccounts,
     policies |-> {a \in DOMAIN seen : a[1] \in {"fee_policy", "evidence_policy", "limit_policy", "settlement_policy"}}]

(* The reserve listing is the last read; its contents are only reported. *)
ReserveDestinationsReply ==
    /\ result = "running"
    /\ clock # None
    /\ pending = <<>>
    /\ IF TokenAccountsUnavailable
       THEN result' = "unavailable" /\ instruction' = None
       ELSE /\ result' = IF NoBlockingIssue THEN "ready" ELSE "blocked"
            /\ instruction' = BuildInstruction
    /\ UNCHANGED <<request, history, minimumContextSlot, clock, pending, seen, pathway>>

(* A request the node or the transport fails makes inspect throw, and what it
   had read is gone. *)
RequestFails ==
    /\ result = "running"
    /\ result' = "failed"
    /\ pending' = <<>>
    /\ seen' = [a \in {} |-> Missing]
    /\ pathway' = None
    /\ UNCHANGED <<request, history, minimumContextSlot, clock, instruction>>

Next ==
    \/ ProduceSlot
    \/ RequestFails
    \/ ReadReply
    \/ ReserveDestinationsReply
    \/ \E s \in 0..Tip : SlotReply(s) \/ ClockReply(s)

Spec == Init /\ [][Next]_vars

(***************************************************************************)
(* What the settlement program demands of a chain state, of the parties of *)
(* an operation and of the accounts handed to it.                          *)
(***************************************************************************)
Positions(op) ==
    CASE request.mode = "direct" ->
            [principal |-> <<op.principal_a, <<request.action, "direct">>>>]
      [] request.mode = "delegated" ->
            [principal |-> <<op.principal_a, <<request.action, "delegated">>>>,
             executor  |-> <<op.executor, <<"execute", "settlement">>>>]
      [] request.mode = "trilateral" ->
            [principal   |-> <<op.principal_a, <<request.action, "delegated">>>>,
             principal_b |-> <<op.principal_b, <<"use", "trilateral">>>>,
             executor    |-> <<op.executor, <<"execute", "settlement">>>>]

Parties(op) ==
    CASE request.mode = "direct"     -> [principal |-> op.principal_a]
      [] request.mode = "delegated"  -> [principal |-> op.principal_a, executor |-> op.executor]
      [] request.mode = "trilateral" -> [principal_a |-> op.principal_a, principal_b |-> op.principal_b,
                                         executor |-> op.executor]

ChargedWindows(op) ==
    CASE request.mode = "direct" -> [asset |-> request.asset, counterparty |-> op.principal_a]
      [] request.mode = "delegated" ->
            [asset |-> request.asset, counterparty |-> op.principal_a, executor |-> op.executor]
      [] request.mode = "trilateral" ->
            [asset |-> request.asset, counterparty_a |-> op.principal_a,
             counterparty_b |-> op.principal_b, executor |-> op.executor]

PolicyOf(label) == IF label \in {"asset", "executor"} THEN label ELSE "counterparty"

BoundDimensions(w, p, op) == {l \in DOMAIN ChargedWindows(op) : PolicyOf(l) \in w[<<"pathway", p>>].limits}
Enforced(w, label) == w[<<"limit_policy", PolicyOf(label)>>].maximum # 0

(* The policy accounts the pathway and the intent name. *)
BoundPolicies(w, p, op) ==
    {a \in DOMAIN w :
        \/ a = <<"fee_policy">> /\ w[<<"pathway", p>>].fee
        \/ a = <<"evidence_policy">> /\ w[<<"pathway", p>>].evidence
        \/ a = <<"settlement_policy">> /\ request.mode # "direct" /\ w[<<"intent">>].policy
        \/ \E l \in BoundDimensions(w, p, op) : a = <<"limit_policy", PolicyOf(l)>>}

(* The token account of holder t that has this name. *)
Held(w, t, account) ==
    LET accounts == OwnerAccounts(w, t)
        found    == {n \in DOMAIN accounts : accounts[n].account = account}
    IN  IF found = {} THEN Missing ELSE accounts[CHOOSE n \in found : TRUE]

OperationIn(w) == Identity(IF request.mode = "direct" THEN None ELSE w[<<"intent">>])

Candidates(w) ==
    {p \in Pathways : /\ w[<<"pathway", p>>] # Missing
                      /\ w[<<"pathway", p>>].kind = request.mode
                      /\ w[<<"pathway", p>>].asset = request.asset
                      /\ w[<<"pathway", p>>].issued_token = w[<<"config">>].issued_token_mint
                      /\ OperationIn(w).pathway \in {None, p}}

IntentAllows(w, now) ==
    request.mode = "direct" \/
        LET intent == w[<<"intent">>]
        IN  /\ intent # Missing
            /\ ~IntentRejected(intent)
            /\ intent.mode = request.mode /\ intent.action = request.action /\ intent.asset = request.asset
            /\ intent.issued_token = w[<<"config">>].issued_token_mint
            /\ intent.status = "pending" /\ Effective(now, intent.valid_after, intent.expires_at)
            /\ intent.policy =>
                 LET policy == w[<<"settlement_policy">>]
                 IN  /\ policy.canonical /\ policy.flags = {} /\ request.mode \in policy.modes
                     /\ policy.asset \in {None, intent.asset}
                     /\ \A q \in {"principal_a", "principal_b", "executor"} : policy[q] \in {None, intent[q]}
                     /\ intent.amount >= policy.minimum
                     /\ policy.maximum = 0 \/ intent.amount <= policy.maximum
                     /\ Effective(now, policy.valid_after, policy.expires_at)

(* The daily limits of pathway p leave room for a charge at time now. *)
LimitsAllow(w, p, op, charge, now) ==
    \A l \in BoundDimensions(w, p, op) :
        LET policy == w[<<"limit_policy", PolicyOf(l)>>]
            window == w[<<"usage", ChargedWindows(op)[l]>>]
        IN  /\ policy.scope = PolicyScope(PolicyOf(l)) /\ policy.daily_only
            /\ policy.per_transaction # 0 => charge <= policy.per_transaction
            /\ window # Missing => window.start <= CanonicalDay(now)
            /\ l = "counterparty" /\ request.mode = "delegated" => Enforced(w, l)
            /\ Enforced(w, l) =>
                 /\ window # Missing
                 /\ IF window.start < CanonicalDay(now) THEN charge <= policy.maximum
                    ELSE window.used + charge <= policy.maximum

(* State w lets pathway p settle for at least the output "least", with the
   token accounts named by "tokens". *)
StateAllows(w, p, now, tokens, least) ==
    LET op     == OperationIn(w)
        path   == w[<<"pathway", p>>]
        config == w[<<"config">>]
        asset  == w[<<"asset_config">>]
        issued == w[<<"issued_token_control">>]
        gross  == op.amount * asset.rate
        fee    == IF path.fee THEN w[<<"fee_policy">>].fee ELSE 0
        routed == fee > 0 /\ w[<<"fee_policy">>].routed
        Token(t) == IF t \in DOMAIN tokens THEN Held(w, t, tokens[t]) ELSE Missing
    IN  /\ w[<<"module">>].settlement = "active"
        /\ \A m \in {request.asset, config.issued_token_mint} :
              w[<<"mint", m>>] # Missing /\ w[<<"mint", m>>].bound /\ w[<<"mint", m>>].initialized
        /\ asset.asset = request.asset /\ config.mint_authority = MINT_AUTHORITY
        /\ <<issued.issued_token_mint, issued.issued_token_program>>
              = <<config.issued_token_mint, config.issued_token_program>>
        /\ \A c \in {w[<<"pause">>], w[<<"asset_pause">>]} :
              c = Missing \/ request.action \notin c.bits \/ (c.expires_at_slot # 0 /\ now >= c.expires_at_slot)
        /\ path.initialized /\ ~path.paused
        /\ path.source_account_policy + path.destination_account_policy = 0
        /\ request.mode # "direct" => path.designated_executor \in {None, op.executor}
        /\ asset.mode \in (IF request.action = "mint" THEN {"active"} ELSE {"active", "wind_down"})
        /\ \A c \in {asset, issued} : now >= c.observed_at /\ (c.max_age = 0 \/ now <= c.observed_at + c.max_age)
        /\ \A e \in asset.observed : e \in asset.approved \ (asset.forbidden \cup path.forbidden_collateral)
        /\ COLLATERAL_TRANSFER_HOOK_EXTENSION \notin asset.observed
        /\ issued.ready /\ \A e \in issued.active : e \notin path.forbidden_issued
        /\ path.evidence => w[<<"evidence_policy">>].supported
        /\ path.fee => LET policy == w[<<"fee_policy">>]
                       IN  policy.active /\ policy.supported /\ Effective(now, policy.from, policy.until)
        /\ op.amount >= asset.minimum[request.action] /\ (asset.maximum = 0 \/ op.amount <= asset.maximum)
        /\ path.fee => gross > fee
        /\ gross - fee >= least
        /\ \A q \in DOMAIN Positions(op) :
              LET record == w[<<"permission", Positions(op)[q][1], p>>]
              IN  /\ record # Missing /\ Positions(op)[q][2] \in record.roles /\ ~record.paused
                  /\ record.schema = 1 /\ (record.expires_at = 0 \/ now < record.expires_at)
        /\ LimitsAllow(w, p, op, IF request.action = "mint" THEN op.amount ELSE gross, now)
        /\ Token("source") # Missing /\ Token("source").amount >= op.amount
        /\ Token("destination") # Missing
        /\ Token("reserve") # Missing
        /\ request.action = "redeem" => Token("reserve").amount >= gross - fee + (IF routed THEN fee ELSE 0)
        /\ routed => Token("fee_recipient") # Missing

(* The minimum the program applies: the argument of a direct instruction, the
   intent's own otherwise. *)
ProgramMinimum(w, i) ==
    IF request.mode = "direct" THEN i.arguments.minimum ELSE w[<<"intent">>].minimum_output

(* The accounts of instruction i are those of the operation in state w. *)
AccountsBound(w, i) ==
    LET op == OperationIn(w)
        p  == i.arguments.pathway_id
    IN  /\ request.mode = "direct" => i.arguments.amount = op.amount
        /\ i.parties = Parties(op)
        /\ i.permissions = [q \in DOMAIN Positions(op) |-> <<"permission", Positions(op)[q][1], p>>]
        /\ i.policies = BoundPolicies(w, p, op)
        /\ \A l \in BoundDimensions(w, p, op) : Enforced(w, l) =>
              l \in DOMAIN i.windows /\ i.windows[l] = <<"usage", ChargedWindows(op)[l]>>

(* The program settles instruction i in state w, for at least "least". *)
Accepts(w, i, now, least) ==
    /\ IntentAllows(w, now)
    /\ w[<<"pathway", i.arguments.pathway_id>>] # Missing
    /\ StateAllows(w, i.arguments.pathway_id, now, i.tokens, least)
    /\ AccountsBound(w, i)

(* The token accounts a request without overrides means: the associated one
   where it exists, else the holder's only one. *)
MeantTokens(w) ==
    LET Others(t) == SelectSeq(w[<<"others", t>>], LAMBDA c : c.bound)
        Unique(t) == t # "reserve" /\ Len(Others(t)) = 1
    IN  [t \in {h \in {"source", "destination", "reserve", "fee_recipient"} :
                    w[<<"associated", h>>] # Missing \/ Unique(h)}
            |-> IF w[<<"associated", t>>] # Missing THEN "associated" ELSE Others(t)[1].account]

(* One pathway fits the request in state w and the program would settle on it,
   for what the request, or else the intent, demands. *)
Settleable(w, now) ==
    /\ IntentAllows(w, now)
    /\ LET op    == OperationIn(w)
           least == IF request.minimum_output # None THEN request.minimum_output
                    ELSE IF op.minimum # None THEN op.minimum ELSE 0
       IN  \E p \in Pathways : Candidates(w) = {p} /\ StateAllows(w, p, now, MeantTokens(w), least)

(***************************************************************************)
(* Properties.                                                             *)
(***************************************************************************)
Refusals == {"blocked", "missing", "identity", "pathway", "binding", "ambiguous", "unavailable"}

TypeOK ==
    /\ Len(history) \in 1..(MaxSlot + 1)
    /\ minimumContextSlot \in {None} \cup 0..Tip
    /\ clock \in {None, minimumContextSlot}
    /\ pathway \in {None} \cup Pathways
    /\ result \in {"ready", "blocked", "unavailable"} => pending = <<>>
    /\ result \in Refusals \cup {"running", "ready", "failed"}
    /\ (instruction # None) = (result \in {"ready", "blocked"})

(* At most one account changed since the slot of the Clock that was read. *)
OneAccountChanged ==
    \E a \in DOMAIN World(0) : \A s \in clock..Tip : \A b \in DOMAIN World(0) \ {a} : World(s)[b] = World(clock)[b]

(* The associated account of holder t, absent when it was looked up, is in the
   listing of the owner's accounts. *)
AssociatedListed(t) ==
    /\ Have(<<"owned", t>>)
    /\ \E n \in DOMAIN seen[<<"owned", t>>] : seen[<<"owned", t>>][n].account = "associated"

(* The chain state put together from the last that was read of each account,
   the accounts not read being those of slot s. *)
Observed(s) ==
    LET Listed(t, b) == SelectSeq(seen[<<"owned", t>>], LAMBDA c : (c.account = "associated") = b)
        Last(a) ==
            CASE a[1] = "associated" /\ AssociatedListed(a[2])      -> Listed(a[2], TRUE)[1]
              [] a[1] = "others" /\ Have(<<"owned", a[2]>>)         -> Listed(a[2], FALSE)
              [] a[1] = "pathway" /\ ~Have(a) /\ Have(<<"pathways">>) -> seen[<<"pathways">>][a[2]]
              [] Have(a)                                            -> seen[a]
              [] OTHER                                              -> World(s)[a]
    IN  [a \in DOMAIN World(s) |-> Last(a)]

(* The request's minimum is below that of the intent, which the instruction of a
   delegated or trilateral settlement does not replace. *)
MinimumUndercut ==
    /\ request.mode # "direct" /\ request.minimum_output # None
    /\ request.minimum_output < Operation.minimum

(***************************************************************************)
(* "ready" is earned.  Whatever changed while inspect was reading, the     *)
(* program, at the observed clock, settles the very instruction inspect    *)
(* built in the state put together from the reads, with every party,       *)
(* permission record, policy, usage window and token account in its place; *)
(* and if no more than one account changed there was such a state on the   *)
(* chain, not older than the context floor.  The intent's minimum is       *)
(* excepted where the request undercuts it: inspect then compares the      *)
(* output with the request's.                                              *)
(***************************************************************************)
ReadyIsAccepted ==
    result = "ready" =>
        LET Settles(w) == Accepts(w, instruction, clock,
                                  IF MinimumUndercut THEN request.minimum_output ELSE ProgramMinimum(w, instruction))
        IN  /\ Settles(Observed(clock))
            /\ OneAccountChanged => \E s \in clock..Tip : Settles(World(s))

(***************************************************************************)
(* A refusal is never spurious: inspect reports an issue or throws only if *)
(* a state with what was read cannot be settled in, whatever the accounts  *)
(* it did not come to read hold; and if no more than one account changed   *)
(* there was such a state on the chain.  One refusal is excepted: an       *)
(* account is called ambiguous when the associated one appeared, or was    *)
(* still there on another node, between its lookup and the listing.        *)
(***************************************************************************)
RefusalWasReal ==
    result \in Refusals =>
        \/ result = "ambiguous" /\ AssociatedListed(Head(pending)[2])
        \/ /\ \A s \in clock..Tip : ~Settleable(Observed(s), clock)
           /\ OneAccountChanged => \E s \in clock..Tip : ~Settleable(World(s), clock)

(***************************************************************************)
(* README, Pathway selection: candidates are filtered by pathway status,   *)
(* "One eligible pathway proceeds automatically".  The selection fails     *)
(* only when there is not exactly one active candidate.                    *)
(***************************************************************************)
ActivePathwayProceeds ==
    result = "pathway" =>
        \E s \in clock..Tip :
            \/ request.mode # "direct" /\ World(s)[<<"intent">>] = Missing
            \/ Cardinality({p \in Candidates(World(s)) :
                                 World(s)[<<"pathway", p>>].initialized /\ ~World(s)[<<"pathway", p>>].paused}) # 1
=============================================================================
