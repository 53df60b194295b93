----------------------- MODULE MCSettlementReadiness -----------------------
(***************************************************************************)
(* Small instances of SettlementReadiness: one settlement of each mode, on *)
(* a deployment that would accept it, where up to MaxSlot changes, each of *)
(* one account, happen before and during the inspection.                   *)
(***************************************************************************)
EXTENDS SettlementReadiness

MCPathways == {"p1", "p2"}

NoPause == [bits |-> {}, expires_at_slot |-> 0]
Asset == [asset |-> "usd", mode |-> "active", observed |-> {"fee"}, approved |-> {"fee", "hook"}, forbidden |-> {},
          observed_at |-> 0, max_age |-> 0, minimum |-> [mint |-> 1, redeem |-> 1], maximum |-> 0, rate |-> 3]
Issued == [issued_token_mint |-> "gold", issued_token_program |-> "token", ready |-> TRUE, active |-> {"hook"}, observed_at |-> 0, max_age |-> 0]
Path(kind) == [kind |-> kind, asset |-> "usd", issued_token |-> "gold", initialized |-> TRUE, paused |-> FALSE,
               source_account_policy |-> 0, destination_account_policy |-> 0,
               designated_executor |-> None, forbidden_collateral |-> {}, forbidden_issued |-> {},
               evidence |-> kind = "delegated", fee |-> kind # "trilateral",
               limits |-> IF kind = "direct" THEN {"asset"} ELSE {"counterparty", "executor"}]
Permission(roles) == [roles |-> roles, schema |-> 1, paused |-> FALSE, expires_at |-> 0]
Policy == [canonical |-> TRUE, flags |-> {}, asset |-> None, modes |-> {"delegated", "trilateral"}, principal_a |-> None, principal_b |-> None,
           executor |-> None, minimum |-> 0, maximum |-> 0, valid_after |-> 0, expires_at |-> 0]
IntentOf(mode, action) ==
    [principal_a |-> "a", principal_b |-> IF mode = "trilateral" THEN "b" ELSE "a", executor |-> "x",
     mode |-> mode, action |-> action, asset |-> "usd", issued_token |-> "gold", pathway |-> "p1", policy |-> TRUE,
     amount |-> 1, minimum_output |-> IF mode = "trilateral" THEN 3 ELSE 2, status |-> "pending", valid_after |-> 0, expires_at |-> 0]

Token(account, amount) == [account |-> account, bound |-> TRUE, amount |-> amount]

PermissionNames == {<<"permission", q, p>> : q \in {"a", "b", "x"}, p \in MCPathways}
RolesOf(q) == CASE q = "a" -> {<<"mint", "direct">>, <<"redeem", "direct">>,
                               <<"mint", "delegated">>, <<"redeem", "delegated">>}
                [] q = "b" -> {<<"use", "trilateral">>}
                [] q = "x" -> {<<"execute", "settlement">>}

AccountNames ==
    {<<"module">>, <<"pause">>, <<"asset_config">>, <<"asset_pause">>, <<"issued_token_control">>,
     <<"config">>, <<"mint", "usd">>, <<"mint", "gold">>, <<"intent">>, <<"settlement_policy">>, <<"fee_policy">>, <<"evidence_policy">>}
    \cup {<<"pathway", p>> : p \in MCPathways} \cup PermissionNames
    \cup {<<"limit_policy", l>> : l \in {"asset", "counterparty", "executor"}}
    \cup {<<"usage", q>> : q \in {"usd", "a", "b", "x"}}
    \cup {<<k, t>> : k \in {"associated", "others"}, t \in {"source", "destination", "reserve", "fee_recipient"}}

(* A deployment in which the settlement asked for is possible. *)
Deployment(mode, action, second) ==
    [n \in AccountNames |->
        CASE n[1] = "module"               -> [settlement |-> "active"]
          [] n[1] \in {"pause"}            -> NoPause
          [] n[1] = "asset_pause"          -> Missing
          [] n[1] = "asset_config"         -> Asset
          [] n[1] = "issued_token_control" -> Issued
          [] n[1] = "config"               -> [issued_token_mint |-> "gold", issued_token_program |-> "token",
                                               mint_authority |-> MINT_AUTHORITY]
          [] n[1] = "mint"                 -> [bound |-> TRUE, initialized |-> TRUE]
          [] n[1] = "intent"               -> IntentOf(mode, action)
          [] n[1] = "settlement_policy"    -> Policy
          [] n[1] = "fee_policy"           -> [fee |-> 1, routed |-> action = "redeem", active |-> TRUE,
                                               supported |-> TRUE, from |-> 0, until |-> 0]
          [] n[1] = "evidence_policy"      -> [supported |-> TRUE]
          [] n[1] = "pathway"              -> IF n[2] = "p1" \/ second THEN Path(mode) ELSE Missing
          [] n[1] = "permission"           -> IF n[3] = "p1" THEN Permission(RolesOf(n[2])) ELSE Missing
          [] n[1] = "limit_policy"         -> [scope |-> <<n[2], IF n[2] = "asset" THEN "usd" ELSE None>>,
                                               daily_only |-> TRUE, per_transaction |-> 0, maximum |-> 3]
          [] n[1] = "usage"                -> [start |-> 0, used |-> 0]
          [] n[1] = "associated"           -> IF n[2] = "destination" THEN Missing ELSE Token("associated", 3)
          [] n[1] = "others"               -> IF n[2] = "destination" \/ (n[2] = "source" /\ action = "redeem")
                                              THEN <<Token("first", 2)>> ELSE <<>>]

Ask(action, mode, id, minimum) ==
    [action |-> action, mode |-> mode, asset |-> "usd", principal |-> "a", principal_b |-> None,
     executor |-> IF mode = "delegated" THEN "x" ELSE None, amount |-> IF mode = "direct" THEN 1 ELSE None,
     pathway_id |-> id, minimum_output |-> minimum]

DirectCases ==
    {[request |-> Ask("mint", "direct", None, 1), world |-> Deployment("direct", "mint", FALSE)],
     [request |-> Ask("redeem", "direct", "p1", None), world |-> Deployment("direct", "redeem", TRUE)]}
(* The delegated request has a minimum of its own, below the intent's. *)
IntentCases ==
    {[request |-> Ask("redeem", "delegated", None, 1), world |-> Deployment("delegated", "redeem", FALSE)],
     [request |-> Ask("mint", "trilateral", None, None), world |-> Deployment("trilateral", "mint", FALSE)]}
AllCases == DirectCases \cup IntentCases

(***************************************************************************)
(* What administrators, settlements and owners may turn an account into,   *)
(* where the mode of the request makes inspect look at it.                 *)
(***************************************************************************)
PauseChanges == {NoPause, [NoPause EXCEPT !.bits = {"mint", "redeem"}], [bits |-> {"redeem"}, expires_at_slot |-> 1]}

LookedAt(mode, n) ==
    CASE n[1] \in {"intent", "settlement_policy"} -> mode # "direct"
      [] n[1] = "evidence_policy" -> mode = "delegated"
      [] n[1] = "fee_policy"      -> mode # "trilateral"
      [] n[1] = "permission"      -> n[3] = "p1" /\ (n[2] = "a" \/ (n[2] = "x" /\ mode # "direct") \/ mode = "trilateral")
      [] n[1] = "limit_policy"    -> n[2] \in Path(mode).limits
      [] n[1] = "usage"           -> IF n[2] = "usd" THEN mode = "direct"
                                     ELSE mode = "trilateral" \/ (mode = "delegated" /\ n[2] # "b")
      [] n[1] \in {"associated", "others"} -> n[2] # "fee_recipient" \/ mode # "trilateral"
      [] OTHER -> TRUE

MCChanges(w, n, s) ==
    LET c    == w[n]
        mode == w[<<"pathway", "p1">>].kind
    IN  {v \in CASE ~LookedAt(mode, n) -> {}
          [] n[1] = "module"          -> {[settlement |-> "inactive"]}
          [] n[1] \in {"pause", "asset_pause"} -> PauseChanges
          [] n[1] = "asset_config"    -> {[c EXCEPT !.mode = "wind_down"], [c EXCEPT !.observed = {"hook"}],
                                          [c EXCEPT !.observed_at = 1], [c EXCEPT !.max_age = 1],
                                          [c EXCEPT !.rate = 2], [c EXCEPT !.minimum.redeem = 2]}
          [] n[1] = "issued_token_control" -> {[c EXCEPT !.ready = FALSE], [c EXCEPT !.issued_token_mint = "other"]}
          [] n[1] = "mint"            -> {Missing}
          [] n[1] = "intent"          -> IF c = Missing THEN {} ELSE {[c EXCEPT !.status = "executed"], [c EXCEPT !.executor = "b"], Missing}
          [] n[1] = "settlement_policy" -> {[c EXCEPT !.asset = "eur"], [c EXCEPT !.flags = {"unknown"}]}
          [] n[1] = "fee_policy"      -> {[c EXCEPT !.fee = 3, !.routed = TRUE], [c EXCEPT !.from = 1, !.until = 2]}
          [] n[1] = "evidence_policy" -> {[supported |-> FALSE]}
          [] n = <<"pathway", "p1">>  -> {[c EXCEPT !.paused = TRUE], [c EXCEPT !.designated_executor = "b"],
                                          [c EXCEPT !.destination_account_policy = 1], [c EXCEPT !.limits = {}]}
          [] n = <<"pathway", "p2">>  -> {Path(mode)}
          [] n[1] = "permission"      -> IF c = Missing THEN {Permission(RolesOf(n[2]))}
                                         ELSE {Missing, [c EXCEPT !.expires_at = 1]}
          [] n[1] = "limit_policy"    -> {[c EXCEPT !.maximum = 0], [c EXCEPT !.per_transaction = 1],
                                          [c EXCEPT !.scope = <<n[2], "eur">>]}
          [] n[1] = "usage"           -> {[start |-> CanonicalDay(s), used |-> 3]}
          [] n[1] = "associated"      -> {Missing, Token("associated", 0)}
                                            \cup (IF c = Missing THEN {} ELSE {[c EXCEPT !.bound = FALSE]})
          [] n = <<"others", "source">> -> {<<Token("first", 1)>>, <<Token("first", 1), Token("second", 1)>>}
          [] OTHER -> {} : v # c}
=============================================================================
