-------------------------- MODULE MCStateDiscovery --------------------------
(* A deployment with two assets, one pathway, its policies, and accounts   *)
(* that make discovery hard: two chains with one domain id, nonces at a     *)
(* canonical and at a foreign address, a second policy with a taken id, a   *)
(* second pause state, accounts of no known layout, of a wrong size or owner. *)
EXTENDS StateDiscovery

LOCAL Make(name, address, values) ==
    [name |-> name, address |-> address, values |-> values, owner |-> "chancery",
     executable |-> FALSE, malformed |-> FALSE]

LOCAL Links == [fee_policy_id |-> "f1", limit_policy_id |-> "l1", asset_mint_limit_policy_id |-> "l2",
                asset_redeem_limit_policy_id |-> "zero", counterparty_limit_policy_id |-> "l1",
                executor_limit_policy_id |-> "l2", evidence_policy_id |-> "absent"]

MCAccounts ==
    { Make("ChanceryConfig", <<"chancery-config">>, [bump |-> "derived"]),
      Make("AssetConfig", <<"asset-config", "usdc">>, [bump |-> "derived", asset_mint |-> "usdc"]),
      Make("AssetConfig", <<"asset-config", "eurc">>, [bump |-> "derived", asset_mint |-> "eurc"]),
      Make("AssetPauseState", <<"asset-pause", "usdc">>, [bump |-> "derived", asset_mint |-> "usdc"]),
      Make("AssetPauseState", <<"elsewhere", "1">>, [bump |-> "other", asset_mint |-> "usdc"]),
      Make("PathwayPolicy", <<"pathway-policy", "p1">>,
           [bump |-> "derived", pathway_id |-> "p1", asset_mint |-> "usdc"] @@ Links),
      Make("FeePolicy", <<"fee-policy", "f1">>, [bump |-> "derived", fee_policy_id |-> "f1"]),
      Make("LimitPolicy", <<"limit-policy", "l1">>, [bump |-> "derived", limit_policy_id |-> "l1"]),
      Make("LimitPolicy", <<"limit-policy", "l2">>, [bump |-> "derived", limit_policy_id |-> "l2"]),
      Make("LimitPolicy", <<"elsewhere", "2">>, [bump |-> "derived", limit_policy_id |-> "l1"]),
      Make("LimitPolicy", <<"limit-policy", "zero">>, [bump |-> "derived", limit_policy_id |-> "zero"]),
      Make("RemoteDomainPolicy", <<"remote-domain-policy", "1", "7">>,
           [bump |-> "derived", remote_chain_kind |-> "1", remote_domain_id |-> "7"]),
      Make("RemoteDomainPolicy", <<"remote-domain-policy", "2", "7">>,
           [bump |-> "derived", remote_chain_kind |-> "2", remote_domain_id |-> "7"]),
      Make("RemoteNonce", <<"remote-nonce", "2", "7", "s">>,
           [bump |-> "derived", remote_domain_id |-> "7", scope_key |-> "s"]),
      Make("RemoteNonce", <<"elsewhere", "3">>,
           [bump |-> "derived", remote_domain_id |-> "7", scope_key |-> "s"]),
      Make("NewLayout", <<"elsewhere", "4">>, [bump |-> "derived"]),
      [Make("FeePolicy", <<"fee-policy", "f2">>, [bump |-> "derived"]) EXCEPT !.malformed = TRUE],
      [Make("FeePolicy", <<"fee-policy", "f3">>, [bump |-> "derived", fee_policy_id |-> "f3"])
          EXCEPT !.owner = "other"] }

LOCAL Rank(order) == [x \in ToSet(order) |-> CHOOSE k \in DOMAIN order : order[k] = x]

MCNameRank ==
    Rank(<<"AssetConfig", "AssetPauseState", "ChanceryConfig", "FeePolicy", "LimitPolicy", "PathwayPolicy",
           "RemoteDomainPolicy", "RemoteNonce">>)

(* Addresses are hashes: the order has nothing to do with the seeds. *)
MCAddressRank ==
    Rank(<< <<"elsewhere", "1">>, <<"limit-policy", "l2">>, <<"asset-pause", "usdc">>, <<"usdc">>, <<"eurc">>,
            <<"pathway-policy", "p1">>, <<"remote-nonce", "2", "7", "s">>, <<"limit-policy", "l1">>,
            <<"remote-domain-policy", "2", "7">>, <<"elsewhere", "3">>, <<"asset-config", "eurc">>,
            <<"asset-config", "usdc">>, <<"elsewhere", "4">>, <<"fee-policy", "f1">>, <<"elsewhere", "2">>,
            <<"remote-domain-policy", "1", "7">>, <<"limit-policy", "zero">>, <<"chancery-config">>,
            <<"fee-policy", "f2">>, <<"fee-policy", "f3">> >>)

MCKnownPdas == [chancery_config |-> <<"chancery-config">>, pause_state |-> <<"pause-state">>]
=============================================================================
