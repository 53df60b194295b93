------------------------ MODULE MCInstructionBuilder ------------------------
(***************************************************************************)
(* Three settlement templates with the controls that tell them apart: the  *)
(* delegated and the trilateral one have the same arguments and share the  *)
(* executor, the direct one has the activation account, which has both a   *)
(* default and seeds.  The fourth is the schema's set_asset_pause, which   *)
(* the page has no template for: its pause record is derived from another  *)
(* account, the mint that stands behind it.  No instruction of the schema  *)
(* derives an account from one that is derived itself.                     *)
(***************************************************************************)
EXTENDS InstructionBuilder

Key(n) == [name |-> n, default |-> None, pda |-> None]
Activation == [name |-> "activation", default |-> <<"pda", <<"module">>>>, pda |-> <<[kind |-> "const", name |-> "module"]>>]
AssetPauseState == [name |-> "asset_pause_state", default |-> None,
                    pda |-> <<[kind |-> "const", name |-> "asset-pause"], [kind |-> "account", name |-> "asset_mint"]>>]

MCInstructions ==
    [mint_direct     |-> [args |-> <<"pathway_id">>, accounts |-> <<Activation, Key("principal")>>],
     mint_delegated  |-> [args |-> <<"intent_id">>, accounts |-> <<Key("executor"), Key("principal")>>],
     mint_trilateral |-> [args |-> <<"intent_id">>, accounts |-> <<Key("executor"), Key("principal_a")>>],
     set_asset_pause |-> [args |-> <<"pause_bits">>, accounts |-> <<AssetPauseState, Key("asset_mint")>>]]

MCTemplates == <<"mint_direct", "mint_delegated", "mint_trilateral", "set_asset_pause">>

MCTemplateOf ==
    [t \in Range(MCTemplates) |->
        [instructionName |-> t,
         values |-> CASE t = "mint_direct"     -> [pathway_id |-> <<t, "pathway_id", "zero">>]
                      [] t = "set_asset_pause" -> [pause_bits |-> <<t, "pause_bits", "zero">>]
                      [] OTHER                 -> [intent_id |-> <<t, "intent_id", "zero">>],
         vaultAccounts |-> CASE t = "mint_direct"     -> {"principal"}
                             [] t = "set_asset_pause" -> {}
                             [] OTHER                 -> {"executor"}]]

MCTyped(t, n) ==
    CASE n \in {"pathway_id", "intent_id", "pause_bits"} -> {}
      [] n = "principal" -> {<<t, n, "typed">>, Token}
      [] OTHER -> {<<t, n, "typed">>}
=============================================================================
