----------------------------- MODULE DevnetSetup ------------------------------
(***************************************************************************)
(* setupDirectTesting of the devnet tools: register the tester's pathway,  *)
(* grant the two direct roles on it, create token accounts and ask the     *)
(* faucet for collateral.  The steps are transactions of their own, so a   *)
(* setup that fails is simply repeated; "repeating setup preserves         *)
(* matching pathway and permission state and performs another faucet       *)
(* request".  A tester's setups follow each other, but what an earlier one *)
(* sent may still land; bare grants for the same record, and the           *)
(* administration all testers share, run at any time.                      *)
(***************************************************************************)
EXTENDS PermissionGrant, Functions, FiniteSets

CONSTANTS
    Setups,             \* the grants that are made by a setup
    Earlier(_, _),      \* Earlier(f, g): setup f ends before setup g starts
    InitialPathways,    \* what may be at the pathway's address
    Amount,             \* what the faucet is asked for
    MaxPathways         \* bound on the changes of the pathway

(* "none", the "direct" testing profile, that profile "paused", or an "other". *)
PathwayKinds == {"none", "direct", "paused", "other"}

ASSUME SetupAssumption ==
    /\ Setups \subseteq Grants /\ IsFiniteSet(Setups) /\ Amount \in Nat \ {0}
    /\ InitialPathways \subseteq PathwayKinds

VARIABLES
    pathways,   \* external: what has been at the pathway's address, oldest first
    accounts,   \* external: the token accounts exist
    balances,   \* external: the tester's collateral over time
    setupTx,    \* external: setupTx[g], what became of g's latest transaction
    setup       \* setup[g]: the local variables of the call

setupVars == <<pathways, accounts, balances, setupTx, setup>>

SetupInit ==
    /\ Init
    /\ pathways \in {<<p>> : p \in InitialPathways}
    /\ accounts = FALSE
    /\ balances = <<0>>
    /\ setupTx = [g \in Setups |-> "none"]
    /\ setup = [g \in Setups |-> [pc |-> "pathway", previous |-> 0]]

SetupAt(g, pc) == setup[g].pc = pc
SetupGoto(g, pc) == setup' = [setup EXCEPT ![g].pc = pc]
Ended(g) == setup[g].pc \in {"returned", "failed"}

(* What a node that may be behind answers. *)
Views(history) == {history[i] : i \in {j \in DOMAIN history : j + MaxLag >= Len(history)}}

----------------------------------------------------------------------------
(* registerDirectPathway. *)

(* A plausible bug: whatever is registered is taken for the tester's own. *)
MatchesAny(pathway) == pathway # "none"

(* The direct testing profile, active and without policies. *)
Matches(pathway) == pathway = "direct"

ReadPathway(g) ==
    /\ SetupAt(g, "pathway")
    /\ \A f \in Setups : Earlier(f, g) => Ended(f)
    /\ \E p \in Views(pathways) :
         SetupGoto(g, IF p = "none" THEN "register"
                      ELSE IF Matches(p) THEN "grant" ELSE "failed")
    /\ UNCHANGED <<pathways, accounts, balances, setupTx>>

ReadRegistered(g) ==
    /\ SetupAt(g, "registered")
    /\ \E p \in Views(pathways) : SetupGoto(g, IF Matches(p) THEN "grant" ELSE "failed")
    /\ UNCHANGED <<pathways, accounts, balances, setupTx>>

----------------------------------------------------------------------------
(* submitInstructions, for the transactions of the setup itself. *)

SetupTransactions == {"register", "accounts", "mint"}

SendSetup(g) ==
    /\ setup[g].pc \in SetupTransactions
    /\ setupTx[g] = "none"
    /\ setupTx' = [setupTx EXCEPT ![g] = setup[g].pc]
    /\ UNCHANGED <<pathways, accounts, balances, setup>>

NextSetupStage == [register |-> "registered", accounts |-> "balance", mint |-> "funded"]

(* A plausible bug: a transaction that was sent counts as confirmed. *)
SetupConfirmedEarly(g) ==
    /\ setup[g].pc \in SetupTransactions
    /\ setupTx[g] # "none"
    /\ SetupGoto(g, NextSetupStage[setup[g].pc])
    /\ setupTx' = [setupTx EXCEPT ![g] = "none"]
    /\ UNCHANGED <<pathways, accounts, balances>>

SetupConfirmed(g) ==
    /\ setup[g].pc \in SetupTransactions
    /\ setupTx[g] = "executed"
    /\ SetupGoto(g, NextSetupStage[setup[g].pc])
    /\ setupTx' = [setupTx EXCEPT ![g] = "none"]
    /\ UNCHANGED <<pathways, accounts, balances>>

----------------------------------------------------------------------------
(* The grant, and faucetTestAsset. *)

GrantEnded(g) ==
    /\ SetupAt(g, "grant")
    /\ \/ At(g, "returned") /\ SetupGoto(g, "accounts")
       \/ At(g, "failed") /\ SetupGoto(g, "failed")
    /\ UNCHANGED <<pathways, accounts, balances, setupTx>>

ReadBalance(g) ==
    /\ SetupAt(g, "balance")
    /\ \E b \in Views(balances) :
         setup' = [setup EXCEPT ![g] = [@ EXCEPT !.pc = "mint", !.previous = b]]
    /\ UNCHANGED <<pathways, accounts, balances, setupTx>>

(* The balance read back must have grown by exactly the amount. *)
ReadFunded(g) ==
    /\ SetupAt(g, "funded")
    /\ \E b \in Views(balances) :
         SetupGoto(g, IF b = setup[g].previous + Amount THEN "returned" ELSE "failed")
    /\ UNCHANGED <<pathways, accounts, balances, setupTx>>

(* A rejected or timed out call, or the process is gone. *)
Abandon(g) ==
    /\ ~Ended(g) /\ ~SetupAt(g, "grant")
    /\ SetupGoto(g, "failed")
    /\ UNCHANGED <<pathways, accounts, balances, setupTx>>

SetupDirectTesting(g) ==
    \/ ReadPathway(g) \/ SendSetup(g) \/ SetupConfirmed(g) \/ ReadRegistered(g)
    \/ GrantEnded(g) \/ ReadBalance(g) \/ ReadFunded(g) \/ Abandon(g)

----------------------------------------------------------------------------
(* External: the programs, and the shared administration. *)

Executed(g) == setupTx' = [setupTx EXCEPT ![g] = "executed"]

ExecuteRegistration(g) ==
    /\ setupTx[g] = "register" /\ pathways[Len(pathways)] = "none"
    /\ pathways' = Append(pathways, "direct") /\ Executed(g)
    /\ UNCHANGED <<accounts, balances, setup>>

(* The associated token program's create, if it does not exist. *)
ExecuteAccounts(g) ==
    /\ setupTx[g] = "accounts"
    /\ accounts' = TRUE /\ Executed(g)
    /\ UNCHANGED <<pathways, balances, setup>>

ExecuteMint(g) ==
    /\ setupTx[g] = "mint"
    /\ balances' = Append(balances, balances[Len(balances)] + Amount) /\ Executed(g)
    /\ UNCHANGED <<pathways, accounts, setup>>

DropSetupTransaction(g) ==
    /\ setupTx[g] \in SetupTransactions
    /\ setupTx' = [setupTx EXCEPT ![g] = "dropped"]
    /\ UNCHANGED <<pathways, accounts, balances, setup>>

Programs(g) ==
    ExecuteRegistration(g) \/ ExecuteAccounts(g) \/ ExecuteMint(g) \/ DropSetupTransaction(g)

Administer ==
    /\ Len(pathways) < MaxPathways
    /\ \/ pathways[Len(pathways)] = "direct" /\ pathways' = Append(pathways, "paused")
       \/ pathways[Len(pathways)] = "paused" /\ pathways' = Append(pathways, "direct")
       \/ pathways[Len(pathways)] = "none" /\ pathways' = Append(pathways, "other")
    /\ UNCHANGED <<accounts, balances, setupTx, setup>>

SetupNext ==
    \/ /\ \/ Administer
          \/ \E g \in Setups : SetupDirectTesting(g) \/ Programs(g)
       /\ UNCHANGED vars
    \/ /\ \/ Tick
          \/ \E g \in Grants : Program(g)
          \/ \E g \in Grants : /\ g \in Setups => SetupAt(g, "grant")
                               /\ GrantPermission(g)
       /\ UNCHANGED setupVars

SetupSpec == SetupInit /\ [][SetupNext]_<<vars, setupVars>>

----------------------------------------------------------------------------
(* Properties. *)

SetupStages == {"pathway", "registered", "grant", "balance", "funded", "returned", "failed"}
                 \cup SetupTransactions

(* Every variable of a setup keeps its type. *)
SetupTypeOK ==
    /\ pathways \in Seq(PathwayKinds) /\ pathways # <<>>
    /\ accounts \in BOOLEAN
    /\ balances \in Seq(Nat) /\ balances # <<>>
    /\ setupTx \in [Setups -> SetupTransactions \cup {"none", "executed", "dropped"}]
    /\ setup \in [Setups -> [pc : SetupStages, previous : Nat]]

(* A setup that returns leaves nothing half done, however earlier runs ended:
   its roles are in force on a pathway that has had the testing profile, the
   token accounts exist, and every return stands for a faucet request of its
   own - late transactions of failed runs are never counted in its place. *)
ReturnedSetupIsComplete ==
    /\ \A g \in Setups : SetupAt(g, "returned") =>
         /\ Grant[g].roles \subseteq Record.roles
         /\ "direct" \in Range(pathways)
         /\ accounts
    /\ balances[Len(balances)] >= Amount * Cardinality({g \in Setups : SetupAt(g, "returned")})

(* Setup proposes roles for no pathway that never had the testing profile, even
   if another one is registered between its first read and its own
   registration. *)
GrantsOnlyOnTheProfile ==
    \A g \in Setups : pending[g].status # "none" => "direct" \in Range(pathways)
=============================================================================
