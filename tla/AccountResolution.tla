------------------------- MODULE AccountResolution -------------------------
(***************************************************************************)
(* How a Chancery instruction gets its accounts: resolveChancery-          *)
(* InstructionAccounts of ChanceryInstruction.ts and its browser twin in   *)
(* chancery.mjs.  An account's address is the caller's, else the schema's  *)
(* default, else derived from seeds that may be other accounts; a derived  *)
(* address is the tuple of its seeds, so two derivations are equal only if *)
(* their seeds are.                                                        *)
(***************************************************************************)
EXTENDS Integers, Sequences, FiniteSetsExt

CONSTANTS
    Instructions,   \* instruction name -> its args (names) and accounts, in schema order
    None            \* no default, no seeds, no address

(* What the final loop of the resolution may find wrong with an account. *)
Problems == {"missing", "missing seed", "mismatch"}

ASSUME SchemaAssumption ==
    /\ None \notin Problems
    /\ \A i \in DOMAIN Instructions :
          LET accounts == Instructions[i].accounts
          IN  /\ accounts \in Seq({accounts[k] : k \in DOMAIN accounts})
              /\ \A j, k \in DOMAIN accounts : accounts[j].name = accounts[k].name => j = k

AccountNames(i) == {Instructions[i].accounts[k].name : k \in DOMAIN Instructions[i].accounts}

Account(i, n) == Instructions[i].accounts[CHOOSE k \in DOMAIN Instructions[i].accounts :
                                              Instructions[i].accounts[k].name = n]

DefaultAccountAddress(account) == account.default

(* A seed is a constant, an argument's encoding or another account's key. *)
PdaSeedBytes(seed, arguments, resolved) ==
    CASE seed.kind = "const"    -> seed.name
      [] seed.kind = "argument" -> arguments[seed.name]
      [] seed.kind = "account"  -> resolved[seed.name]

SeedsKnown(account, resolved) ==
    \A k \in DOMAIN account.pda : account.pda[k].kind = "account" => account.pda[k].name \in DOMAIN resolved

DeriveInstructionAccountPda(account, arguments, resolved) ==
    <<"pda", [k \in DOMAIN account.pda |-> PdaSeedBytes(account.pda[k], arguments, resolved)]>>

(* A plausible bug: the schema's default wins over the caller's address. *)
SuppliedDefaultFirst(i, inputs) ==
    LET open == {n \in AccountNames(i) : DefaultAccountAddress(Account(i, n)) # None}
    IN  [n \in open \cup (DOMAIN inputs \cap AccountNames(i)) |->
            IF n \in open THEN DefaultAccountAddress(Account(i, n)) ELSE inputs[n]]

(* The caller's addresses, and the defaults of the accounts left open. *)
Supplied(i, inputs) ==
    LET open == {n \in AccountNames(i) \ DOMAIN inputs : DefaultAccountAddress(Account(i, n)) # None}
    IN  [n \in open \cup (DOMAIN inputs \cap AccountNames(i)) |->
            IF n \in open THEN DefaultAccountAddress(Account(i, n)) ELSE inputs[n]]

(* The account is derived if it has no address yet and its seeds are known. *)
DeriveAccount(account, arguments, resolved) ==
    IF account.name \notin DOMAIN resolved /\ account.pda # None /\ SeedsKnown(account, resolved)
    THEN [n \in DOMAIN resolved \cup {account.name} |->
             IF n = account.name THEN DeriveInstructionAccountPda(account, arguments, resolved)
             ELSE resolved[n]]
    ELSE resolved

(* Passes over the accounts in schema order, as many as there are accounts; the
   code stops after a pass that adds nothing, as all later ones would. *)
ResolvedAddresses(i, arguments, inputs) ==
    LET accounts == Instructions[i].accounts
        resolved[k \in 0..(Len(accounts) * Len(accounts))] ==
            IF k = 0 THEN Supplied(i, inputs)
            ELSE DeriveAccount(accounts[1 + ((k - 1) % Len(accounts))], arguments, resolved[k - 1])
    IN  resolved[Len(accounts) * Len(accounts)]

(* What is wrong with the account, in the order the final loop finds it. *)
AccountProblem(account, arguments, resolved, verifyPdas) ==
    IF account.name \notin DOMAIN resolved THEN "missing"
    ELSE IF ~verifyPdas \/ account.pda = None THEN None
    ELSE IF ~SeedsKnown(account, resolved) THEN "missing seed"
    ELSE IF DeriveInstructionAccountPda(account, arguments, resolved) # resolved[account.name]
         THEN "mismatch" ELSE None

(* The first problem of the instruction's accounts, or None. *)
ResolutionProblem(i, arguments, inputs, verifyPdas) ==
    LET accounts == Instructions[i].accounts
        Problem(k) == AccountProblem(accounts[k], arguments,
                                     ResolvedAddresses(i, arguments, inputs), verifyPdas)
        bad == {k \in DOMAIN accounts : Problem(k) # None}
    IN  IF bad = {} THEN None ELSE Problem(Min(bad))

BuildChanceryInstruction(i, arguments, inputs) ==
    [name |-> i, arguments |-> arguments, accounts |-> ResolvedAddresses(i, arguments, inputs)]
=============================================================================
