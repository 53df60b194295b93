----------------------- MODULE InstructionBuilderProofs -----------------------
(***************************************************************************)
(* The instruction builder for every schema, every set of templates none   *)
(* of whose controls include another's, and every user.                    *)
(*                                                                         *)
(* What account resolution computes is shown by induction over its passes; *)
(* the page by an invariant that follows a generation from the click to    *)
(* the result: a form is read only while it is the captured template's,    *)
(* and what is shown, kept for the export and offered as phases belongs    *)
(* together.                                                               *)
(***************************************************************************)
EXTENDS InstructionBuilder, WellFoundedInduction, TLAPS

----------------------------------------------------------------------------
(* Induction and the least element of a set. *)

Less == {p \in Nat \X Nat : p[1] < p[2]}

LEMMA LessWellFounded == IsWellFoundedOn(Less, Nat)
BY NatLessThanWellFounded DEF OpToRel, Less

LEMMA LeastExists ==
    ASSUME NEW S, S \subseteq Nat, S # {}
    PROVE  \E x \in S : \A y \in S : x <= y
<1>1. PICK x \in S : \A y \in S : ~(<<y, x>> \in Less)
  BY LessWellFounded, WFMin
<1>2. ASSUME NEW y \in S PROVE x <= y
  <2>1. x \in Nat /\ y \in Nat /\ ~(<<y, x>> \in Less)
    BY <1>1
  <2> QED BY <2>1 DEF Less
<1> QED BY <1>2

LEMMA SetInduction ==
    ASSUME NEW S, 0 \in S, \A n \in Nat : n \in S => n + 1 \in S
    PROVE  Nat \subseteq S
<1> SUFFICES ASSUME ~(Nat \subseteq S) PROVE FALSE
  OBVIOUS
<1> DEFINE T == Nat \ S
<1>1. T \subseteq Nat /\ T # {}
  OBVIOUS
<1> HIDE DEF T
<1>2. PICK x \in T : \A y \in T : x <= y
  BY <1>1, LeastExists
<1> USE DEF T
<1>3. x - 1 \in Nat /\ x - 1 < x
  OBVIOUS
<1>4. x - 1 \in S
  BY <1>2, <1>3
<1> QED BY <1>3, <1>4

LEMMA LeastIsIn ==
    ASSUME NEW S, S \subseteq Nat, S # {}
    PROVE  Min(S) \in S
BY LeastExists DEF Min

----------------------------------------------------------------------------
(* The passes of resolveChanceryInstructionAccounts. *)

(* The account that the k-th step of the passes visits. *)
Visited(accounts, k) == accounts[1 + ((k - 1) % Len(accounts))]

(* f holds what is resolved after each of the first n steps. *)
IsResolution(f, n, accounts, start, arguments) ==
    f = [k \in 0..n |-> IF k = 0 THEN start
                        ELSE DeriveAccount(Visited(accounts, k), arguments, f[k - 1])]

LEMMA ResolutionExists ==
    ASSUME NEW n \in Nat, NEW accounts, NEW start, NEW arguments
    PROVE  \E f : IsResolution(f, n, accounts, start, arguments)
<1> DEFINE S == {m \in Nat : \E f : IsResolution(f, m, accounts, start, arguments)}
<1>1. 0 \in S
  <2>1. IsResolution([k \in 0..0 |-> start], 0, accounts, start, arguments)
    BY DEF IsResolution
  <2> QED BY <2>1
<1>2. ASSUME NEW m \in Nat, m \in S PROVE m + 1 \in S
  <2>1. PICK h : IsResolution(h, m, accounts, start, arguments)
    BY <1>2
  <2> DEFINE last == DeriveAccount(Visited(accounts, m + 1), arguments, h[m])
             g == [k \in 0..(m + 1) |-> IF k = m + 1 THEN last ELSE h[k]]
  <2>2. ASSUME NEW k \in 0..(m + 1)
        PROVE  g[k] = IF k = 0 THEN start
                      ELSE DeriveAccount(Visited(accounts, k), arguments, g[k - 1])
    <3>1. CASE k = m + 1
      <4>1. k - 1 = m /\ k # 0 /\ m # m + 1 /\ g[m] = h[m] /\ g[k] = last
        BY <3>1
      <4> QED BY <3>1, <4>1
    <3>2. CASE k # m + 1
      <4>1. k \in 0..m /\ g[k] = h[k] /\ (k # 0 => k - 1 \in 0..m /\ g[k - 1] = h[k - 1])
        BY <3>2
      <4>2. h[k] = IF k = 0 THEN start
                   ELSE DeriveAccount(Visited(accounts, k), arguments, h[k - 1])
        BY <2>1, <4>1 DEF IsResolution
      <4> HIDE DEF g
      <4> QED BY <4>1, <4>2
    <3> QED BY <3>1, <3>2
  <2>3. g = [k \in 0..(m + 1) |-> g[k]]
    OBVIOUS
  <2>4. IsResolution(g, m + 1, accounts, start, arguments)
    <3> HIDE DEF g
    <3> QED BY <2>2, <2>3 DEF IsResolution
  <2> QED BY <2>4
<1>3. n \in S
  <2> HIDE DEF S
  <2> QED BY <1>1, <1>2, SetInduction
<1> QED BY <1>3

(* The schema of an instruction's accounts. *)
LEMMA SchemaFacts ==
    ASSUME NEW i \in DOMAIN Instructions
    PROVE  LET accounts == Instructions[i].accounts
           IN  /\ Len(accounts) \in Nat /\ DOMAIN accounts = 1..Len(accounts)
               /\ \A a, b \in Range(accounts) : a.name = b.name => a = b
               /\ AccountNames(i) = {a.name : a \in Range(accounts)}
               /\ \A a \in Range(accounts) : Account(i, a.name) = a
<1> DEFINE accounts == Instructions[i].accounts
<1>1. /\ accounts \in Seq({accounts[k] : k \in DOMAIN accounts})
      /\ \A j, k \in DOMAIN accounts : accounts[j].name = accounts[k].name => j = k
  BY SchemaAssumption
<1>2. Len(accounts) \in Nat /\ DOMAIN accounts = 1..Len(accounts)
  <2> DEFINE T == {accounts[k] : k \in DOMAIN accounts}
  <2>1. accounts \in Seq(T)
    BY <1>1
  <2> HIDE DEF T, accounts
  <2> QED BY <2>1
<1>3. \A a, b \in Range(accounts) : a.name = b.name => a = b
  BY <1>1 DEF Range
<1>4. AccountNames(i) = {a.name : a \in Range(accounts)}
  BY DEF AccountNames, Range
<1>5. ASSUME NEW a \in Range(accounts) PROVE Account(i, a.name) = a
  <2>1. PICK k \in DOMAIN accounts : accounts[k] = a
    BY DEF Range
  <2>2. \E j \in DOMAIN accounts : accounts[j].name = a.name
    BY <2>1
  <2> DEFINE c == CHOOSE j \in DOMAIN accounts : accounts[j].name = a.name
  <2>3. c \in DOMAIN accounts /\ accounts[c].name = a.name
    BY <2>2
  <2>4. c = k
    <3> HIDE DEF c
    <3> QED BY <1>1, <2>1, <2>3
  <2> QED BY <2>1, <2>4 DEF Account
<1> QED BY <1>2, <1>3, <1>4, <1>5

(* r agrees with what the caller gave; all else is a default or derived from r. *)
AddressSound(a, arguments, inputs, r) ==
    IF a.name \in DOMAIN inputs THEN r[a.name] = inputs[a.name]
    ELSE \/ DefaultAccountAddress(a) # None /\ r[a.name] = DefaultAccountAddress(a)
         \/ /\ a.pda # None /\ SeedsKnown(a, r)
            /\ r[a.name] = DeriveInstructionAccountPda(a, arguments, r)

ResolutionSound(i, arguments, inputs, r) ==
    /\ DOMAIN r \subseteq AccountNames(i)
    /\ DOMAIN inputs \cap AccountNames(i) \subseteq DOMAIN r
    /\ \A a \in Range(Instructions[i].accounts) :
          a.name \in DOMAIN r => AddressSound(a, arguments, inputs, r)

(* An address derived from known seeds stays the derived one as r grows. *)
Grows(r, q) == \A n \in DOMAIN r : n \in DOMAIN q /\ q[n] = r[n]

LEMMA DerivationKept ==
    ASSUME NEW a, NEW arguments, NEW r, NEW q, Grows(r, q), SeedsKnown(a, r)
    PROVE  /\ SeedsKnown(a, q)
           /\ DeriveInstructionAccountPda(a, arguments, q)
                = DeriveInstructionAccountPda(a, arguments, r)
<1>1. SeedsKnown(a, q)
  BY DEF SeedsKnown, Grows
<1>2. ASSUME NEW k \in DOMAIN a.pda
      PROVE  PdaSeedBytes(a.pda[k], arguments, q) = PdaSeedBytes(a.pda[k], arguments, r)
  BY DEF SeedsKnown, Grows, PdaSeedBytes
<1> QED BY <1>1, <1>2 DEF DeriveInstructionAccountPda

LEMMA SuppliedSound ==
    ASSUME NEW i \in DOMAIN Instructions, NEW arguments, NEW inputs
    PROVE  ResolutionSound(i, arguments, inputs, Supplied(i, inputs))
<1> DEFINE r == Supplied(i, inputs)
           open == {n \in AccountNames(i) \ DOMAIN inputs :
                      DefaultAccountAddress(Account(i, n)) # None}
<1>1. /\ DOMAIN r = open \cup (DOMAIN inputs \cap AccountNames(i))
      /\ \A n \in DOMAIN r : r[n] = IF n \in open THEN DefaultAccountAddress(Account(i, n))
                                    ELSE inputs[n]
  BY DEF Supplied
<1>2. ASSUME NEW a \in Range(Instructions[i].accounts), a.name \in DOMAIN r
      PROVE  AddressSound(a, arguments, inputs, r)
  <2>1. Account(i, a.name) = a
    BY SchemaFacts
  <2> HIDE DEF r
  <2>2. CASE a.name \in DOMAIN inputs
    BY <1>1, <1>2, <2>2 DEF AddressSound
  <2>3. CASE a.name \notin DOMAIN inputs
    BY <1>1, <1>2, <2>1, <2>3 DEF AddressSound
  <2> QED BY <2>2, <2>3
<1> HIDE DEF r
<1> QED BY <1>1, <1>2 DEF ResolutionSound, r

LEMMA DeriveSound ==
    ASSUME NEW i \in DOMAIN Instructions, NEW arguments, NEW inputs, NEW r,
           ResolutionSound(i, arguments, inputs, r),
           NEW b \in Range(Instructions[i].accounts)
    PROVE  ResolutionSound(i, arguments, inputs, DeriveAccount(b, arguments, r))
<1> DEFINE q == DeriveAccount(b, arguments, r)
           derive == b.name \notin DOMAIN r /\ b.pda # None /\ SeedsKnown(b, r)
<1>1. CASE ~derive
  <2>1. q = r
    BY <1>1 DEF DeriveAccount
  <2> QED BY <2>1
<1>2. CASE derive
  <2>1. /\ DOMAIN q = DOMAIN r \cup {b.name}
        /\ q[b.name] = DeriveInstructionAccountPda(b, arguments, r)
        /\ \A n \in DOMAIN r : q[n] = r[n]
    BY <1>2 DEF DeriveAccount
  <2> HIDE DEF q
  <2>2. Grows(r, q)
    BY <2>1 DEF Grows
  <2>3. b.name \in AccountNames(i)
    BY SchemaFacts
  <2>4. ASSUME NEW a \in Range(Instructions[i].accounts), a.name \in DOMAIN q
        PROVE  AddressSound(a, arguments, inputs, q)
    <3>1. CASE a.name \in DOMAIN r
      <4>1. AddressSound(a, arguments, inputs, r) /\ q[a.name] = r[a.name]
        BY <2>1, <3>1 DEF ResolutionSound
      <4> QED BY <2>2, <4>1, DerivationKept DEF AddressSound
    <3>2. CASE a.name = b.name
      <4>1. a = b
        BY <3>2, SchemaFacts
      <4>2. a.name \notin DOMAIN inputs
        BY <1>2, <2>3, <3>2 DEF ResolutionSound
      <4>3. /\ SeedsKnown(b, q)
            /\ DeriveInstructionAccountPda(b, arguments, q)
                 = DeriveInstructionAccountPda(b, arguments, r)
        BY <1>2, <2>2, DerivationKept
      <4> QED BY <1>2, <2>1, <4>1, <4>2, <4>3 DEF AddressSound
    <3> QED BY <2>1, <2>4, <3>1, <3>2
  <2> QED BY <2>1, <2>3, <2>4 DEF ResolutionSound, q
<1> QED BY <1>1, <1>2

(* What the passes leave: the caller's addresses, defaults and derivations. *)
LEMMA ResolvedSound ==
    ASSUME NEW i \in DOMAIN Instructions, NEW arguments, NEW inputs
    PROVE  ResolutionSound(i, arguments, inputs, ResolvedAddresses(i, arguments, inputs))
<1> DEFINE accounts == Instructions[i].accounts
           start == Supplied(i, inputs)
           n == Len(accounts) * Len(accounts)
           c == CHOOSE f : IsResolution(f, n, accounts, start, arguments)
<1>1. Len(accounts) \in Nat /\ DOMAIN accounts = 1..Len(accounts)
  BY SchemaFacts
<1>2. n \in Nat
  BY <1>1
<1>3. IsResolution(c, n, accounts, start, arguments)
  <2> HIDE DEF n, accounts, start
  <2> QED BY <1>2, ResolutionExists
<1>4. ResolvedAddresses(i, arguments, inputs) = c[n]
  BY DEF ResolvedAddresses, IsResolution, Visited
<1>5. n # 0 => Len(accounts) # 0
  BY <1>1
<1> HIDE DEF c, n, start
<1> DEFINE S == {k \in Nat : k <= n => ResolutionSound(i, arguments, inputs, c[k])}
<1>6. 0 \in S
  <2>1. c[0] = start
    BY <1>2, <1>3 DEF IsResolution
  <2> QED BY <2>1, SuppliedSound DEF start
<1>7. ASSUME NEW k \in Nat, k \in S PROVE k + 1 \in S
  <2> SUFFICES ASSUME k + 1 <= n PROVE ResolutionSound(i, arguments, inputs, c[k + 1])
    OBVIOUS
  <2>1. k + 1 \in 0..n /\ k + 1 # 0 /\ (k + 1) - 1 = k /\ k <= n /\ n # 0
    BY <1>2
  <2>2. c[k + 1] = DeriveAccount(Visited(accounts, k + 1), arguments, c[k])
    <3> HIDE DEF accounts
    <3> QED BY <1>3, <2>1 DEF IsResolution
  <2>3. Visited(accounts, k + 1) \in Range(accounts)
    <3> DEFINE l == Len(accounts)
    <3>1. l \in Nat /\ l # 0 /\ DOMAIN accounts = 1..l
      BY <1>1, <1>5, <2>1
    <3>2. Visited(accounts, k + 1) = accounts[1 + (k % l)]
      BY <2>1 DEF Visited
    <3> HIDE DEF l
    <3>3. 1 + (k % l) \in 1..l
      BY <3>1
    <3> QED BY <3>1, <3>2, <3>3 DEF Range
  <2>4. ResolutionSound(i, arguments, inputs, c[k])
    BY <1>7, <2>1
  <2> HIDE DEF accounts
  <2> QED BY <2>2, <2>3, <2>4, DeriveSound DEF accounts
<1>8. n \in S
  <2> HIDE DEF S
  <2> QED BY <1>2, <1>6, <1>7, SetInduction
<1> QED BY <1>2, <1>4, <1>8

(* A resolution without a problem has every account, and verified ones. *)
LEMMA ProblemFacts ==
    ASSUME NEW i \in DOMAIN Instructions, NEW arguments, NEW inputs, NEW verify \in BOOLEAN
    PROVE  LET problem  == ResolutionProblem(i, arguments, inputs, verify)
               resolved == ResolvedAddresses(i, arguments, inputs)
           IN  /\ problem \in Problems \cup {None}
               /\ problem = None =>
                     \A a \in Range(Instructions[i].accounts) :
                         /\ a.name \in DOMAIN resolved
                         /\ verify /\ a.pda # None =>
                               resolved[a.name] = DeriveInstructionAccountPda(a, arguments, resolved)
<1> DEFINE accounts == Instructions[i].accounts
           resolved == ResolvedAddresses(i, arguments, inputs)
           Problem(k) == AccountProblem(accounts[k], arguments, resolved, verify)
           bad == {k \in DOMAIN accounts : Problem(k) # None}
           problem == ResolutionProblem(i, arguments, inputs, verify)
<1>1. problem = IF bad = {} THEN None ELSE Problem(Min(bad))
  BY DEF ResolutionProblem
<1>2. ASSUME NEW k
      PROVE  /\ Problem(k) \in Problems \cup {None}
             /\ Problem(k) = None =>
                  /\ accounts[k].name \in DOMAIN resolved
                  /\ verify /\ accounts[k].pda # None =>
                       resolved[accounts[k].name]
                         = DeriveInstructionAccountPda(accounts[k], arguments, resolved)
  <2> DEFINE a == accounts[k]
             p == Problem(k)
             derived == DeriveInstructionAccountPda(a, arguments, resolved)
  <2>1. p = AccountProblem(a, arguments, resolved, verify)
    OBVIOUS
  <2> HIDE DEF a, p, resolved, derived
  <2>2. /\ p \in Problems \cup {None}
        /\ p = None => /\ a.name \in DOMAIN resolved
                       /\ verify /\ a.pda # None => resolved[a.name] = derived
    BY <2>1, SchemaAssumption DEF AccountProblem, Problems, derived
  <2> QED BY <2>2 DEF p, a, derived
<1> HIDE DEF Problem
<1>3. problem \in Problems \cup {None}
  BY <1>1, <1>2
<1>4. problem = None => bad = {}
  <2> SUFFICES ASSUME problem = None, bad # {} PROVE FALSE
    OBVIOUS
  <2>1. bad \subseteq Nat
    BY SchemaFacts
  <2>2. Min(bad) \in bad
    <3> HIDE DEF bad
    <3> QED BY <2>1, LeastIsIn
  <2> QED BY <1>1, <2>2
<1>5. ASSUME problem = None, NEW a \in Range(accounts)
      PROVE  /\ a.name \in DOMAIN resolved
             /\ verify /\ a.pda # None =>
                  resolved[a.name] = DeriveInstructionAccountPda(a, arguments, resolved)
  <2>1. PICK k \in DOMAIN accounts : a = accounts[k]
    BY DEF Range
  <2>2. Problem(k) = None
    BY <1>4, <1>5, <2>1
  <2> QED BY <1>2, <2>1, <2>2
<1> QED BY <1>3, <1>5

----------------------------------------------------------------------------
(* The page. *)

Panels == [wrap : BOOLEAN, multisig : Multisigs \cup {Empty}, draft : BOOLEAN]
Requests == {p \in Panels : p.multisig # Empty}
RequestVaults(request) ==
    IF request = Nothing THEN {} ELSE {VaultAddress(request.multisig)}

(* What the controls hold was rendered or typed for the template shown; only an
   account may show the token instead, or have been emptied of it. *)
ControlOwn(t, n, v) ==
    v \in Typed(t, n) \cup {Rendered(t)[n]}
          \cup (IF n \in AccountNames(Schema(t)) THEN {Empty, Token} ELSE {})
ControlsOwn == \A n \in DOMAIN controls : ControlOwn(activeTemplate, n, controls[n])

(* A generation from the click to the proposal. *)
GenerationSound(g) ==
    \/ g = Nothing
    \/ g.stage = "vault" /\ g.template \in Templates /\ g.squads \in Requests
    \/ /\ g.stage = "build" /\ g.template \in Templates /\ g.squads \in Requests \cup {Nothing}
       /\ g.problem \in Problems \cup {None}
       /\ g.problem = None => OneTemplates(g.template, RequestVaults(g.squads), g.instruction)
    \/ /\ g.stage = "proposal" /\ g.template \in Templates /\ g.squads \in Requests
       /\ OneTemplates(g.template, RequestVaults(g.squads), g.instruction)

(* What is kept for the export is what is shown, and the phases are its own. *)
ResultsAgree(kept, shown, phases) ==
    /\ DOMAIN phases = {"options", "selected"}
    /\ kept = Nothing <=> shown = Nothing
    /\ shown # Nothing =>
         /\ shown.template \in Templates
         /\ kept.outputText = shown /\ kept.transactions = shown.transactions
         /\ kept.instructionName = shown.instruction.name
         /\ DOMAIN shown.transactions \in {{}, Range(phases.options)}
         /\ phases.selected \in Range(phases.options)

FeePayerStatus ==
    status = "fee payer required" => output # Nothing /\ DOMAIN output.transactions = {}

(* The part of the invariant that the user's edits leave alone. *)
WorkInv ==
    /\ GenerationSound(generation) /\ (generation # Nothing => loaded = "loaded")
    /\ AddressesAreTheCallers /\ OutputIsOneTemplates
    /\ ResultsAgree(generated, output, exportPhase) /\ FeePayerStatus

(* The part that describes the form. *)
FormInv == TypeOK /\ ControlsOwn

PageInv == FormInv /\ WorkInv

LEMMA NothingFacts ==
    /\ \A t, i, p, x : [template |-> t, instruction |-> i, proposal |-> p, transactions |-> x] # Nothing
    /\ \A n, o, x : [instructionName |-> n, outputText |-> o, transactions |-> x] # Nothing
    /\ \A v, d, i : [vault |-> v, draft |-> d, instruction |-> i] # Nothing
    /\ \A p \in Panels : p # Nothing
    /\ \A g : g.stage \in {"vault", "build", "proposal"} => g # Nothing
<1>1. DOMAIN Nothing = {"stage"} /\ Nothing.stage = "nothing"
  BY DEF Nothing
<1>2. ASSUME NEW t, NEW i, NEW p, NEW x
      PROVE  [template |-> t, instruction |-> i, proposal |-> p, transactions |-> x] # Nothing
  <2>1. "template" \in DOMAIN [template |-> t, instruction |-> i, proposal |-> p, transactions |-> x]
    OBVIOUS
  <2> QED BY <1>1, <2>1
<1>3. ASSUME NEW n, NEW o, NEW x
      PROVE  [instructionName |-> n, outputText |-> o, transactions |-> x] # Nothing
  <2>1. "outputText" \in DOMAIN [instructionName |-> n, outputText |-> o, transactions |-> x]
    OBVIOUS
  <2> QED BY <1>1, <2>1
<1>4. ASSUME NEW v, NEW d, NEW i PROVE [vault |-> v, draft |-> d, instruction |-> i] # Nothing
  <2>1. "vault" \in DOMAIN [vault |-> v, draft |-> d, instruction |-> i]
    OBVIOUS
  <2> QED BY <1>1, <2>1
<1>5. ASSUME NEW p \in Panels PROVE p # Nothing
  <2>1. DOMAIN p = {"wrap", "multisig", "draft"}
    BY DEF Panels
  <2> QED BY <1>1, <2>1
<1> QED BY <1>1, <1>2, <1>3, <1>4, <1>5

(* A form that can be read for template t is t's own. *)
LEMMA ReadOwn ==
    ASSUME FormInv, loaded = "loaded", NEW t \in Templates, NEW vault,
           ReadProblem(Schema(t), vault) = None
    PROVE  /\ t = activeTemplate /\ DOMAIN controls = ControlNames(t)
           /\ \A n \in ControlNames(t) :
                 /\ ControlOwn(t, n, controls[n])
                 /\ controls[n] = Token => vault # None
<1>1. DOMAIN controls = ControlNames(activeTemplate) /\ activeTemplate \in Templates
  BY DEF FormInv, TypeOK, Rendered
<1>2. /\ ControlNames(t) \subseteq DOMAIN controls
      /\ vault = None => \A n \in ControlNames(t) : controls[n] # Token
  BY BuilderAssumption DEF ReadProblem, ControlNames
<1>3. t = activeTemplate
  BY <1>1, <1>2, TemplateAssumption
<1> QED BY <1>1, <1>2, <1>3 DEF FormInv, ControlsOwn

(* What is built from it is one template's. *)
LEMMA BuiltIsOneTemplates ==
    ASSUME FormInv, loaded = "loaded", NEW t \in Templates, NEW vaults, NEW vault,
           vault # None => vault \in vaults,
           ReadProblem(Schema(t), vault) = None, NEW verify \in BOOLEAN,
           ResolutionProblem(Schema(t), ReadArguments(Schema(t), vault),
                             ReadAccounts(Schema(t), vault), verify) = None
    PROVE  OneTemplates(t, vaults, BuildChanceryInstruction(Schema(t),
                            ReadArguments(Schema(t), vault), ReadAccounts(Schema(t), vault)))
<1> DEFINE i == Schema(t)
           arguments == ReadArguments(i, vault)
           inputs == ReadAccounts(i, vault)
           resolved == ResolvedAddresses(i, arguments, inputs)
           built == BuildChanceryInstruction(i, arguments, inputs)
<1>1. /\ i \in DOMAIN Instructions /\ ControlNames(t) = ArgumentNames(i) \cup AccountNames(i)
      /\ ArgumentNames(i) \cap AccountNames(i) = {}
  BY TemplateAssumption DEF ControlNames
<1>2. /\ DOMAIN controls = ControlNames(t)
      /\ \A n \in ControlNames(t) : /\ ControlOwn(t, n, controls[n])
                                    /\ controls[n] = Token => vault # None
  BY ReadOwn
<1>3. /\ DOMAIN arguments = ArgumentNames(i)
      /\ \A n \in ArgumentNames(i) : arguments[n] \in Own(t, n) \cup vaults
  <2>1. /\ DOMAIN arguments = ArgumentNames(i)
        /\ \A n \in ArgumentNames(i) : arguments[n] = ReplaceVaultToken(controls[n], vault)
    BY <1>1, <1>2 DEF ReadArguments
  <2> HIDE DEF arguments, i
  <2>2. ASSUME NEW n \in ArgumentNames(i) PROVE arguments[n] \in Own(t, n) \cup vaults
    <3>1. /\ ControlOwn(t, n, controls[n]) /\ n \notin AccountNames(i)
          /\ controls[n] = Token => vault # None
      BY <1>1, <1>2
    <3> QED BY <2>1, <3>1 DEF ReplaceVaultToken, ControlOwn, Own, i
  <2> QED BY <2>1, <2>2
<1>4. \A n \in DOMAIN inputs : inputs[n] \in (Own(t, n) \ {Empty}) \cup vaults
  <2> SUFFICES ASSUME NEW n \in DOMAIN inputs
               PROVE  inputs[n] \in (Own(t, n) \ {Empty}) \cup vaults
    OBVIOUS
  <2>1. /\ n \in AccountNames(i) /\ controls[n] # Empty
        /\ inputs[n] = ReplaceVaultToken(controls[n], vault)
    BY DEF ReadAccounts
  <2>2. ControlOwn(t, n, controls[n]) /\ (controls[n] = Token => vault # None)
    BY <1>1, <1>2, <2>1
  <2> HIDE DEF inputs, i
  <2> QED BY <2>1, <2>2 DEF ReplaceVaultToken, ControlOwn, Own, i
<1>5. built.name = i /\ built.arguments = arguments /\ built.accounts = resolved
  BY DEF BuildChanceryInstruction
<1> HIDE DEF arguments, inputs, i
<1>6. ResolutionSound(i, arguments, inputs, resolved)
  BY <1>1, ResolvedSound
<1>7. \A a \in Range(Instructions[i].accounts) : a.name \in DOMAIN resolved
  <2>1. ResolutionProblem(i, arguments, inputs, verify) = None
    BY DEF arguments, inputs, i
  <2> QED BY <1>1, <2>1, ProblemFacts
<1> HIDE DEF resolved, built
<1>8. DOMAIN resolved = AccountNames(i)
  <2>1. AccountNames(i) = {a.name : a \in Range(Instructions[i].accounts)}
    BY <1>1, SchemaFacts
  <2>2. DOMAIN resolved \subseteq AccountNames(i)
    BY <1>6 DEF ResolutionSound
  <2> QED BY <1>7, <2>1, <2>2
<1>9. ASSUME NEW a \in Range(Instructions[i].accounts)
      PROVE  LET address == resolved[a.name]
             IN  \/ address \in (Own(t, a.name) \ {Empty}) \cup vaults
                 \/ DefaultAccountAddress(a) # None /\ address = DefaultAccountAddress(a)
                 \/ /\ a.pda # None
                    /\ address = DeriveInstructionAccountPda(a, arguments, resolved)
  <2>1. AddressSound(a, arguments, inputs, resolved)
    BY <1>6, <1>7 DEF ResolutionSound
  <2> QED BY <1>4, <2>1 DEF AddressSound
<1> QED BY <1>3, <1>5, <1>8, <1>9 DEF OneTemplates, i, built, arguments, inputs

----------------------------------------------------------------------------
(* Steps. *)

(* The user's edits, loading and the choice of a format leave the work alone. *)
LEMMA WorkKept ==
    ASSUME WorkInv, UNCHANGED <<generation, generated, output, exportPhase>>,
           generation # Nothing => loaded' = "loaded",
           status' = "fee payer required" =>
               output # Nothing /\ DOMAIN output.transactions = {}
    PROVE  WorkInv'
BY DEF WorkInv, AddressesAreTheCallers, OutputIsOneTemplates, FeePayerStatus

(* The work leaves the form alone. *)
LEMMA FormKept ==
    ASSUME FormInv, UNCHANGED <<loaded, page, edits>>, generations' \in 0..MaxGenerations,
           disabled' = IF generation' # Nothing THEN Buttons
                       ELSE IF loaded = "failed" THEN {"generate"} ELSE {},
           exportPhase'.selected \in Range(exportPhase'.options) \cup {None}
    PROVE  FormInv'
BY DEF FormInv, TypeOK, ControlsOwn, page

(* A step that ends a generation, or continues it. *)
Ends == generation' = Nothing /\ disabled' = disabled \ Buttons
Continues == generation' # Nothing /\ disabled' = disabled \cup Buttons

LEMMA FailWork ==
    ASSUME PageInv, NEW reason, reason # "fee payer required", Fail(reason), UNCHANGED loaded
    PROVE  WorkInv' /\ Ends /\ exportPhase' = exportPhase
<1>1. /\ generation' = Nothing /\ UNCHANGED <<generated, output, exportPhase>>
      /\ status' # "fee payer required" /\ Ends
  BY DEF Fail, result, Ends
<1>2. GenerationSound(generation') /\ AddressesAreTheCallers'
  BY <1>1 DEF GenerationSound, AddressesAreTheCallers
<1> QED BY <1>1, <1>2 DEF PageInv, WorkInv, OutputIsOneTemplates, FeePayerStatus

LEMMA ReadFormWork ==
    ASSUME PageInv, loaded = "loaded", UNCHANGED loaded, NEW t \in Templates,
           NEW request \in Requests \cup {Nothing}, ReadForm(t, request)
    PROVE  WorkInv' /\ (Ends \/ Continues) /\ exportPhase' = exportPhase
<1> DEFINE i == Schema(t)
           vault == IF request = Nothing THEN None ELSE VaultAddress(request.multisig)
           arguments == ReadArguments(i, vault)
           inputs == ReadAccounts(i, vault)
           problem == ResolutionProblem(i, arguments, inputs, verifyPdas)
           built == BuildChanceryInstruction(i, arguments, inputs)
<1>1. CASE transaction = "no_blockhash"
  <2>1. Fail("blockhash required")
    BY <1>1 DEF ReadForm
  <2> QED BY <2>1, FailWork
<1>2. CASE transaction # "no_blockhash" /\ ReadProblem(i, vault) # None
  <2>1. Fail(ReadProblem(i, vault))
    BY <1>2 DEF ReadForm
  <2>2. ReadProblem(i, vault) # "fee payer required"
    BY <1>2 DEF ReadProblem
  <2> HIDE DEF i, vault
  <2> QED BY <2>1, <2>2, FailWork
<1>3. CASE transaction # "no_blockhash" /\ ReadProblem(i, vault) = None
  <2>1. /\ generation' = [stage |-> "build", template |-> t, squads |-> request,
                          transaction |-> transaction, inputs |-> inputs, verify |-> verifyPdas,
                          problem |-> problem, instruction |-> built]
        /\ disabled' = disabled \cup Buttons /\ status' = "generating"
        /\ UNCHANGED <<generated, output, exportPhase>>
    BY <1>3 DEF ReadForm, result
  <2>2. FormInv /\ verifyPdas \in BOOLEAN /\ i \in DOMAIN Instructions
    BY TemplateAssumption DEF PageInv, FormInv, TypeOK
  <2>3. problem \in Problems \cup {None}
    <3> HIDE DEF arguments, inputs, i
    <3> QED BY <2>2, ProblemFacts
  <2>4. vault # None => vault \in RequestVaults(request)
    BY DEF RequestVaults
  <2>5. problem = None => OneTemplates(t, RequestVaults(request), built)
    <3> HIDE DEF vault
    <3> QED BY <1>3, <2>2, <2>4, BuiltIsOneTemplates
  <2>6. problem = None =>
          \A a \in Range(Instructions[i].accounts) :
              /\ a.name \in DOMAIN inputs => built.accounts[a.name] = inputs[a.name]
              /\ verifyPdas /\ a.pda # None =>
                    built.accounts[a.name]
                      = DeriveInstructionAccountPda(a, built.arguments, built.accounts)
    <3> DEFINE resolved == ResolvedAddresses(i, arguments, inputs)
    <3>1. built.arguments = arguments /\ built.accounts = resolved
      BY DEF BuildChanceryInstruction
    <3> HIDE DEF arguments, inputs, i
    <3>2. problem = None =>
            \A a \in Range(Instructions[i].accounts) :
                /\ a.name \in DOMAIN resolved
                /\ verifyPdas /\ a.pda # None =>
                      resolved[a.name] = DeriveInstructionAccountPda(a, arguments, resolved)
      BY <2>2, ProblemFacts
    <3>3. ResolutionSound(i, arguments, inputs, resolved)
      BY <2>2, ResolvedSound
    <3> HIDE DEF problem, resolved, built
    <3> QED BY <3>1, <3>2, <3>3 DEF ResolutionSound, AddressSound
  <2> HIDE DEF problem, built, inputs
  <2>7. /\ generation'.stage = "build" /\ generation'.template = t
        /\ generation'.squads = request /\ generation'.problem = problem
        /\ generation'.instruction = built /\ generation'.inputs = inputs
        /\ generation'.verify = verifyPdas
    BY <2>1
  <2>8. Continues
    BY <2>1, <2>7, NothingFacts DEF Continues
  <2>9. GenerationSound(generation')
    BY <2>3, <2>5, <2>7 DEF GenerationSound
  <2>10. AddressesAreTheCallers'
    BY <2>6, <2>7 DEF AddressesAreTheCallers
  <2> QED BY <2>1, <2>8, <2>9, <2>10
          DEF PageInv, WorkInv, OutputIsOneTemplates, FeePayerStatus
<1> QED BY <1>1, <1>2, <1>3

LEMMA PhaseFacts ==
    ASSUME NEW proposal
    PROVE  LET phases == RenderExportPhases(TransactionPhases(proposal))
           IN  /\ DOMAIN phases = {"options", "selected"}
               /\ phases.options = TransactionPhases(proposal)
               /\ phases.selected \in Range(phases.options)
<1> DEFINE s == TransactionPhases(proposal)
<1>1. 1 \in DOMAIN s /\ Head(s) = s[1]
  BY DEF TransactionPhases
<1> HIDE DEF s
<1> QED BY <1>1 DEF RenderExportPhases, Range, s

LEMMA FinishWork ==
    ASSUME PageInv, NEW instruction, NEW proposal, generation.template \in Templates,
           OneTemplates(generation.template, VaultsOf(proposal), instruction),
           Finish(instruction, proposal), UNCHANGED loaded
    PROVE  /\ WorkInv' /\ Ends
           /\ exportPhase'.selected \in Range(exportPhase'.options) \cup {None}
<1> DEFINE transactions == CompileTransactions(proposal, instruction, generation.transaction)
           text == [template |-> generation.template, instruction |-> instruction,
                    proposal |-> proposal, transactions |-> transactions]
<1>1. /\ generated' = [instructionName |-> Schema(generation.template), outputText |-> text,
                       transactions |-> transactions]
      /\ output' = text
      /\ exportPhase' = RenderExportPhases(TransactionPhases(proposal))
      /\ generation' = Nothing /\ disabled' = disabled \ Buttons /\ status' = "generated"
  BY DEF Finish
<1>2. DOMAIN transactions \in {{}, Range(TransactionPhases(proposal))}
  BY DEF CompileTransactions
<1> HIDE DEF transactions
<1>3. /\ text.template = generation.template /\ text.instruction = instruction
      /\ text.proposal = proposal /\ text.transactions = transactions
      /\ text # Nothing /\ generated' # Nothing
  BY <1>1, NothingFacts
<1> HIDE DEF text
<1>4. /\ generated'.instructionName = Schema(generation.template)
      /\ generated'.outputText = text /\ generated'.transactions = transactions
  BY <1>1
<1>5. instruction.name = Schema(generation.template)
  BY DEF OneTemplates
<1>6. /\ DOMAIN exportPhase' = {"options", "selected"}
      /\ exportPhase'.options = TransactionPhases(proposal)
      /\ exportPhase'.selected \in Range(exportPhase'.options)
  BY <1>1, PhaseFacts
<1>7. ResultsAgree(generated', output', exportPhase')
  BY <1>1, <1>2, <1>3, <1>4, <1>5, <1>6 DEF ResultsAgree
<1>8. OutputIsOneTemplates'
  BY <1>1, <1>3 DEF OutputIsOneTemplates
<1>9. GenerationSound(generation') /\ AddressesAreTheCallers' /\ FeePayerStatus'
  BY <1>1 DEF GenerationSound, AddressesAreTheCallers, FeePayerStatus
<1> QED BY <1>1, <1>6, <1>7, <1>8, <1>9 DEF WorkInv, Ends

----------------------------------------------------------------------------
(* The initial state and the actions. *)

LEMMA BoundFacts == MaxEdits \in Nat /\ MaxGenerations \in Nat
BY BuilderAssumption, Zenon

LEMMA InitPage == Init => PageInv
<1> SUFFICES ASSUME Init PROVE PageInv
  OBVIOUS
<1>1. activeTemplate \in Templates
  <2>1. 1 \in DOMAIN INSTRUCTION_TEMPLATES /\ Head(INSTRUCTION_TEMPLATES) = INSTRUCTION_TEMPLATES[1]
    <3> DEFINE T == DOMAIN TemplateOf
    <3>1. INSTRUCTION_TEMPLATES \in Seq(T) /\ INSTRUCTION_TEMPLATES # <<>>
      BY BuilderAssumption
    <3> HIDE DEF T
    <3> QED BY <3>1
  <2> QED BY <2>1 DEF Init, Templates, Range
<1>2. TypeOK
  <2>1. edits \in 0..MaxEdits /\ generations \in 0..MaxGenerations
    BY BoundFacts DEF Init
  <2>2. exportPhase.selected \in Range(exportPhase.options) \cup {None}
    BY DEF Init, NoPhases
  <2>3. /\ squads \in [wrap : BOOLEAN, multisig : Multisigs \cup {Empty}, draft : BOOLEAN]
        /\ DOMAIN controls = {} /\ disabled = {} /\ loaded = "loading" /\ generation = Nothing
        /\ transaction = "none" /\ verifyPdas \in BOOLEAN
    BY DEF Init
  <2> QED BY <1>1, <2>1, <2>2, <2>3 DEF TypeOK
<1>4. ControlsOwn
  BY DEF Init, ControlsOwn
<1>3. WorkInv
  BY DEF Init, WorkInv, GenerationSound, AddressesAreTheCallers, OutputIsOneTemplates,
         ResultsAgree, FeePayerStatus, NoPhases
<1> QED BY <1>2, <1>3, <1>4 DEF PageInv, FormInv

(* Applying the vault accounts keeps every control its template's own. *)
LEMMA VaultAccountsOwn ==
    ASSUME NEW t \in Templates, NEW shown, NEW wrapped,
           \A n \in DOMAIN shown : ControlOwn(t, n, shown[n])
    PROVE  LET applied == ApplyVaultAccounts(t, shown, wrapped)
           IN  /\ DOMAIN applied = DOMAIN shown
               /\ \A n \in DOMAIN applied : ControlOwn(t, n, applied[n])
<1> DEFINE applied == ApplyVaultAccounts(t, shown, wrapped)
<1>1. /\ DOMAIN applied = DOMAIN shown
      /\ \A n \in DOMAIN shown :
            \/ applied[n] = shown[n]
            \/ n \in TemplateOf[t].vaultAccounts /\ applied[n] \in {Empty, Token}
  BY DEF ApplyVaultAccounts
<1>2. TemplateOf[t].vaultAccounts \subseteq AccountNames(Schema(t))
  BY TemplateAssumption
<1> HIDE DEF applied
<1>3. ASSUME NEW n \in DOMAIN applied PROVE ControlOwn(t, n, applied[n])
  <2>1. ControlOwn(t, n, shown[n])
    BY <1>1
  <2> QED BY <1>1, <1>2, <2>1 DEF ControlOwn
<1> QED BY <1>1, <1>3 DEF applied

(* A template as it is rendered is its own. *)
LEMMA RenderedOwn ==
    ASSUME NEW t \in Templates, NEW wrapped
    PROVE  LET applied == ApplyVaultAccounts(t, Rendered(t), wrapped)
           IN  /\ DOMAIN applied = DOMAIN Rendered(t)
               /\ \A n \in DOMAIN applied : ControlOwn(t, n, applied[n])
<1>1. \A n \in DOMAIN Rendered(t) : ControlOwn(t, n, Rendered(t)[n])
  BY DEF ControlOwn
<1> QED BY <1>1, VaultAccountsOwn

LEMMA LoadedKeeps == PageInv /\ Loaded => PageInv'
<1> SUFFICES ASSUME PageInv, Loaded PROVE PageInv'
  OBVIOUS
<1>1. FormInv /\ WorkInv /\ TypeOK /\ activeTemplate \in Templates
  BY DEF PageInv, FormInv, TypeOK
<1>2. /\ loaded' = "loaded" /\ status' = "loaded"
      /\ controls' = ApplyVaultAccounts(activeTemplate, Rendered(activeTemplate), squads.wrap)
      /\ UNCHANGED <<activeTemplate, squads, transaction, verifyPdas, generation, disabled,
                     generated, output, exportPhase, edits, generations>>
      /\ loaded = "loading"
  BY DEF Loaded, result
<1>3. WorkInv'
  BY <1>1, <1>2, WorkKept
<1>4. /\ DOMAIN controls' = DOMAIN Rendered(activeTemplate)
      /\ \A n \in DOMAIN controls' : ControlOwn(activeTemplate, n, controls'[n])
  BY <1>1, <1>2, RenderedOwn
<1>5. TypeOK' /\ ControlsOwn'
  BY <1>1, <1>2, <1>4 DEF TypeOK, ControlsOwn
<1> QED BY <1>3, <1>5 DEF PageInv, FormInv

LEMMA LoadFailsKeeps == PageInv /\ LoadFails => PageInv'
<1> SUFFICES ASSUME PageInv, LoadFails PROVE PageInv'
  OBVIOUS
<1>1. FormInv /\ WorkInv /\ TypeOK /\ ControlsOwn /\ generation = Nothing
  BY DEF PageInv, FormInv, WorkInv, LoadFails
<1>2. /\ loaded' = "failed" /\ status' = "load failed" /\ disabled' = disabled \cup {"generate"}
      /\ UNCHANGED <<activeTemplate, controls, squads, transaction, verifyPdas, generation,
                     generated, output, exportPhase, edits, generations>>
      /\ loaded = "loading"
  BY DEF LoadFails, result, page
<1>3. WorkInv'
  BY <1>1, <1>2, WorkKept
<1>4. TypeOK' /\ ControlsOwn'
  BY <1>1, <1>2 DEF TypeOK, ControlsOwn
<1> QED BY <1>3, <1>4 DEF PageInv, FormInv

(* What an edit of the form leaves alone, and what it must say of the form. *)
LEMMA EditKeeps ==
    ASSUME PageInv, Edit, activeTemplate' \in Templates,
           DOMAIN controls' = IF loaded = "loaded" THEN DOMAIN Rendered(activeTemplate') ELSE {},
           \A n \in DOMAIN controls' : ControlOwn(activeTemplate', n, controls'[n]),
           squads' \in Panels, transaction' \in {"none", "no_blockhash", "complete"},
           verifyPdas' \in BOOLEAN
    PROVE  PageInv'
<1>1. FormInv /\ WorkInv /\ TypeOK /\ FeePayerStatus /\ (generation # Nothing => loaded = "loaded")
  BY DEF PageInv, FormInv, WorkInv
<1>2. /\ UNCHANGED <<loaded, generation, disabled, generated, output, exportPhase, status, generations>>
      /\ edits < MaxEdits /\ edits' = edits + 1
  BY DEF Edit, result
<1>3. WorkInv'
  BY <1>1, <1>2, WorkKept DEF FeePayerStatus
<1>4. edits' \in 0..MaxEdits
  BY <1>1, <1>2, BoundFacts DEF TypeOK
<1>5. TypeOK'
  BY <1>1, <1>2, <1>4 DEF TypeOK, Panels
<1>6. ControlsOwn'
  BY DEF ControlsOwn
<1> QED BY <1>3, <1>5, <1>6 DEF PageInv, FormInv

(* The form before an edit. *)
LEMMA FormFacts ==
    ASSUME PageInv
    PROVE  /\ activeTemplate \in Templates /\ squads \in Panels
           /\ DOMAIN controls = IF loaded = "loaded" THEN DOMAIN Rendered(activeTemplate) ELSE {}
           /\ \A n \in DOMAIN controls : ControlOwn(activeTemplate, n, controls[n])
           /\ transaction \in {"none", "no_blockhash", "complete"} /\ verifyPdas \in BOOLEAN
           /\ FormInv /\ WorkInv
BY DEF PageInv, FormInv, TypeOK, ControlsOwn, Panels

LEMMA ApplyTemplateKeeps == PageInv /\ ApplyTemplate => PageInv'
<1> SUFFICES ASSUME PageInv, ApplyTemplate PROVE PageInv'
  OBVIOUS
<1>1. PICK t \in Templates : /\ activeTemplate' = t
                             /\ controls' = ApplyVaultAccounts(t, Rendered(t), squads.wrap)
  BY DEF ApplyTemplate
<1>2. Edit /\ loaded = "loaded" /\ UNCHANGED <<squads, transaction, verifyPdas>>
  BY DEF ApplyTemplate
<1>3. /\ DOMAIN controls' = DOMAIN Rendered(t)
      /\ \A n \in DOMAIN controls' : ControlOwn(t, n, controls'[n])
  BY <1>1, RenderedOwn
<1> QED BY <1>1, <1>2, <1>3, FormFacts, EditKeeps

LEMMA WrapSquadsKeeps == PageInv /\ WrapSquads => PageInv'
<1> SUFFICES ASSUME PageInv, WrapSquads PROVE PageInv'
  OBVIOUS
<1>1. /\ Edit /\ squads' = [squads EXCEPT !.wrap = ~@]
      /\ controls' = ApplyVaultAccounts(activeTemplate, controls, squads'.wrap)
      /\ UNCHANGED <<activeTemplate, transaction, verifyPdas>>
  BY DEF WrapSquads
<1>2. squads' \in Panels
  BY <1>1, FormFacts DEF Panels
<1>3. /\ DOMAIN controls' = DOMAIN controls
      /\ \A n \in DOMAIN controls' : ControlOwn(activeTemplate, n, controls'[n])
  BY <1>1, FormFacts, VaultAccountsOwn
<1> QED BY <1>1, <1>2, <1>3, FormFacts, EditKeeps

LEMMA EditControlsKeeps == PageInv /\ EditControls => PageInv'
<1> SUFFICES ASSUME PageInv, EditControls PROVE PageInv'
  OBVIOUS
<1>1. PICK names, v :
        /\ \A n \in names : v[n] \in Typed(activeTemplate, n)
        /\ controls' = [n \in DOMAIN controls |-> IF n \in names THEN v[n] ELSE controls[n]]
  BY DEF EditControls
<1>2. Edit /\ UNCHANGED <<activeTemplate, squads, transaction, verifyPdas>>
  BY DEF EditControls
<1>3. DOMAIN controls' = DOMAIN controls
  BY <1>1
<1>4. ASSUME NEW n \in DOMAIN controls' PROVE ControlOwn(activeTemplate, n, controls'[n])
  <2>1. controls'[n] = IF n \in names THEN v[n] ELSE controls[n]
    BY <1>1
  <2>2. ControlOwn(activeTemplate, n, controls[n])
    BY <1>3, FormFacts
  <2> QED BY <1>1, <2>1, <2>2 DEF ControlOwn
<1> QED BY <1>2, <1>3, <1>4, FormFacts, EditKeeps

LEMMA OtherEditsKeep == PageInv /\ (EditSquads \/ EditTransaction \/ ToggleVerifyPdas) => PageInv'
<1> SUFFICES ASSUME PageInv, EditSquads \/ EditTransaction \/ ToggleVerifyPdas PROVE PageInv'
  OBVIOUS
<1>1. CASE EditSquads
  <2>1. Edit /\ UNCHANGED <<activeTemplate, controls, transaction, verifyPdas>>
    BY <1>1 DEF EditSquads
  <2>2. PICK m \in Multisigs \cup {Empty}, d \in BOOLEAN :
           squads' = [squads EXCEPT !.multisig = m, !.draft = d]
    BY <1>1 DEF EditSquads
  <2>3. squads' \in Panels
    BY <2>2, FormFacts DEF Panels
  <2> QED BY <2>1, <2>3, FormFacts, EditKeeps
<1>2. CASE EditTransaction
  <2>1. /\ Edit /\ UNCHANGED <<activeTemplate, controls, squads, verifyPdas>>
        /\ transaction' \in {"none", "no_blockhash", "complete"}
    BY <1>2 DEF EditTransaction
  <2> QED BY <2>1, FormFacts, EditKeeps
<1>3. CASE ToggleVerifyPdas
  <2>1. /\ Edit /\ UNCHANGED <<activeTemplate, controls, squads, transaction>>
        /\ verifyPdas' \in BOOLEAN
    BY <1>3 DEF ToggleVerifyPdas
  <2> QED BY <2>1, FormFacts, EditKeeps
<1> QED BY <1>1, <1>2, <1>3

(* The work before a step of it. *)
LEMMA WorkFacts ==
    ASSUME PageInv
    PROVE  /\ GenerationSound(generation) /\ (generation # Nothing => loaded = "loaded")
           /\ ResultsAgree(generated, output, exportPhase) /\ FeePayerStatus
           /\ exportPhase.selected \in Range(exportPhase.options) \cup {None}
           /\ disabled = IF generation # Nothing THEN Buttons
                         ELSE IF loaded = "failed" THEN {"generate"} ELSE {}
           /\ generations \in 0..MaxGenerations
BY DEF PageInv, WorkInv, FormInv, TypeOK

(* A step that ends or continues a generation keeps the buttons in step with it. *)
LEMMA WorkStep ==
    ASSUME PageInv, loaded # "failed", WorkInv', Ends \/ Continues,
           UNCHANGED <<loaded, page, edits>>, generations' \in 0..MaxGenerations,
           exportPhase'.selected \in Range(exportPhase'.options) \cup {None}
    PROVE  PageInv'
<1>1. disabled' = IF generation' # Nothing THEN Buttons ELSE {}
  BY WorkFacts DEF Ends, Continues, Buttons
<1>2. FormInv'
  BY <1>1, FormFacts, FormKept
<1> QED BY <1>2 DEF PageInv

LEMMA SelectExportPhaseKeeps == PageInv /\ SelectExportPhase => PageInv'
<1> SUFFICES ASSUME PageInv, SelectExportPhase PROVE PageInv'
  OBVIOUS
<1>1. PICK p \in Range(exportPhase.options) : exportPhase' = [exportPhase EXCEPT !.selected = p]
  BY DEF SelectExportPhase
<1>2. UNCHANGED <<loaded, page, generation, disabled, generated, output, status, edits, generations>>
  BY DEF SelectExportPhase
<1>3. DOMAIN exportPhase = {"options", "selected"}
  BY WorkFacts DEF ResultsAgree
<1>4. /\ exportPhase'.options = exportPhase.options /\ exportPhase'.selected = p
      /\ DOMAIN exportPhase' = {"options", "selected"}
  BY <1>1, <1>3
<1>5. ResultsAgree(generated', output', exportPhase')
  BY <1>2, <1>4, WorkFacts DEF ResultsAgree
<1>6. WorkInv'
  BY <1>2, <1>5, FormFacts DEF WorkInv, AddressesAreTheCallers, OutputIsOneTemplates, FeePayerStatus
<1>7. exportPhase'.selected \in Range(exportPhase'.options) \cup {None}
  BY <1>4
<1>8. FormInv'
  BY <1>2, <1>7, WorkFacts, FormFacts, FormKept
<1> QED BY <1>6, <1>8 DEF PageInv

LEMMA GenerateKeeps == PageInv /\ Generate => PageInv'
<1> SUFFICES ASSUME PageInv, Generate PROVE PageInv'
  OBVIOUS
<1>1. /\ "generate" \notin disabled /\ UNCHANGED <<loaded, page, edits>>
      /\ generations < MaxGenerations /\ generations' = generations + 1
  BY DEF Generate
<1>2. loaded # "failed"
  BY <1>1, WorkFacts DEF Buttons
<1>3. generations' \in 0..MaxGenerations
  BY <1>1, WorkFacts, BoundFacts
<1>4. ASSUME NEW reason, reason # "fee payer required", Fail(reason) PROVE PageInv'
  BY <1>1, <1>2, <1>3, <1>4, FailWork, WorkFacts, WorkStep
<1>5. CASE loaded = "loaded" /\ ReadForm(activeTemplate, Nothing)
  <2>1. WorkInv' /\ (Ends \/ Continues) /\ exportPhase' = exportPhase
    BY <1>1, <1>5, FormFacts, ReadFormWork
  <2> QED BY <1>1, <1>2, <1>3, <2>1, WorkFacts, WorkStep
<1>6. CASE /\ loaded = "loaded" /\ squads.multisig # Empty
           /\ generation' = [stage |-> "vault", template |-> activeTemplate, squads |-> squads]
           /\ disabled' = disabled \cup Buttons /\ status' = "generating" /\ UNCHANGED result
  <2>1. /\ generation'.stage = "vault" /\ generation'.template = activeTemplate
        /\ generation'.squads = squads /\ UNCHANGED <<generated, output, exportPhase>>
    BY <1>6 DEF result
  <2>2. squads \in Requests /\ activeTemplate \in Templates
    BY <1>6, FormFacts DEF Requests
  <2>3. GenerationSound(generation') /\ Continues
    BY <1>6, <2>1, <2>2, NothingFacts DEF GenerationSound, Continues
  <2>4. AddressesAreTheCallers'
    BY <2>1 DEF AddressesAreTheCallers
  <2>5. WorkInv'
    BY <1>1, <1>6, <2>1, <2>3, <2>4, FormFacts DEF WorkInv, OutputIsOneTemplates, FeePayerStatus
  <2> QED BY <1>1, <1>2, <1>3, <2>1, <2>3, <2>5, WorkFacts, WorkStep
<1> QED BY <1>4, <1>5, <1>6 DEF Generate

LEMMA VaultDerivedKeeps == PageInv /\ VaultDerived => PageInv'
<1> SUFFICES ASSUME PageInv, VaultDerived PROVE PageInv'
  OBVIOUS
<1>1. /\ generation # Nothing /\ generation.stage = "vault" /\ loaded = "loaded"
      /\ ReadForm(generation.template, generation.squads)
      /\ UNCHANGED <<loaded, page, edits, generations>>
  BY WorkFacts DEF VaultDerived
<1>2. generation.template \in Templates /\ generation.squads \in Requests
  BY <1>1, WorkFacts DEF GenerationSound
<1>3. WorkInv' /\ (Ends \/ Continues) /\ exportPhase' = exportPhase
  BY <1>1, <1>2, ReadFormWork
<1> QED BY <1>1, <1>3, WorkFacts, WorkStep

LEMMA InstructionBuiltKeeps == PageInv /\ InstructionBuilt => PageInv'
<1> SUFFICES ASSUME PageInv, InstructionBuilt PROVE PageInv'
  OBVIOUS
<1>1. /\ generation # Nothing /\ generation.stage = "build" /\ loaded = "loaded"
      /\ UNCHANGED <<loaded, page, edits, generations>>
  BY WorkFacts DEF InstructionBuilt
<1>2. /\ generation.template \in Templates /\ generation.squads \in Requests \cup {Nothing}
      /\ generation.problem \in Problems \cup {None}
      /\ generation.problem = None =>
           OneTemplates(generation.template, RequestVaults(generation.squads), generation.instruction)
  BY <1>1, WorkFacts DEF GenerationSound
<1>3. CASE generation.problem # None
  <2>1. Fail(generation.problem) /\ generation.problem # "fee payer required"
    BY <1>2, <1>3 DEF InstructionBuilt, Problems
  <2>2. WorkInv' /\ Ends /\ exportPhase' = exportPhase
    BY <1>1, <2>1, FailWork
  <2> QED BY <1>1, <2>2, WorkFacts, WorkStep
<1>4. CASE generation.problem = None /\ generation.squads = Nothing
  <2>1. Finish(generation.instruction, Nothing)
    BY <1>4 DEF InstructionBuilt
  <2>2. OneTemplates(generation.template, VaultsOf(Nothing), generation.instruction)
    BY <1>2, <1>4 DEF VaultsOf, RequestVaults
  <2>3. /\ WorkInv' /\ Ends
        /\ exportPhase'.selected \in Range(exportPhase'.options) \cup {None}
    BY <1>1, <1>2, <2>1, <2>2, FinishWork
  <2> QED BY <1>1, <2>3, WorkFacts, WorkStep
<1>5. CASE generation.problem = None /\ generation.squads # Nothing
  <2>1. /\ generation' = [stage |-> "proposal", template |-> generation.template,
                          squads |-> generation.squads, transaction |-> generation.transaction,
                          instruction |-> generation.instruction]
        /\ UNCHANGED <<disabled, generated, output, exportPhase, status>>
    BY <1>5 DEF InstructionBuilt, result
  <2>2. /\ generation'.stage = "proposal" /\ generation'.template = generation.template
        /\ generation'.squads = generation.squads
        /\ generation'.instruction = generation.instruction
    BY <2>1
  <2>3. GenerationSound(generation') /\ generation' # Nothing
    BY <1>2, <1>5, <2>2, NothingFacts DEF GenerationSound
  <2>4. AddressesAreTheCallers'
    BY <2>2 DEF AddressesAreTheCallers
  <2>5. WorkInv'
    BY <1>1, <2>1, <2>3, <2>4, FormFacts DEF WorkInv, OutputIsOneTemplates, FeePayerStatus
  <2>6. Continues
    BY <1>1, <2>1, <2>3, WorkFacts DEF Continues
  <2> QED BY <1>1, <2>1, <2>5, <2>6, WorkFacts, WorkStep
<1> QED BY <1>3, <1>4, <1>5

LEMMA ProposalBuiltKeeps == PageInv /\ ProposalBuilt => PageInv'
<1> SUFFICES ASSUME PageInv, ProposalBuilt PROVE PageInv'
  OBVIOUS
<1> DEFINE proposal == BuildSquadsProposal(generation.squads, generation.instruction)
<1>1. /\ generation # Nothing /\ generation.stage = "proposal" /\ loaded = "loaded"
      /\ Finish(generation.instruction, proposal)
      /\ UNCHANGED <<loaded, page, edits, generations>>
  BY WorkFacts DEF ProposalBuilt
<1>2. /\ generation.template \in Templates /\ generation.squads \in Requests
      /\ OneTemplates(generation.template, RequestVaults(generation.squads), generation.instruction)
  BY <1>1, WorkFacts DEF GenerationSound
<1>3. VaultsOf(proposal) = RequestVaults(generation.squads)
  <2>1. generation.squads # Nothing
    BY <1>2, NothingFacts DEF Requests
  <2>2. proposal = [vault |-> VaultAddress(generation.squads.multisig),
                    draft |-> generation.squads.draft, instruction |-> generation.instruction]
    BY <2>1 DEF BuildSquadsProposal
  <2>3. proposal # Nothing /\ proposal.vault = VaultAddress(generation.squads.multisig)
    BY <2>2, NothingFacts
  <2> HIDE DEF proposal
  <2> QED BY <2>1, <2>3 DEF VaultsOf, RequestVaults
<1> HIDE DEF proposal
<1>4. OneTemplates(generation.template, VaultsOf(proposal), generation.instruction)
  BY <1>2, <1>3
<1>5. /\ WorkInv' /\ Ends
      /\ exportPhase'.selected \in Range(exportPhase'.options) \cup {None}
  BY <1>1, <1>2, <1>4, FinishWork
<1> QED BY <1>1, <1>5, WorkFacts, WorkStep

LEMMA EncodingFailsKeeps == PageInv /\ EncodingFails => PageInv'
<1> SUFFICES ASSUME PageInv, EncodingFails PROVE PageInv'
  OBVIOUS
<1>1. /\ loaded = "loaded" /\ Fail("refused") /\ UNCHANGED <<loaded, page, edits, generations>>
  BY WorkFacts DEF EncodingFails
<1>2. WorkInv' /\ Ends /\ exportPhase' = exportPhase
  BY <1>1, FailWork
<1> QED BY <1>1, <1>2, WorkFacts, WorkStep

(* What an export reports: a fee payer is missing only from a result without. *)
LEMMA ExportFacts ==
    ASSUME PageInv, NEW format \in {"json", "base64"}
    PROVE  \/ /\ "file" \notin DOMAIN ExportFile(format)
              /\ \/ ExportFile(format).problem = "nothing to export"
                 \/ /\ ExportFile(format).problem = "fee payer required"
                    /\ output # Nothing /\ DOMAIN output.transactions = {}
           \/ /\ "problem" \notin DOMAIN ExportFile(format) /\ output # Nothing
              /\ ExportFile(format).name = output.instruction.name
              /\ ExportFile(format).file = IF format = "json" THEN output
                                           ELSE output.transactions[exportPhase.selected]
<1> DEFINE file == ExportFile(format)
<1>1. CASE generated = Nothing
  <2>1. file = [problem |-> "nothing to export"]
    BY <1>1 DEF ExportFile
  <2> HIDE DEF file
  <2>2. "file" \notin DOMAIN file /\ file.problem = "nothing to export"
    BY <2>1
  <2> QED BY <2>2 DEF file
<1>2. CASE generated # Nothing
  <2>1. /\ output # Nothing /\ generated.outputText = output
        /\ generated.transactions = output.transactions
        /\ generated.instructionName = output.instruction.name
        /\ DOMAIN output.transactions = {} \/ exportPhase.selected \in DOMAIN output.transactions
    BY <1>2, WorkFacts DEF ResultsAgree
  <2>2. CASE format = "json"
    <3>1. file = [name |-> output.instruction.name, file |-> output]
      BY <1>2, <2>1, <2>2 DEF ExportFile
    <3> HIDE DEF file
    <3>2. "problem" \notin DOMAIN file /\ file.name = output.instruction.name /\ file.file = output
      BY <3>1
    <3> QED BY <2>1, <2>2, <3>2 DEF file
  <2>3. CASE format # "json" /\ exportPhase.selected \in DOMAIN output.transactions
    <3>1. file = [name |-> output.instruction.name,
                  file |-> output.transactions[exportPhase.selected]]
      BY <1>2, <2>1, <2>3 DEF ExportFile
    <3> HIDE DEF file
    <3>2. /\ "problem" \notin DOMAIN file /\ file.name = output.instruction.name
          /\ file.file = output.transactions[exportPhase.selected]
      BY <3>1
    <3> QED BY <2>1, <2>3, <3>2 DEF file
  <2>4. CASE format # "json" /\ exportPhase.selected \notin DOMAIN output.transactions
    <3>1. file = [problem |-> "fee payer required"]
      BY <1>2, <2>1, <2>4 DEF ExportFile
    <3> HIDE DEF file
    <3>2. "file" \notin DOMAIN file /\ file.problem = "fee payer required"
      BY <3>1
    <3> QED BY <2>1, <2>4, <3>2 DEF file
  <2> QED BY <2>2, <2>3, <2>4
<1> QED BY <1>1, <1>2

LEMMA ExportOutputKeeps ==
    ASSUME PageInv, NEW format \in {"json", "base64"}, ExportOutput(format)
    PROVE  PageInv'
<1>1. /\ status' = IF "problem" \in DOMAIN ExportFile(format)
                   THEN ExportFile(format).problem ELSE "exported"
      /\ UNCHANGED <<loaded, page, generation, disabled, generated, output, exportPhase, edits, generations>>
  BY DEF ExportOutput, result
<1>2. status' = "fee payer required" => output # Nothing /\ DOMAIN output.transactions = {}
  BY <1>1, ExportFacts
<1>3. WorkInv'
  BY <1>1, <1>2, FormFacts, WorkFacts, WorkKept
<1>4. FormInv'
  BY <1>1, FormFacts, WorkFacts, FormKept
<1> QED BY <1>3, <1>4 DEF PageInv

LEMMA NextPage == PageInv /\ [Next]_vars => PageInv'
<1> SUFFICES ASSUME PageInv, [Next]_vars PROVE PageInv'
  OBVIOUS
<1>1. CASE UNCHANGED vars
  <2>1. UNCHANGED <<loaded, page, generation, disabled, generated, output, exportPhase, status,
                    edits, generations>>
    BY <1>1 DEF vars, result
  <2>2. WorkInv'
    BY <2>1, FormFacts, WorkFacts, WorkKept DEF FeePayerStatus
  <2>3. FormInv'
    BY <2>1, FormFacts, WorkFacts, FormKept
  <2> QED BY <2>2, <2>3 DEF PageInv
<1>2. CASE Next
  BY <1>2, LoadedKeeps, LoadFailsKeeps, ApplyTemplateKeeps, WrapSquadsKeeps, EditControlsKeeps,
     OtherEditsKeep, SelectExportPhaseKeeps, GenerateKeeps, VaultDerivedKeeps,
     InstructionBuiltKeeps, ProposalBuiltKeeps, EncodingFailsKeeps, ExportOutputKeeps DEF Next
<1> QED BY <1>1, <1>2

----------------------------------------------------------------------------
(* Theorems. *)

(***************************************************************************)
(* The page's invariant: the form is the shown template's own, a           *)
(* generation carries one template's values from the click of Generate to  *)
(* its result, and what app.mjs shows, exports and offers as phases is of  *)
(* one result.                                                             *)
(***************************************************************************)
THEOREM PageInvariant == Spec => []PageInv
<1> QED BY InitPage, NextPage, PTL DEF Spec

(***************************************************************************)
(* Types; app.mjs disables the buttons exactly while a generation runs.    *)
(***************************************************************************)
THEOREM BuilderTypeOK == Spec => []TypeOK
<1>1. PageInv => TypeOK
  BY DEF PageInv, FormInv
<1> QED BY <1>1, PageInvariant, PTL

(***************************************************************************)
(* Whatever the user does while generate waits, the result is one          *)
(* template's: no schema, template or order of events mixes two forms.     *)
(***************************************************************************)
THEOREM ResultIsOneTemplates == Spec => []OutputIsOneTemplates
<1>1. PageInv => OutputIsOneTemplates
  BY DEF PageInv, WorkInv
<1> QED BY <1>1, PageInvariant, PTL

(***************************************************************************)
(* Resolution keeps the addresses that the caller gave, and a verified one *)
(* has the derived address at every PDA, for every schema.                 *)
(***************************************************************************)
THEOREM ResolutionKeepsAddresses == Spec => []AddressesAreTheCallers
<1>1. PageInv => AddressesAreTheCallers
  BY DEF PageInv, WorkInv
<1> QED BY <1>1, PageInvariant, PTL

(***************************************************************************)
(* exportOutput downloads what the page shows, and misses a fee payer only *)
(* where there was none.                                                   *)
(***************************************************************************)
THEOREM ExportsWhatIsShown == Spec => []ExportIsShown
<1>1. PageInv => ExportIsShown
  BY ExportFacts, WorkFacts DEF ExportIsShown, FeePayerStatus
<1> QED BY <1>1, PageInvariant, PTL

(* An address in an instruction that is a vault's is one of the vaults it was built for. *)
LEMMA OnlyItsVaults ==
    ASSUME NEW t \in Templates, NEW vaults, NEW instruction,
           OneTemplates(t, vaults, instruction), NEW m \in Multisigs,
           VaultAddress(m) \in Range(instruction.accounts)
    PROVE  VaultAddress(m) \in vaults
<1> DEFINE i == Schema(t)
           accounts == instruction.accounts
<1>1. PICK n \in DOMAIN accounts : accounts[n] = VaultAddress(m)
  BY DEF Range
<1>2. i \in DOMAIN Instructions /\ DOMAIN accounts = AccountNames(i)
  BY TemplateAssumption DEF OneTemplates
<1>3. PICK a \in Range(Instructions[i].accounts) : a.name = n
  BY <1>1, <1>2, SchemaFacts
<1>4. /\ n \in ControlNames(t) /\ VaultAddress(m) \notin Own(t, n)
      /\ VaultAddress(m) # DefaultAccountAddress(a)
  BY <1>1, <1>2, <1>3, VaultAssumption DEF ControlNames
<1>5. VaultAddress(m) # DeriveInstructionAccountPda(a, instruction.arguments, instruction.accounts)
  BY DEF VaultAddress, DeriveInstructionAccountPda
<1>6. \/ accounts[a.name] \in (Own(t, a.name) \ {Empty}) \cup vaults
      \/ accounts[a.name] = DefaultAccountAddress(a)
      \/ accounts[a.name] = DeriveInstructionAccountPda(a, instruction.arguments, instruction.accounts)
  BY DEF OneTemplates
<1> QED BY <1>1, <1>3, <1>4, <1>5, <1>6

(***************************************************************************)
(* The vault whose address buildSquadsProposal's instruction holds is the  *)
(* one the proposal is for, however the panel changes meanwhile.           *)
(***************************************************************************)
THEOREM ProposalIsForItsVault == Spec => []ProposalUsesItsVault
<1>1. PageInv => ProposalUsesItsVault
  <2> SUFFICES ASSUME PageInv, output # Nothing, NEW m \in Multisigs,
                      VaultAddress(m) \in Range(output.instruction.accounts)
               PROVE  VaultAddress(m) \in VaultsOf(output.proposal)
    BY DEF ProposalUsesItsVault
  <2>1. OneTemplates(output.template, VaultsOf(output.proposal), output.instruction)
    BY DEF PageInv, WorkInv, OutputIsOneTemplates
  <2>2. output.template \in Templates
    BY WorkFacts DEF ResultsAgree
  <2> QED BY <2>1, <2>2, OnlyItsVaults
<1> QED BY <1>1, PageInvariant, PTL
=============================================================================
