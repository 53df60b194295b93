------------------------- MODULE InstructionBuilder -------------------------
(***************************************************************************)
(* The browser instruction builder (web/instruction-builder/app.mjs): one  *)
(* page, one event loop, and a user who keeps editing while the generation *)
(* of an instruction waits for a digest.  A generation captures the        *)
(* template and the Squads request when it is started, and reads the other *)
(* controls only after its first wait, when they may be another template's.*)
(*                                                                         *)
(* A value typed or rendered into a control is a tuple that says which     *)
(* template's control it came from.  Decoding of addresses and numbers,    *)
(* styling and the wording of messages are left out.                       *)
(***************************************************************************)
EXTENDS AccountResolution, FiniteSets, Functions

CONSTANTS
    INSTRUCTION_TEMPLATES, \* template ids, in the order they are offered
    TemplateOf,     \* template id -> instructionName, values, vaultAccounts
    Typed(_, _),    \* Typed(t, n): what the user may type into control n of template t
    Multisigs,      \* multisig addresses the user may enter
    Empty,          \* an empty control
    Token,          \* $SQUADS_VAULT
    MaxEdits,       \* bound on the user's edits
    MaxGenerations  \* bound on the clicks of Generate

VARIABLES
    loaded,         \* the interface files: "loading", "loaded" or "failed"
    activeTemplate,
    controls,       \* the rendered argument and account controls, by name
    squads,         \* the Squads panel: wrap, multisig, draft
    transaction,    \* fee payer and blockhash: "none", "no_blockhash" or "complete"
    verifyPdas,
    generation,     \* the generation in progress, or Nothing
    disabled,       \* the disabled buttons
    generated,      \* what the export reads, or Nothing
    output,         \* what the page shows and copies, or Nothing
    exportPhase,    \* the phases offered and the one selected
    status,
    edits, generations

page == <<activeTemplate, controls, squads, transaction, verifyPdas>>
result == <<generated, output, exportPhase>>
vars == <<loaded, page, generation, disabled, result, status, edits, generations>>

Templates == Range(INSTRUCTION_TEMPLATES)
ArgumentNames(i) == {Instructions[i].args[k] : k \in DOMAIN Instructions[i].args}
Schema(t) == TemplateOf[t].instructionName
ControlNames(t) == ArgumentNames(Schema(t)) \cup AccountNames(Schema(t))

(* null: no generation, no result, no Squads request, no proposal *)
Nothing == [stage |-> "nothing"]

ASSUME BuilderAssumption ==
    /\ MaxEdits \in Nat /\ MaxGenerations \in Nat
    /\ INSTRUCTION_TEMPLATES \in Seq(DOMAIN TemplateOf) /\ INSTRUCTION_TEMPLATES # <<>>
    /\ Token # Empty
    /\ None \notin {"missing control", "token without vault"}
(* templates.mjs and the schema: arguments and accounts have different names, a
   vault account is an account, and no template's controls include another's. *)
ASSUME TemplateAssumption ==
    \A t \in Templates :
        /\ Schema(t) \in DOMAIN Instructions
        /\ ArgumentNames(Schema(t)) \cap AccountNames(Schema(t)) = {}
        /\ TemplateOf[t].vaultAccounts \subseteq AccountNames(Schema(t))
        /\ \A u \in Templates \ {t} : ~(ControlNames(t) \subseteq ControlNames(u))

(***************************************************************************)
(* Rendering: the template's value, else the schema's default, else empty; *)
(* a vault account left empty shows the token while wrapping is on.        *)
(***************************************************************************)
Rendered(t) ==
    [n \in ControlNames(t) |->
        IF n \in DOMAIN TemplateOf[t].values THEN TemplateOf[t].values[n]
        ELSE IF n \in AccountNames(Schema(t)) /\ DefaultAccountAddress(Account(Schema(t), n)) # None
             THEN DefaultAccountAddress(Account(Schema(t), n)) ELSE Empty]

ApplyVaultAccounts(t, shown, wrapped) ==
    [n \in DOMAIN shown |->
        IF n \in TemplateOf[t].vaultAccounts /\ shown[n] \in {Empty, Token}
        THEN IF wrapped THEN Token ELSE Empty
        ELSE shown[n]]

NoPhases == [options |-> <<>>, selected |-> None]

RenderExportPhases(phases) == [options |-> phases, selected |-> Head(phases)]

Init ==
    /\ loaded = "loading"
    /\ activeTemplate = Head(INSTRUCTION_TEMPLATES)
    /\ controls = [n \in {} |-> Empty]
    /\ squads = [wrap |-> FALSE, multisig |-> Empty, draft |-> FALSE]
    /\ transaction = "none"
    /\ verifyPdas = TRUE
    /\ generation = Nothing
    /\ disabled = {}
    /\ generated = Nothing
    /\ output = Nothing
    /\ exportPhase = NoPhases
    /\ status = "loading"
    /\ edits = 0
    /\ generations = 0

(* initialize: both interface files arrive and the first template is shown. *)
Loaded ==
    /\ loaded = "loading"
    /\ loaded' = "loaded"
    /\ controls' = ApplyVaultAccounts(activeTemplate, Rendered(activeTemplate), squads.wrap)
    /\ status' = "loaded"
    /\ UNCHANGED <<activeTemplate, squads, transaction, verifyPdas, generation, disabled, result, edits, generations>>

LoadFails ==
    /\ loaded = "loading"
    /\ loaded' = "failed"
    /\ disabled' = disabled \cup {"generate"}
    /\ status' = "load failed"
    /\ UNCHANGED <<page, generation, result, edits, generations>>

(***************************************************************************)
(* The user.  No control but the buttons is disabled by a generation.      *)
(***************************************************************************)
Edit ==
    /\ edits < MaxEdits
    /\ edits' = edits + 1
    /\ UNCHANGED <<loaded, generation, disabled, result, status, generations>>

ApplyTemplate ==
    /\ loaded = "loaded"
    /\ Edit
    /\ \E t \in Templates \ {activeTemplate} :
          /\ activeTemplate' = t
          /\ controls' = ApplyVaultAccounts(t, Rendered(t), squads.wrap)
    /\ UNCHANGED <<squads, transaction, verifyPdas>>

WrapSquads ==
    /\ Edit
    /\ squads' = [squads EXCEPT !.wrap = ~@]
    /\ controls' = ApplyVaultAccounts(activeTemplate, controls, squads'.wrap)
    /\ UNCHANGED <<activeTemplate, transaction, verifyPdas>>

(* The user fills in any of the rendered controls between two events. *)
EditControls ==
    /\ Edit
    /\ \E names \in SUBSET DOMAIN controls : \E v \in [names -> UNION {Typed(activeTemplate, n) : n \in names}] :
          /\ names # {}
          /\ \A n \in names : v[n] \in Typed(activeTemplate, n)
          /\ controls' = [n \in DOMAIN controls |-> IF n \in names THEN v[n] ELSE controls[n]]
    /\ UNCHANGED <<activeTemplate, squads, transaction, verifyPdas>>

EditSquads ==
    /\ squads.wrap
    /\ Edit
    /\ \E m \in Multisigs \cup {Empty} : \E d \in BOOLEAN :
          squads' = [squads EXCEPT !.multisig = m, !.draft = d]
    /\ UNCHANGED <<activeTemplate, controls, transaction, verifyPdas>>

EditTransaction ==
    /\ Edit
    /\ \E r \in {"none", "no_blockhash", "complete"} : transaction' = r
    /\ UNCHANGED <<activeTemplate, controls, squads, verifyPdas>>

ToggleVerifyPdas ==
    /\ Edit
    /\ verifyPdas' = ~verifyPdas
    /\ UNCHANGED <<activeTemplate, controls, squads, transaction>>

SelectExportPhase ==
    /\ Len(exportPhase.options) > 1
    /\ \E p \in Range(exportPhase.options) : exportPhase' = [exportPhase EXCEPT !.selected = p]
    /\ UNCHANGED <<loaded, page, generation, disabled, generated, output, status, edits, generations>>

(***************************************************************************)
(* generate.  It ends in Finish or Fail, and both enable the buttons.      *)
(***************************************************************************)
Buttons == {"generate", "copy", "export"}

VaultAddress(multisig) == <<"vault", multisig>>

(* A plausible bug: only a success enables the buttons again. *)
FailWithoutFinally(reason) ==
    /\ generation' = Nothing
    /\ status' = reason
    /\ UNCHANGED <<disabled, result>>

(* Only the message is replaced: the previous result stays, and exportable. *)
Fail(reason) ==
    /\ generation' = Nothing
    /\ disabled' = disabled \ Buttons
    /\ status' = reason
    /\ UNCHANGED result

(* replaceVaultToken, for a generation whose vault is known or None. *)
ReplaceVaultToken(value, vault) == IF value = Token THEN vault ELSE value

(* readArguments and readAccounts, with the schema captured at the click. *)
ReadProblem(i, vault) ==
    IF ~(ArgumentNames(i) \cup AccountNames(i) \subseteq DOMAIN controls) THEN "missing control"
    ELSE IF vault = None /\ \E n \in ArgumentNames(i) \cup AccountNames(i) : controls[n] = Token
         THEN "token without vault"
    ELSE None

ReadArguments(i, vault) ==
    [n \in ArgumentNames(i) \cap DOMAIN controls |-> ReplaceVaultToken(controls[n], vault)]
ReadAccounts(i, vault) ==
    [n \in {k \in AccountNames(i) \cap DOMAIN controls : controls[k] # Empty} |-> ReplaceVaultToken(controls[n], vault)]

(* Everything but the template and the Squads request is read here, at     *)
(* once; resolution then waits for digests but reads nothing more, so what *)
(* it will find is already determined.                                     *)
ReadForm(template, squadsRequest) ==
    LET i     == Schema(template)
        vault == IF squadsRequest = Nothing THEN None ELSE VaultAddress(squadsRequest.multisig)
    IN  IF transaction = "no_blockhash" THEN Fail("blockhash required")
        ELSE IF ReadProblem(i, vault) # None THEN Fail(ReadProblem(i, vault))
        ELSE /\ generation' = [stage |-> "build", template |-> template, squads |-> squadsRequest,
                               transaction |-> transaction, inputs |-> ReadAccounts(i, vault), verify |-> verifyPdas,
                               problem |-> ResolutionProblem(i, ReadArguments(i, vault), ReadAccounts(i, vault), verifyPdas),
                               instruction |-> BuildChanceryInstruction(i, ReadArguments(i, vault), ReadAccounts(i, vault))]
             /\ disabled' = disabled \cup Buttons
             /\ status' = "generating"
             /\ UNCHANGED result

Generate ==
    /\ "generate" \notin disabled
    /\ generations < MaxGenerations
    /\ generations' = generations + 1
    /\ \/ loaded # "loaded" /\ Fail("not loaded")
       \/ loaded = "loaded" /\ ~squads.wrap /\ ReadForm(activeTemplate, Nothing)
       \/ loaded = "loaded" /\ squads.wrap /\ squads.multisig = Empty /\ Fail("multisig required")
       \/ /\ loaded = "loaded" /\ squads.wrap /\ squads.multisig # Empty
          /\ generation' = [stage |-> "vault", template |-> activeTemplate, squads |-> squads]
          /\ disabled' = disabled \cup Buttons
          /\ status' = "generating"
          /\ UNCHANGED result
    /\ UNCHANGED <<loaded, page, edits>>

(* The vault's address is derived from the multisig captured at the click. *)
VaultDerived ==
    /\ generation # Nothing
    /\ generation.stage = "vault"
    /\ ReadForm(generation.template, generation.squads)
    /\ UNCHANGED <<loaded, page, edits, generations>>

(***************************************************************************)
(* The result: the instruction, the proposal around it when it is wrapped, *)
(* and one transaction per phase when there is a fee payer.                *)
(***************************************************************************)
(* A plausible bug: the proposal is built from the panel as it is now. *)
BuildSquadsProposalFromPanel(request, instruction) ==
    IF request = Nothing THEN Nothing
    ELSE [vault |-> VaultAddress(squads.multisig), draft |-> squads.draft, instruction |-> instruction]

BuildSquadsProposal(request, instruction) ==
    IF request = Nothing THEN Nothing
    ELSE [vault |-> VaultAddress(request.multisig), draft |-> request.draft, instruction |-> instruction]

TransactionPhases(proposal) ==
    IF proposal = Nothing THEN <<"chancery">>
    ELSE IF proposal.draft THEN <<"creation", "activation", "approval", "execution">>
    ELSE <<"creation", "approval", "execution">>

CompileTransactions(proposal, instruction, request) ==
    IF request = "none" THEN [p \in {} |-> None]
    ELSE [p \in Range(TransactionPhases(proposal)) |->
            [phase |-> p, content |-> IF proposal = Nothing THEN instruction ELSE proposal]]

(* A plausible bug: the result is labelled with the template shown when it is done. *)
FinishUnderShownTemplate(instruction, proposal) ==
    LET transactions == CompileTransactions(proposal, instruction, generation.transaction)
        text == [template |-> activeTemplate, instruction |-> instruction, proposal |-> proposal,
                 transactions |-> transactions]
    IN  /\ generated' = [instructionName |-> Schema(generation.template), outputText |-> text,
                         transactions |-> transactions]
        /\ output' = text
        /\ exportPhase' = RenderExportPhases(TransactionPhases(proposal))
        /\ generation' = Nothing
        /\ disabled' = disabled \ Buttons
        /\ status' = "generated"

(* A plausible bug: without a fee payer there is nothing to keep for the export. *)
FinishWithoutPayer(instruction, proposal) ==
    LET transactions == CompileTransactions(proposal, instruction, generation.transaction)
        text == [template |-> generation.template, instruction |-> instruction, proposal |-> proposal,
                 transactions |-> transactions]
    IN  /\ generated' = IF generation.transaction = "none" THEN generated
                        ELSE [instructionName |-> Schema(generation.template), outputText |-> text,
                              transactions |-> transactions]
        /\ output' = text
        /\ exportPhase' = RenderExportPhases(TransactionPhases(proposal))
        /\ generation' = Nothing
        /\ disabled' = disabled \ Buttons
        /\ status' = "generated"

Finish(instruction, proposal) ==
    LET transactions == CompileTransactions(proposal, instruction, generation.transaction)
        text == [template |-> generation.template, instruction |-> instruction, proposal |-> proposal,
                 transactions |-> transactions]
    IN  /\ generated' = [instructionName |-> Schema(generation.template), outputText |-> text,
                         transactions |-> transactions]
        /\ output' = text
        /\ exportPhase' = RenderExportPhases(TransactionPhases(proposal))
        /\ generation' = Nothing
        /\ disabled' = disabled \ Buttons
        /\ status' = "generated"

InstructionBuilt ==
    /\ generation # Nothing
    /\ generation.stage = "build"
    /\ IF generation.problem # None THEN Fail(generation.problem)
       ELSE IF generation.squads = Nothing THEN Finish(generation.instruction, Nothing)
       ELSE /\ generation' = [stage |-> "proposal", template |-> generation.template,
                              squads |-> generation.squads, transaction |-> generation.transaction,
                              instruction |-> generation.instruction]
            /\ UNCHANGED <<disabled, result, status>>
    /\ UNCHANGED <<loaded, page, edits, generations>>

ProposalBuilt ==
    /\ generation # Nothing
    /\ generation.stage = "proposal"
    /\ Finish(generation.instruction, BuildSquadsProposal(generation.squads, generation.instruction))
    /\ UNCHANGED <<loaded, page, edits, generations>>

(* A field's text may be refused wherever it is encoded: no address, no    *)
(* number, a message with too many accounts.                               *)
EncodingFails ==
    /\ generation # Nothing
    /\ Fail("refused")
    /\ UNCHANGED <<loaded, page, edits, generations>>

(***************************************************************************)
(* exportOutput.  (copyOutput only hands the shown text to the clipboard.) *)
(***************************************************************************)
(* The file exportOutput would download now, or the reason why it does not. *)
ExportFile(format) ==
    IF generated = Nothing THEN [problem |-> "nothing to export"]
    ELSE IF format = "json" THEN [name |-> generated.instructionName, file |-> generated.outputText]
    ELSE IF exportPhase.selected \in DOMAIN generated.transactions
         THEN [name |-> generated.instructionName, file |-> generated.transactions[exportPhase.selected]]
    ELSE [problem |-> "fee payer required"]

ExportOutput(format) ==
    /\ "export" \notin disabled
    /\ status' = IF "problem" \in DOMAIN ExportFile(format) THEN ExportFile(format).problem ELSE "exported"
    /\ UNCHANGED <<loaded, page, generation, disabled, result, edits, generations>>

Next ==
    \/ Loaded \/ LoadFails
    \/ ApplyTemplate \/ WrapSquads \/ EditControls \/ EditSquads \/ EditTransaction \/ ToggleVerifyPdas
    \/ SelectExportPhase
    \/ Generate \/ VaultDerived \/ InstructionBuilt \/ ProposalBuilt \/ EncodingFails
    \/ \E format \in {"json", "base64"} : ExportOutput(format)

(* Digests are computed by the browser and always answer; fetches may not. *)
Fairness == WF_vars(EncodingFails \/ VaultDerived \/ InstructionBuilt \/ ProposalBuilt)

Spec == Init /\ [][Next]_vars /\ Fairness

(***************************************************************************)
(* Properties.                                                             *)
(***************************************************************************)
(* Types; the buttons are disabled exactly while a generation runs, and    *)
(* Generate for good when the interface files did not load.                *)
TypeOK ==
    /\ loaded \in {"loading", "loaded", "failed"}
    /\ activeTemplate \in Templates
    /\ DOMAIN controls = IF loaded = "loaded" THEN DOMAIN Rendered(activeTemplate) ELSE {}
    /\ squads \in [wrap : BOOLEAN, multisig : Multisigs \cup {Empty}, draft : BOOLEAN]
    /\ transaction \in {"none", "no_blockhash", "complete"}
    /\ verifyPdas \in BOOLEAN
    /\ disabled = IF generation # Nothing THEN Buttons ELSE IF loaded = "failed" THEN {"generate"} ELSE {}
    /\ exportPhase.selected \in Range(exportPhase.options) \cup {None}
    /\ edits \in 0..MaxEdits /\ generations \in 0..MaxGenerations

(* What template t's control n may hold, $SQUADS_VAULT aside. *)
Own(t, n) == (Typed(t, n) \cup {Rendered(t)[n]}) \ {Token}

(* The instruction is template t's: its name, exactly its schema's arguments and
   accounts, and at each a value of t's own controls, one of the vaults, the
   schema's default or the address derived from the instruction itself. *)
OneTemplates(t, vaults, instruction) ==
    /\ instruction.name = Schema(t)
    /\ DOMAIN instruction.arguments = ArgumentNames(Schema(t))
    /\ DOMAIN instruction.accounts = AccountNames(Schema(t))
    /\ \A n \in ArgumentNames(Schema(t)) : instruction.arguments[n] \in Own(t, n) \cup vaults
    /\ \A a \in Range(Instructions[Schema(t)].accounts) :
          LET address == instruction.accounts[a.name]
          IN  \/ address \in (Own(t, a.name) \ {Empty}) \cup vaults
              \/ DefaultAccountAddress(a) # None /\ address = DefaultAccountAddress(a)
              \/ /\ a.pda # None
                 /\ address = DeriveInstructionAccountPda(a, instruction.arguments, instruction.accounts)

(* What the user types, the templates hold and the schema defaults is no vault's
   address: an address of a vault in an instruction replaced $SQUADS_VAULT. *)
ASSUME VaultAssumption ==
    \A t \in Templates : \A m \in Multisigs :
        /\ \A n \in ControlNames(t) : VaultAddress(m) \notin Own(t, n)
        /\ \A a \in Range(Instructions[Schema(t)].accounts) : VaultAddress(m) # DefaultAccountAddress(a)

(* The vault that signs for a proposal. *)
VaultsOf(proposal) == IF proposal = Nothing THEN {} ELSE {proposal.vault}

(***************************************************************************)
(* Whatever the user does while a generation waits, the result is one      *)
(* template's: its label is the instruction's, every argument and account  *)
(* of the schema is there, and every value was that template's own.        *)
(***************************************************************************)
OutputIsOneTemplates ==
    output # Nothing => OneTemplates(output.template, VaultsOf(output.proposal), output.instruction)

(***************************************************************************)
(* A vault address in the instruction is the vault that will sign for it:  *)
(* the proposal shown was made for the multisig whose vault replaced       *)
(* $SQUADS_VAULT, and an instruction without a proposal holds no vault.    *)
(***************************************************************************)
ProposalUsesItsVault ==
    output # Nothing =>
        Range(output.instruction.accounts) \cap {VaultAddress(m) : m \in Multisigs}
            \subseteq VaultsOf(output.proposal)

(***************************************************************************)
(* Whenever the button is enabled, the file exported is what the page      *)
(* shows: its JSON, or the transaction of the phase selected there, under  *)
(* the name of that instruction. It says that a fee payer is required only *)
(* of a result that has no transactions.                                   *)
(***************************************************************************)
ExportIsShown ==
    /\ "export" \notin disabled =>
         \A format \in {"json", "base64"} : "file" \in DOMAIN ExportFile(format) =>
            /\ output # Nothing
            /\ ExportFile(format).name = output.instruction.name
            /\ ExportFile(format).file =
                  IF format = "json" THEN output ELSE output.transactions[exportPhase.selected]
    /\ status = "fee payer required" => output # Nothing /\ DOMAIN output.transactions = {}

(***************************************************************************)
(* Resolution keeps every address the caller gave, and with verification   *)
(* no instruction has another address than the derived one at a PDA.       *)
(***************************************************************************)
AddressesAreTheCallers ==
    generation # Nothing /\ generation.stage = "build" =>
        LET resolved == generation.instruction.accounts
        IN  generation.problem = None =>
                \A a \in Range(Instructions[Schema(generation.template)].accounts) :
                    /\ a.name \in DOMAIN generation.inputs => resolved[a.name] = generation.inputs[a.name]
                    /\ generation.verify /\ a.pda # None =>
                          resolved[a.name] = DeriveInstructionAccountPda(a, generation.instruction.arguments, resolved)

(* Every generation ends, and Generate can be clicked again. *)
GenerationEnds == generation # Nothing ~> generation = Nothing /\ "generate" \notin disabled
=============================================================================
