------------------------------- MODULE Setup -------------------------------
(***************************************************************************)
(* From the first screen of onboarding to a provider that recommendations  *)
(* can be asked of: the wizard's form, its connection checks, the calls of *)
(* "Start observing" in their order, the provider rows, the OS vault, and  *)
(* crashes in between.  Every call of the UI is a step of the backend that *)
(* can fail; the answer to a check can come when the form has moved on.    *)
(*                                                                         *)
(* Data kept: of a key, the provider it was typed for; of a model, its     *)
(* name.  The radio buttons of the fourth screen and the check box of the  *)
(* seventh are inputs of "Start observing", where they are read.           *)
(* The first three screens hold text, and count as the fourth.  The UI     *)
(* never sets an endpoint.                                                 *)
(***************************************************************************)
EXTENDS PrivacyDomain, FiniteSets

CONSTANTS
    Offered,        \* the providers of the form's menu in an instance
    Allowlist,      \* those the enterprise policy allows
    Floor,          \* its privacy-level floor
    WizardLevels,   \* the levels of screen 4 in an instance
    Models,         \* model names in an instance
    MaxChecks,      \* bound: connection checks in flight
    MaxEdits        \* bound: steps in the form while the calls of a start run

ASSUME SetupAssumption ==
    /\ "ollama" \in Offered
    /\ Allowlist \subseteq Offered
    /\ Floor \in Levels
    /\ WizardLevels \subseteq Levels /\ WizardLevels # {}
    /\ "default" \in Models /\ "" \notin Models
    /\ MaxChecks \in Nat /\ MaxEdits \in Nat

VARIABLES
    phase,          \* what App shows: "down", "loading", "failed", "wizard" or "main"
    wizard,         \* the state of OnboardingWizard
    checks,         \* test_provider_connectivity calls in flight
    start,          \* the calls of startObserving: the next one, and the form as it was
    rows,           \* llm_providers
    vault,          \* the entries provider-key-<id> of the OS vault
    privacyState    \* the singleton row

vars == <<phase, wizard, checks, start, rows, vault, privacyState>>
backend == <<rows, vault, privacyState>>

Row == INSTANCE PrivacyRow WITH RowLevels <- Levels

-----------------------------------------------------------------------------
(* The form *)

FirstStep == 4
NoKey == "no key"
NoModel == ""
Keys == Offered \cup {NoKey}

Choices == [provider : Offered, model : Models \cup {NoModel}, key : Keys]
Forms == [provider : Offered, model : Models \cup {NoModel}, key : Keys,
          step : FirstStep..7,
          runtime : {"unknown", "none", "found"},
          validation : {"unchecked", "ok", "failed"}]

IsLocal(provider) == provider = "ollama"

Shown(form) == [provider |-> form.provider, model |-> form.model, key |-> form.key]

FirstForm == [provider |-> "ollama", model |-> NoModel, key |-> NoKey,
              step |-> FirstStep, runtime |-> "unknown",
              validation |-> "unchecked"]

\* The model the form fills in when its field is empty: the first one detected,
\* or the default of a cloud provider.
Proposed(provider, runtime) ==
    IF IsLocal(provider) /\ runtime # "found" THEN NoModel ELSE "default"

\* A rendering runs the effects: it fills an empty model, and forgets the result
\* of a check when what the check is of has changed.
\* Mutant: a result is forgotten only when the provider changes.
ForgetOnProvider(form, changed) ==
    LET filled == IF changed.model = NoModel
                  THEN [changed EXCEPT !.model = Proposed(changed.provider, changed.runtime)]
                  ELSE changed
    IN  IF filled.provider = form.provider THEN filled
        ELSE [filled EXCEPT !.validation = "unchecked"]

Rendered(form, changed) ==
    LET filled == IF changed.model = NoModel
                  THEN [changed EXCEPT !.model = Proposed(changed.provider, changed.runtime)]
                  ELSE changed
    IN  IF Shown(filled) = Shown(form) THEN filled
        ELSE [filled EXCEPT !.validation = "unchecked"]

\* The calls of startObserving still to be made, the first the next one.
Calls == {"allow", "vault", "upsert", "activate", "level", "complete", "finish"}
Idle == [call |-> "idle"]
Failed == [call |-> "failed"]    \* idle, with startError shown
Starts == {Idle, Failed} \cup [call : Calls, choice : Choices, level : WizardLevels,
                                   edits : 0..MaxEdits]
Starting == start \notin {Idle, Failed}

\* The buttons of the form work on while a start runs.
Edit(changed) ==
    /\ phase = "wizard"
    /\ wizard' = Rendered(wizard, changed)
    /\ IF Starting
       THEN start.edits < MaxEdits /\ start' = [start EXCEPT !.edits = @ + 1]
       ELSE UNCHANGED start
    /\ UNCHANGED <<phase, checks, backend>>

\* The last screen has no buttons, the sixth lets nobody past without a good
\* check, and only startObserving leaves the seventh.
Continue ==
    /\ wizard.step < 7
    /\ wizard.step = 6 => wizard.validation = "ok"
    /\ Edit([wizard EXCEPT !.step = @ + 1])

Back ==
    /\ wizard.step > FirstStep
    /\ Edit([wizard EXCEPT !.step = @ - 1])

ChooseProvider ==
    /\ wizard.step = 5
    /\ \E provider \in Offered \ {wizard.provider} :
           Edit([wizard EXCEPT !.provider = provider, !.model = NoModel])

\* Only the free-text field of a local runtime can be left empty: a menu of
\* detected models has no empty entry, and a cloud default comes back at once.
ChooseModel ==
    /\ wizard.step = 5
    /\ \E model \in Models \cup {NoModel} : Edit([wizard EXCEPT !.model = model])

TypeKey ==
    /\ wizard.step = 5
    /\ ~IsLocal(wizard.provider)
    /\ \E key \in {NoKey, wizard.provider} : Edit([wizard EXCEPT !.key = key])

\* The fifth screen asks for the local runtimes.  A call that fails is repeated
\* when that screen is entered again: it only delays the answer.
DetectionReturns ==
    /\ wizard.runtime = "unknown" /\ wizard.step >= 5
    /\ \E answer \in {"none", "found"} : Edit([wizard EXCEPT !.runtime = answer])

-----------------------------------------------------------------------------
(* The connection check *)

\* The client a choice is tested with: Ollama takes no key, and no key is the
\* empty one.
TestedClient(choice) ==
    [type |-> choice.provider, model |-> choice.model,
     key |-> IF IsLocal(choice.provider) THEN NoKey ELSE choice.key]

RunChecks ==
    /\ phase = "wizard" /\ wizard.step = 6
    /\ wizard.model # NoModel
    /\ Cardinality(checks) < MaxChecks
    /\ checks' = checks \cup {Shown(wizard)}
    /\ UNCHANGED <<phase, wizard, start, backend>>

\* The answer is shown whatever the form says by now.
CheckReturns(choice) ==
    /\ phase = "wizard" /\ choice \in checks
    /\ checks' = checks \ {choice}
    /\ \E result \in {"ok", "failed"} : wizard' = [wizard EXCEPT !.validation = result]
    /\ UNCHANGED <<phase, start, backend>>

-----------------------------------------------------------------------------
(* Start observing *)

NoRow == [model |-> "no row"]
ProviderRows == [model : Models \cup {NoModel}, keyed : BOOLEAN, active : BOOLEAN]

\* No second start while one runs: the button is disabled.
StartObserving ==
    /\ phase = "wizard" /\ wizard.step = 7
    /\ ~Starting
    /\ \E level \in WizardLevels :
           start' = [call |-> "allow", choice |-> Shown(wizard), level |-> level, edits |-> 0]
    /\ UNCHANGED <<phase, wizard, checks, backend>>

\* Mutant: the level is set first.
LevelFirst(call) ==
    CASE call = "allow" -> "vault" [] call = "vault" -> "level" [] call = "level" -> "upsert"
      [] call = "upsert" -> "activate" [] call = "activate" -> "complete"
      [] call = "complete" -> "finish" [] OTHER -> "idle"

\* Mutant: the last call is not followed by next() and onComplete().
NothingAfterComplete(call) ==
    CASE call = "allow" -> "vault" [] call = "vault" -> "upsert" [] call = "upsert" -> "activate"
      [] call = "activate" -> "level" [] call = "level" -> "complete"
      [] OTHER -> "idle"

Following(call) ==
    CASE call = "allow" -> "vault" [] call = "vault" -> "upsert" [] call = "upsert" -> "activate"
      [] call = "activate" -> "level" [] call = "level" -> "complete"
      [] call = "complete" -> "finish" [] OTHER -> "idle"

\* One call, or one part of set_ai_provider, done: the next one is due.
Called(call) ==
    /\ phase = "wizard" /\ start.call = call
    /\ start' = [start EXCEPT !.call = Following(call)]
    /\ UNCHANGED <<phase, wizard, checks>>

IsProviderAllowed(provider) == provider \in Allowlist

Allow ==
    /\ Called("allow")
    /\ IsProviderAllowed(start.choice.provider)
    /\ UNCHANGED backend

StoreKey ==
    /\ Called("vault")
    /\ vault' = IF start.choice.key = NoKey THEN vault
                ELSE [vault EXCEPT ![start.choice.provider] = start.choice.key]
    /\ UNCHANGED <<rows, privacyState>>

\* Mutant: a row that is there keeps its model and its key.
UpsertKeeping(choice) ==
    [rows EXCEPT ![choice.provider] =
        IF @ = NoRow
        THEN [model |-> choice.model, keyed |-> choice.key # NoKey, active |-> FALSE]
        ELSE [@ EXCEPT !.active = FALSE]]

UpsertProvider(choice) ==
    [rows EXCEPT ![choice.provider] =
        [model |-> choice.model, keyed |-> choice.key # NoKey, active |-> FALSE]]

Upsert ==
    /\ Called("upsert")
    /\ rows' = UpsertProvider(start.choice)
    /\ UNCHANGED <<vault, privacyState>>

\* Mutant: the others stay active.
ActivateOnly(provider) == [rows EXCEPT ![provider].active = TRUE]

SetActive(provider) ==
    [p \in Offered |-> IF rows[p] = NoRow THEN NoRow
                       ELSE [rows[p] EXCEPT !.active = p = provider]]

Activate ==
    /\ Called("activate")
    /\ rows[start.choice.provider] # NoRow
    /\ rows' = SetActive(start.choice.provider)
    /\ UNCHANGED <<vault, privacyState>>

\* Every level above Manual has permissions to acknowledge, so the request is
\* never the one that set_privacy_level refuses.
SetLevel ==
    /\ Called("level")
    /\ Row!SetPrivacyLevel(EffectivePrivacyLevel(Floor, start.level))
    /\ UNCHANGED <<rows, vault>>

CompleteOnboarding ==
    /\ Called("complete")
    /\ Row!StartObservation
    /\ UNCHANGED <<rows, vault>>

\* next() and onComplete().
Finish ==
    /\ phase = "wizard" /\ start.call = "finish"
    /\ phase' = "main"
    /\ start' = Idle
    /\ wizard' = FirstForm /\ checks' = {}
    /\ UNCHANGED <<backend>>

\* Mutant: a rejection starts the calls over, and shows nothing.
StartsOver(rejected) == [rejected EXCEPT !.call = "allow"]

AfterRejection(rejected) == Failed

\* Any of the calls is rejected, the first always if the provider is not allowed.
CallFails ==
    /\ phase = "wizard" /\ start.call \in Calls \ {"finish"}
    /\ start' = AfterRejection(start)
    /\ UNCHANGED <<phase, wizard, checks, backend>>

-----------------------------------------------------------------------------
(* The rest of the program *)

\* get_onboarding_state: there is no flag of its own.
Completed(row) == row.active \/ row.level # Manual

LoadOnboardingState ==
    /\ phase = "loading"
    /\ phase' \in {"failed", IF Completed(privacyState) THEN "main" ELSE "wizard"}
    /\ wizard' = IF phase' = "wizard" THEN FirstForm ELSE wizard
    /\ UNCHANGED <<checks, start, backend>>

Retry ==
    /\ phase = "failed"
    /\ phase' = "loading"
    /\ UNCHANGED <<wizard, checks, start, backend>>

\* The dashboard and the settings write the row; none of them chooses a provider.
\* acknowledge_privacy_manifest is left out: nothing here reads what it writes.
UsePrivacyCommands ==
    /\ phase = "main"
    /\ \/ \E level \in WizardLevels : Row!SetPrivacyLevel(EffectivePrivacyLevel(Floor, level))
       \/ Row!PauseObservation
       \/ Row!StartObservation
    /\ UNCHANGED <<phase, wizard, checks, start, rows, vault>>

\* The tables are emptied in one transaction; the keys stay in the vault, and
\* the main screen stays on.
DeleteAll ==
    /\ phase = "main"
    /\ Row!DeleteAllData
    /\ rows' = [p \in Offered |-> NoRow]
    /\ UNCHANGED <<phase, wizard, checks, start, vault>>

\* The program ends, in the middle of whatever it was doing.
Crash ==
    /\ phase # "down"
    /\ phase' = "down"
    /\ start' = Idle
    /\ wizard' = FirstForm /\ checks' = {}
    /\ UNCHANGED <<backend>>

Launch ==
    /\ phase = "down"
    /\ phase' = "loading"
    /\ UNCHANGED <<wizard, checks, start, backend>>

\* The client recommendations are asked of: the secret comes from the vault.
BuiltClient(provider) ==
    LET row == rows[provider] IN
    [type |-> provider, model |-> row.model,
     key |-> IF IsLocal(provider) \/ ~row.keyed THEN NoKey ELSE vault[provider]]

Active == {p \in Offered : rows[p] # NoRow /\ rows[p].active}

Init ==
    /\ phase = "down"
    /\ wizard = FirstForm /\ checks = {} /\ start = Idle
    /\ rows = [p \in Offered |-> NoRow]
    /\ vault = [p \in Offered |-> NoKey]
    /\ Row!Init

\* What the user does, and what the program answers.
UserStep ==
    \/ Continue \/ Back
    \/ ChooseProvider \/ ChooseModel \/ TypeKey
    \/ RunChecks \/ StartObserving \/ Retry
    \/ UsePrivacyCommands \/ DeleteAll
    \/ Crash \/ Launch

StartStep ==
    \/ Allow \/ StoreKey \/ Upsert \/ Activate \/ SetLevel \/ CompleteOnboarding
    \/ Finish \/ CallFails

Next ==
    \/ UserStep
    \/ StartStep
    \/ LoadOnboardingState \/ DetectionReturns
    \/ \E choice \in checks : CheckReturns(choice)

Spec == Init /\ [][Next]_vars

\* The calls of a start ask the store and the vault, which answer.
FairSpec == Spec /\ WF_vars(StartStep)

-----------------------------------------------------------------------------
(* Properties *)

\* Types of the variables.
TypeOK ==
    /\ phase \in {"down", "loading", "failed", "wizard", "main"}
    /\ wizard \in Forms
    /\ checks \subseteq Choices
    /\ start \in Starts
    /\ rows \in [Offered -> ProviderRows \cup {NoRow}]
    /\ vault \in [Offered -> Keys]
    /\ privacyState \in PrivacyStates

\* Whatever failed before, and whatever the form was changed to meanwhile: when
\* the calls of a start have gone through, the one active provider is built as
\* the client that the chosen one was tested with (commands.rs builds the two
\* apart), and the level and the activation are in the row.
SetupIsWhatWasChosen ==
    Starting /\ start.call \in {"level", "complete", "finish"} =>
        /\ Active = {start.choice.provider}
        /\ BuiltClient(start.choice.provider) = TestedClient(start.choice)
        /\ start.call # "level" =>
               privacyState.level = EffectivePrivacyLevel(Floor, start.level)
        /\ start.call = "finish" => privacyState.active

\* Across failures, crashes and delete-alls there is never more than one active
\* provider, no provider the policy forbids, and no row that names a vault entry
\* which is not there (build_provider would go on with an empty key).
ProvidersResolve ==
    /\ \A p, q \in Active : p = q
    /\ \A p \in Offered : rows[p] # NoRow =>
           /\ p \in Allowlist
           /\ rows[p].keyed => vault[p] # NoKey

\* A step of the wizard that makes the next launch skip it leaves an active
\* provider behind: no other screen can choose one.
CompletedWithProvider ==
    [][phase = "wizard" /\ Completed(privacyState') /\ ~Completed(privacyState)
           => Active' # {}]_vars

\* No way of changing what the form shows keeps the result of a check: neither an
\* edit, nor the late answer of the detection that fills the model in.
EditsForgetChecks ==
    [][phase = "wizard" /\ phase' = "wizard" /\ Shown(wizard') # Shown(wizard)
           => wizard'.validation = "unchecked"]_vars

\* "Start observing" ends in the main screen or in an error the user can act on,
\* and never with a button that stays disabled.
StartIsAnswered ==
    Starting ~> start = Failed \/ phase # "wizard"

=============================================================================
