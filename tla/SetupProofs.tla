----------------------------- MODULE SetupProofs -----------------------------
(***************************************************************************)
(* Onboarding and the provider it leaves behind, for every menu of         *)
(* providers, every allowlist and floor, every set of models and levels,   *)
(* and any number of checks and edits.                                     *)
(***************************************************************************)
EXTENDS Setup, TLAPS

\* No row of a provider is the row that is not there.
LEMMA RowsAreNotNoRow ==
    \A row \in ProviderRows : row # NoRow
<1> SUFFICES ASSUME NEW row \in ProviderRows PROVE row # NoRow
    OBVIOUS
<1>1. DOMAIN row = {"model", "keyed", "active"}
    BY DEF ProviderRows
<1>2. DOMAIN NoRow = {"model"}
    BY DEF NoRow
<1> QED
    BY <1>1, <1>2

\* A start that runs has a call to make, a choice, a level and a count of edits.
LEMMA StartTyped ==
    ASSUME start \in Starts, Starting
    PROVE  /\ start \in [call : Calls, choice : Choices, level : WizardLevels,
                         edits : 0..MaxEdits]
           /\ start.call \in Calls
           /\ start.choice \in Choices
           /\ start.choice.provider \in Offered
           /\ start.choice.model \in Models \cup {NoModel}
           /\ start.choice.key \in Keys
           /\ start.level \in WizardLevels
<1>1. start \in [call : Calls, choice : Choices, level : WizardLevels, edits : 0..MaxEdits]
    BY DEF Starts, Starting
<1> QED
    BY <1>1 DEF Choices

\* A start with a call to make is running.
LEMMA CallIsStarting ==
    ASSUME NEW s \in Starts, s.call \in Calls
    PROVE  s \notin {Idle, Failed}
    BY DEF Idle, Failed, Calls

\* The levels the floor lets through are levels.
LEMMA EffectiveTyped ==
    \A level \in WizardLevels : EffectivePrivacyLevel(Floor, level) \in Levels
    BY SetupAssumption DEF EffectivePrivacyLevel

\* A rendering leaves a well-typed form well-typed, and forgets a result.
LEMMA RenderedTyped ==
    ASSUME NEW form \in Forms, NEW changed \in Forms
    PROVE  /\ Rendered(form, changed) \in Forms
           /\ Shown(Rendered(form, changed)) # Shown(form)
                  => Rendered(form, changed).validation = "unchecked"
<1> DEFINE filled == IF changed.model = NoModel
                     THEN [changed EXCEPT !.model = Proposed(changed.provider, changed.runtime)]
                     ELSE changed
<1>1. Proposed(changed.provider, changed.runtime) \in Models \cup {NoModel}
    BY SetupAssumption DEF Proposed
<1>2. filled \in Forms
    BY <1>1 DEF Forms
<1>3. [filled EXCEPT !.validation = "unchecked"] \in Forms
    BY <1>2 DEF Forms
<1>4. [filled EXCEPT !.validation = "unchecked"].validation = "unchecked"
    BY <1>2 DEF Forms
<1>5. Rendered(form, changed) = IF Shown(filled) = Shown(form) THEN filled
                                ELSE [filled EXCEPT !.validation = "unchecked"]
    BY DEF Rendered
<1> HIDE DEF filled
<1> QED
    BY <1>2, <1>3, <1>4, <1>5

\* The form a wizard starts with.
LEMMA FirstFormTyped == FirstForm \in Forms
<1>1. "ollama" \in Offered
    BY SetupAssumption
<1>2. NoKey \in Keys
    BY DEF Keys
<1>3. FirstStep \in FirstStep..7
    BY DEF FirstStep
<1> QED
    BY <1>1, <1>2, <1>3 DEF FirstForm, Forms

\* Every edit of the form gives a well-typed form.
LEMMA EditTyped ==
    ASSUME TypeOK, NEW changed \in Forms, Edit(changed)
    PROVE  /\ wizard' \in Forms
           /\ start' \in Starts
           /\ Starting' <=> Starting
           /\ Starting => /\ start'.call = start.call
                          /\ start'.choice = start.choice
                          /\ start'.level = start.level
           /\ phase = "wizard"
           /\ UNCHANGED <<phase, checks, rows, vault, privacyState>>
           /\ Shown(wizard') # Shown(wizard) => wizard'.validation = "unchecked"
<1>1. /\ wizard' \in Forms
      /\ Shown(wizard') # Shown(wizard) => wizard'.validation = "unchecked"
    BY RenderedTyped DEF Edit, TypeOK
<1>2. CASE Starting
    <2>1. start \in [call : Calls, choice : Choices, level : WizardLevels,
                     edits : 0..MaxEdits]
        BY <1>2, StartTyped DEF TypeOK
    <2>2. start.edits < MaxEdits /\ start' = [start EXCEPT !.edits = @ + 1]
        BY <1>2 DEF Edit
    <2>3. start.edits + 1 \in 0..MaxEdits
        <3>1. start.edits \in 0..MaxEdits
            BY <2>1
        <3>2. MaxEdits \in Nat
            BY SetupAssumption
        <3> QED
            BY <2>2, <3>1, <3>2
    <2>4. /\ start'.call = start.call /\ start'.choice = start.choice
          /\ start'.level = start.level
        BY <2>1, <2>2
    <2>5. start' \in [call : Calls, choice : Choices, level : WizardLevels,
                      edits : 0..MaxEdits]
        <3> DEFINE range == 0..MaxEdits
        <3>1. start.edits + 1 \in range
            BY <2>3
        <3> HIDE DEF range
        <3>2. start \in [call : Calls, choice : Choices, level : WizardLevels, edits : range]
            BY <2>1 DEF range
        <3>3. start' \in [call : Calls, choice : Choices, level : WizardLevels,
                          edits : range]
            BY <2>2, <3>1, <3>2
        <3> QED
            BY <3>3 DEF range
    <2>6. start' \in Starts /\ start'.call \in Calls
        BY <2>5 DEF Starts
    <2>7. Starting'
        BY <2>6, CallIsStarting DEF Starting
    <2> QED
        BY <1>1, <1>2, <2>4, <2>6, <2>7 DEF Edit, backend
<1>3. CASE ~Starting
    BY <1>1, <1>3 DEF Edit, backend, Starting, TypeOK
<1> QED
    BY <1>2, <1>3

\* The steps of the form are edits with a well-typed form.
FormStep == Continue \/ Back \/ ChooseProvider \/ ChooseModel \/ TypeKey \/ DetectionReturns

LEMMA FormStepEdits ==
    ASSUME TypeOK, FormStep
    PROVE  \E changed \in Forms : Edit(changed)
<1>1. CASE Continue
    BY <1>1 DEF Continue, TypeOK, Forms, FirstStep
<1>2. CASE Back
    BY <1>2 DEF Back, TypeOK, Forms, FirstStep
<1>3. CASE ChooseProvider
    BY <1>3 DEF ChooseProvider, TypeOK, Forms, NoModel
<1>4. CASE ChooseModel
    BY <1>4 DEF ChooseModel, TypeOK, Forms
<1>5. CASE TypeKey
    BY <1>5 DEF TypeKey, TypeOK, Forms, Keys
<1>6. CASE DetectionReturns
    BY <1>6 DEF DetectionReturns, TypeOK, Forms
<1> QED
    BY <1>1, <1>2, <1>3, <1>4, <1>5, <1>6 DEF FormStep

\* A call that is done leaves the choice of the start alone.
LEMMA CalledTyped ==
    ASSUME TypeOK, NEW call \in Calls \ {"finish"}, Called(call)
    PROVE  /\ phase = "wizard"
           /\ Starting /\ start.call = call
           /\ start' \in Starts /\ Starting'
           /\ start'.call = Following(call)
           /\ start'.choice = start.choice
           /\ start'.level = start.level
           /\ UNCHANGED <<phase, wizard, checks>>
<1>1. /\ phase = "wizard" /\ start.call = call
      /\ start' = [start EXCEPT !.call = Following(call)]
      /\ UNCHANGED <<phase, wizard, checks>>
    BY DEF Called
<1>2. Starting
    BY <1>1, CallIsStarting DEF Starting, TypeOK
<1>3. start \in [call : Calls, choice : Choices, level : WizardLevels, edits : 0..MaxEdits]
    BY <1>2, StartTyped DEF TypeOK
<1>4. Following(call) \in Calls
    BY DEF Following, Calls
<1>5. /\ start' \in [call : Calls, choice : Choices, level : WizardLevels,
                     edits : 0..MaxEdits]
      /\ start'.call = Following(call)
      /\ start'.choice = start.choice /\ start'.level = start.level
    BY <1>1, <1>3, <1>4
<1>6. start' \in Starts
    BY <1>5 DEF Starts
<1>7. Starting'
    BY <1>4, <1>5, <1>6, CallIsStarting DEF Starting
<1> QED
    BY <1>1, <1>2, <1>5, <1>6, <1>7

\* Neither shape of an idle start is running.
LEMMA IdleTyped ==
    /\ Idle \in Starts /\ Failed \in Starts
    BY DEF Starts

\* What a start writes for its choice.
LEMMA UpsertTyped ==
    ASSUME TypeOK, NEW choice \in Choices
    PROVE  /\ UpsertProvider(choice) \in [Offered -> ProviderRows \cup {NoRow}]
           /\ UpsertProvider(choice)[choice.provider] =
                  [model |-> choice.model, keyed |-> choice.key # NoKey, active |-> FALSE]
           /\ \A p \in Offered \ {choice.provider} : UpsertProvider(choice)[p] = rows[p]
<1>1. [model |-> choice.model, keyed |-> choice.key # NoKey, active |-> FALSE] \in ProviderRows
    BY DEF ProviderRows, Choices
<1>2. choice.provider \in Offered
    BY DEF Choices
<1> QED
    BY <1>1, <1>2 DEF UpsertProvider, TypeOK

\* Activation changes no model and no key, and leaves one provider active.
LEMMA SetActiveTyped ==
    ASSUME TypeOK, NEW provider \in Offered
    PROVE  /\ SetActive(provider) \in [Offered -> ProviderRows \cup {NoRow}]
           /\ \A p \in Offered :
                  /\ SetActive(provider)[p] # NoRow <=> rows[p] # NoRow
                  /\ rows[p] # NoRow =>
                         /\ SetActive(provider)[p].model = rows[p].model
                         /\ SetActive(provider)[p].keyed = rows[p].keyed
                         /\ SetActive(provider)[p].active <=> p = provider
<1> SUFFICES ASSUME NEW p \in Offered
             PROVE  /\ SetActive(provider)[p] \in ProviderRows \cup {NoRow}
                    /\ SetActive(provider)[p] # NoRow <=> rows[p] # NoRow
                    /\ rows[p] # NoRow =>
                           /\ SetActive(provider)[p].model = rows[p].model
                           /\ SetActive(provider)[p].keyed = rows[p].keyed
                           /\ SetActive(provider)[p].active <=> p = provider
    BY DEF SetActive
<1>1. CASE rows[p] = NoRow
    BY <1>1 DEF SetActive
<1>2. CASE rows[p] # NoRow
    <2>1. rows[p] \in ProviderRows
        BY <1>2 DEF TypeOK
    <2>2. SetActive(provider)[p] = [rows[p] EXCEPT !.active = (p = provider)]
        BY <1>2 DEF SetActive
    <2>3. SetActive(provider)[p] \in ProviderRows
        BY <2>1, <2>2 DEF ProviderRows
    <2>4. SetActive(provider)[p] # NoRow
        BY <2>3, RowsAreNotNoRow
    <2> QED
        BY <1>2, <2>1, <2>2, <2>3, <2>4 DEF ProviderRows
<1> QED
    BY <1>1, <1>2

-----------------------------------------------------------------------------
(* The inductive invariant: what each call of a running start leaves for the *)
(* next one.                                                                 *)

AfterAllow == {"vault", "upsert", "activate", "level", "complete", "finish"}
AfterVault == {"upsert", "activate", "level", "complete", "finish"}
AfterUpsert == {"activate", "level", "complete", "finish"}
AfterActivate == {"level", "complete", "finish"}

KeyStored == start.choice.key # NoKey => vault[start.choice.provider] = start.choice.key
RowWritten ==
    /\ rows[start.choice.provider] # NoRow
    /\ rows[start.choice.provider].model = start.choice.model
    /\ rows[start.choice.provider].keyed <=> start.choice.key # NoKey

\* Active, as a predicate on providers.
IsActive(p) == rows[p] # NoRow /\ rows[p].active

StartInv ==
    Starting =>
        /\ phase = "wizard"
        /\ start.call \in AfterAllow => start.choice.provider \in Allowlist
        /\ start.call \in AfterVault => KeyStored
        /\ start.call \in AfterUpsert => RowWritten
        /\ start.call \in AfterActivate =>
               \A p \in Offered : IsActive(p) <=> p = start.choice.provider
        /\ start.call \in {"complete", "finish"} =>
               privacyState.level = EffectivePrivacyLevel(Floor, start.level)
        /\ start.call = "finish" => privacyState.active

RowsInv ==
    /\ \A p, q \in Offered : IsActive(p) /\ IsActive(q) => p = q
    /\ \A p \in Offered : rows[p] # NoRow =>
           /\ p \in Allowlist
           /\ rows[p].keyed => vault[p] # NoKey

IInv == TypeOK /\ StartInv /\ RowsInv

\* A step that touches neither the backend nor the calls of a running start.
LEMMA BackendKept ==
    ASSUME IInv, UNCHANGED <<rows, vault, privacyState>>,
           Starting' => /\ Starting /\ phase' = phase
                        /\ start'.call = start.call
                        /\ start'.choice = start.choice
                        /\ start'.level = start.level
    PROVE  StartInv' /\ RowsInv'
    BY DEF IInv, StartInv, RowsInv, KeyStored, RowWritten, IsActive

\* Nothing runs outside the wizard.
LEMMA NoStartOutside ==
    ASSUME IInv, phase # "wizard"
    PROVE  ~Starting
    BY DEF IInv, StartInv

\* The row of a new profile.
LEMMA InitialTyped == InitialPrivacyState \in PrivacyStates
    BY DEF InitialPrivacyState, PrivacyStates, Levels, Manual, ManifestVersions,
           CurrentManifestVersion

LEMMA InitIInv == Init => IInv
<1> SUFFICES ASSUME Init PROVE IInv
    OBVIOUS
<1>1. TypeOK
    <2>1. start \in Starts
        BY IdleTyped DEF Init
    <2>2. privacyState \in PrivacyStates
        BY InitialTyped DEF Init, Row!Init, Row!InitialPrivacyState, InitialPrivacyState,
            Row!Manual, Manual
    <2>3. /\ rows \in [Offered -> ProviderRows \cup {NoRow}]
          /\ vault \in [Offered -> Keys]
          /\ checks \subseteq Choices
          /\ phase = "down"
        BY DEF Init, Keys
    <2> QED
        BY <2>1, <2>2, <2>3, FirstFormTyped DEF TypeOK, Init
<1>2. StartInv
    BY DEF Init, StartInv, Starting
<1>3. RowsInv
    BY DEF Init, RowsInv, IsActive
<1> QED
    BY <1>1, <1>2, <1>3 DEF IInv

\* The steps outside the calls of a start.
LEMMA UserStepIInv ==
    ASSUME IInv, UserStep
    PROVE  IInv'
<1> USE DEF backend
<1>1. CASE FormStep
    <2>1. PICK changed \in Forms : Edit(changed)
        BY <1>1, FormStepEdits DEF IInv
    <2>2. TypeOK'
        BY <2>1, EditTyped DEF IInv, TypeOK
    <2>3. StartInv' /\ RowsInv'
        BY <2>1, EditTyped, BackendKept DEF IInv
    <2> QED
        BY <2>2, <2>3 DEF IInv
<1>2. CASE RunChecks
    <2>1. Shown(wizard) \in Choices
        BY DEF IInv, TypeOK, Shown, Forms, Choices
    <2>2. TypeOK'
        BY <1>2, <2>1 DEF RunChecks, IInv, TypeOK
    <2>3. StartInv' /\ RowsInv'
        BY <1>2, BackendKept DEF RunChecks, Starting
    <2> QED
        BY <2>2, <2>3 DEF IInv
<1>3. CASE StartObserving
    <2>1. PICK level \in WizardLevels :
              start' = [call |-> "allow", choice |-> Shown(wizard), level |-> level, edits |-> 0]
        BY <1>3 DEF StartObserving
    <2>2. Shown(wizard) \in Choices
        BY DEF IInv, TypeOK, Shown, Forms, Choices
    <2>3. 0 \in 0..MaxEdits
        <3>1. MaxEdits \in Nat
            BY SetupAssumption
        <3> QED
            BY <3>1
    <2>4. start' \in Starts /\ start'.call = "allow"
        BY <2>1, <2>2, <2>3 DEF Starts, Calls
    <2>5. TypeOK'
        BY <1>3, <2>4 DEF StartObserving, IInv, TypeOK
    <2>6. StartInv'
        BY <1>3, <2>4 DEF StartObserving, StartInv, AfterAllow, AfterVault, AfterUpsert,
                          AfterActivate
    <2>7. RowsInv'
        BY <1>3 DEF StartObserving, IInv, RowsInv, IsActive
    <2> QED
        BY <2>5, <2>6, <2>7 DEF IInv
<1>4. CASE Retry \/ Launch
    <2>1. ~Starting' /\ TypeOK'
        BY <1>4, NoStartOutside DEF Retry, Launch, IInv, TypeOK, Starting
    <2> QED
        BY <1>4, <2>1, BackendKept DEF Retry, Launch, IInv
<1>5. CASE UsePrivacyCommands
    <2>1. privacyState' \in PrivacyStates
        BY <1>5, EffectiveTyped
        DEF UsePrivacyCommands, IInv, TypeOK, Row!SetPrivacyLevel, Row!PauseObservation,
            Row!StartObservation, PrivacyStates
    <2>2. TypeOK' /\ ~Starting'
        BY <1>5, <2>1, NoStartOutside DEF UsePrivacyCommands, IInv, TypeOK, Starting
    <2>3. RowsInv'
        BY <1>5 DEF UsePrivacyCommands, IInv, RowsInv, IsActive
    <2> QED
        BY <2>2, <2>3 DEF IInv, StartInv
<1>6. CASE DeleteAll
    <2>1. privacyState' \in PrivacyStates
        BY <1>6, InitialTyped DEF DeleteAll, Row!DeleteAllData, Row!InitialPrivacyState,
            InitialPrivacyState, Row!Manual, Manual
    <2>2. TypeOK' /\ ~Starting'
        BY <1>6, <2>1, NoStartOutside DEF DeleteAll, IInv, TypeOK, Starting
    <2>3. RowsInv'
        BY <1>6 DEF DeleteAll, RowsInv, IsActive
    <2> QED
        BY <2>2, <2>3 DEF IInv, StartInv
<1>7. CASE Crash
    <2>1. TypeOK' /\ ~Starting'
        BY <1>7, IdleTyped, FirstFormTyped DEF Crash, IInv, TypeOK, Starting
    <2> QED
        BY <1>7, <2>1, BackendKept DEF Crash, IInv
<1> QED
    BY <1>1, <1>2, <1>3, <1>4, <1>5, <1>6, <1>7 DEF UserStep, FormStep

\* The calls of a start, each with what the one before it left.
LEMMA StartStepIInv ==
    ASSUME IInv, StartStep
    PROVE  IInv'
<1> DEFINE choice == start.choice
<1> USE DEF backend
<1>1. Starting => /\ choice \in Choices /\ choice.provider \in Offered
                  /\ choice.key \in Keys /\ start.level \in WizardLevels
                  /\ start.call \in Calls
    BY StartTyped DEF IInv, TypeOK
<1>2. CASE Allow
    <2>1. /\ Called("allow") /\ choice.provider \in Allowlist
          /\ UNCHANGED <<rows, vault, privacyState>>
        BY <1>2 DEF Allow, IsProviderAllowed
    <2>2. start'.call = "vault"
        BY <2>1, CalledTyped DEF IInv, Following, Calls
    <2>3. /\ Starting /\ start' \in Starts /\ start'.choice = choice
          /\ UNCHANGED <<phase, wizard, checks>> /\ phase = "wizard"
        BY <2>1, CalledTyped DEF IInv, Calls
    <2>4. TypeOK'
        BY <2>1, <2>3 DEF IInv, TypeOK
    <2>5. StartInv'
        BY <2>1, <2>2, <2>3 DEF StartInv, AfterAllow, AfterVault, AfterUpsert, AfterActivate
    <2>6. RowsInv'
        BY <2>1 DEF IInv, RowsInv, IsActive
    <2> QED
        BY <2>4, <2>5, <2>6 DEF IInv
<1>3. CASE StoreKey
    <2>1. /\ Called("vault") /\ UNCHANGED <<rows, privacyState>>
          /\ vault' = IF choice.key = NoKey THEN vault
                      ELSE [vault EXCEPT ![choice.provider] = choice.key]
        BY <1>3 DEF StoreKey
    <2>2. start'.call = "upsert"
        BY <2>1, CalledTyped DEF IInv, Following, Calls
    <2>3. /\ Starting /\ start.call = "vault" /\ start' \in Starts /\ start'.choice = choice
          /\ UNCHANGED <<phase, wizard, checks>> /\ phase = "wizard"
        BY <2>1, CalledTyped DEF IInv, Calls
    <2>4. /\ vault' \in [Offered -> Keys]
          /\ choice.key # NoKey => vault'[choice.provider] = choice.key
          /\ \A p \in Offered : vault[p] # NoKey => vault'[p] # NoKey
        BY <1>1, <2>1, <2>3 DEF IInv, TypeOK
    <2>5. TypeOK'
        BY <2>1, <2>3, <2>4 DEF IInv, TypeOK
    <2>6. choice.provider \in Allowlist
        BY <2>3 DEF IInv, StartInv, AfterAllow
    <2>7. StartInv'
        BY <2>2, <2>3, <2>4, <2>6
        DEF StartInv, AfterVault, AfterUpsert, AfterActivate, KeyStored
    <2>8. RowsInv'
        BY <2>1, <2>4 DEF IInv, RowsInv, IsActive
    <2> QED
        BY <2>5, <2>7, <2>8 DEF IInv
<1>4. CASE Upsert
    <2>1. /\ Called("upsert") /\ UNCHANGED <<vault, privacyState>>
          /\ rows' = UpsertProvider(choice)
        BY <1>4 DEF Upsert
    <2>2. start'.call = "activate"
        BY <2>1, CalledTyped DEF IInv, Following, Calls
    <2>3. /\ Starting /\ start.call = "upsert" /\ start' \in Starts /\ start'.choice = choice
          /\ UNCHANGED <<phase, wizard, checks>> /\ phase = "wizard"
        BY <2>1, CalledTyped DEF IInv, Calls
    <2>4. choice \in Choices
        BY <1>1, <2>3
    <2>5. /\ rows' \in [Offered -> ProviderRows \cup {NoRow}]
          /\ rows'[choice.provider] =
                 [model |-> choice.model, keyed |-> choice.key # NoKey, active |-> FALSE]
          /\ \A p \in Offered \ {choice.provider} : rows'[p] = rows[p]
        BY <2>1, <2>4, UpsertTyped DEF IInv
    <2>6. rows'[choice.provider] # NoRow
        <3>1. [model |-> choice.model, keyed |-> choice.key # NoKey, active |-> FALSE]
                  \in ProviderRows
            BY <2>4 DEF ProviderRows, Choices
        <3> QED
            BY <2>5, <3>1, RowsAreNotNoRow
    <2>7. TypeOK'
        BY <2>1, <2>3, <2>5 DEF IInv, TypeOK
    <2>8. choice.provider \in Allowlist /\ KeyStored
        BY <2>3 DEF IInv, StartInv, AfterAllow, AfterVault
    <2>9. /\ rows'[choice.provider].model = choice.model
          /\ rows'[choice.provider].keyed <=> choice.key # NoKey
          /\ ~rows'[choice.provider].active
        <3> DEFINE new == rows'[choice.provider]
        <3>1. new = [model |-> choice.model, keyed |-> (choice.key # NoKey), active |-> FALSE]
            BY <2>5
        <3> HIDE DEF new
        <3>2. new.model = choice.model
            BY <3>1
        <3>3. new.keyed = (choice.key # NoKey)
            BY <3>1
        <3>4. new.active = FALSE
            BY <3>1
        <3> QED
            BY <3>2, <3>3, <3>4 DEF new
    <2>10. KeyStored' /\ RowWritten'
        BY <2>1, <2>3, <2>6, <2>8, <2>9 DEF KeyStored, RowWritten
    <2>11. StartInv'
        BY <2>2, <2>3, <2>8, <2>10 DEF StartInv, AfterActivate
    <2>12. \A p \in Offered : IsActive(p)' => IsActive(p)
        BY <2>5, <2>9 DEF IsActive
    <2>13. \A p \in Offered \ {choice.provider} : rows'[p] # NoRow =>
               /\ p \in Allowlist
               /\ rows'[p].keyed => vault'[p] # NoKey
        BY <2>1, <2>5 DEF IInv, RowsInv
    <2>14. choice.key # NoKey => vault'[choice.provider] # NoKey
        BY <2>1, <2>8 DEF KeyStored
    <2>15. RowsInv'
        BY <2>8, <2>9, <2>12, <2>13, <2>14 DEF IInv, RowsInv
    <2> QED
        BY <2>7, <2>11, <2>15 DEF IInv
<1>5. CASE Activate
    <2>1. /\ Called("activate") /\ UNCHANGED <<vault, privacyState>>
          /\ rows' = SetActive(choice.provider)
        BY <1>5 DEF Activate
    <2>2. start'.call = "level"
        BY <2>1, CalledTyped DEF IInv, Following, Calls
    <2>3. /\ Starting /\ start.call = "activate" /\ start' \in Starts /\ start'.choice = choice
          /\ UNCHANGED <<phase, wizard, checks>> /\ phase = "wizard"
        BY <2>1, CalledTyped DEF IInv, Calls
    <2>4. choice.provider \in Offered
        BY <1>1, <2>3
    <2>5. /\ rows' \in [Offered -> ProviderRows \cup {NoRow}]
          /\ \A p \in Offered :
                 /\ rows'[p] # NoRow <=> rows[p] # NoRow
                 /\ rows[p] # NoRow =>
                        /\ rows'[p].model = rows[p].model
                        /\ rows'[p].keyed = rows[p].keyed
                        /\ rows'[p].active <=> p = choice.provider
        BY <2>1, <2>4, SetActiveTyped DEF IInv
    <2>6. TypeOK'
        BY <2>1, <2>3, <2>5 DEF IInv, TypeOK
    <2>7. choice.provider \in Allowlist /\ KeyStored /\ RowWritten
        BY <2>3 DEF IInv, StartInv, AfterAllow, AfterVault, AfterUpsert
    <2>8. \A p \in Offered : IsActive(p)' <=> p = choice.provider
        BY <2>4, <2>5, <2>7 DEF IsActive, RowWritten
    <2>9. KeyStored' /\ RowWritten'
        BY <2>1, <2>3, <2>4, <2>5, <2>7 DEF KeyStored, RowWritten
    <2>10. StartInv'
        BY <2>2, <2>3, <2>7, <2>8, <2>9 DEF StartInv
    <2>11. RowsInv'
        BY <2>1, <2>5, <2>8 DEF IInv, RowsInv
    <2> QED
        BY <2>6, <2>10, <2>11 DEF IInv
<1>6. CASE SetLevel
    <2>1. /\ Called("level") /\ UNCHANGED <<rows, vault>>
          /\ privacyState' =
                 [privacyState EXCEPT !.level = EffectivePrivacyLevel(Floor, start.level)]
        BY <1>6 DEF SetLevel, Row!SetPrivacyLevel, Row!EffectivePrivacyLevel,
                    EffectivePrivacyLevel
    <2>2. start'.call = "complete"
        BY <2>1, CalledTyped DEF IInv, Following, Calls
    <2>3. /\ Starting /\ start.call = "level" /\ start' \in Starts /\ start'.choice = choice
          /\ start'.level = start.level
          /\ UNCHANGED <<phase, wizard, checks>> /\ phase = "wizard"
        BY <2>1, CalledTyped DEF IInv, Calls
    <2>4. EffectivePrivacyLevel(Floor, start.level) \in Levels
        BY <1>1, <2>3, EffectiveTyped
    <2>5. /\ privacyState' \in PrivacyStates
          /\ privacyState'.level = EffectivePrivacyLevel(Floor, start.level)
        BY <2>1, <2>4 DEF IInv, TypeOK, PrivacyStates
    <2>6. TypeOK'
        BY <2>1, <2>3, <2>5 DEF IInv, TypeOK
    <2>7. StartInv'
        BY <2>1, <2>2, <2>3, <2>5
        DEF IInv, StartInv, AfterAllow, AfterVault, AfterUpsert, AfterActivate, KeyStored,
            RowWritten, IsActive
    <2>8. RowsInv'
        BY <2>1 DEF IInv, RowsInv, IsActive
    <2> QED
        BY <2>6, <2>7, <2>8 DEF IInv
<1>7. CASE CompleteOnboarding
    <2>1. /\ Called("complete") /\ UNCHANGED <<rows, vault>>
          /\ privacyState' = [privacyState EXCEPT !.active = TRUE]
        BY <1>7 DEF CompleteOnboarding, Row!StartObservation
    <2>2. start'.call = "finish"
        BY <2>1, CalledTyped DEF IInv, Following, Calls
    <2>3. /\ Starting /\ start.call = "complete" /\ start' \in Starts
          /\ start'.choice = choice /\ start'.level = start.level
          /\ UNCHANGED <<phase, wizard, checks>> /\ phase = "wizard"
        BY <2>1, CalledTyped DEF IInv, Calls
    <2>4. /\ privacyState' \in PrivacyStates /\ privacyState'.active
          /\ privacyState'.level = privacyState.level
        BY <2>1 DEF IInv, TypeOK, PrivacyStates
    <2>5. TypeOK'
        BY <2>1, <2>3, <2>4 DEF IInv, TypeOK
    <2>6. StartInv'
        BY <2>1, <2>2, <2>3, <2>4
        DEF IInv, StartInv, AfterAllow, AfterVault, AfterUpsert, AfterActivate, KeyStored,
            RowWritten, IsActive
    <2>7. RowsInv'
        BY <2>1 DEF IInv, RowsInv, IsActive
    <2> QED
        BY <2>5, <2>6, <2>7 DEF IInv
<1>8. CASE Finish
    <2>1. ~Starting' /\ TypeOK'
        BY <1>8, IdleTyped, FirstFormTyped DEF Finish, IInv, TypeOK, Starting
    <2> QED
        BY <1>8, <2>1, BackendKept DEF Finish, IInv
<1>9. CASE CallFails
    <2>1. ~Starting' /\ TypeOK'
        BY <1>9, IdleTyped DEF CallFails, AfterRejection, IInv, TypeOK, Starting
    <2> QED
        BY <1>9, <2>1, BackendKept DEF CallFails, IInv
<1> QED
    BY <1>2, <1>3, <1>4, <1>5, <1>6, <1>7, <1>8, <1>9 DEF StartStep

LEMMA SpecIInv == Spec => []IInv
<1>1. IInv /\ [Next]_vars => IInv'
    <2> SUFFICES ASSUME IInv, [Next]_vars PROVE IInv'
        OBVIOUS
    <2>1. CASE UserStep
        BY <2>1, UserStepIInv
    <2>2. CASE StartStep
        BY <2>2, StartStepIInv
    <2>3. CASE DetectionReturns
        <3>1. PICK changed \in Forms : Edit(changed)
            BY <2>3, FormStepEdits DEF IInv, FormStep
        <3>2. TypeOK'
            BY <3>1, EditTyped DEF IInv, TypeOK
        <3>3. StartInv' /\ RowsInv'
            BY <3>1, EditTyped, BackendKept DEF IInv
        <3> QED
            BY <3>2, <3>3 DEF IInv
    <2>4. CASE LoadOnboardingState
        <3>1. phase' \in {"failed", "main", "wizard"} /\ wizard' \in Forms
            BY <2>4, FirstFormTyped DEF LoadOnboardingState, IInv, TypeOK
        <3>2. ~Starting' /\ TypeOK'
            BY <2>4, <3>1, NoStartOutside
            DEF LoadOnboardingState, backend, IInv, TypeOK, Starting
        <3> QED
            BY <2>4, <3>2, BackendKept DEF LoadOnboardingState, backend, IInv
    <2>5. CASE \E choice \in checks : CheckReturns(choice)
        <3>1. TypeOK'
            BY <2>5 DEF CheckReturns, backend, IInv, TypeOK, Forms
        <3>2. StartInv' /\ RowsInv'
            BY <2>5, BackendKept DEF CheckReturns, backend, Starting
        <3> QED
            BY <3>1, <3>2 DEF IInv
    <2>6. CASE UNCHANGED vars
        <3>1. TypeOK'
            BY <2>6 DEF vars, IInv, TypeOK
        <3>2. StartInv' /\ RowsInv'
            BY <2>6, BackendKept DEF vars, Starting
        <3> QED
            BY <3>1, <3>2 DEF IInv
    <2> QED
        BY <2>1, <2>2, <2>3, <2>4, <2>5, <2>6 DEF Next
<1> QED
    BY <1>1, InitIInv, PTL DEF Spec

-----------------------------------------------------------------------------
(* The theorems *)

\* Every variable of the onboarding keeps its type (App.tsx, OnboardingWizard.tsx).
THEOREM SetupTypeOK == Spec => []TypeOK
<1>1. IInv => TypeOK
    BY DEF IInv
<1> QED
    BY <1>1, SpecIInv, PTL

\* Never more than one active provider, none the policy forbids, and no row whose
\* key is not in the vault, across failures and crashes (set_ai_provider).
THEOREM ProvidersAlwaysResolve == Spec => []ProvidersResolve
<1>1. IInv => ProvidersResolve
    BY DEF IInv, RowsInv, ProvidersResolve, Active, IsActive
<1> QED
    BY <1>1, SpecIInv, PTL

LEMMA ActiveIsChosen ==
    ASSUME IInv, Starting, start.call \in AfterActivate
    PROVE  Active = {start.choice.provider}
<1>1. start.choice.provider \in Offered
    BY StartTyped DEF IInv, TypeOK
<1>2. \A p \in Offered : IsActive(p) <=> p = start.choice.provider
    BY DEF IInv, StartInv
<1> QED
    BY <1>1, <1>2 DEF Active, IsActive

\* When the calls of a start have gone through, recommendations are asked of the
\* client that was tested, and level and activation are as chosen (startObserving).
THEOREM SetupInstallsTheChoice == Spec => []SetupIsWhatWasChosen
<1>1. IInv => SetupIsWhatWasChosen
    <2> SUFFICES ASSUME IInv, Starting, start.call \in {"level", "complete", "finish"}
                 PROVE  /\ Active = {start.choice.provider}
                        /\ BuiltClient(start.choice.provider) = TestedClient(start.choice)
                        /\ start.call # "level" =>
                               privacyState.level = EffectivePrivacyLevel(Floor, start.level)
                        /\ start.call = "finish" => privacyState.active
        BY DEF SetupIsWhatWasChosen
    <2>1. Active = {start.choice.provider}
        BY ActiveIsChosen DEF AfterActivate
    <2>2. KeyStored /\ RowWritten
        BY DEF IInv, StartInv, AfterVault, AfterUpsert
    <2>3. BuiltClient(start.choice.provider) = TestedClient(start.choice)
        BY <2>2 DEF KeyStored, RowWritten, BuiltClient, TestedClient
    <2>4. /\ start.call # "level" =>
                 privacyState.level = EffectivePrivacyLevel(Floor, start.level)
          /\ start.call = "finish" => privacyState.active
        BY DEF IInv, StartInv
    <2> QED
        BY <2>1, <2>3, <2>4
<1> QED
    BY <1>1, SpecIInv, PTL

\* A step of the wizard after which the next launch skips it leaves an active
\* provider (complete_onboarding is the last call, and set_privacy_level comes
\* after set_ai_provider).
THEOREM CompletionHasProvider == Spec => CompletedWithProvider
<1>1. IInv /\ [Next]_vars =>
          [phase = "wizard" /\ Completed(privacyState') /\ ~Completed(privacyState)
               => Active' # {}]_vars
    <2> SUFFICES ASSUME IInv, Next, phase = "wizard",
                        Completed(privacyState'), ~Completed(privacyState)
                 PROVE  Active' # {}
        BY DEF vars
    <2>1. privacyState' # privacyState
        OBVIOUS
    <2>2. SetLevel \/ CompleteOnboarding
        <3>1. ~FormStep
            BY <2>1, FormStepEdits, EditTyped DEF IInv
        <3> QED
            BY <2>1, <3>1
            DEF Next, UserStep, StartStep, FormStep, RunChecks, StartObserving, Retry, Launch,
                UsePrivacyCommands, DeleteAll, Crash, Allow, StoreKey, Upsert, Activate, Finish,
                CallFails, LoadOnboardingState, CheckReturns, backend
    <2>3. Starting /\ start.call \in AfterActivate
        BY <2>2, CalledTyped DEF SetLevel, CompleteOnboarding, IInv, Calls, AfterActivate
    <2>4. Active = {start.choice.provider}
        BY <2>3, ActiveIsChosen
    <2>5. Active' = Active
        BY <2>2 DEF SetLevel, CompleteOnboarding, Active
    <2> QED
        BY <2>4, <2>5
<1> QED
    BY <1>1, SpecIInv, PTL DEF Spec, CompletedWithProvider

\* No change of what the form shows keeps the result of a check: not an edit, and
\* not the late answer of the detection (OnboardingWizard.tsx).
THEOREM ChangesForgetChecks == Spec => EditsForgetChecks
<1>1. IInv /\ [Next]_vars =>
          [phase = "wizard" /\ phase' = "wizard" /\ Shown(wizard') # Shown(wizard)
               => wizard'.validation = "unchecked"]_vars
    <2> SUFFICES ASSUME IInv, Next, phase = "wizard", phase' = "wizard",
                        Shown(wizard') # Shown(wizard)
                 PROVE  wizard'.validation = "unchecked"
        BY DEF vars
    <2>1. CASE FormStep
        BY <2>1, FormStepEdits, EditTyped DEF IInv
    <2>2. CASE \E choice \in checks : CheckReturns(choice)
        BY <2>2 DEF CheckReturns, Shown, IInv, TypeOK, Forms
    <2>3. CASE StartStep
        BY <2>3, CalledTyped
        DEF StartStep, Allow, StoreKey, Upsert, Activate, SetLevel, CompleteOnboarding, Finish,
            CallFails, Called
    <2>4. CASE RunChecks \/ StartObserving \/ Retry \/ UsePrivacyCommands \/ DeleteAll
                   \/ Crash \/ Launch \/ LoadOnboardingState
        BY <2>4 DEF RunChecks, StartObserving, Retry, UsePrivacyCommands, DeleteAll, Crash,
                    Launch, LoadOnboardingState
    <2> QED
        BY <2>1, <2>2, <2>3, <2>4 DEF Next, UserStep, FormStep
<1> QED
    BY <1>1, SpecIInv, PTL DEF Spec, EditsForgetChecks

=============================================================================
