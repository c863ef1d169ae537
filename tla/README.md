# HiddenSteps in TLA+

HiddenSteps is a local desktop application that observes how its user works, as
far as a privacy level permits, and suggests automations. This directory holds
a TLA+ model of its core, the configurations that TLC checks, and proofs that
TLAPS checks. Every definition is translated from the Rust source (paths below
are relative to the repository root); `PROJECT.json` names the lines behind
each one.

```
tlc -workers 2 -config PrivacyFaulty.cfg MCPrivacyControl.tla
tlapm PrivacyControlProofs.tla
```

## 1. The system

| Component | State | Operations | Interacts with |
|---|---|---|---|
| Domain (`crates/domain`) | value types: privacy level 0..4, the `privacy_state` row, signals, event summaries | constructors | everything |
| Privacy engine (`crates/privacy-engine`) | manifest version; `DispatchGate` (in-memory cloud consent) | `requires_reconsent`; `cloud_eligibility`, `evaluate`; `GatedProvider` | loops, commands |
| Enterprise policy (`crates/enterprise-policy`) | level floor, provider allowlist | `parse`, `effective_privacy_level`, `is_provider_allowed` | launch, commands, recommendation loop |
| Desktop commands (`commands.rs`) | none of their own; `AppState` shared by all | one async handler per UI action | store, gate, policy, vault |
| Launch (`main.rs`) | the master key until the store is open | resolve key, open store, rebuild gate, resolve policy, start both loops | vault, store |
| Observation loop (`observation_loop.rs`) | sources and, within a pass, the row it read | check, poll each source, process, insert, sleep | store, sources, pipeline |
| Observation sources (`crates/observation`) | what they saw last; a channel per watched directory | `poll` | OS, loop |
| Pipeline (`crates/pipeline`) | none | `process`: classify, gate, extract, redact, summarize | redaction, loop |
| Redaction (`crates/redaction`) | none | `scan`: clean, redacted, drop | pipeline |
| Event store (`crates/event-store`) | SQLCipher tables, one connection behind a mutex | one method per query; transactions for deletes and policy; `rekey` | everything |
| Security (`crates/security`) | the OS vault's entries | `generate_master_key`; `get`, `set`, `delete` | launch, delete-all |
| Recommendation loop (`recommendation_loop.rs`) | none across sweeps | sweep: expire, detect, upsert patterns, synthesize, insert | store, gate, patterns, recommendations, providers |
| Patterns (`crates/patterns`) | none | `detect`, workflow graph | recommendation loop |
| Recommendations (`crates/recommendations`) | none | `synthesize`: prompt, parse, validate | providers |
| LLM providers (`crates/llm-provider`) | HTTP clients | `detect`, completion | recommendation loop, wizard |
| Plugin host (`crates/plugin-host`) | wasm store, grants, fuel, memory limits | `instantiate`, calls | nothing yet |
| UI (`apps/desktop/ui`) | React state: the wizard's step, form, check result and start; the shown copies of rows | effects after a rendering; awaits commands, one per click | commands |

What is hard about it:

* **Interleaving.** Commands are async handlers on a multi-threaded runtime.
  The store's mutex covers one call, so a handler's read, change and write-back
  is not atomic, and either loop runs between any two calls of a command. The
  UI awaits each command within a component and leaves its buttons enabled, and
  two components, or a double click, have two commands in flight.
* **Stale state.** A pass of the observation loop works from the row it read at
  its top. A file watcher's channel outlives changes of level and pauses.
* **Crashes and partial failures.** A change and its audit entry are two calls;
  rekeying the file and writing the vault are two calls; onboarding is a
  sequence of commands. Many errors are ignored on purpose.
* **Answers that come late.** A connection check, a detection of runtimes and a
  selection request are answered when what asked for them may have moved on.
* **Text.** What is stored and what is suggested hang on small algorithms over
  text (overlapping matches, digit windows, braces in strings, formatted times)
  whose boundary cases a test suite samples.
* **Launch.** What was in memory (the gate, the policy in force, a key the
  vault refused) is rebuilt from what was stored.

What makes each part correct:

* *Privacy commands*: they act on their own field only; a pause lasts; an
  observing level was acknowledged; the floor holds; the audit log tells the
  row.
* *Capture*: what is stored was allowed, redacted, and captured at a level the
  user had consented to; changes of the row reach the loop; nothing waits
  forever; deletes are final.
* *Master key*: the vault opens the file, a launch is never refused by its own
  data, and a deleted profile's copies stay unreadable.
* *Cloud dispatch*: nothing captured in Deep mode, and nothing without consent,
  leaves the machine; revocation takes effect.
* *Store*: foreign keys hold, at most one provider is active, delete-all leaves
  a fresh profile, retention removes exactly what has expired.
* *Setup*: the provider left active is the one chosen, its key is there, it is
  allowed, and whoever is shown the main screen has one.
* *Algorithms*: repetitions are counted as often as they can be told apart, a
  match of a known format loses its beginning and keeps a rest only behind
  another match, no count the detector did not find is suggested in the words the
  patterns know, a plugin stays within its grant and its budget.
* *Recommendation sweep*: a workflow is inserted and suggested once, rows that
  refer to each other are about one workflow, counts come to agree with the
  events, and what is past its retention goes.

## 2. Plan

Done, in this order: `PrivacyDomain`, `PrivacyRow`, `PrivacyControl`,
`EventPipeline`, `ObservationLoop`, `KeyVault` (with the migration),
`RecommendationSweep` (with the dispatch gate and the commands it depends on),
`Setup` (the wizard, `set_ai_provider` and the provider rows), and the pure
algorithms `PatternDetection`, `EventHistory`, `RedactionSpans`, `Synthesis`,
`PluginHost`, `ProviderClients` and `ClipboardPoll` with `Algorithms`, which says
what they promise; a proof module for each of the five state machines, and for
the algorithms `InductionLemmas`, `AlgorithmsProofs` and `RedactionProofs`.

Next, in the order of what it would add:

1. A second client in `KeyVault`: an inductive invariant of what overlapping
   delete-alls still keep, since `VaultOpensFile` is refuted for them.
2. The privacy commands of several clients: which fields of the row a lost update
   cannot touch, since `CommandsAreAtomic` is refuted for them.
3. The copies of rows the dashboard shows, with refreshes that overlap and
   answer out of order.

`RecommendationSweep` sees captures as one step; the composition with
`ObservationLoop` and `PrivacyControl` would add only what those modules check
by themselves.

## 3. The modules

**`PrivacyDomain`**: levels, the row, re-consent, the test of the observation
loop (`Permits`), and the floor. No policy and a policy without a floor are
both the floor Manual, since `effective_privacy_level` returns the choice in
both cases. `updated_at` is left out.

**`PrivacyRow`** is the abstract specification of the privacy commands: each
changes one field of the row atomically.

**`PrivacyControl`** is the handlers as written. `call[c]` is the command
client `c` has in flight, with the copy of the row it holds (`snap`):
`InvokeSetPrivacyLevel` and `Invoke` are a handler up to its read, `ReadState`,
`WriteState` and `AppendAudit` its three store calls. A store error
(`WriteFails`) ends the command; an audit error is ignored, as `log_audit`
does. `Restart` is a crash and the launch after it, with
`ResolveEnterprisePolicy` for the policy file and the persisted policy. Of the
audit log the newest entry of each kind is kept. `history` and `unaudited` are
not in the program: the first records what was asked for, the second which
fields of the row last changed without their entry being written, because the
append failed or a crash came between the two calls. `Restart` may happen at any point and
leave the policy as it was, so quitting is included.

**`EventPipeline`**: `process` as the reason a signal is dropped and the
summary otherwise. Text is abstracted to the redaction engine's three
outcomes. A screenshot is dropped by every build, which has no text extractor.

**`ObservationLoop`**: `loop` is the task: at the top of a pass (`check`), about
to poll source `next` (`poll`), or with a batch of signals to process
(`drain`), under the row `snap`; `stopped` after a failed read, since the code
breaks out of its loop. `pending[i]` is what source `i` would return: file
watchers queue, the clipboard and the window compare with what they saw last.
The commands are the actions of `PrivacyRow` (INSTANCE), so the loop is
checked against commands that keep their promise, and what is found is the
loop's own. Signals carry whether a delete-all has run since (`erased`), which
is not in the program.

**`KeyVault`**: `fileKey`, `vaultKey` and the process's progress through
`main`; delete-all as its three calls. `copies`, `doomed` and `severed` are not
in the program: they record the keys of copies of the file, which of them a
successful delete-all came after, and whether the vault and the file have been
separated through one of the windows of section 4 and no vault write has
joined them again. A launch that opens the file migrates it in two inserts
(`RecordVersion`, `InsertPrivacyState`); `schema` is how far the file got, and
`cut`, not in the program, that a migration ended between them.

**`RecommendationSweep`**: `sweep` is the task: `pc` is its next call to the
store, the gate or the provider, the other fields what it holds from earlier
calls (the level, the detected patterns not yet handled, the patterns that were
there, the new pattern and its id, the provider, the attempts left). The tables
are sets of rows; `Remove` is a delete with its cascade, and `InsertPattern`,
`LinkEvents` and `InsertRecommendation` succeed as far as the foreign keys let
them. Ids are never given again (AUTOINCREMENT), which is why what the task
remembers of deleted rows is harmless, and what the mutant `CaptureReusingIds`
is about. `gate` is the copy of consent in memory, `consentSetting` the stored
one; `call[c]` is the second half of `set_cloud_consent` or `set_ai_provider`
of client `c`. The rest of the program is in it as single steps: a level is
set, an event is stored, time passes. `leaked` counts dispatches to the cloud
since the gate was closed and is not in the program.

What it abstracts: an event is one occurrence of a workflow, so that the
detector is a threshold (its windows are in `PatternDetection`); the limit of 2000
events is not reached, so that nothing is said of the counts of older ones;
signatures carry no verbatim string, since nothing captures
browser domains, so consent per content class never matters; audit entries and
the status of patterns and recommendations are left out, and `update_settings`,
which nothing calls. The allowlist and the secret of `set_ai_provider` are in
`Setup`.

**`Setup`** is what the person sees until a provider is there to ask: `phase`
is what `App` shows, `wizard` the state of the form, `checks` the connection
checks not yet answered, `start` the calls of `startObserving` still to be made,
with the form as it was when the button was pressed (the handler's closure).
`Rendered` is a change of the form with the effects that run after it: an empty
model is filled in, and a check is forgotten if what it was about has changed.
Each call, and each part of `set_ai_provider`, is a step that can fail
(`CallFails`) or be the last (`Crash`); the form stays usable meanwhile. `rows`
and `vault` are `llm_providers` and the vault entries of the providers. Of a key
only the provider it was typed for is kept. The actions on the privacy row are
those of `PrivacyRow` (INSTANCE). Left out are the endpoint, which the UI never
sets, and `acknowledge_privacy_manifest`, whose field nothing here reads.

**The algorithms** are operators without state, recursion among them written as
functions over positions. Each abstracts its data to what the code tells apart:

* `PatternDetection`: events with the fields `action_key` and `subject` look
  at; windows, their greedy non-overlapping choice, evidence, the verbatim flag,
  and the workflow graph.
* `EventHistory`: a time is a second and the digits of its fraction, compared as
  the formatted text is; the newest-first query with its limit, the list given
  to the detector, and expiry.
* `RedactionSpans`: a text is a sequence of atoms, digits one by one and runs of
  characters the expressions treat alike (a word, a token in a known format, the
  words and dashes around a private key, a keyword such as `password=`, ...); the
  detectors of known formats in their order, each with the scan that goes on
  behind every match, the Luhn windows over the digits of a candidate whichever
  numbers they belong to, the candidates for unknown secrets, sorting and
  replacement. The entropy of a candidate depends on its characters, all of them
  together: which candidates are judged secrets is part of the input, and only
  what must hold of it is assumed (`CanBeSuspicious`): a secret alone is one,
  other atoms alone are not, and a candidate without a letter is none. What a
  secret has when it is joined to other text is left open. A token is an AWS key
  or a GitHub token; Slack tokens and JWTs, which hold dashes and dots, have no
  atom of their own.
* `Synthesis`: `extract_json_object` over the characters that matter, the counts
  a text mentions, what `try_build` accepts, the attempts.
* `PluginHost`: manifest, grant, linking, start function and calls, with fuel and
  pages. The runtime (wasmtime) is external: each instruction costs one unit.
* `ProviderClients`: what the three clients make of an answer, and the detection
  of local runtimes, probe by probe.
* `ClipboardPoll`: a poll as its two requests to the owner of the selection,
  whose answers come in time, late or never, with notifications that do not say
  which request they are for.

* `Ordering`: sorting, for the queries and the spans: the k-th element is the one
  that k - 1 others come before.

`Algorithms` puts them together: a behaviour takes one input and applies the
algorithm it is for, one action each, and the properties compare what comes out
with a definition that says directly what should. The inputs are parameters, sets
of any size of inputs of any length, each with an assumption on its shape, which
is what the callers guarantee: events with distinct ids in the order of their time
and a domain exactly if one was visited (`IsHistory`), rows with distinct ids,
atoms that can stand next to each other (`WellFormed`) with candidates that can be
judged secrets (`CanBeSuspicious`), a card number with a valid
check digit and one stray digit, an answer around an object (`IsReply`), a plugin
that calls only what it imports (`IsPlugin`), and so on.

`MCAlgorithms` gives these sets their bounded values. `MCPrivacyControl`, `MCObservationLoop` and `MCRecommendationSweep`
add symmetry and source lists for TLC; `KeyVault` and `Setup` need nothing.

## 4. What is checked

Passing runs:

| Run | Properties | Shows |
|---|---|---|
| `PrivacyFaulty` | `AuditTellsTheState`, `LevelChangesHonorFloor`, `OnlyStartCommandsActivate`, `CommandsAreAtomic` | one command at a time, under store and audit errors, crashes and changing policy files: the handlers refine `PrivacyRow`, every level written honours the floor, no pause ends by accident, and the newest audit entries determine every field of the row (FR-8) but those whose entry was lost |
| `PrivacyConcurrent` | `NothingForged`, `FloorHolds` | two overlapping commands lose updates, but invent none and, within a launch, never observe below the floor |
| `CaptureSafety` | `StoredEventsAllowed`, `CapturedUnderConsent` | clipboard source and file watcher, secret and uncertain content; commands, deletes, poll, insert and read errors and restarts at every point of a pass |
| `CaptureLiveness` | `SnapshotCatchesUp`, `FileOperationsCaptured` | window source and file watcher, under poll, insert and read errors and restarts: a change of the row that lasts reaches the loop, or the loop has stopped for good; file operations are captured while observation stays permitted, unless the loop stops or the program is restarted again and again |
| `KeyFaulty` | `VaultOpensFile`, `NeverRefused`, `OldCopiesUnreadable`, `RunningHasRow` | vault errors, store errors and crashes anywhere: nothing but the windows below separates the vault from the file, deleted profiles stay unreadable, and only a migration cut off between its rows leaves a running program without its privacy row |
| `SweepSafety` | `RowsBelongTogether`, `SuggestedOnce`, `RevocationTakesEffect` | captures, deletes, commands, store errors and restarts between any two calls of the sweep: links and recommendations are about the workflow of their pattern, a workflow is suggested once, and after consent is withdrawn at most the attempts for one pattern still leave |
| `SweepLiveness` | `ExpiredEventsGo`, `PatternsSettle` | what is past its retention is deleted however long patterns wait for a provider; patterns come to agree with events that no longer change |
| `Setup` | `TypeOK`, `SetupIsWhatWasChosen`, `ProvidersResolve`, `CompletedWithProvider`, `EditsForgetChecks`, `StartIsAnswered` | every call of a start failing or cut off anywhere, retries with a changed form, edits and late answers meanwhile, delete-alls and relaunches: the active provider is the chosen one as it was tested, at most one is active, it is allowed and its key is there; a start is always answered |
| `Algorithms` | the fifteen invariants of `Algorithms` | every algorithm against a definition that says directly what should come out, on every bounded input |

The type invariants of the first four state machines are not checked again by
these runs: they are proved (section 5).

Runs whose counterexample shows that the program does not do what one of its
documents or comments says (the quotations are in `PROJECT.json`):

| Run | Shows |
|---|---|
| `CaptureAfterDeleteAll` | what a pass or a watcher holds is stored after delete-all |
| `DeepContentSent` | patterns of events captured in Deep mode go to the cloud once the level is lowered, for the gate is asked about the level of the row |
| `ConsentOutlivesDelete` | delete-all removes the stored consent and leaves the gate open until the next launch: patterns go to the cloud while the settings show no consent |

What the passing properties leave open, and the models show:

*Privacy commands*

* A level change that read the row before a pause undoes the pause:
  `OnlyStartCommandsActivate` and `CommandsAreAtomic` hold of one command at a
  time, and TLC refutes them for two. docs/ux/03-privacy-dashboard.md:117 says of
  observation "You can stop it instantly".
* Completing onboarding does not start observation on a new profile: no command
  of the wizard records the manifest version the loop asks for, although the
  comment at commands.rs:337-340 speaks of observation as started.
* A crash or an error between a command's write and its audit entry leaves a
  field the log does not tell (`unaudited`), until a later command on that
  field writes one.
* A policy that arrives between launches does not raise the stored level: the
  loop observes below the new floor until a level is set. `FloorHolds` is
  therefore checked within a launch.
* A request for Manual that a floor raises observes without acknowledged
  permissions, since the test comes before the floor. `NothingForged` allows an
  imposed level.

*Capture*

* A pass under way when the person pauses goes on storing until it ends. That
  is why `CapturedUnderConsent` speaks of a level that was consented to at some
  time, and `SnapshotCatchesUp` of the end of the pass.
* Every source is polled at every observing level, whatever level it declares;
  what a level does not allow is dropped by the pipeline
  (`StoredEventsAllowed`).
* File operations made during a pause wait in the watcher's channel and are
  stored after it, at the level of that time.
* Once one selection request was answered late, every later poll of the
  clipboard reads the notification of the request before, until a request is
  never answered: `ClipboardReportsAreTrue` is about the polls before.

*Keys and launch*

* The windows that set `severed`: a crash or a vault error between rekeying and
  the vault write, a rekeying that has changed the file when its check fails,
  and a launch that cannot write a new key to the vault, or generates one because
  it could not read the vault while a file exists. A launch that finds them apart
  is refused; a delete-all that succeeds before joins them again.
* A migration cut off between its two inserts leaves the profile without a
  privacy row for good: a later launch sees a version and inserts nothing, and
  delete-all updates a row that is not there.
* Two delete-alls in flight can rekey in one order and persist in the other.
  `KeyFaulty` has one client; with two, TLC finds this with no fault at all.

*Recommendations*

* All attempts for a pattern use one copy of the gate: `RevocationTakesEffect`
  allows them, and no more.
* A pattern whose first synthesis failed is never given another (a choice, by
  the comment at recommendation_loop.rs:108-110), and the count of a workflow
  that falls below the threshold stays as it was. `PatternsSettle` says nothing
  of these.
* A numeral too large for 32 bits is no mention of a count.

*Setup*

* A connection check answered after the form has changed is shown for the
  changed form, whose result the effect had just cleared (comment at
  OnboardingWizard.tsx:81-82); it opens the way to the last screen, even with an
  empty model. `EditsForgetChecks` is about edits, `SetupIsWhatWasChosen` about
  what is installed, whether it was tested or not.
* The key field is kept when the provider changes: a key typed for one provider
  can be tested with, and stored for, another ("Sent only to this provider",
  OnboardingWizard.tsx:304).
* A failed retry leaves the key of the new choice with the model of the old one,
  and a crash between the upsert and the activation of a retry, after an earlier
  start had set the level, leaves a completed onboarding without an active
  provider: the main screen has no way to choose one. `CompletedWithProvider` is
  about the step that completes.
* "Completed" is not "observation has ever been started" (comment at
  commands.rs:53): a pause at level Manual brings the wizard back, and a level
  set by a start that failed later skips it.
* Delete-all leaves the keys of the providers in the OS vault.

*Algorithms*

* Matches of known formats do overlap, against the comment at engine.rs:59-62
  ("shouldn't occur"), and the one that begins later is skipped: what of it lies
  beyond the earlier one is stored. `4532015112830366 120-45-6789`, a card number
  and a government id, is one candidate whose nineteen digits happen to be a valid
  card number; the longest valid window wins and `-45-6789` is left. In
  `secret=4532 0151 1283 0366` the value ends at the first space, the card number
  begins inside it, and its last twelve digits are left. Behind `secret=` and a
  character, a private key begins inside the value, and its body is left.
  `MatchesSurviveOnlyBehindOverlaps` says exactly how much can be: never the
  beginning of a match, and a rest only behind another match that begins no later,
  reaches into it and ends before the rest. It does not say that nothing is left.
* An unknown secret that is joined to a match of a known format (`a@b.com/SECRET`)
  is taken for claimed by it (detectors.rs:222-227) and survives the replacement.
  One that is joined to text of few different letters, by a slash or an equals
  sign, lies in a candidate whose entropy as a whole can be below the threshold
  (detectors.rs:242): nineteen letters `a`, a slash and a secret of twenty
  characters are stored as clean. `UncertainSurvivesOnlyJoined` says that a secret
  is left standing only in these two ways. engine.rs:6-8 and detectors.rs:40-43
  promise a drop.
* With one stray digit beside a card number its last digit may be left.
* A count in words the patterns do not know is accepted although it contradicts the
  detector's: `on seven occasions`, which the comment at validate.rs:28-30 gives as
  an example of what they are for, states no count to them, which know times,
  occurrences and instances. `OnlyHonestCountsAccepted` is about the words they
  know.
* Events of one second are listed in the order of their text, which is not that
  of time when one fraction is zero; "newest first" (store.rs:215) and expiry
  hold to the second (`ListedInOrderOfSeconds`, `ExpiryWithinASecond`).
* The probes of `detect` are awaited one after the other, although the comment at
  detection.rs:99-101 calls them concurrent: their timeouts add up.

**Bounds.** Two clients are enough for a lost update, which takes one command
that reads before and writes after another one's write. `PrivacyFaulty` has
levels 0 and 3 and floors 0 and 2, so that a floor raises one level and
leaves the other; `PrivacyConcurrent` one floor. The loop has two sources, so
that a pass has a first, a next and a last one and a stale snapshot can be used
after a poll; `MaxPending` keeps one or two operations waiting per watcher
while others are in the batch. Window reports have up to two signals, so
batches longer than one occur without a watcher. Insertions stop at
`MaxEvents`, as a bound; deletes make room. `MaxKeys` 5 is a launch and four
more launches or delete-alls; the shortest counterexamples need two.
`DeleteEvents` requires a nonempty set, and the enabled actions never run out:
deadlock is checked in every run but two, `Setup`, where the bounded edits and
checks may be used up, and `Algorithms`, whose behaviours end with the result.
`Setup` has a local and a cloud provider, one check in flight and three steps in
the form while a start runs: enough to go back two screens and change the choice.
`Algorithms` has histories of up to seven events, where three overlapping
occurrences of a pair and two of a triple fit, with the rarer kinds in the
shorter ones; texts of up to five atoms from two alphabets, where two matches of
values, addresses, tokens and secrets overlap in every way two spans can, and of
up to four pieces from three more, among them both ends of a private key, a card
number whole and in groups, government ids in all three spellings and numbers that
make longer valid ones beside them; the candidates that join several atoms all
judged secrets, or only those behind the second atom; card numbers of 13, 16 and
18 digits; answers
around objects nested twice; phrases of up to four words, where a compound and a
single mention stand side by side; plugins of up to three instructions and three
calls on five units of fuel; three runtimes; three polls.

**Fairness.** `ObservationLoop!FairSpec` assumes weak fairness of the loop's
steps together: it is one task on a runtime that reschedules it after each sleep,
and every poll returns. Nothing is assumed of the commands, the person or the
success of a poll or an insert. The sweep's `FairSpec` is the same for its task:
a request ends at its timeout of two minutes (provider.rs:12), and nothing is
assumed of the answer. `SweepLiveness` has no store errors, which may defeat
every sweep. `FileOperationsCaptured` holds under poll errors because they are
per source and the loop goes on to the next. In `Setup` the calls of a start are
answered, with success or not: each ends in a store or vault call of the same
process. Of connection checks and of the person nothing is assumed.

## 5. What is proved

For every value of the constants that satisfies the named assumptions (levels
among the five, faults among those listed, sources of known kinds, inputs of the
shapes above). First the state machines:

| Theorem | Says | Argument |
|---|---|---|
| `PrivacyControlProofs!TypeCorrect` | `[]TypeOK` | inductive as it stands |
| `NothingForgedAlways` | `[]NothingForged`, any number of clients, every fault | strengthened: the copy every command in flight holds is grounded as the row is, and the command itself is on record |
| `AcknowledgedWithoutFloor` | `[]ObservingLevelWasAcknowledged` where no floor is ever above Manual | strengthened with the floors in force and stored, and every copy and level in flight |
| `FloorHoldsWithinLaunch` | `[]FloorHolds` without restarts | strengthened: every copy, and every level about to be written, honours the floor or is Manual, under which nothing is permitted |
| `SerialCommandsAreAtomic` | `Spec => Atomic!Spec` with one client, every fault | invariant: a copy about to be written back equals the row, except by delete-all, which waits for no command of the same client in flight |
| `SerialPausesLast` | `Spec => OnlyStartCommandsActivate` with one client, every fault | from the same invariant: a write-back changes the command's own field only |
| `SerialLevelChangesHonorFloor` | `Spec => LevelChangesHonorFloor` with one client, across restarts and policy changes | from the same invariant, and that a level in flight honours the floor it was computed under, which only a restart changes |
| `SerialAuditTellsTheState` | `[]AuditTellsTheState` with one client, every fault | strengthened: field by field, a command about to append finds its change in the row, and every other field is told or in `unaudited` |
| `ObservationLoopProofs!TypeCorrect` | `[]TypeOK` | strengthened: while draining the batch is not empty |
| `StoredEventsAreAllowed` | `[]StoredEventsAllowed` | type invariant and a case analysis of the pipeline |
| `CaptureNeedsConsent` | `[]CapturedUnderConsent` | strengthened: the row and, during a pass, the snapshot are on record if they permit observation |
| `KeyVaultProofs!TypeCorrect` | `[]TypeOK` | strengthened only by the assumptions |
| `EarlierCopiesStayUnreadable` | `[]OldCopiesUnreadable`, one client, every fault | strengthened: keys are numbered by age, a key about to be persisted is newer than every copy made before, and no key in use is doomed |
| `VaultAndFileStayInSync`, `LaunchIsNeverRefused` | `[]VaultOpensFile` and `[]NeverRefused`, one client, every fault | strengthened: unless severed, where a launch or delete-all is determines which of the process, the vault and the file hold which key |
| `RunningAlwaysHasRow` | `[]RunningHasRow`, any number of clients, every fault | strengthened: how far a launch is determines how far the file's schema is, and only the end of a migration between its inserts leaves it at the version |
| `RecommendationSweepProofs!TypeCorrect` | `[]TypeOK` | strengthened: the tables are finite, and between the insertion of a pattern and its recommendation a detection is at hand |
| `RevocationIsEffective` | `[]RevocationTakesEffect`, every fault | strengthened: what has leaked and what the synthesis at hand may still send are together at most `MaxAttempts`, and nothing counts while the gate is open |
| `RowsAlwaysBelongTogether` | `[]RowsBelongTogether`, every fault | strengthened: ids only grow, so no row has taken the id of one the sweep has read for another workflow |
| `SuggestsOnce` | `[]SuggestedOnce`, every fault | strengthened: a workflow is detected once, and its pattern, if there is one, was there when the sweep read them, for only the sweep inserts |
| `SetupProofs!SetupTypeOK` | `[]TypeOK` | a conjunct of the inductive invariant below |
| `ProvidersAlwaysResolve` | `[]ProvidersResolve`, any providers, policy and bounds | strengthened: a start past the allowlist is of an allowed provider, past the vault its key is there, past the upsert its row is as chosen, past the activation it alone is active; a key in the vault is never removed |
| `SetupInstallsTheChoice` | `[]SetupIsWhatWasChosen` | from the same invariant: while a start runs nothing else writes rows or vault, and its choice does not change with the form |
| `CompletionHasProvider` | `Spec => CompletedWithProvider` | from the same invariant: the calls that complete come after the activation |
| `ChangesForgetChecks` | `Spec => EditsForgetChecks` | step by step: only `Rendered` changes what the form shows |

The inductive invariant of `SetupProofs` is `TypeOK`, `StartInv` (what the calls
already made have left behind, call by call) and `RowsInv` (what holds of the
rows at any time); `TypeOK` and the property alone are not inductive, because a
row that names a key is written two calls after the key.

Then the algorithms, for inputs of every length:

| Theorem | Says | Argument |
|---|---|---|
| `AlgorithmsProofs!PatternsSound` | `[]PatternsCountRepetitions` | the k-th occurrence chosen ends no later than the k-th of any other choice, so that any other choice maps one to one into the one made; each window length finds the signatures of its own length |
| `EvidenceSound` | `[]EvidenceBacksPatterns` | evidence is rounds of w places; rounds do not overlap and ids are distinct, so no event is in it twice; a key with a domain is found in `verbatim` and in the events alike |
| `GraphSound` | `[]GraphCarriesPatterns` | the positions of a history are the disjoint union of those of each edge, so the weights add up; the steps of the occurrences chosen are different positions of one edge |
| `ListedSound`, `ExpirySound` | `[]ListedInOrderOfSeconds`, `[]ExpiryWithinASecond` | the order of formatted times is strict and total and refines that of seconds; an order sorts (`OrderedSorts`); reversing twice |
| `StrayDigitSound` | `[]StrayDigitDoesNotHideCard` | the number itself is a valid window, so the longest valid one is it, its neighbour of the same length, or all the digits: each leaves out at most one digit of it |
| `ExtractsSound` | `[]ExtractsTheObject` | invariant of the scan, character by character: in a string exactly behind an odd number of unescaped quotes, escaped exactly behind an odd number of backslashes, and as deep as the braces outside strings say |
| `HonestSound` | `[]OnlyHonestCountsAccepted` | a text is turned down exactly if it states another count (`ContradictionIsStated`); the attempts made are the responses up to the first that ends the synthesis |
| `PluginGrantSound`, `BudgetSound` | `[]PluginStaysInItsGrant`, `[]BudgetIsForLife` | invariants of an instance, instruction by instruction: what is logged is linked, so it was granted; fuel spent is at least what was logged and, until it traps or runs dry, exactly what was executed |
| `CompletionsSound` | `[]CompletionsAreAnswers` | case by client; the first text of Anthropic's blocks exists if any does |
| `ProbesSound` | `[]ProbesAreIndependent` | a probe begun later ends as much later and finds the same; each takes at most a timeout |
| `ClipboardSound` | `[]ClipboardReportsAreTrue` | invariant, poll by poll: the owner seen last, and no notification left over unless an answer came late |
| `RedactionProofs!KnownFormatsSound` | `[]MatchesSurviveOnlyBehindOverlaps` | each detector finds spans within the text, no two from one place (`KnownFormatsAreMatches`; of the cards because candidates do not overlap and have one window each); spans are sorted by start; invariant of the cursor: a span that is skipped begins inside one that was replaced, so no beginning survives, and what of the rest does lies behind the end of that one |
| `UncertainSound` | `[]UncertainSurvivesOnlyJoined` | runs of candidate atoms are apart, so a secret is in exactly one candidate; if it is alone there it is judged a secret, and either drops the event or is overlapped by a known span; if not, either the same holds or the candidate is not judged one |

All of them rest on one invariant of the specification (`OutcomeIsComputed`): the
input is of its set, and the outcome is what its algorithm makes of it. The rest
is induction along the data. The provers cannot instantiate an induction theorem
that takes a formula as its parameter; `InductionLemmas` therefore states induction
for the set of numbers a hypothesis holds for (`IntervalInduction`), and that a
recursion defines a function for a step that is a function itself
(`RecursionDefines`). A proof about an algorithm first shows what its recursive
function is at 0 and how it goes from one position to the next (`ScanSteps`,
`SelectSteps`, `MatchedSteps`, ...), and then works with these two facts only.

Together the theorems state every safety invariant and action property the
passing runs check. Only model-checked are the five liveness properties
(`SnapshotCatchesUp`, `FileOperationsCaptured`, `ExpiredEventsGo`, `PatternsSettle`,
`StartIsAnswered`): they hang on fairness, and so on ENABLED, which is out of the
prover's reach. The violations are TLC's counterexamples.

## 6. What is not modelled

* The HTTP requests of the providers and embeddings, which nothing asks for; OS
  calls inside the sources; the Windows and macOS sources, which have the same
  poll contract; the shortcut sources, which no build starts.
* The regular expressions of the detectors character by character:
  `RedactionSpans` has the digits and the classes of text they tell apart, but no
  Slack tokens and JWTs. The value of `shannon_entropy`: which candidates exceed
  the threshold is an input.
* Parsing (policy files, JSON): a choice of its result.
* Consent per content class in the dispatch gate: no source reports a verbatim
  string that reaches a signature. For the same reason `EventPipeline` leaves out
  `AppActionEvent`, which nothing can capture.
* `set_recommendation_status`, which changes a column nothing else reads;
  `update_settings`, `find_similar_patterns` and the other commands and queries
  nothing calls.
* The rows the dashboard, the settings and the recommendation cards show: copies
  that an overlapping refresh may leave out of date. Ids are never used again, so
  an action on a stale card reaches the row meant or none.
* A second instance of the program on the same profile.
* Prompt wording, rendering, export and diagnostics (formatting of what is
  stored), packaging, and Portable Mode's passphrase, which the program does not
  use yet.
