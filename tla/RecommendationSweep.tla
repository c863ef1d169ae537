------------------------ MODULE RecommendationSweep ------------------------
(***************************************************************************)
(* The periodic sweep (recommendation_loop.rs): expire, detect, insert or  *)
(* update patterns, and have a language model write a recommendation for   *)
(* each new one, behind the dispatch gate.  It runs against the commands   *)
(* that change what it uses: cloud consent, the provider, the privacy      *)
(* level, deletes; and against the capture of new events.  Every store     *)
(* call is a step of its own, for the store's lock covers just one.        *)
(*                                                                         *)
(* One event stands for one occurrence of a workflow, that is for the few  *)
(* events a detector window covers.  No source reports a verbatim string   *)
(* that reaches a signature, so consent per content class never matters.   *)
(***************************************************************************)
EXTENDS PrivacyDomain, FiniteSets

CONSTANTS
    Workflows,       \* signatures the detector can find
    LocalProviders,  \* providers on this machine
    CloudProviders,  \* and elsewhere
    None,            \* no provider, no pattern
    Clients,         \* UI components, each with at most one command in flight
    RowLevels,       \* bound: observing levels the person selects
    MinOccurrences,  \* PatternDetector::min_occurrences
    MaxAttempts,     \* Synthesizer::max_attempts
    MaxEvents,       \* bound: events ever captured
    MaxPatterns,     \* bound: patterns ever inserted
    Faults           \* which of "store", "restart" may happen

Providers == LocalProviders \cup CloudProviders

ASSUME SweepAssumption ==
    /\ RowLevels \subseteq Levels \ {Manual}
    /\ LocalProviders \cap CloudProviders = {}
    /\ None \notin Providers
    /\ MinOccurrences \in Nat \ {0}
    /\ MaxAttempts \in Nat \ {0}
    /\ MaxEvents \in Nat
    /\ MaxPatterns \in Nat
    /\ Faults \subseteq {"store", "restart"}

VARIABLES
    level,            \* privacy_state.current_level
    events,           \* the event_summaries table
    patterns,         \* the patterns table
    links,            \* the pattern_events table
    recommendations,  \* the recommendations table
    lastEvent,        \* sqlite_sequence: the last id given to an event
    lastPattern,      \* ... and to a pattern
    aged,             \* events up to this id are past the Deep mode retention
    providers,        \* the llm_providers table
    consentSetting,   \* the persisted cloud consent, what get_cloud_consent shows
    gate,             \* AppState::gate: general_cloud_consent
    call,             \* per client, the second half of a command
    sweep,            \* the task
    leaked            \* dispatches to the cloud since the gate was closed (ghost)

tables == <<events, patterns, links, recommendations, lastEvent, lastPattern>>
configuration == <<providers, consentSetting, gate, call>>
vars == <<level, tables, aged, configuration, sweep, leaked>>

EventIds == 1..MaxEvents
PatternIds == 1..MaxPatterns

Events == [id : EventIds, workflow : Workflows, level : Levels]
Patterns == [id : PatternIds, workflow : Workflows, count : Nat]

\* DetectedPattern
Detections == [workflow : Workflows, events : SUBSET Events]

\* pc is the next call of the task.  "expire" is the top of a sweep, where the
\* task also is while it sleeps.
Sweeps ==
    [pc : {"expire", "level", "events", "patterns", "next", "link",
           "provider", "gate", "send", "answer"},
     level : Levels,                   \* privacy_state, read once
     todo : SUBSET Detections,         \* detected and not yet handled
     known : SUBSET Patterns,          \* existing, read once
     current : Detections \cup {None}, \* the new pattern at hand
     pattern : 0..MaxPatterns,         \* and its id
     provider : Providers \cup {None},
     left : 0..MaxAttempts]            \* attempts left

Sleeping ==
    [pc |-> "expire", level |-> Manual, todo |-> {}, known |-> {},
     current |-> None, pattern |-> 0, provider |-> None, left |-> 0]

\* The rest of set_cloud_consent is to write the gate, that of set_ai_provider
\* to activate what it upserted.
Calls == [pc : {"idle"}]
            \cup [pc : {"gate"}, granted : BOOLEAN]
            \cup [pc : {"activate"}, provider : Providers]
NoCall == [pc |-> "idle"]

\* Every variable has its type.
TypeOK ==
    /\ level \in Levels
    /\ events \subseteq Events
    /\ patterns \subseteq Patterns
    /\ links \subseteq (PatternIds \X EventIds)
    /\ recommendations \subseteq [pattern : PatternIds, workflow : Workflows]
    /\ lastEvent \in 0..MaxEvents
    /\ lastPattern \in 0..MaxPatterns
    /\ aged \in 0..MaxEvents
    /\ providers \in [Providers -> {"absent", "idle", "active"}]
    /\ consentSetting \in BOOLEAN
    /\ gate \in BOOLEAN
    /\ call \in [Clients -> Calls]
    /\ sweep \in Sweeps
    /\ leaked \in Nat

Init ==
    /\ level = Manual
    /\ events = {} /\ patterns = {} /\ links = {} /\ recommendations = {}
    /\ lastEvent = 0 /\ lastPattern = 0
    /\ aged = 0
    /\ providers = [p \in Providers |-> "absent"]
    /\ consentSetting = FALSE
    /\ gate = FALSE
    /\ call = [c \in Clients |-> NoCall]
    /\ sweep = Sleeping
    /\ leaked = 0

Quiescent == \A c \in Clients : call[c].pc = "idle"

-----------------------------------------------------------------------------
(***************************************************************************)
(* What the rest of the program does meanwhile: it sets the level and      *)
(* stores events, as PrivacyControl and ObservationLoop have in detail.    *)
(***************************************************************************)

SetLevel(l) ==
    /\ level' = l
    /\ UNCHANGED <<tables, aged, configuration, sweep, leaked>>

\* Mutant: ids are given again after a delete, as without AUTOINCREMENT.
CaptureReusingIds(w) ==
    /\ level # Manual
    /\ \E id \in EventIds :
          /\ \A e \in events : e.id # id
          /\ events' = events \cup {[id |-> id, workflow |-> w, level |-> level]}
          /\ lastEvent' = id
    /\ UNCHANGED <<level, patterns, links, recommendations, lastPattern, aged>>
    /\ UNCHANGED <<configuration, sweep, leaked>>

\* insert_event_summary
Capture(w) ==
    /\ level # Manual
    /\ lastEvent < MaxEvents
    /\ lastEvent' = lastEvent + 1
    /\ events' = events \cup {[id |-> lastEvent', workflow |-> w, level |-> level]}
    /\ UNCHANGED <<level, patterns, links, recommendations, lastPattern, aged>>
    /\ UNCHANGED <<configuration, sweep, leaked>>

\* Time passes: the ttl_expires_at of an event, and of those before it.
Age ==
    /\ \E e \in events :
          /\ e.level = MaximumAssistance
          /\ e.id > aged
          /\ aged' = e.id
    /\ UNCHANGED <<level, tables, configuration, sweep, leaked>>

\* DELETE FROM event_summaries; pattern_events cascades.
Remove(gone) ==
    /\ events' = events \ gone
    /\ links' = {l \in links : \E e \in events \ gone : e.id = l[2]}
    /\ UNCHANGED <<patterns, recommendations, lastEvent, lastPattern>>

DeleteEvents(gone) ==
    /\ gone # {}
    /\ Remove(gone)
    /\ UNCHANGED <<level, aged, configuration, sweep, leaked>>

\* The transaction of delete_all_data.  AUTOINCREMENT ids go on where they were,
\* and the gate is not part of the store.
DeleteAllData(c) ==
    /\ call[c].pc = "idle"
    /\ lastPattern + Cardinality(Workflows) <= MaxPatterns
    /\ level' = Manual
    /\ events' = {} /\ patterns' = {} /\ links' = {} /\ recommendations' = {}
    /\ providers' = [p \in Providers |-> "absent"]
    /\ consentSetting' = FALSE
    /\ UNCHANGED <<lastEvent, lastPattern, aged, gate, call, sweep, leaked>>

\* A crash or a quit, and the next launch: the gate is rebuilt from the setting,
\* and stays closed if that cannot be read.
Restart ==
    /\ "restart" \in Faults
    /\ \/ gate' = consentSetting
       \/ "store" \in Faults /\ gate' = FALSE
    /\ call' = [c \in Clients |-> NoCall]
    /\ sweep' = Sleeping
    /\ leaked' = 0
    /\ UNCHANGED <<level, tables, aged, providers, consentSetting>>

-----------------------------------------------------------------------------
(***************************************************************************)
(* set_cloud_consent and set_ai_provider: two steps each.  The first may   *)
(* fail and change nothing.                                                *)
(***************************************************************************)

SetCloudConsent(c, granted) ==
    /\ call[c].pc = "idle"
    /\ consentSetting' = granted
    /\ call' = [call EXCEPT ![c] = [pc |-> "gate", granted |-> granted]]
    /\ UNCHANGED <<level, tables, aged, providers, gate, sweep, leaked>>

ApplyConsent(c) ==
    /\ call[c].pc = "gate"
    /\ gate' = call[c].granted
    /\ leaked' = IF call[c].granted THEN 0 ELSE leaked
    /\ call' = [call EXCEPT ![c] = NoCall]
    /\ UNCHANGED <<level, tables, aged, providers, consentSetting, sweep>>

\* upsert_llm_provider with active: false
SetAiProvider(c, p) ==
    /\ call[c].pc = "idle"
    /\ providers' = [providers EXCEPT ![p] = "idle"]
    /\ call' = [call EXCEPT ![c] = [pc |-> "activate", provider |-> p]]
    /\ UNCHANGED <<level, tables, aged, consentSetting, gate, sweep, leaked>>

Activated(p) ==
    [q \in Providers |-> CASE providers[q] = "absent" -> "absent"
                           [] q = p -> "active"
                           [] OTHER -> "idle"]

\* set_active_llm_provider; an error if a delete-all has removed the row.
ActivateProvider(c) ==
    /\ call[c].pc = "activate"
    /\ LET p == call[c].provider IN
       \/ providers[p] # "absent" /\ providers' = Activated(p)
       \/ /\ providers[p] = "absent" \/ "store" \in Faults
          /\ UNCHANGED providers
    /\ call' = [call EXCEPT ![c] = NoCall]
    /\ UNCHANGED <<level, tables, aged, consentSetting, gate, sweep, leaked>>

-----------------------------------------------------------------------------
(***************************************************************************)
(* sweep_once.                                                             *)
(***************************************************************************)

SweepKeeps == <<level, aged, configuration>>

\* delete_expired_events; its error is logged and the sweep goes on.
ExpireEvents ==
    /\ sweep.pc = "expire"
    /\ \/ Remove({e \in events : e.level = MaximumAssistance /\ e.id <= aged})
       \/ "store" \in Faults /\ UNCHANGED tables
    /\ sweep' = [sweep EXCEPT !.pc = "level"]
    /\ UNCHANGED <<SweepKeeps, leaked>>

\* get_privacy_state
ReadLevel ==
    /\ sweep.pc = "level"
    /\ sweep' = [sweep EXCEPT !.pc = "events", !.level = level]
    /\ UNCHANGED <<SweepKeeps, tables, leaked>>

Of(w, rows) == {e \in rows : e.workflow = w}
Detectable(w) == Cardinality(Of(w, events)) >= MinOccurrences

\* list_recent_events and PatternDetector::detect
DetectPatterns ==
    /\ sweep.pc = "events"
    /\ LET found == {[workflow |-> w, events |-> Of(w, events)] :
                        w \in {v \in Workflows : Detectable(v)}}
       IN  sweep' = IF found = {} THEN Sleeping
                    ELSE [sweep EXCEPT !.pc = "patterns", !.todo = found]
    /\ UNCHANGED <<SweepKeeps, tables, leaked>>

\* list_patterns(None)
ReadPatterns ==
    /\ sweep.pc = "patterns"
    /\ sweep' = [sweep EXCEPT !.pc = "next", !.known = patterns]
    /\ UNCHANGED <<SweepKeeps, tables, leaked>>

\* The loop over the detected patterns goes on to the next one, or ends.
After(rest) ==
    IF rest = {} THEN Sleeping
    ELSE [Sleeping EXCEPT !.pc = "next", !.level = sweep.level,
                          !.todo = rest, !.known = sweep.known]

\* Mutant: every detection counts as new.
NothingKnown(d) == {}

KnownAs(d) == {p \in sweep.known : p.workflow = d.workflow}

\* Mutant: a count only ever grows.
RaisePattern(d) ==
    /\ sweep.pc = "next"
    /\ \E p \in KnownAs(d) :
          patterns' = {IF q.id = p.id /\ q.count < Cardinality(d.events)
                       THEN [q EXCEPT !.count = Cardinality(d.events)] ELSE q :
                          q \in patterns}
    /\ sweep' = After(sweep.todo \ {d})
    /\ UNCHANGED <<SweepKeeps, leaked>>
    /\ UNCHANGED <<events, links, recommendations, lastEvent, lastPattern>>

\* update_pattern_stats, of a row that may be gone by now; errors are ignored.
UpdatePattern(d) ==
    /\ sweep.pc = "next"
    /\ \E p \in KnownAs(d) :
       \/ patterns' = {IF q.id = p.id THEN [q EXCEPT !.count = Cardinality(d.events)] ELSE q :
                          q \in patterns}
       \/ "store" \in Faults /\ UNCHANGED patterns
    /\ sweep' = After(sweep.todo \ {d})
    /\ UNCHANGED <<SweepKeeps, leaked>>
    /\ UNCHANGED <<events, links, recommendations, lastEvent, lastPattern>>

InsertPattern(d) ==
    /\ sweep.pc = "next"
    /\ KnownAs(d) = {}
    /\ lastPattern < MaxPatterns
    /\ lastPattern' = lastPattern + 1
    /\ patterns' = patterns \cup {[id |-> lastPattern', workflow |-> d.workflow,
                                   count |-> Cardinality(d.events)]}
    /\ sweep' = [sweep EXCEPT !.pc = "link", !.todo = @ \ {d},
                              !.current = d, !.pattern = lastPattern']
    /\ UNCHANGED <<SweepKeeps, leaked>>
    /\ UNCHANGED <<events, links, recommendations, lastEvent>>

\* A read or the insertion of a pattern fails: sweep_once returns the error.
SweepFails ==
    /\ "store" \in Faults
    /\ \/ sweep.pc \in {"level", "events", "patterns"}
       \/ sweep.pc = "next" /\ \E d \in sweep.todo : KnownAs(d) = {}
    /\ sweep' = Sleeping
    /\ UNCHANGED <<SweepKeeps, tables, leaked>>

\* The oldest contributing events, as far as the first that is gone: the foreign
\* key of its link fails, and the loop over the ids ends there.
Linkable(found) ==
    {e \in found : \A f \in found : f.id <= e.id => \E r \in events : r.id = f.id}

\* link_pattern_events; errors are ignored.
LinkEvents ==
    /\ sweep.pc = "link"
    /\ \E last \in IF "store" \in Faults THEN 0..MaxEvents ELSE {MaxEvents} :
          links' = links \cup {<<p.id, e.id>> :
                       p \in {q \in patterns : q.id = sweep.pattern},
                       e \in {f \in Linkable(sweep.current.events) : f.id <= last}}
    /\ sweep' = [sweep EXCEPT !.pc = "provider"]
    /\ UNCHANGED <<SweepKeeps, leaked>>
    /\ UNCHANGED <<events, patterns, recommendations, lastEvent, lastPattern>>

-----------------------------------------------------------------------------
(***************************************************************************)
(* try_synthesize.                                                         *)
(***************************************************************************)

\* Back to the loop over the detected patterns.
Handled == After(sweep.todo)

\* get_active_llm_provider and build_provider, which fails without a model.
ReadProvider ==
    /\ sweep.pc = "provider"
    /\ \/ \E p \in Providers :
             /\ providers[p] = "active"
             /\ sweep' = [sweep EXCEPT !.pc = "gate", !.provider = p]
       \/ /\ "store" \in Faults \/ \A p \in Providers : providers[p] # "active"
          /\ sweep' = Handled
    /\ UNCHANGED <<SweepKeeps, tables, leaked>>

\* DispatchGate::evaluate, for a signature without verbatim strings
Allowed(p, l, consent) ==
    \/ p \in LocalProviders
    \/ consent /\ l # MaximumAssistance

\* The gate is copied, and decides.  complete_if_allowed evaluates the copy again
\* before every request, with the same outcome.
PassGate ==
    /\ sweep.pc = "gate"
    /\ sweep' = IF Allowed(sweep.provider, sweep.level, gate)
                THEN [sweep EXCEPT !.pc = "send", !.left = MaxAttempts]
                ELSE Handled
    /\ UNCHANGED <<SweepKeeps, tables, leaked>>

ToCloud == sweep.provider \in CloudProviders

Send ==
    /\ sweep.pc = "send"
    /\ sweep' = [sweep EXCEPT !.pc = "answer"]
    /\ leaked' = IF ToCloud /\ ~gate THEN leaked + 1 ELSE leaked
    /\ UNCHANGED <<SweepKeeps, tables>>

\* Mutants: an attempt that failed is not counted; the last one is tried again.
RetryForever ==
    /\ sweep.pc = "answer"
    /\ sweep' = [sweep EXCEPT !.pc = "send"]
    /\ UNCHANGED <<SweepKeeps, tables, leaked>>

RetryAfterLast ==
    /\ sweep.pc = "answer"
    /\ sweep' = IF sweep.left > 0 THEN [sweep EXCEPT !.pc = "send", !.left = @ - 1]
                ELSE Handled
    /\ UNCHANGED <<SweepKeeps, tables, leaked>>

\* A response that it rejects: another attempt, as long as there is one left.
RejectAnswer ==
    /\ sweep.pc = "answer"
    /\ sweep' = IF sweep.left > 1 THEN [sweep EXCEPT !.pc = "send", !.left = @ - 1]
                ELSE Handled
    /\ UNCHANGED <<SweepKeeps, tables, leaked>>

\* The provider fails, or its request times out: no other attempt.
ProviderFails ==
    /\ sweep.pc = "answer"
    /\ sweep' = Handled
    /\ UNCHANGED <<SweepKeeps, tables, leaked>>

\* A response that try_build accepts, and insert_recommendation: without its
\* pattern the foreign key fails.
InsertRecommendation ==
    /\ sweep.pc = "answer"
    /\ \/ recommendations' = recommendations \cup
             {[pattern |-> p.id, workflow |-> sweep.current.workflow] :
                 p \in {q \in patterns : q.id = sweep.pattern}}
       \/ "store" \in Faults /\ UNCHANGED recommendations
    /\ sweep' = Handled
    /\ UNCHANGED <<SweepKeeps, leaked>>
    /\ UNCHANGED <<events, patterns, links, lastEvent, lastPattern>>

-----------------------------------------------------------------------------
SweepStep ==
    \/ ExpireEvents
    \/ ReadLevel
    \/ DetectPatterns
    \/ ReadPatterns
    \/ \E d \in sweep.todo : UpdatePattern(d) \/ InsertPattern(d)
    \/ SweepFails
    \/ LinkEvents
    \/ ReadProvider
    \/ PassGate
    \/ Send
    \/ InsertRecommendation
    \/ RejectAnswer
    \/ ProviderFails

Next ==
    \/ SweepStep
    \/ \E l \in RowLevels : SetLevel(l)
    \/ \E w \in Workflows : Capture(w)
    \/ Age
    \/ \E gone \in SUBSET events : DeleteEvents(gone)
    \/ Restart
    \/ \E c \in Clients :
          \/ \E granted \in BOOLEAN : SetCloudConsent(c, granted)
          \/ DeleteAllData(c)
          \/ ApplyConsent(c)
          \/ \E p \in Providers : SetAiProvider(c, p)
          \/ ActivateProvider(c)

Spec == Init /\ [][Next]_vars

\* The task is rescheduled after each sleep, and every request ends, at the
\* latest at its timeout.
FairSpec == Spec /\ WF_vars(SweepStep)

-----------------------------------------------------------------------------
(***************************************************************************)
(* Properties.                                                             *)
(***************************************************************************)

\* Rows that refer to each other belong together: a link joins a pattern with an
\* event of its own workflow, and a recommendation is about the workflow of its
\* pattern, however deletes and captures interleave with the sweep's calls.
RowsBelongTogether ==
    /\ \A l \in links : \E p \in patterns, e \in events :
          l = <<p.id, e.id>> /\ p.workflow = e.workflow
    /\ \A r \in recommendations : \E p \in patterns :
          r.pattern = p.id /\ r.workflow = p.workflow

\* A workflow has one pattern, across sweeps, crashes and delete-alls, and a
\* pattern gets at most one recommendation.
SuggestedOnce ==
    /\ \A p, q \in patterns : p.workflow = q.workflow => p = q
    /\ sweep.pc = "answer" => \A r \in recommendations : r.pattern # sweep.pattern

\* Withdrawn consent takes effect at the next pattern: after the gate is closed
\* no more than the attempts for the pattern at hand still leave.
RevocationTakesEffect == leaked <= MaxAttempts

\* What is past its retention is deleted by a later sweep, whatever the
\* providers answer and however many patterns wait for them.
ExpiredEventsGo ==
    \A i \in EventIds :
        i <= aged ~> \A e \in events : e.id = i => e.level # MaximumAssistance

\* Once the events of a workflow stay as they are, its pattern is there, with
\* their count, unless sweeps end early.
PatternsSettle ==
    \A w \in Workflows : \A n \in MinOccurrences..MaxEvents :
        <>[](Cardinality(Of(w, events)) = n) =>
            <>[](\E p \in patterns : p.workflow = w /\ p.count = n)

-----------------------------------------------------------------------------
(***************************************************************************)
(* What the documents say, and the code does not do.                       *)
(***************************************************************************)

\* Content captured in Deep mode is "never cloud-eligible, regardless of any
\* consent".  The level of the row decides, not that of the content: it does not
\* take a change of level during the sweep.
DeepContentStaysLocal ==
    sweep.pc = "answer" /\ ToCloud /\ level = sweep.level /\ level # Manual =>
        \A e \in sweep.current.events : e.level # MaximumAssistance

\* Without the consent that the settings show, "recommendations are only
\* generated using a local provider".
CloudNeedsShownConsent ==
    [][sweep.pc = "gate" /\ sweep'.pc = "send" /\ ToCloud /\ Quiescent
          => consentSetting]_vars

=============================================================================
