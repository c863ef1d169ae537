-------------------------- MODULE ObservationLoop --------------------------
(***************************************************************************)
(* The capture -> pipeline -> store loop (observation_loop.rs) running     *)
(* against the sources it polls, the privacy commands (as PrivacyRow       *)
(* specifies them), the delete commands and the person at the machine.     *)
(*                                                                         *)
(* A pass reads the privacy_state row once and then polls the sources in   *)
(* order, storing what each returns, under that one snapshot.  Commands    *)
(* run on other threads, between any two of its store calls.               *)
(***************************************************************************)
EXTENDS EventPipeline, Sequences, FiniteSets

CONSTANTS
    RowLevels,     \* levels set_privacy_level may write
    Kind,          \* the sources built at launch, in polling order
    TextContents,  \* contents of the signals people produce
    MaxPending,    \* bound: operations waiting in one file watcher
    MaxEvents,     \* bound: stored events
    Faults         \* which of "poll", "insert", "read", "restart" may happen

SourceKinds == {"window", "clipboard", "files"}

Sources == DOMAIN Kind

ASSUME LoopAssumption ==
    /\ RowLevels \subseteq Levels
    /\ Kind \in Seq(SourceKinds) /\ Kind # <<>>
    /\ TextContents \subseteq Contents
    /\ MaxPending \in Nat \ {0}
    /\ MaxEvents \in Nat
    /\ Faults \subseteq {"poll", "insert", "read", "restart"}

VARIABLES
    privacyState,     \* the row, in the store
    events,           \* event_summaries rows
    loop,             \* the loop's task: where it is and what it read
    pending,          \* per source, what a poll would return
    permittedLevels   \* levels the row ever permitted observation at (ghost)

vars == <<privacyState, events, loop, pending, permittedLevels>>

Row == INSTANCE PrivacyRow

-----------------------------------------------------------------------------
(***************************************************************************)
(* Sources and signals.  erased is ghost: whether delete-all has run since *)
(* the person acted.                                                       *)
(***************************************************************************)
Signals == [type : PayloadTypes, content : Contents, erased : BOOLEAN]

\* A file watcher's channel keeps every operation; the window and clipboard
\* sources compare with what they saw last and report the latest only.
Queues(kind) == kind = "files"

SignalsOf(type) == [type : {type}, content : TextContents, erased : {FALSE}]

\* What an action adds to a file watcher's channel, and what the other sources
\* would find at a poll after it: a new application, a new title, both, or,
\* back where they looked last, nothing.
Reports(kind) ==
    CASE kind = "window" ->
           LET apps   == SignalsOf("AppFocusChange")
               titles == SignalsOf("WindowTitle")
           IN  {<<>>} \cup {<<s>> : s \in apps \cup titles} \cup (apps \X titles)
      [] kind = "clipboard" ->
           {<<>>} \cup {<<s>> : s \in SignalsOf("ClipboardMetadata")}
      [] kind = "files" -> {<<s>> : s \in SignalsOf("FileOperationMetadata")}

\* The clipboard and window sources are built without a baseline, so their
\* first poll reports what it finds.
AtLaunch(kind) == IF Queues(kind) THEN {<<>>} ELSE Reports(kind)

LaunchPending ==
    {p \in [Sources -> UNION {AtLaunch(Kind[i]) : i \in Sources}] :
        \A i \in Sources : p[i] \in AtLaunch(Kind[i])}

StoredEvents ==
    [type : PayloadTypes, level : Levels, text : Contents \cup {"masked", "metadata"},
     deep : BOOLEAN, expires : BOOLEAN, erased : BOOLEAN]

LoopAtStart ==
    [pc |-> "check", snap |-> InitialPrivacyState, next |-> 1, batch |-> <<>>]

\* Every variable has its type.
TypeOK ==
    /\ privacyState \in PrivacyStates
    /\ events \subseteq StoredEvents
    /\ loop \in [pc : {"check", "poll", "drain", "stopped"}, snap : PrivacyStates,
                 next : Sources, batch : Seq(Signals)]
    /\ pending \in [Sources -> Seq(Signals)]
    /\ permittedLevels \subseteq Levels

Init ==
    /\ Row!Init
    /\ events = {}
    /\ loop = LoopAtStart
    /\ pending \in LaunchPending
    /\ permittedLevels = {}

-----------------------------------------------------------------------------
(***************************************************************************)
(* The environment: people act, commands change the row.                   *)
(***************************************************************************)
Activity(i) ==
    /\ Queues(Kind[i]) => Len(pending[i]) < MaxPending
    /\ \E report \in Reports(Kind[i]) :
          pending' = [pending EXCEPT ![i] = IF Queues(Kind[i]) THEN @ \o report ELSE report]
    /\ UNCHANGED <<privacyState, events, loop, permittedLevels>>

Noted(row) == IF Permits(row) THEN {row.level} ELSE {}

PrivacyCommand ==
    /\ Row!Command
    /\ permittedLevels' = permittedLevels \cup Noted(privacyState')
    /\ UNCHANGED <<events, loop, pending>>

Erased(signals) == [j \in DOMAIN signals |-> [signals[j] EXCEPT !.erased = TRUE]]

\* Every table and the row, in one transaction.  Nothing reaches the loop's
\* task or the sources; what they hold is only marked here as older.
DeleteAllData ==
    /\ Row!DeleteAllData
    /\ events' = {}
    /\ loop' = [loop EXCEPT !.batch = Erased(@)]
    /\ pending' = [i \in Sources |-> Erased(pending[i])]
    /\ UNCHANGED permittedLevels

\* delete_events: the rows the caller names.
DeleteEvents ==
    /\ \E doomed \in SUBSET events \ {{}} : events' = events \ doomed
    /\ UNCHANGED <<privacyState, loop, pending, permittedLevels>>

-----------------------------------------------------------------------------
(***************************************************************************)
(* The loop.                                                               *)
(***************************************************************************)

\* Mutant: the pass does not ask whether the manifest was consented to.
CheckWithoutConsent ==
    /\ loop.pc = "check"
    /\ privacyState.active /\ privacyState.level # Manual
    /\ loop' = [LoopAtStart EXCEPT !.pc = "poll", !.snap = privacyState]
    /\ UNCHANGED <<privacyState, events, pending, permittedLevels>>

\* The top of a pass.  An idle pass sleeps and changes nothing.
Check ==
    /\ loop.pc = "check"
    /\ Permits(privacyState)
    /\ loop' = [LoopAtStart EXCEPT !.pc = "poll", !.snap = privacyState]
    /\ UNCHANGED <<privacyState, events, pending, permittedLevels>>

\* get_privacy_state fails: the loop breaks, and its task is over.
CheckFails ==
    /\ "read" \in Faults
    /\ loop.pc = "check"
    /\ loop' = [loop EXCEPT !.pc = "stopped"]
    /\ UNCHANGED <<privacyState, events, pending, permittedLevels>>

\* Mutants: another pass without reading the row again; the pass is over after
\* its first source.
AfterPollsOn(i) ==
    [loop EXCEPT !.pc = "poll", !.next = IF i + 1 \in Sources THEN i + 1 ELSE 1,
                 !.batch = <<>>]

AfterFirstSource(i) == LoopAtStart

\* Where the loop goes when it is done with source i.
After(i) ==
    IF i + 1 \in Sources
    THEN [loop EXCEPT !.pc = "poll", !.next = i + 1, !.batch = <<>>]
    ELSE LoopAtStart

\* source.poll() returns everything that is waiting.  The snapshot's level is
\* not compared with the min_privacy_level the source declares.
Poll ==
    LET i == loop.next
    IN  /\ loop.pc = "poll"
        /\ loop' = IF pending[i] = <<>> THEN After(i)
                   ELSE [loop EXCEPT !.pc = "drain", !.batch = pending[i]]
        /\ pending' = [pending EXCEPT ![i] = <<>>]
        /\ UNCHANGED <<privacyState, events, permittedLevels>>

\* A backend error; file watchers have none to return.  The clipboard source
\* has already moved its baseline when the owner's answer fails or is late.
PollFails ==
    LET i == loop.next
    IN  /\ "poll" \in Faults
        /\ loop.pc = "poll"
        /\ ~Queues(Kind[i])
        /\ loop' = After(i)
        /\ \/ UNCHANGED pending
           \/ Kind[i] = "clipboard" /\ pending' = [pending EXCEPT ![i] = <<>>]
        /\ UNCHANGED <<privacyState, events, permittedLevels>>

Event(signal, level) ==
    LET summary == Summary(signal.type, signal.content, level)
    IN  [type |-> summary.type, level |-> summary.level, text |-> summary.text,
         deep |-> summary.deep, expires |-> summary.expires, erased |-> signal.erased]

\* The next signal of the batch goes through the pipeline, at the snapshot's
\* level, and its event is inserted.
Drain ==
    LET signal == Head(loop.batch)
    IN  /\ loop.pc = "drain"
        /\ IF DropReason(signal.type, signal.content, loop.snap.level) = "none"
           THEN \/ /\ Cardinality(events) < MaxEvents
                   /\ events' = events \cup {Event(signal, loop.snap.level)}
                \/ "insert" \in Faults /\ UNCHANGED events
           ELSE UNCHANGED events
        /\ loop' = IF Len(loop.batch) = 1 THEN After(loop.next)
                   ELSE [loop EXCEPT !.batch = Tail(@)]
        /\ UNCHANGED <<privacyState, pending, permittedLevels>>

LoopStep == Check \/ CheckFails \/ Poll \/ PollFails \/ Drain

\* The process ends and is launched again: the loop starts over, and what the
\* sources held is gone.
Restart ==
    /\ "restart" \in Faults
    /\ loop' = LoopAtStart
    /\ pending' \in LaunchPending
    /\ UNCHANGED <<privacyState, events, permittedLevels>>

Next ==
    \/ \E i \in Sources : Activity(i)
    \/ PrivacyCommand
    \/ DeleteAllData
    \/ DeleteEvents
    \/ LoopStep
    \/ Restart

Spec == Init /\ [][Next]_vars

\* The loop's task is scheduled again whenever it can run.
FairSpec == Spec /\ WF_vars(LoopStep)

-----------------------------------------------------------------------------
(***************************************************************************)
(* Properties.                                                             *)
(***************************************************************************)

\* What is stored was allowed at the level it was captured at, is redacted,
\* and expires exactly when it was captured in Deep mode.
StoredEventsAllowed ==
    \A e \in events :
        /\ MinimumLevelFor(e.type) <= e.level
        /\ e.text # "secret" /\ e.text # "ambiguous"
        /\ e.deep <=> e.level = MaximumAssistance
        /\ e.expires <=> e.deep

\* FR-2: nothing is stored at a level at which observation was never active
\* and consented to, whatever the commands did during the pass.
CapturedUnderConsent == \A e \in events : e.level \in permittedLevels

\* A pause, a lower level or a withdrawn consent takes effect: once the row
\* stays put, the loop idles or works from that very row.
SnapshotCatchesUp ==
    <>[][UNCHANGED privacyState]_vars =>
        <>[](loop.pc \in {"check", "stopped"} \/ loop.snap = privacyState)

\* While observation stays permitted no file operation waits forever, unless the
\* program is started again for ever or a read error has ended the loop.
FileOperationsCaptured ==
    <>[]Permits(privacyState) /\ <>[](loop.pc # "stopped") /\ <>[][~Restart]_vars =>
        \A i \in Sources : Queues(Kind[i]) => []<>(pending[i] = <<>>)

-----------------------------------------------------------------------------
(***************************************************************************)
(* What documents and comments say, and the code does not do.              *)
(***************************************************************************)

\* Delete-all removes every captured summary; none of before it comes back.
DeletedStaysDeleted == \A e \in events : ~e.erased

=============================================================================
