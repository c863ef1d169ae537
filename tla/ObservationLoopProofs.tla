----------------------- MODULE ObservationLoopProofs -----------------------
(***************************************************************************)
(* The observation loop for every list of sources, every level the         *)
(* commands may write, every bound and every fault.                        *)
(***************************************************************************)
EXTENDS ObservationLoop, SequenceTheorems, TLAPS

\* There is a first source to poll.
LEMMA FirstSource == 1 \in Sources /\ Sources \subseteq Nat
    BY LoopAssumption DEF Sources

\* A source's position names one of the three kinds.
LEMMA KindTyped == \A i \in Sources : Kind[i] \in SourceKinds
    BY LoopAssumption DEF Sources

\* The loop starts with nothing read and nothing to drain.
LEMMA LoopAtStartTyped ==
    LoopAtStart \in [pc : {"check", "poll", "drain", "stopped"}, snap : PrivacyStates,
                     next : Sources, batch : Seq(Signals)]
    BY FirstSource
    DEF LoopAtStart, InitialPrivacyState, PrivacyStates, Levels, Manual, ManifestVersions,
        CurrentManifestVersion

\* What a source reports is a sequence of signals.
LEMMA ReportsTyped ==
    ASSUME NEW kind \in SourceKinds
    PROVE  Reports(kind) \subseteq Seq(Signals)
<1> SUFFICES ASSUME NEW report \in Reports(kind)
             PROVE  report \in Seq(Signals)
    OBVIOUS
<1>1. \A type \in PayloadTypes : SignalsOf(type) \subseteq Signals
    BY LoopAssumption DEF SignalsOf, Signals
<1>2. /\ SignalsOf("AppFocusChange") \subseteq Signals
      /\ SignalsOf("WindowTitle") \subseteq Signals
      /\ SignalsOf("ClipboardMetadata") \subseteq Signals
      /\ SignalsOf("FileOperationMetadata") \subseteq Signals
    BY <1>1 DEF PayloadTypes, SignalTypes
<1>3. /\ <<>> \in Seq(Signals)
      /\ \A s \in Signals : <<s>> \in Seq(Signals)
      /\ \A s \in Signals, t \in Signals : <<s, t>> \in Seq(Signals)
    OBVIOUS
<1>4. CASE kind = "window"
    <2> DEFINE apps == SignalsOf("AppFocusChange")
               titles == SignalsOf("WindowTitle")
    <2>1. report \in {<<>>} \cup {<<s>> : s \in apps \cup titles} \cup (apps \X titles)
        BY <1>4 DEF Reports
    <2>2. CASE report \in {<<>>} \cup {<<s>> : s \in apps \cup titles}
        <3>1. apps \cup titles \subseteq Signals
            BY <1>2
        <3>2. report = <<>> \/ \E s \in apps \cup titles : report = <<s>>
            BY <2>2, Zenon
        <3> QED
            BY <1>3, <3>1, <3>2, Zenon
    <2>3. CASE report \in apps \X titles
        <3>1. PICK s \in apps, t \in titles : report = <<s, t>>
            BY <2>3
        <3>2. s \in Signals /\ t \in Signals
            BY <1>2
        <3> QED
            BY <1>3, <3>1, <3>2, Zenon
    <2> QED
        BY <2>1, <2>2, <2>3
<1>5. CASE kind = "clipboard"
    <2>1. Reports(kind) =
              {<<>>} \cup {<<s>> : s \in SignalsOf("ClipboardMetadata")}
        BY <1>5 DEF Reports
    <2> QED
        BY <1>2, <1>3, <2>1, Zenon
<1>6. CASE kind = "files"
    <2>1. Reports(kind) = {<<s>> : s \in SignalsOf("FileOperationMetadata")}
        BY <1>6 DEF Reports
    <2> QED
        BY <1>2, <1>3, <2>1, Zenon
<1> QED
    BY <1>4, <1>5, <1>6 DEF SourceKinds

\* A launch finds well-typed signals in each source.
LEMMA LaunchTyped == LaunchPending \subseteq [Sources -> Seq(Signals)]
<1> SUFFICES ASSUME NEW p \in LaunchPending, NEW i \in Sources
             PROVE  p[i] \in Seq(Signals)
    BY DEF LaunchPending
<1>1. p[i] \in AtLaunch(Kind[i])
    BY DEF LaunchPending
<1>2. Reports(Kind[i]) \subseteq Seq(Signals)
    BY KindTyped, ReportsTyped
<1>3. {<<>>} \subseteq Seq(Signals)
    OBVIOUS
<1> QED
    BY <1>1, <1>2, <1>3 DEF AtLaunch

\* The privacy commands write privacy_state rows.
LEMMA RowTyped ==
    /\ Row!Init => privacyState \in PrivacyStates
    /\ privacyState \in PrivacyStates /\ Row!Command => privacyState' \in PrivacyStates
    /\ Row!DeleteAllData => privacyState' \in PrivacyStates
<1>1. InitialPrivacyState \in PrivacyStates
    BY DEF InitialPrivacyState, PrivacyStates, Levels, Manual, ManifestVersions,
           CurrentManifestVersion
<1>2. Row!InitialPrivacyState = InitialPrivacyState
    BY DEF Row!InitialPrivacyState, InitialPrivacyState, Row!Manual, Manual
<1>3. Row!CurrentManifestVersion \in ManifestVersions
    BY DEF Row!CurrentManifestVersion, CurrentManifestVersion, ManifestVersions
<1>4. ASSUME privacyState \in PrivacyStates, Row!Command
      PROVE  privacyState' \in PrivacyStates
    BY <1>3, <1>4, LoopAssumption
    DEF Row!Command, Row!SetPrivacyLevel, Row!AcknowledgeManifest, Row!PauseObservation,
        Row!StartObservation, PrivacyStates
<1> QED
    BY <1>1, <1>2, <1>4 DEF Row!Init, Row!DeleteAllData

\* Marking signals as older changes nothing else in them.
LEMMA ErasedTyped ==
    ASSUME NEW signals \in Seq(Signals)
    PROVE  Erased(signals) \in Seq(Signals) /\ Len(Erased(signals)) = Len(signals)
<1>0. \A signal \in Signals : [signal EXCEPT !.erased = TRUE] \in Signals
    BY DEF Signals
<1>1. \A j \in 1..Len(signals) : [signals[j] EXCEPT !.erased = TRUE] \in Signals
    BY <1>0
<1>2. DOMAIN signals = 1..Len(signals) /\ Len(signals) \in Nat
    OBVIOUS
<1>3. Erased(signals) \in [1..Len(signals) -> Signals]
    BY <1>1, <1>2 DEF Erased
<1>4. Erased(signals) \in Seq(Signals)
    BY <1>2, <1>3, SeqDef
<1>5. DOMAIN Erased(signals) = 1..Len(signals)
    BY <1>2 DEF Erased
<1>6. DOMAIN Erased(signals) = 1..Len(Erased(signals)) /\ Len(Erased(signals)) \in Nat
    BY <1>4, LenProperties
<1>7. Len(Erased(signals)) = Len(signals)
    BY <1>2, <1>5, <1>6
<1> QED
    BY <1>4, <1>7

\* What the pipeline makes of a signal is an event_summaries row.
LEMMA EventTyped ==
    ASSUME NEW signal \in Signals, NEW level \in Levels
    PROVE  Event(signal, level) \in StoredEvents
    BY DEF Event, Summary, Summarized, Signals, StoredEvents, Contents, MaximumAssistance

\* A signal that is not dropped was allowed at the level and is not uncertain.
LEMMA NotDropped ==
    ASSUME NEW signal \in Signals, NEW level \in Levels,
           DropReason(signal.type, signal.content, level) = "none"
    PROVE  LET e == Event(signal, level)
           IN  /\ MinimumLevelFor(e.type) <= e.level
               /\ e.text # "secret" /\ e.text # "ambiguous"
               /\ e.deep <=> e.level = MaximumAssistance
               /\ e.expires <=> e.deep
<1>1. MinimumLevelFor(signal.type) \in Nat /\ level \in Nat
    BY DEF MinimumLevelFor, MaximumAssistance, Levels
<1>2. MinimumLevelFor(signal.type) <= level
    BY <1>1 DEF DropReason
<1>3. Passthrough(signal.type) \/ signal.content # "ambiguous"
    BY <1>1, <1>2 DEF DropReason, RequiresExtraction, Passthrough
<1>4. signal.content \in Contents
    BY DEF Signals
<1>5. Summarized(signal.type, signal.content) \notin {"secret", "ambiguous"}
    BY <1>3, <1>4 DEF Summarized, Contents
<1> QED
    BY <1>2, <1>5 DEF Event, Summary

-----------------------------------------------------------------------------
(***************************************************************************)
(* Types.  Drain takes the head of the batch, so a draining loop has one.  *)
(***************************************************************************)
BatchToDrain == loop.pc = "drain" => loop.batch # <<>>

TypeInv == TypeOK /\ BatchToDrain

\* Where the loop goes next is well typed, and not in the middle of a batch.
LEMMA AfterTyped ==
    ASSUME TypeOK, NEW i \in Sources
    PROVE  /\ After(i) \in [pc : {"check", "poll", "drain", "stopped"}, snap : PrivacyStates,
                            next : Sources, batch : Seq(Signals)]
           /\ After(i).pc # "drain"
           /\ After(i).pc = "poll" => After(i).snap = loop.snap
           /\ After(i).pc \in {"poll", "check"}
<1>1. <<>> \in Seq(Signals)
    OBVIOUS
<1> QED
    BY <1>1, LoopAtStartTyped DEF After, TypeOK, LoopAtStart

\* The state of a fresh launch is well typed.
LEMMA InitTyped == Init => TypeInv
    BY RowTyped, LoopAtStartTyped, LaunchTyped
    DEF Init, TypeInv, TypeOK, BatchToDrain, LoopAtStart

\* Every step keeps the types.
LEMMA StepTyped == TypeInv /\ [Next]_vars => TypeInv'
<1> SUFFICES ASSUME TypeInv, [Next]_vars
             PROVE  TypeInv'
    OBVIOUS
<1> USE DEF TypeInv, BatchToDrain
<1>1. ASSUME NEW i \in Sources, Activity(i)
      PROVE  TypeInv'
    <2>1. PICK report \in Reports(Kind[i]) :
             pending' = [pending EXCEPT ![i] = IF Queues(Kind[i]) THEN pending[i] \o report
                                               ELSE report]
        BY <1>1 DEF Activity
    <2>2. report \in Seq(Signals)
        BY KindTyped, ReportsTyped
    <2>3. pending' \in [Sources -> Seq(Signals)]
        BY <2>1, <2>2 DEF TypeOK
    <2> QED
        BY <1>1, <2>3 DEF Activity, TypeOK
<1>2. CASE PrivacyCommand
    <2>1. privacyState' \in PrivacyStates
        BY <1>2, RowTyped DEF PrivacyCommand, TypeOK
    <2>2. permittedLevels' \subseteq Levels
        BY <1>2, <2>1 DEF PrivacyCommand, Noted, TypeOK, PrivacyStates
    <2> QED
        BY <1>2, <2>1, <2>2 DEF PrivacyCommand, TypeOK
<1>3. CASE DeleteAllData
    <2>1. loop.batch \in Seq(Signals) /\ \A i \in Sources : pending[i] \in Seq(Signals)
        BY DEF TypeOK
    <2>2. /\ Erased(loop.batch) \in Seq(Signals)
          /\ Len(Erased(loop.batch)) = Len(loop.batch)
          /\ \A i \in Sources : Erased(pending[i]) \in Seq(Signals)
        BY <2>1, ErasedTyped
    <2>3. loop.batch # <<>> => Erased(loop.batch) # <<>>
        BY <2>1, <2>2
    <2>4. loop' = [loop EXCEPT !.batch = Erased(loop.batch)]
        BY <1>3 DEF DeleteAllData
    <2>5. /\ loop' \in [pc : {"check", "poll", "drain", "stopped"}, snap : PrivacyStates,
                        next : Sources, batch : Seq(Signals)]
          /\ loop'.pc = loop.pc /\ loop'.batch = Erased(loop.batch)
        BY <2>2, <2>4 DEF TypeOK
    <2>6. BatchToDrain'
        BY <2>3, <2>5
    <2>7. pending' \in [Sources -> Seq(Signals)]
        BY <1>3, <2>2 DEF DeleteAllData
    <2> QED
        BY <1>3, <2>5, <2>6, <2>7, RowTyped DEF DeleteAllData, TypeOK
<1>4. CASE DeleteEvents
    BY <1>4 DEF DeleteEvents, TypeOK
<1>5. CASE Check
    BY <1>5, LoopAtStartTyped DEF Check, TypeOK, LoopAtStart
<1>6. CASE CheckFails
    BY <1>6 DEF CheckFails, TypeOK
<1>7. CASE Poll
    <2>1. loop.next \in Sources /\ pending[loop.next] \in Seq(Signals) /\ <<>> \in Seq(Signals)
        BY DEF TypeOK
    <2>2. pending' \in [Sources -> Seq(Signals)]
        BY <1>7, <2>1 DEF Poll, TypeOK
    <2>3. CASE pending[loop.next] = <<>>
        BY <1>7, <2>1, <2>2, <2>3, AfterTyped DEF Poll, TypeOK
    <2>4. CASE pending[loop.next] # <<>>
        BY <1>7, <2>1, <2>2, <2>4 DEF Poll, TypeOK
    <2> QED
        BY <2>3, <2>4
<1>8. CASE PollFails
    <2>1. loop.next \in Sources /\ <<>> \in Seq(Signals)
        BY DEF TypeOK
    <2>2. pending' \in [Sources -> Seq(Signals)]
        BY <1>8, <2>1 DEF PollFails, TypeOK
    <2> QED
        BY <1>8, <2>1, <2>2, AfterTyped DEF PollFails, TypeOK
<1>9. CASE Drain
    <2>0. loop.pc = "drain"
        BY <1>9 DEF Drain
    <2>1. loop.batch \in Seq(Signals) /\ loop.batch # <<>> /\ loop.snap.level \in Levels
        BY <2>0 DEF TypeOK, PrivacyStates
    <2>2. Head(loop.batch) \in Signals /\ Tail(loop.batch) \in Seq(Signals)
        BY <2>1
    <2>3. Event(Head(loop.batch), loop.snap.level) \in StoredEvents
        BY <2>1, <2>2, EventTyped
    <2>4. events' \subseteq StoredEvents
        BY <1>9, <2>3 DEF Drain, TypeOK
    <2>5. Len(loop.batch) # 1 => Tail(loop.batch) # <<>>
        <3>1. Len(Tail(loop.batch)) = Len(loop.batch) - 1 /\ Len(loop.batch) \in Nat
            BY <2>1, HeadTailProperties
        <3>2. Len(<<>>) = 0
            BY EmptySeq
        <3>3. Tail(loop.batch) = <<>> => Len(Tail(loop.batch)) = Len(<<>>)
            BY Zenon
        <3> QED
            BY <3>1, <3>2, <3>3
    <2>6. CASE Len(loop.batch) = 1
        BY <1>9, <2>4, <2>6, AfterTyped DEF Drain, TypeOK
    <2>7. CASE Len(loop.batch) # 1
        <3>1. loop' = [loop EXCEPT !.batch = Tail(loop.batch)]
            BY <1>9, <2>7 DEF Drain
        <3>2. /\ loop' \in [pc : {"check", "poll", "drain", "stopped"}, snap : PrivacyStates,
                            next : Sources, batch : Seq(Signals)]
              /\ loop'.batch = Tail(loop.batch)
            BY <2>2, <3>1 DEF TypeOK
        <3>3. TypeOK'
            BY <1>9, <2>4, <3>2 DEF Drain, TypeOK
        <3>4. BatchToDrain'
            BY <2>5, <2>7, <3>2
        <3> QED
            BY <3>3, <3>4
    <2> QED
        BY <2>6, <2>7
<1>10. CASE Restart
    BY <1>10, LoopAtStartTyped, LaunchTyped DEF Restart, TypeOK, LoopAtStart
<1>11. CASE UNCHANGED vars
    BY <1>11 DEF vars, TypeOK
<1> QED
    BY <1>1, <1>2, <1>3, <1>4, <1>5, <1>6, <1>7, <1>8, <1>9, <1>10, <1>11
    DEF Next, LoopStep

\* The loop, the sources, the row and the stored events are always well typed.
THEOREM TypeCorrect == Spec => []TypeOK
<1>1. TypeInv => TypeOK
    BY DEF TypeInv
<1> QED
    BY InitTyped, StepTyped, <1>1, PTL DEF Spec

-----------------------------------------------------------------------------
(***************************************************************************)
(* What one step stores: nothing, or the event of the batch's head at the  *)
(* level of the loop's snapshot.                                           *)
(***************************************************************************)
LEMMA OnlyDrainStores ==
    ASSUME TypeInv, [Next]_vars, NEW e \in events', e \notin events
    PROVE  /\ loop.pc = "drain"
           /\ \E signal \in Signals :
                 /\ e = Event(signal, loop.snap.level)
                 /\ DropReason(signal.type, signal.content, loop.snap.level) = "none"
<1>1. CASE Drain
    <2>1. Head(loop.batch) \in Signals
        BY <1>1 DEF Drain, TypeInv, BatchToDrain, TypeOK
    <2> QED
        BY <1>1, <2>1 DEF Drain
<1>2. CASE ~Drain
    BY <1>2 DEF Next, LoopStep, vars, Activity, PrivacyCommand, DeleteAllData, DeleteEvents,
                Check, CheckFails, Poll, PollFails, Restart
<1> QED
    BY <1>1, <1>2

\* The event table never holds a signal its level does not allow, an unmasked
\* secret, or a Deep-mode event without an expiry.
THEOREM StoredEventsAreAllowed == Spec => []StoredEventsAllowed
<1>1. Init => StoredEventsAllowed
    BY DEF Init, StoredEventsAllowed
<1>2. TypeInv /\ StoredEventsAllowed /\ [Next]_vars => StoredEventsAllowed'
    <2> SUFFICES ASSUME TypeInv, StoredEventsAllowed, [Next]_vars, NEW e \in events'
                 PROVE  /\ MinimumLevelFor(e.type) <= e.level
                        /\ e.text # "secret" /\ e.text # "ambiguous"
                        /\ e.deep <=> e.level = MaximumAssistance
                        /\ e.expires <=> e.deep
        BY DEF StoredEventsAllowed
    <2>1. CASE e \in events
        BY <2>1 DEF StoredEventsAllowed
    <2>2. CASE e \notin events
        <3>1. loop.snap.level \in Levels
            BY DEF TypeInv, TypeOK, PrivacyStates
        <3> QED
            BY <2>2, <3>1, OnlyDrainStores, NotDropped
    <2> QED
        BY <2>1, <2>2
<1> QED
    BY InitTyped, StepTyped, <1>1, <1>2, PTL DEF Spec

-----------------------------------------------------------------------------
(***************************************************************************)
(* Consent.  CapturedUnderConsent is not inductive: a drain stores at the  *)
(* level of a snapshot taken earlier, so the invariant says of every       *)
(* snapshot in use, and of the row, that the level was noted as permitted. *)
(***************************************************************************)
RowNoted == Permits(privacyState) => privacyState.level \in permittedLevels

SnapshotNoted == loop.pc \in {"poll", "drain"} => loop.snap.level \in permittedLevels

ConsentInv == RowNoted /\ SnapshotNoted /\ CapturedUnderConsent

\* A new profile permits nothing, and nothing is stored.
LEMMA ConsentInit == Init => ConsentInv
    BY DEF Init, Row!Init, ConsentInv, RowNoted, SnapshotNoted, CapturedUnderConsent,
           Row!InitialPrivacyState, Permits, LoopAtStart

\* Every step keeps the snapshot in use among the permitted levels.
LEMMA ConsentStep == TypeInv /\ ConsentInv /\ [Next]_vars => ConsentInv'
<1> SUFFICES ASSUME TypeInv, ConsentInv, [Next]_vars
             PROVE  ConsentInv'
    OBVIOUS
<1>1. permittedLevels \subseteq permittedLevels'
    BY DEF Next, LoopStep, vars, Activity, PrivacyCommand, DeleteAllData, DeleteEvents,
           Check, CheckFails, Poll, PollFails, Drain, Restart
<1>2. RowNoted'
    <2> USE DEF ConsentInv, RowNoted
    <2>1. CASE PrivacyCommand
        BY <2>1 DEF PrivacyCommand, Noted
    <2>2. CASE DeleteAllData
        BY <2>2 DEF DeleteAllData, Row!DeleteAllData, Row!InitialPrivacyState, Permits
    <2>3. CASE privacyState' = privacyState
        BY <1>1, <2>3
    <2> QED
        BY <2>1, <2>2, <2>3
        DEF Next, LoopStep, vars, Activity, DeleteEvents, Check, CheckFails, Poll, PollFails,
            Drain, Restart
<1>3. SnapshotNoted'
    <2> USE DEF ConsentInv, SnapshotNoted
    <2>1. CASE Check
        BY <2>1 DEF Check, RowNoted, LoopAtStart
    <2>2. CASE Poll
        BY <2>2, AfterTyped DEF Poll, TypeInv, TypeOK
    <2>3. CASE PollFails
        BY <2>3, AfterTyped DEF PollFails, TypeInv, TypeOK
    <2>4. CASE Drain
        BY <2>4, AfterTyped DEF Drain, TypeInv, TypeOK
    <2>5. CASE DeleteAllData
        BY <2>5 DEF DeleteAllData, TypeInv, TypeOK
    <2>6. CASE CheckFails \/ Restart
        BY <2>6 DEF CheckFails, Restart, LoopAtStart, TypeInv, TypeOK
    <2>7. CASE loop' = loop
        BY <1>1, <2>7
    <2> QED
        BY <2>1, <2>2, <2>3, <2>4, <2>5, <2>6, <2>7
        DEF Next, LoopStep, vars, Activity, PrivacyCommand, DeleteEvents
<1>4. CapturedUnderConsent'
    <2> SUFFICES ASSUME NEW e \in events'
                 PROVE  e.level \in permittedLevels'
        BY DEF CapturedUnderConsent
    <2>1. CASE e \in events
        BY <1>1, <2>1 DEF ConsentInv, CapturedUnderConsent
    <2>2. CASE e \notin events
        BY <1>1, <2>2, OnlyDrainStores DEF ConsentInv, SnapshotNoted, Event, Summary
    <2> QED
        BY <2>1, <2>2
<1> QED
    BY <1>2, <1>3, <1>4 DEF ConsentInv

\* Nothing is ever stored at a level the user never consented to observing at.
THEOREM CaptureNeedsConsent == Spec => []CapturedUnderConsent
<1>1. ConsentInv => CapturedUnderConsent
    BY DEF ConsentInv
<1> QED
    BY InitTyped, StepTyped, ConsentInit, ConsentStep, <1>1, PTL DEF Spec

=============================================================================
