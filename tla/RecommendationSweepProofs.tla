--------------------- MODULE RecommendationSweepProofs ---------------------
(***************************************************************************)
(* Proofs about RecommendationSweep, for any workflows, providers, clients, *)
(* bounds and faults: its types, that rows which refer to each other       *)
(* belong together, that a workflow is suggested once, and that withdrawn  *)
(* consent takes effect.                                                   *)
(***************************************************************************)
EXTENDS RecommendationSweep, FiniteSetTheorems, TLAPS

\* The steps of a sweep between the insertion of a pattern and its
\* recommendation.
Busy == {"link", "provider", "gate", "send", "answer"}

\* The types, and that what is counted is finite.
TypeInv ==
    /\ TypeOK
    /\ IsFiniteSet(events)
    /\ \A d \in sweep.todo : IsFiniteSet(d.events)
    /\ sweep.pc \in Busy => sweep.current \in Detections

LEMMA SleepingTyped == Sleeping \in Sweeps
    BY SweepAssumption DEF Sleeping, Sweeps, Levels, Manual

LEMMA AfterTyped ==
    ASSUME sweep \in Sweeps, NEW rest \in SUBSET sweep.todo
    PROVE  After(rest) \in Sweeps
    BY SleepingTyped DEF After, Sleeping, Sweeps

LEMMA AfterTodo ==
    ASSUME NEW rest
    PROVE  /\ After(rest).todo = rest
           /\ After(rest).pc \in {"expire", "next"}
           /\ After(rest).pc = "next" => After(rest).known = sweep.known
    BY DEF After, Sleeping

LEMMA InitTyped == Init => TypeInv
<1> SUFFICES ASSUME Init
             PROVE  TypeInv
    OBVIOUS
<1>1. call \in [Clients -> Calls]
    BY DEF Init, Calls, NoCall
<1>2. providers \in [Providers -> {"absent", "idle", "active"}]
    BY DEF Init
<1>3. TypeOK
    <2>1. /\ level \in Levels
          /\ lastEvent \in 0..MaxEvents /\ lastPattern \in 0..MaxPatterns
          /\ aged \in 0..MaxEvents /\ leaked \in Nat
        BY SweepAssumption DEF Init, Levels, Manual
    <2>2. sweep \in Sweeps
        BY SleepingTyped DEF Init
    <2> QED
        BY <1>1, <1>2, <2>1, <2>2 DEF Init, TypeOK
<1>4. sweep.todo = {} /\ sweep.pc \notin Busy
    BY DEF Init, Sleeping, Busy
<1> QED
    BY <1>3, <1>4, FS_EmptySet DEF Init, TypeInv

LEMMA StepTyped == TypeInv /\ [Next]_vars => TypeInv'
<1> SUFFICES ASSUME TypeInv, [Next]_vars
             PROVE  TypeInv'
    OBVIOUS
<1> USE SweepAssumption DEF TypeInv, Busy
<1>1. ASSUME NEW l \in RowLevels, SetLevel(l)
      PROVE  TypeInv'
    BY <1>1 DEF SetLevel, TypeOK, tables, configuration
<1>2. ASSUME NEW w \in Workflows, Capture(w)
      PROVE  TypeInv'
    <2>1. lastEvent' \in EventIds
        BY <1>2 DEF Capture, TypeOK, EventIds
    <2>2. events' \subseteq Events
        BY <1>2, <2>1 DEF Capture, TypeOK, Events
    <2>3. IsFiniteSet(events')
        BY <1>2, FS_AddElement DEF Capture
    <2> QED
        BY <1>2, <2>1, <2>2, <2>3 DEF Capture, TypeOK, configuration, EventIds
<1>3. ASSUME Age
      PROVE  TypeInv'
    BY <1>3 DEF Age, TypeOK, tables, configuration, Events, EventIds
<1>4. ASSUME NEW gone \in SUBSET events, Remove(gone), UNCHANGED <<level, aged, configuration>>,
             sweep' \in Sweeps, sweep'.todo = sweep.todo, UNCHANGED leaked,
             sweep'.pc \notin Busy \/ sweep' = sweep
      PROVE  TypeInv'
    <2>1. events' \subseteq Events /\ IsFiniteSet(events')
        BY <1>4, FS_Subset DEF Remove, TypeOK
    <2>2. links' \subseteq (PatternIds \X EventIds)
        BY <1>4 DEF Remove, TypeOK
    <2> QED
        BY <1>4, <2>1, <2>2 DEF Remove, TypeOK, configuration
<1>5. ASSUME NEW gone \in SUBSET events, DeleteEvents(gone)
      PROVE  TypeInv'
    BY <1>4, <1>5 DEF DeleteEvents, TypeOK
<1>6. ASSUME NEW c \in Clients, DeleteAllData(c)
      PROVE  TypeInv'
    <2>1. level' \in Levels /\ providers' \in [Providers -> {"absent", "idle", "active"}]
        BY <1>6 DEF DeleteAllData, Levels, Manual
    <2> QED
        BY <1>6, <2>1, FS_EmptySet DEF DeleteAllData, TypeOK
<1>7. ASSUME Restart
      PROVE  TypeInv'
    BY <1>7, SleepingTyped DEF Restart, TypeOK, tables, Calls, NoCall, Sleeping
<1>8. ASSUME NEW c \in Clients, NEW granted \in BOOLEAN, SetCloudConsent(c, granted)
      PROVE  TypeInv'
    BY <1>8 DEF SetCloudConsent, TypeOK, tables, Calls
<1>9. ASSUME NEW c \in Clients, ApplyConsent(c)
      PROVE  TypeInv'
    <2>1. call[c].granted \in BOOLEAN
        BY <1>9 DEF ApplyConsent, TypeOK, Calls
    <2> QED
        BY <1>9, <2>1 DEF ApplyConsent, TypeOK, tables, Calls, NoCall
<1>10. ASSUME NEW c \in Clients, NEW p \in Providers, SetAiProvider(c, p)
       PROVE  TypeInv'
    BY <1>10 DEF SetAiProvider, TypeOK, tables, Calls
<1>11. ASSUME NEW c \in Clients, ActivateProvider(c)
       PROVE  TypeInv'
    <2>1. Activated(call[c].provider) \in [Providers -> {"absent", "idle", "active"}]
        BY DEF Activated
    <2> QED
        BY <1>11, <2>1 DEF ActivateProvider, TypeOK, tables, Calls, NoCall
<1>12. ASSUME SweepStep
       PROVE  TypeInv'
    <2>0. ASSUME sweep' = Handled
          PROVE  sweep' \in Sweeps /\ sweep'.todo = sweep.todo /\ sweep'.pc \notin Busy
        BY <2>0, AfterTyped, AfterTodo DEF Handled, TypeOK
    <2>1. ASSUME ExpireEvents
          PROVE  TypeInv'
        <3>1. sweep' \in Sweeps /\ sweep'.todo = sweep.todo /\ sweep'.pc \notin Busy
            BY <2>1 DEF ExpireEvents, TypeOK, Sweeps
        <3>2. CASE UNCHANGED tables
            BY <2>1, <3>1, <3>2 DEF ExpireEvents, TypeOK, SweepKeeps, tables, configuration
        <3>3. CASE Remove({e \in events : e.level = MaximumAssistance /\ e.id <= aged})
            BY <2>1, <3>1, <3>3, <1>4 DEF ExpireEvents, SweepKeeps
        <3> QED
            BY <2>1, <3>2, <3>3 DEF ExpireEvents
    <2>2. ASSUME ReadLevel
          PROVE  TypeInv'
        BY <2>2 DEF ReadLevel, TypeOK, SweepKeeps, tables, configuration, Sweeps
    <2>3. ASSUME DetectPatterns
          PROVE  TypeInv'
        <3> DEFINE found == {[workflow |-> w, events |-> Of(w, events)] :
                                 w \in {v \in Workflows : Detectable(v)}}
        <3>1. found \subseteq Detections
            BY DEF Detections, Of, TypeOK
        <3>2. \A d \in found : IsFiniteSet(d.events)
            BY FS_Subset DEF Of
        <3>3. sweep' \in Sweeps /\ sweep'.todo \in {found, {}} /\ sweep'.pc \notin Busy
            BY <2>3, <3>1, SleepingTyped DEF DetectPatterns, TypeOK, Sweeps, Sleeping
        <3> QED
            BY <2>3, <3>2, <3>3
            DEF DetectPatterns, TypeOK, SweepKeeps, tables, configuration
    <2>4. ASSUME ReadPatterns
          PROVE  TypeInv'
        BY <2>4 DEF ReadPatterns, TypeOK, SweepKeeps, tables, configuration, Sweeps
    <2>5. ASSUME NEW d \in sweep.todo, UpdatePattern(d)
          PROVE  TypeInv'
        <3>1. Cardinality(d.events) \in Nat
            BY FS_CardinalityType
        <3>2. patterns' \subseteq Patterns
            BY <2>5, <3>1 DEF UpdatePattern, TypeOK, Patterns
        <3>3. sweep' \in Sweeps /\ sweep'.todo \subseteq sweep.todo /\ sweep'.pc \notin Busy
            BY <2>5, AfterTyped, AfterTodo DEF UpdatePattern, TypeOK
        <3> QED
            BY <2>5, <3>2, <3>3 DEF UpdatePattern, TypeOK, SweepKeeps, configuration
    <2>6. ASSUME NEW d \in sweep.todo, InsertPattern(d)
          PROVE  TypeInv'
        <3>1. Cardinality(d.events) \in Nat
            BY FS_CardinalityType
        <3>2. lastPattern' \in PatternIds /\ d \in Detections
            BY <2>6 DEF InsertPattern, TypeOK, PatternIds, Sweeps
        <3>3. patterns' \subseteq Patterns
            BY <2>6, <3>1, <3>2 DEF InsertPattern, TypeOK, Patterns, Detections
        <3> DEFINE rest == sweep.todo \ {d}
        <3>4. /\ sweep' = [sweep EXCEPT !.pc = "link", !.todo = rest,
                                        !.current = d, !.pattern = lastPattern']
              /\ rest \in SUBSET Detections /\ d \in Detections \cup {None}
              /\ lastPattern' \in 0..MaxPatterns
            BY <2>6, <3>2 DEF InsertPattern, TypeOK, Sweeps, PatternIds
        <3>5. sweep' \in Sweeps
            <4> HIDE DEF rest
            <4> QED
                BY <3>4 DEF TypeOK, Sweeps
        <3>6. sweep'.todo = rest /\ sweep'.current = d
            BY <3>4 DEF TypeOK, Sweeps
        <3> QED
            BY <2>6, <3>2, <3>3, <3>5, <3>6
            DEF InsertPattern, TypeOK, SweepKeeps, configuration, PatternIds
    <2>7. ASSUME SweepFails
          PROVE  TypeInv'
        BY <2>7, SleepingTyped
        DEF SweepFails, TypeOK, SweepKeeps, tables, configuration, Sleeping
    <2>8. ASSUME LinkEvents, sweep.current \in Detections
          PROVE  TypeInv'
        <3>1. Linkable(sweep.current.events) \subseteq Events
            BY <2>8 DEF Linkable, Detections
        <3>2. links' \subseteq (PatternIds \X EventIds)
            BY <2>8, <3>1 DEF LinkEvents, TypeOK, Patterns, Events
        <3>3. sweep' \in Sweeps /\ sweep'.todo = sweep.todo
            BY <2>8 DEF LinkEvents, TypeOK, Sweeps
        <3> QED
            BY <2>8, <3>2, <3>3 DEF LinkEvents, TypeOK, SweepKeeps, configuration
    <2>9. ASSUME ReadProvider
          PROVE  TypeInv'
        <3>1. ASSUME NEW p \in Providers, sweep' = [sweep EXCEPT !.pc = "gate", !.provider = p]
              PROVE  TypeInv'
            BY <2>9, <3>1
            DEF ReadProvider, TypeOK, SweepKeeps, tables, configuration, Sweeps
        <3>2. ASSUME sweep' = Handled
              PROVE  TypeInv'
            BY <2>9, <3>2, <2>0 DEF ReadProvider, TypeOK, SweepKeeps, tables, configuration
        <3> QED
            BY <2>9, <3>1, <3>2 DEF ReadProvider
    <2>10. ASSUME PassGate
           PROVE  TypeInv'
        <3>1. CASE sweep' = Handled
            BY <2>10, <3>1, <2>0 DEF PassGate, TypeOK, SweepKeeps, tables, configuration
        <3>2. CASE sweep' = [sweep EXCEPT !.pc = "send", !.left = MaxAttempts]
            <4>1. MaxAttempts \in 0..MaxAttempts
                OBVIOUS
            <4>2. sweep' \in Sweeps
                BY <3>2, <4>1 DEF TypeOK, Sweeps
            <4>3. sweep'.todo = sweep.todo /\ sweep'.current = sweep.current
                BY <3>2 DEF TypeOK, Sweeps
            <4> QED
                BY <2>10, <4>2, <4>3
                DEF PassGate, TypeOK, SweepKeeps, tables, configuration
        <3> QED
            BY <2>10, <3>1, <3>2 DEF PassGate
    <2>11. ASSUME Send
           PROVE  TypeInv'
        BY <2>11 DEF Send, TypeOK, SweepKeeps, tables, configuration, Sweeps
    <2>12. ASSUME InsertRecommendation
           PROVE  TypeInv'
        <3>1. recommendations' \subseteq [pattern : PatternIds, workflow : Workflows]
            BY <2>12 DEF InsertRecommendation, TypeOK, Patterns, Detections
        <3> QED
            BY <2>12, <3>1, <2>0 DEF InsertRecommendation, TypeOK, SweepKeeps, configuration
    <2>13. ASSUME RejectAnswer
           PROVE  TypeInv'
        <3>1. CASE sweep' = Handled
            BY <2>13, <3>1, <2>0 DEF RejectAnswer, TypeOK, SweepKeeps, tables, configuration
        <3>2. CASE sweep.left > 1 /\ sweep' = [sweep EXCEPT !.pc = "send", !.left = @ - 1]
            <4>1. sweep.left - 1 \in 0..MaxAttempts
                BY <3>2 DEF TypeOK, Sweeps
            <4>2. sweep' \in Sweeps
                BY <3>2, <4>1 DEF TypeOK, Sweeps
            <4>3. sweep'.todo = sweep.todo /\ sweep'.current = sweep.current
                BY <3>2 DEF TypeOK, Sweeps
            <4> QED
                BY <2>13, <4>2, <4>3
                DEF RejectAnswer, TypeOK, SweepKeeps, tables, configuration
        <3> QED
            BY <2>13, <3>1, <3>2 DEF RejectAnswer
    <2>14. ASSUME ProviderFails
           PROVE  TypeInv'
        BY <2>14, <2>0 DEF ProviderFails, TypeOK, SweepKeeps, tables, configuration
    <2> QED
        BY <1>12, <2>1, <2>2, <2>3, <2>4, <2>5, <2>6, <2>7, <2>8, <2>9, <2>10, <2>11,
           <2>12, <2>13, <2>14
        DEF SweepStep, LinkEvents
<1>13. CASE UNCHANGED vars
    BY <1>13 DEF vars, TypeOK, tables, configuration
<1> QED
    BY <1>1, <1>2, <1>3, <1>5, <1>6, <1>7, <1>8, <1>9, <1>10, <1>11, <1>12, <1>13 DEF Next

\* Every variable keeps its type.
THEOREM TypeCorrect == Spec => []TypeOK
<1>1. TypeInv => TypeOK
    BY DEF TypeInv
<1> QED
    BY <1>1, InitTyped, StepTyped, PTL DEF Spec

-----------------------------------------------------------------------------
(***************************************************************************)
(* Withdrawn consent.                                                      *)
(***************************************************************************)

\* The requests that the synthesis at hand may still send to the cloud.
Pending ==
    CASE sweep.pc = "send" /\ ToCloud -> sweep.left
      [] sweep.pc = "answer" /\ ToCloud -> sweep.left - 1
      [] OTHER -> 0

\* What has leaked and what may still leak are at most the attempts for one
\* pattern; nothing counts as leaked while the gate is open.
LeakInv ==
    /\ TypeInv
    /\ sweep.pc \in {"send", "answer"} => sweep.left >= 1
    /\ leaked + Pending <= MaxAttempts
    /\ gate => leaked = 0

LEMMA LeakInit == Init => LeakInv
    BY InitTyped, SweepAssumption DEF Init, LeakInv, Pending, Sleeping

LEMMA LeakStep == LeakInv /\ [Next]_vars => LeakInv'
<1> SUFFICES ASSUME LeakInv, [Next]_vars
             PROVE  LeakInv'
    OBVIOUS
<1> USE SweepAssumption
<1>t. TypeInv /\ TypeInv'
    BY StepTyped DEF LeakInv
<1>s. sweep \in Sweeps /\ sweep' \in Sweeps /\ leaked \in Nat /\ leaked' \in Nat
    BY <1>t DEF TypeInv, TypeOK
<1>1. ASSUME UNCHANGED <<sweep, leaked, gate>>
      PROVE  LeakInv'
    BY <1>1, <1>t DEF LeakInv, Pending, ToCloud
<1>2. ASSUME sweep'.pc \notin {"send", "answer"}, UNCHANGED <<leaked, gate>>
      PROVE  LeakInv'
    <2>1. Pending >= 0 /\ Pending' = 0 /\ Pending \in Int
        BY <1>2, <1>s DEF LeakInv, Pending, Sweeps
    <2> QED
        BY <1>2, <1>t, <1>s, <2>1 DEF LeakInv
<1>3. ASSUME Restart
      PROVE  LeakInv'
    BY <1>3, <1>t DEF Restart, LeakInv, Pending, Sleeping
<1>4. ASSUME NEW c \in Clients, ApplyConsent(c)
      PROVE  LeakInv'
    <2>1. call[c].granted \in BOOLEAN
        BY <1>4, <1>t DEF ApplyConsent, TypeInv, TypeOK, Calls
    <2>2. Pending' = Pending /\ Pending \in Int /\ Pending <= MaxAttempts
        BY <1>4, <1>s DEF ApplyConsent, Pending, ToCloud, Sweeps
    <2> QED
        BY <1>4, <1>t, <1>s, <2>1, <2>2 DEF ApplyConsent, LeakInv
<1>5. ASSUME PassGate
      PROVE  LeakInv'
    <2>1. CASE sweep' = Handled
        BY <1>2, <1>5, <2>1, AfterTodo DEF PassGate, Handled, SweepKeeps, configuration
    <2>2. CASE /\ sweep' = [sweep EXCEPT !.pc = "send", !.left = MaxAttempts]
               /\ Allowed(sweep.provider, sweep.level, gate)
        <3>1. /\ sweep'.pc = "send" /\ sweep'.left = MaxAttempts
              /\ sweep'.provider = sweep.provider
            BY <2>2, <1>s DEF Sweeps
        <3>2. UNCHANGED <<leaked, gate>>
            BY <1>5 DEF PassGate, SweepKeeps, configuration
        <3>3. CASE gate
            BY <3>1, <3>2, <3>3, <1>t DEF LeakInv, Pending, ToCloud
        <3>4. CASE ~gate
            <4>1. ~ToCloud
                BY <2>2, <3>4 DEF Allowed, ToCloud
            <4>2. Pending = 0 /\ Pending' = 0
                BY <1>5, <3>1, <4>1 DEF PassGate, Pending, ToCloud
            <4> QED
                BY <3>1, <3>2, <4>2, <1>t DEF LeakInv
        <3> QED
            BY <3>3, <3>4
    <2> QED
        BY <1>5, <2>1, <2>2 DEF PassGate
<1>6. ASSUME Send
      PROVE  LeakInv'
    <2>1. /\ sweep.pc = "send" /\ sweep'.pc = "answer"
          /\ sweep'.left = sweep.left /\ sweep'.provider = sweep.provider
          /\ sweep.left \in Nat
        BY <1>6, <1>s DEF Send, Sweeps
    <2>2. gate' = gate /\ leaked' = IF ToCloud /\ ~gate THEN leaked + 1 ELSE leaked
        BY <1>6 DEF Send, SweepKeeps, configuration
    <2> QED
        BY <2>1, <2>2, <1>t, <1>s DEF LeakInv, Pending, ToCloud
<1>7. ASSUME RejectAnswer
      PROVE  LeakInv'
    <2>1. CASE sweep' = Handled
        BY <1>2, <1>7, <2>1, AfterTodo DEF RejectAnswer, Handled, SweepKeeps, configuration
    <2>2. CASE sweep.left > 1 /\ sweep' = [sweep EXCEPT !.pc = "send", !.left = @ - 1]
        <3>1. /\ sweep.pc = "answer" /\ sweep'.pc = "send"
              /\ sweep'.left = sweep.left - 1 /\ sweep'.provider = sweep.provider
              /\ sweep.left \in Nat
            BY <1>7, <2>2, <1>s DEF RejectAnswer, Sweeps
        <3>2. UNCHANGED <<leaked, gate>>
            BY <1>7 DEF RejectAnswer, SweepKeeps, configuration
        <3> QED
            BY <2>2, <3>1, <3>2, <1>t, <1>s DEF LeakInv, Pending, ToCloud
    <2> QED
        BY <1>7, <2>1, <2>2 DEF RejectAnswer
<1>8. ASSUME SweepStep, ~PassGate, ~Send, ~RejectAnswer
      PROVE  LeakInv'
    <2> USE <1>2, <1>s DEF SweepKeeps, configuration
    <2>1. ASSUME ExpireEvents
          PROVE  LeakInv'
        BY <2>1 DEF ExpireEvents, Sweeps
    <2>2. ASSUME ReadLevel
          PROVE  LeakInv'
        BY <2>2 DEF ReadLevel, Sweeps
    <2>3. ASSUME DetectPatterns
          PROVE  LeakInv'
        BY <2>3 DEF DetectPatterns, Sleeping, Sweeps
    <2>4. ASSUME ReadPatterns
          PROVE  LeakInv'
        BY <2>4 DEF ReadPatterns, Sweeps
    <2>5. ASSUME NEW d \in sweep.todo, UpdatePattern(d)
          PROVE  LeakInv'
        BY <2>5, AfterTodo DEF UpdatePattern, Sweeps
    <2>6. ASSUME NEW d \in sweep.todo, InsertPattern(d)
          PROVE  LeakInv'
        BY <2>6 DEF InsertPattern, Sweeps
    <2>7. ASSUME SweepFails
          PROVE  LeakInv'
        BY <2>7 DEF SweepFails, Sleeping, Sweeps
    <2>8. ASSUME LinkEvents
          PROVE  LeakInv'
        BY <2>8 DEF LinkEvents, Sweeps
    <2>9. ASSUME ReadProvider
          PROVE  LeakInv'
        <3>1. ASSUME NEW p \in Providers, sweep' = [sweep EXCEPT !.pc = "gate", !.provider = p]
              PROVE  sweep'.pc = "gate"
            BY <3>1 DEF Sweeps
        <3>2. sweep' = Handled => sweep'.pc \in {"expire", "next"}
            BY AfterTodo DEF Handled
        <3> QED
            BY <2>9, <3>1, <3>2 DEF ReadProvider
    <2>10. ASSUME InsertRecommendation
          PROVE  LeakInv'
        BY <2>10, AfterTodo DEF InsertRecommendation, Handled, Sweeps
    <2>11. ASSUME ProviderFails
          PROVE  LeakInv'
        BY <2>11, AfterTodo DEF ProviderFails, Handled, Sweeps
    <2> QED
        BY <1>8, <2>1, <2>2, <2>3, <2>4, <2>5, <2>6, <2>7, <2>8, <2>9, <2>10, <2>11 DEF SweepStep
<1> QED
    BY <1>1, <1>3, <1>4, <1>5, <1>6, <1>7, <1>8
    DEF Next, vars, configuration, SetLevel, Capture, Age, DeleteEvents, DeleteAllData,
        SetCloudConsent, SetAiProvider, ActivateProvider

\* However commands overlap with the sweep, once the gate is closed no more than
\* the attempts for the pattern at hand still reach a provider in the cloud.
THEOREM RevocationIsEffective == Spec => []RevocationTakesEffect
<1>1. LeakInv => RevocationTakesEffect
    <2> SUFFICES ASSUME LeakInv
                 PROVE  leaked <= MaxAttempts
        BY DEF RevocationTakesEffect
    <2>1. Pending \in Int /\ Pending >= 0 /\ leaked \in Nat
        BY DEF LeakInv, Pending, TypeInv, TypeOK, Sweeps
    <2> QED
        BY <2>1, SweepAssumption DEF LeakInv
<1> QED
    BY <1>1, LeakInit, LeakStep, PTL DEF Spec

-----------------------------------------------------------------------------
(***************************************************************************)
(* How the task's own state moves on, for the two invariants below.        *)
(***************************************************************************)

\* A sweep that has not yet read the patterns, or has ended.
Early == {"expire", "level", "events", "patterns"}

\* The sweep goes on with what it has, or less.
Onward ==
    /\ sweep'.todo \subseteq sweep.todo
    /\ sweep'.pc \notin Early => sweep.pc \notin Early /\ sweep'.known = sweep.known
    /\ sweep'.pc \in Busy =>
          /\ sweep.pc \in Busy
          /\ sweep'.current = sweep.current
          /\ sweep'.pattern = sweep.pattern

LEMMA AsleepOnward == sweep' = Sleeping => Onward
    BY DEF Onward, Sleeping, Early, Busy

LEMMA AfterOnward ==
    ASSUME sweep.pc \notin Early, NEW rest \in SUBSET sweep.todo, sweep' = After(rest)
    PROVE  Onward
    BY AfterTodo DEF Onward, Early, Busy

\* The steps of the task that neither detect, nor read the patterns, nor insert.
LEMMA StepsOnward ==
    ASSUME sweep \in Sweeps,
           \/ ExpireEvents \/ ReadLevel \/ SweepFails \/ LinkEvents \/ ReadProvider
           \/ PassGate \/ Send \/ InsertRecommendation \/ RejectAnswer \/ ProviderFails
           \/ \E d \in sweep.todo : UpdatePattern(d)
    PROVE  Onward
<1>1. ASSUME sweep.pc \notin Early, sweep' = Handled
      PROVE  Onward
    BY <1>1, AfterOnward DEF Handled
<1>2. CASE ExpireEvents
    BY <1>2 DEF ExpireEvents, Onward, Early, Busy, Sweeps
<1>3. CASE ReadLevel
    BY <1>3 DEF ReadLevel, Onward, Early, Busy, Sweeps
<1>4. CASE SweepFails
    BY <1>4, AsleepOnward DEF SweepFails
<1>5. CASE LinkEvents
    BY <1>5 DEF LinkEvents, Onward, Early, Busy, Sweeps
<1>6. CASE ReadProvider
    <2>1. ASSUME NEW p \in Providers, sweep.pc = "provider",
                 sweep' = [sweep EXCEPT !.pc = "gate", !.provider = p]
          PROVE  Onward
        BY <2>1 DEF Onward, Early, Busy, Sweeps
    <2>2. sweep.pc = "provider" /\ sweep.pc \notin Early
        BY <1>6 DEF ReadProvider, Early
    <2> QED
        BY <1>6, <1>1, <2>1, <2>2 DEF ReadProvider
<1>7. CASE PassGate
    <2>1. CASE sweep' = [sweep EXCEPT !.pc = "send", !.left = MaxAttempts]
        BY <1>7, <2>1 DEF PassGate, Onward, Early, Busy, Sweeps
    <2> QED
        BY <1>7, <1>1, <2>1 DEF PassGate, Early
<1>8. CASE Send
    BY <1>8 DEF Send, Onward, Early, Busy, Sweeps
<1>9. CASE InsertRecommendation
    BY <1>9, <1>1 DEF InsertRecommendation, Early
<1>10. CASE RejectAnswer
    <2>1. CASE sweep' = [sweep EXCEPT !.pc = "send", !.left = @ - 1]
        BY <1>10, <2>1 DEF RejectAnswer, Onward, Early, Busy, Sweeps
    <2> QED
        BY <1>10, <1>1, <2>1 DEF RejectAnswer, Early
<1>11. CASE ProviderFails
    BY <1>11, <1>1 DEF ProviderFails, Early
<1>12. ASSUME NEW d \in sweep.todo, UpdatePattern(d)
       PROVE  Onward
    BY <1>12, AfterOnward DEF UpdatePattern, Early
<1> QED
    BY <1>2, <1>3, <1>4, <1>5, <1>6, <1>7, <1>8, <1>9, <1>10, <1>11, <1>12

LEMMA SameOnward == sweep' = sweep => Onward
    BY DEF Onward

LEMMA DetectedTodo ==
    ASSUME sweep \in Sweeps, DetectPatterns
    PROVE  /\ sweep'.pc \in Early
           /\ \A d \in sweep'.todo : \E w \in Workflows :
                 d.workflow = w /\ d.events = Of(w, events)
           /\ \A c, d \in sweep'.todo : c.workflow = d.workflow => c = d
<1> DEFINE found == {[workflow |-> w, events |-> Of(w, events)] :
                        w \in {v \in Workflows : Detectable(v)}}
<1>1. /\ \A d \in found : \E w \in Workflows : d.workflow = w /\ d.events = Of(w, events)
      /\ \A c, d \in found : c.workflow = d.workflow => c = d
    OBVIOUS
<1>2. sweep' = Sleeping \/ sweep' = [sweep EXCEPT !.pc = "patterns", !.todo = found]
    BY DEF DetectPatterns
<1> HIDE DEF found
<1>3. CASE sweep' = Sleeping
    BY <1>3 DEF Sleeping, Early
<1>4. CASE sweep' = [sweep EXCEPT !.pc = "patterns", !.todo = found]
    <2>1. sweep'.pc = "patterns" /\ sweep'.todo = found
        BY <1>4 DEF Sweeps
    <2> QED
        BY <1>1, <2>1 DEF Early
<1> QED
    BY <1>2, <1>3, <1>4

LEMMA UpdatedPatterns ==
    ASSUME patterns \subseteq Patterns, NEW d, UpdatePattern(d)
    PROVE  /\ \A p \in patterns' : \E q \in patterns : p.id = q.id /\ p.workflow = q.workflow
           /\ \A p \in patterns : \E q \in patterns' : p.id = q.id /\ p.workflow = q.workflow
<1> DEFINE new(q) == [q EXCEPT !.count = Cardinality(d.events)]
<1>1. \A q \in patterns : new(q).id = q.id /\ new(q).workflow = q.workflow
    BY DEF Patterns
<1>2. CASE UNCHANGED patterns
    BY <1>2
<1>3. ASSUME NEW p \in KnownAs(d), patterns' = {IF q.id = p.id THEN new(q) ELSE q : q \in patterns}
      PROVE  /\ \A s \in patterns' : \E q \in patterns : s = q \/ s = new(q)
             /\ \A q \in patterns : q \in patterns' \/ new(q) \in patterns'
    BY <1>3
<1>4. CASE ~UNCHANGED patterns
    <2>1. PICK p \in KnownAs(d) : patterns' = {IF q.id = p.id THEN new(q) ELSE q : q \in patterns}
        BY <1>4 DEF UpdatePattern
    <2> HIDE DEF new
    <2> QED
        BY <1>1, <1>3, <2>1
<1> QED
    BY <1>2, <1>4

-----------------------------------------------------------------------------
(***************************************************************************)
(* Rows that refer to each other.                                          *)
(***************************************************************************)

\* What a sweep has read of a workflow still fits the table: an event may be
\* gone, but none has taken its id for another workflow.
Grounded(d) ==
    \A e \in d.events :
        /\ e.workflow = d.workflow
        /\ e.id <= lastEvent
        /\ \A f \in events : f.id = e.id => f.workflow = e.workflow

EventIdsGrow ==
    /\ \A e \in events : e.id <= lastEvent
    /\ \A e, f \in events : e.id = f.id => e.workflow = f.workflow
    /\ \A d \in sweep.todo : Grounded(d)
    /\ sweep.pc \in Busy => Grounded(sweep.current)

PatternIdsGrow ==
    /\ \A p \in patterns : p.id <= lastPattern
    /\ sweep.pc \in Busy =>
          \A p \in patterns : p.id = sweep.pattern => p.workflow = sweep.current.workflow

RowsInv == TypeInv /\ EventIdsGrow /\ PatternIdsGrow /\ RowsBelongTogether

LEMMA RowsInit == Init => RowsInv
    BY InitTyped
    DEF Init, RowsInv, EventIdsGrow, PatternIdsGrow, RowsBelongTogether, Sleeping, Busy

LEMMA EventIdsStep == RowsInv /\ [Next]_vars => EventIdsGrow'
<1> SUFFICES ASSUME RowsInv, [Next]_vars
             PROVE  EventIdsGrow'
    OBVIOUS
<1> USE DEF RowsInv
<1>t. TypeInv /\ TypeInv' /\ sweep \in Sweeps /\ lastEvent \in Nat
      /\ events \subseteq Events /\ sweep.todo \subseteq Detections
      /\ (sweep.pc \in Busy => sweep.current \in Detections)
    BY StepTyped, SweepAssumption DEF TypeInv, TypeOK, Sweeps
<1>n. /\ \A e \in events : e.id \in Nat
      /\ \A d \in Detections : \A e \in d.events : e.id \in Nat
    BY <1>t DEF Events, EventIds, Detections
<1>1. ASSUME Onward, events' \subseteq events, UNCHANGED lastEvent
      PROVE  EventIdsGrow'
    BY <1>1 DEF EventIdsGrow, Grounded, Onward
<1>2. ASSUME NEW w \in Workflows, Capture(w)
      PROVE  EventIdsGrow'
    <2>1. /\ lastEvent' = lastEvent + 1 /\ sweep' = sweep
          /\ events' = events \cup {[id |-> lastEvent', workflow |-> w, level |-> level]}
        BY <1>2 DEF Capture
    <2>2. ASSUME NEW d \in Detections, Grounded(d)
          PROVE  Grounded(d)'
        BY <2>1, <2>2, <1>t, <1>n DEF Grounded
    <2>3. /\ \A e \in events' : e.id <= lastEvent'
          /\ \A e, f \in events' : e.id = f.id => e.workflow = f.workflow
        BY <2>1, <1>t, <1>n DEF EventIdsGrow
    <2> QED
        BY <2>1, <2>2, <2>3, <1>t DEF EventIdsGrow, Grounded
<1>3. ASSUME DetectPatterns
      PROVE  EventIdsGrow'
    <2>1. /\ sweep'.pc \notin Busy /\ UNCHANGED <<events, lastEvent>>
          /\ \A d \in sweep'.todo : \E w \in Workflows :
                d.workflow = w /\ d.events = Of(w, events)
        BY <1>3, <1>t, DetectedTodo DEF DetectPatterns, tables, Early, Busy
    <2> QED
        BY <2>1 DEF EventIdsGrow, Grounded, Of
<1>4. ASSUME ReadPatterns
      PROVE  EventIdsGrow'
    <2>1. sweep'.todo = sweep.todo /\ sweep'.pc \notin Busy /\ UNCHANGED <<events, lastEvent>>
        BY <1>4, <1>t DEF ReadPatterns, tables, Busy, Sweeps
    <2> QED
        BY <2>1 DEF EventIdsGrow, Grounded
<1>5. ASSUME NEW d \in sweep.todo, InsertPattern(d)
      PROVE  EventIdsGrow'
    <2>1. sweep'.todo = sweep.todo \ {d} /\ sweep'.current = d /\ UNCHANGED <<events, lastEvent>>
        BY <1>5, <1>t DEF InsertPattern, Sweeps
    <2> QED
        BY <2>1 DEF EventIdsGrow, Grounded
<1>6. ASSUME SweepStep, ~DetectPatterns, ~ReadPatterns, \A d \in sweep.todo : ~InsertPattern(d)
      PROVE  EventIdsGrow'
    <2>1. Onward
        BY <1>6, <1>t, StepsOnward DEF SweepStep
    <2>2. events' \subseteq events /\ UNCHANGED lastEvent
        <3>1. CASE ExpireEvents
            BY <3>1 DEF ExpireEvents, Remove, tables
        <3>2. CASE LinkEvents \/ InsertRecommendation
            BY <3>2 DEF LinkEvents, InsertRecommendation
        <3>3. CASE ReadLevel \/ SweepFails \/ ReadProvider \/ PassGate \/ Send
                   \/ RejectAnswer \/ ProviderFails
            BY <3>3
            DEF tables, ReadLevel, SweepFails, ReadProvider, PassGate, Send, RejectAnswer,
                ProviderFails
        <3>4. CASE \E d \in sweep.todo : UpdatePattern(d)
            BY <3>4 DEF UpdatePattern
        <3> QED
            BY <1>6, <3>1, <3>2, <3>3, <3>4 DEF SweepStep
    <2> QED
        BY <1>1, <2>1, <2>2
<1>7. ASSUME UNCHANGED sweep, events' \subseteq events, UNCHANGED lastEvent
      PROVE  EventIdsGrow'
    BY <1>1, <1>7, SameOnward
<1>8. CASE Restart
    BY <1>1, <1>8, AsleepOnward DEF Restart, tables
<1> QED
    BY <1>2, <1>3, <1>4, <1>5, <1>6, <1>7, <1>8
    DEF Next, vars, tables, SetLevel, Age, DeleteEvents, Remove, DeleteAllData,
        SetCloudConsent, ApplyConsent, SetAiProvider, ActivateProvider

LEMMA PatternIdsStep == RowsInv /\ [Next]_vars => PatternIdsGrow'
<1> SUFFICES ASSUME RowsInv, [Next]_vars
             PROVE  PatternIdsGrow'
    OBVIOUS
<1> USE DEF RowsInv
<1>t. sweep \in Sweeps /\ lastPattern \in Nat /\ \A p \in patterns : p.id \in Nat
    BY SweepAssumption DEF TypeInv, TypeOK, Patterns, PatternIds
<1>1. ASSUME Onward, UNCHANGED lastPattern,
             \A p \in patterns' : \E q \in patterns : p.id = q.id /\ p.workflow = q.workflow
      PROVE  PatternIdsGrow'
    BY <1>1 DEF PatternIdsGrow, Onward
<1>2. ASSUME sweep'.pc \notin Busy, UNCHANGED <<patterns, lastPattern>>
      PROVE  PatternIdsGrow'
    BY <1>2 DEF PatternIdsGrow
<1>3. ASSUME NEW d \in sweep.todo, UpdatePattern(d)
      PROVE  PatternIdsGrow'
    <2>1. Onward
        BY <1>3, <1>t, StepsOnward
    <2> QED
        BY <1>1, <1>3, <2>1, UpdatedPatterns DEF UpdatePattern, TypeInv, TypeOK
<1>4. ASSUME NEW d \in sweep.todo, InsertPattern(d)
      PROVE  PatternIdsGrow'
    <2>1. /\ sweep'.current = d /\ sweep'.pattern = lastPattern + 1
          /\ lastPattern' = lastPattern + 1
          /\ patterns' = patterns \cup {[id |-> lastPattern + 1, workflow |-> d.workflow,
                                         count |-> Cardinality(d.events)]}
        BY <1>4, <1>t DEF InsertPattern, Sweeps
    <2> QED
        BY <2>1, <1>t DEF PatternIdsGrow
<1>5. ASSUME SweepStep, \A d \in sweep.todo : ~InsertPattern(d) /\ ~UpdatePattern(d)
      PROVE  PatternIdsGrow'
    <2>1. UNCHANGED <<patterns, lastPattern>>
        <3>1. CASE ExpireEvents
            BY <3>1 DEF ExpireEvents, Remove, tables
        <3>2. CASE LinkEvents \/ InsertRecommendation
            BY <3>2 DEF LinkEvents, InsertRecommendation
        <3>3. CASE ReadLevel \/ DetectPatterns \/ ReadPatterns \/ SweepFails \/ ReadProvider
                   \/ PassGate \/ Send \/ RejectAnswer \/ ProviderFails
            BY <3>3
            DEF tables, ReadLevel, DetectPatterns, ReadPatterns, SweepFails, ReadProvider,
                PassGate, Send, RejectAnswer, ProviderFails
        <3> QED
            BY <1>5, <3>1, <3>2, <3>3 DEF SweepStep
    <2>2. CASE DetectPatterns \/ ReadPatterns
        <3>1. sweep'.pc \notin Busy
            BY <2>2, <1>t, DetectedTodo DEF ReadPatterns, Early, Busy, Sweeps
        <3> QED
            BY <1>2, <2>1, <3>1
    <2>3. CASE ~DetectPatterns /\ ~ReadPatterns
        <3>1. Onward
            BY <1>5, <2>3, <1>t, StepsOnward DEF SweepStep
        <3> QED
            BY <1>1, <2>1, <3>1
    <2> QED
        BY <2>2, <2>3
<1>6. ASSUME UNCHANGED <<sweep, lastPattern>>, patterns' \subseteq patterns
      PROVE  PatternIdsGrow'
    BY <1>1, <1>6, SameOnward
<1>7. CASE Restart
    BY <1>1, <1>7, AsleepOnward DEF Restart, tables
<1> QED
    BY <1>3, <1>4, <1>5, <1>6, <1>7
    DEF Next, vars, tables, SetLevel, Capture, Age, DeleteEvents, Remove, DeleteAllData,
        SetCloudConsent, ApplyConsent, SetAiProvider, ActivateProvider

LEMMA RowsStep == RowsInv /\ [Next]_vars => RowsInv'
<1> SUFFICES ASSUME RowsInv, [Next]_vars
             PROVE  RowsInv'
    OBVIOUS
<1>t. /\ TypeInv /\ TypeInv' /\ EventIdsGrow' /\ PatternIdsGrow'
      /\ RowsBelongTogether /\ EventIdsGrow /\ PatternIdsGrow
    BY StepTyped, EventIdsStep, PatternIdsStep DEF RowsInv
<1> SUFFICES RowsBelongTogether'
    BY <1>t DEF RowsInv
<1>1. ASSUME events \subseteq events', UNCHANGED <<links, recommendations>>,
             \A p \in patterns : \E q \in patterns' : p.id = q.id /\ p.workflow = q.workflow
      PROVE  RowsBelongTogether'
    BY <1>1, <1>t DEF RowsBelongTogether
<1>2. ASSUME NEW gone \in SUBSET events, Remove(gone)
      PROVE  RowsBelongTogether'
    <2>1. ASSUME NEW l \in links'
          PROVE  \E p \in patterns, e \in events' : l = <<p.id, e.id>> /\ p.workflow = e.workflow
        <3>1. PICK r \in events' : r.id = l[2] /\ l \in links /\ r \in events
            BY <1>2, <2>1 DEF Remove
        <3>2. PICK p \in patterns, e \in events : l = <<p.id, e.id>> /\ p.workflow = e.workflow
            BY <3>1, <1>t DEF RowsBelongTogether
        <3>3. r.id = e.id /\ r.workflow = e.workflow
            BY <3>1, <3>2, <1>t DEF EventIdsGrow
        <3> QED
            BY <3>1, <3>2, <3>3
    <2> QED
        BY <1>2, <2>1, <1>t DEF Remove, RowsBelongTogether
<1>3. ASSUME NEW c \in Clients, DeleteAllData(c)
      PROVE  RowsBelongTogether'
    BY <1>3 DEF DeleteAllData, RowsBelongTogether
<1>4. ASSUME LinkEvents
      PROVE  RowsBelongTogether'
    <2>1. ASSUME NEW l \in links'
          PROVE  \E p \in patterns, e \in events : l = <<p.id, e.id>> /\ p.workflow = e.workflow
        <3>1. CASE l \in links
            BY <3>1, <1>t DEF RowsBelongTogether
        <3>2. CASE l \notin links
            <4>1. PICK p \in patterns, e \in Linkable(sweep.current.events) :
                      p.id = sweep.pattern /\ l = <<p.id, e.id>>
                BY <1>4, <2>1, <3>2 DEF LinkEvents
            <4>2. PICK r \in events : r.id = e.id
                <5>1. e.id \in Nat /\ e \in sweep.current.events
                    BY <1>4, <1>t, <4>1
                    DEF LinkEvents, TypeInv, Busy, Detections, Events, EventIds, Linkable
                <5> QED
                    BY <4>1, <5>1 DEF Linkable
            <4>3. r.workflow = e.workflow /\ e.workflow = sweep.current.workflow
                BY <1>4, <1>t, <4>1, <4>2
                DEF LinkEvents, EventIdsGrow, Grounded, Busy, Linkable
            <4>4. p.workflow = sweep.current.workflow
                BY <1>4, <1>t, <4>1 DEF LinkEvents, PatternIdsGrow, Busy
            <4> QED
                BY <4>1, <4>2, <4>3, <4>4
        <3> QED
            BY <3>1, <3>2
    <2> QED
        BY <1>4, <2>1, <1>t DEF LinkEvents, RowsBelongTogether
<1>5. ASSUME InsertRecommendation
      PROVE  RowsBelongTogether'
    BY <1>5, <1>t DEF InsertRecommendation, RowsBelongTogether, PatternIdsGrow, Busy
<1>6. ASSUME NEW d \in sweep.todo, UpdatePattern(d)
      PROVE  RowsBelongTogether'
    BY <1>1, <1>6, <1>t, UpdatedPatterns DEF UpdatePattern, TypeInv, TypeOK
<1>7. ASSUME ExpireEvents
      PROVE  RowsBelongTogether'
    BY <1>1, <1>2, <1>7 DEF ExpireEvents, tables
<1>8. ASSUME SweepStep, ~LinkEvents, ~InsertRecommendation, ~ExpireEvents,
             \A d \in sweep.todo : ~UpdatePattern(d)
      PROVE  RowsBelongTogether'
    BY <1>1, <1>8
    DEF SweepStep, tables, ReadLevel, DetectPatterns, ReadPatterns, InsertPattern,
        SweepFails, ReadProvider, PassGate, Send, RejectAnswer, ProviderFails
<1> QED
    BY <1>1, <1>2, <1>3, <1>4, <1>5, <1>6, <1>7, <1>8
    DEF Next, vars, tables, SetLevel, Capture, Age, DeleteEvents, Restart,
        SetCloudConsent, ApplyConsent, SetAiProvider, ActivateProvider

\* Whatever is deleted and captured between the calls of a sweep, a link and a
\* recommendation are about the workflow of their pattern.
THEOREM RowsAlwaysBelongTogether == Spec => []RowsBelongTogether
<1>1. RowsInv => RowsBelongTogether
    BY DEF RowsInv
<1> QED
    BY <1>1, RowsInit, RowsStep, PTL DEF Spec

-----------------------------------------------------------------------------
(***************************************************************************)
(* One pattern per workflow, one recommendation per pattern.               *)
(***************************************************************************)

\* Only the task inserts patterns: what it did not know when it read them is
\* unknown until it inserts it itself, and it has detected each workflow once.
OnePattern ==
    /\ \A p, q \in patterns : p.workflow = q.workflow => p = q
    /\ \A c, d \in sweep.todo : c.workflow = d.workflow => c = d
    /\ sweep.pc \notin Early =>
          \A d \in sweep.todo, p \in patterns : p.workflow = d.workflow => KnownAs(d) # {}

OneRecommendation ==
    /\ \A r \in recommendations : r.pattern <= lastPattern
    /\ sweep.pc \in Busy => \A r \in recommendations : r.pattern # sweep.pattern

OnceInv == RowsInv /\ OnePattern /\ OneRecommendation

LEMMA OnceInit == Init => OnceInv
    BY RowsInit DEF Init, OnceInv, OnePattern, OneRecommendation, Sleeping, Busy, Early

LEMMA OnePatternStep == OnceInv /\ [Next]_vars => OnePattern'
<1> SUFFICES ASSUME OnceInv, [Next]_vars
             PROVE  OnePattern'
    OBVIOUS
<1> USE DEF OnceInv, RowsInv
<1>t. sweep \in Sweeps /\ patterns \subseteq Patterns
    BY DEF TypeInv, TypeOK
<1>1. ASSUME Onward, patterns' \subseteq patterns
      PROVE  OnePattern'
    BY <1>1 DEF OnePattern, Onward, KnownAs
<1>2. ASSUME DetectPatterns
      PROVE  OnePattern'
    BY <1>2, <1>t, DetectedTodo DEF DetectPatterns, tables, OnePattern
<1>3. ASSUME ReadPatterns
      PROVE  OnePattern'
    <2>1. sweep'.known = patterns /\ sweep'.todo = sweep.todo /\ patterns' = patterns
        BY <1>3, <1>t DEF ReadPatterns, tables, Sweeps
    <2> QED
        BY <2>1 DEF OnePattern, KnownAs
<1>4. ASSUME NEW d \in sweep.todo, UpdatePattern(d)
      PROVE  OnePattern'
    <2>1. Onward
        BY <1>4, <1>t, StepsOnward
    <2>2. \A p \in patterns' : \E q \in patterns : p.id = q.id /\ p.workflow = q.workflow
        BY <1>4, <1>t, UpdatedPatterns
    <2>3. \A p, q \in patterns' : p.workflow = q.workflow => p = q
        <3> DEFINE new(q) == [q EXCEPT !.count = Cardinality(d.events)]
        <3>1. \A q \in patterns : new(q).workflow = q.workflow
            BY <1>t DEF Patterns
        <3>2. CASE UNCHANGED patterns
            BY <3>2 DEF OnePattern
        <3>3. CASE ~UNCHANGED patterns
            <4>1. PICK k \in KnownAs(d) :
                      patterns' = {IF q.id = k.id THEN new(q) ELSE q : q \in patterns}
                BY <1>4, <3>3 DEF UpdatePattern
            <4> HIDE DEF new
            <4> QED
                BY <3>1, <4>1 DEF OnePattern
        <3> QED
            BY <3>2, <3>3
    <2> QED
        BY <2>1, <2>2, <2>3 DEF OnePattern, Onward, KnownAs
<1>5. ASSUME NEW d \in sweep.todo, InsertPattern(d)
      PROVE  OnePattern'
    <2>1. /\ sweep'.todo = sweep.todo \ {d} /\ sweep'.known = sweep.known
          /\ sweep.pc \notin Early /\ KnownAs(d) = {}
        BY <1>5, <1>t DEF InsertPattern, Sweeps, Early
    <2>2. \A p \in patterns' : p \in patterns \/ p.workflow = d.workflow
        BY <1>5 DEF InsertPattern
    <2>3. \A p \in patterns : p.workflow # d.workflow
        BY <2>1 DEF OnePattern
    <2>4. \A p, q \in patterns' : p.workflow = q.workflow => p = q
        BY <1>5, <2>3 DEF InsertPattern, OnePattern
    <2>5. \A c \in sweep'.todo : c.workflow # d.workflow
        BY <2>1 DEF OnePattern
    <2> QED
        BY <2>1, <2>2, <2>4, <2>5 DEF OnePattern, KnownAs
<1>6. ASSUME SweepStep, ~DetectPatterns, ~ReadPatterns,
             \A d \in sweep.todo : ~InsertPattern(d) /\ ~UpdatePattern(d)
      PROVE  OnePattern'
    <2>1. Onward
        BY <1>6, <1>t, StepsOnward DEF SweepStep
    <2>2. patterns' = patterns
        <3>1. CASE ExpireEvents
            BY <3>1 DEF ExpireEvents, Remove, tables
        <3>2. CASE LinkEvents \/ InsertRecommendation
            BY <3>2 DEF LinkEvents, InsertRecommendation
        <3>3. CASE ReadLevel \/ SweepFails \/ ReadProvider \/ PassGate \/ Send
                   \/ RejectAnswer \/ ProviderFails
            BY <3>3
            DEF tables, ReadLevel, SweepFails, ReadProvider, PassGate, Send, RejectAnswer,
                ProviderFails
        <3> QED
            BY <1>6, <3>1, <3>2, <3>3 DEF SweepStep
    <2> QED
        BY <1>1, <2>1, <2>2
<1>7. ASSUME UNCHANGED sweep, patterns' \subseteq patterns
      PROVE  OnePattern'
    BY <1>1, <1>7, SameOnward
<1>8. CASE Restart
    BY <1>1, <1>8, AsleepOnward DEF Restart, tables
<1> QED
    BY <1>2, <1>3, <1>4, <1>5, <1>6, <1>7, <1>8
    DEF Next, vars, tables, SetLevel, Capture, Age, DeleteEvents, Remove, DeleteAllData,
        SetCloudConsent, ApplyConsent, SetAiProvider, ActivateProvider

LEMMA OneRecommendationStep == OnceInv /\ [Next]_vars => OneRecommendation'
<1> SUFFICES ASSUME OnceInv, [Next]_vars
             PROVE  OneRecommendation'
    OBVIOUS
<1> USE DEF OnceInv, RowsInv
<1>t. /\ sweep \in Sweeps /\ lastPattern \in Nat
      /\ \A r \in recommendations : r.pattern \in Nat
    BY SweepAssumption DEF TypeInv, TypeOK, PatternIds
<1>1. ASSUME Onward, recommendations' \subseteq recommendations, UNCHANGED lastPattern
      PROVE  OneRecommendation'
    BY <1>1 DEF OneRecommendation, Onward
<1>2. ASSUME sweep'.pc \notin Busy, UNCHANGED <<recommendations, lastPattern>>
      PROVE  OneRecommendation'
    BY <1>2 DEF OneRecommendation
<1>3. ASSUME NEW d \in sweep.todo, InsertPattern(d)
      PROVE  OneRecommendation'
    <2>1. /\ sweep'.pattern = lastPattern + 1 /\ lastPattern' = lastPattern + 1
          /\ recommendations' = recommendations
        BY <1>3, <1>t DEF InsertPattern, Sweeps
    <2> QED
        BY <2>1, <1>t DEF OneRecommendation
<1>4. ASSUME InsertRecommendation
      PROVE  OneRecommendation'
    <2>1. sweep'.pc \notin Busy /\ sweep.pc \in Busy
        BY <1>4, AfterTodo DEF InsertRecommendation, Handled, Busy
    <2>2. \A r \in recommendations' : r \in recommendations
                \/ \E p \in patterns : r.pattern = p.id
        BY <1>4 DEF InsertRecommendation
    <2> QED
        BY <1>4, <2>1, <2>2 DEF InsertRecommendation, OneRecommendation, PatternIdsGrow
<1>5. ASSUME SweepStep, ~InsertRecommendation, \A d \in sweep.todo : ~InsertPattern(d)
      PROVE  OneRecommendation'
    <2>1. UNCHANGED <<recommendations, lastPattern>>
        <3>1. CASE ExpireEvents
            BY <3>1 DEF ExpireEvents, Remove, tables
        <3>2. CASE LinkEvents
            BY <3>2 DEF LinkEvents
        <3>3. ASSUME NEW d \in sweep.todo, UpdatePattern(d)
              PROVE  UNCHANGED <<recommendations, lastPattern>>
            BY <3>3 DEF UpdatePattern
        <3>4. CASE ReadLevel \/ DetectPatterns \/ ReadPatterns \/ SweepFails \/ ReadProvider
                   \/ PassGate \/ Send \/ RejectAnswer \/ ProviderFails
            BY <3>4
            DEF tables, ReadLevel, DetectPatterns, ReadPatterns, SweepFails, ReadProvider,
                PassGate, Send, RejectAnswer, ProviderFails
        <3> QED
            BY <1>5, <3>1, <3>2, <3>3, <3>4 DEF SweepStep
    <2>2. CASE DetectPatterns \/ ReadPatterns
        <3>1. sweep'.pc \notin Busy
            BY <2>2, <1>t, DetectedTodo DEF ReadPatterns, Early, Busy, Sweeps
        <3> QED
            BY <1>2, <2>1, <3>1
    <2>3. CASE ~DetectPatterns /\ ~ReadPatterns
        <3>1. Onward
            BY <1>5, <2>3, <1>t, StepsOnward DEF SweepStep
        <3> QED
            BY <1>1, <2>1, <3>1
    <2> QED
        BY <2>2, <2>3
<1>6. ASSUME UNCHANGED <<sweep, lastPattern>>, recommendations' \subseteq recommendations
      PROVE  OneRecommendation'
    BY <1>1, <1>6, SameOnward
<1>7. CASE Restart
    BY <1>1, <1>7, AsleepOnward DEF Restart, tables
<1> QED
    BY <1>3, <1>4, <1>5, <1>6, <1>7
    DEF Next, vars, tables, SetLevel, Capture, Age, DeleteEvents, Remove, DeleteAllData,
        SetCloudConsent, ApplyConsent, SetAiProvider, ActivateProvider

\* Across sweeps that fail, crashes and delete-alls, a workflow has one pattern,
\* and a pattern is never given a second recommendation.
THEOREM SuggestsOnce == Spec => []SuggestedOnce
<1>1. OnceInv => SuggestedOnce
    BY DEF OnceInv, OnePattern, OneRecommendation, SuggestedOnce, Busy
<1>2. OnceInv /\ [Next]_vars => OnceInv'
    BY RowsStep, OnePatternStep, OneRecommendationStep DEF OnceInv
<1> QED
    BY <1>1, <1>2, OnceInit, PTL DEF Spec

=============================================================================
