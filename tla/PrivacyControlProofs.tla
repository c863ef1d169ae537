------------------------ MODULE PrivacyControlProofs ------------------------
(***************************************************************************)
(* What holds of the privacy commands for every set of callers, levels,    *)
(* floors and faults.                                                      *)
(***************************************************************************)
EXTENDS PrivacyControl, TLAPS

\* The floor of a level is a level, and bounds both its arguments below.
LEMMA LevelFacts ==
    /\ Manual \in Levels
    /\ InitialPrivacyState \in PrivacyStates
    /\ CurrentManifestVersion \in ManifestVersions
    /\ \A floor, choice \in Levels :
          /\ EffectivePrivacyLevel(floor, choice) \in Levels
          /\ EffectivePrivacyLevel(floor, choice) >= floor
          /\ EffectivePrivacyLevel(floor, choice) >= choice
    BY DEF Manual, Levels, InitialPrivacyState, PrivacyStates,
           CurrentManifestVersion, ManifestVersions, EffectivePrivacyLevel

\* An idle client's record is a call record.
LEMMA NoCallTyped == NoCall \in Calls /\ NoCall.pc = "idle" /\ NoCall.op = "none"
    BY LevelFacts DEF NoCall, Calls, Ops

\* What a handler writes back is a row of the same type.
LEMMA UpdatedTyped ==
    ASSUME NEW k \in Calls
    PROVE  Updated(k) \in PrivacyStates
    BY LevelFacts DEF Updated, Calls, PrivacyStates

\* What a handler appends leaves the audit log well formed.
LEMMA AuditedTyped ==
    ASSUME auditLog \in AuditLogs, NEW k \in Calls
    PROVE  Audited(k) \in AuditLogs
    BY LevelFacts DEF Audited, Calls, AuditLogs

\* Every command changes a field of the row.
LEMMA FieldTyped == \A op : FieldOf(op) \in Fields
    BY DEF FieldOf, Fields

\* A launch resolves the policy to a level.
LEMMA ResolvedFloorTyped ==
    ASSUME TypeOK, ResolveEnterprisePolicy
    PROVE  policyFloor' \in Levels /\ storedFloor' \in Levels
    BY ConstantsAssumption, LevelFacts DEF TypeOK, ResolveEnterprisePolicy

\* A new profile is well typed, whatever policy was persisted.
LEMMA InitTyped == Init => TypeOK
    BY ConstantsAssumption, LevelFacts, NoCallTyped
    DEF Init, TypeOK, EmptyAuditLog, AuditLogs, NoHistory, Histories

\* Every step keeps the types.
LEMMA StepTyped == TypeOK /\ [Next]_vars => TypeOK'
<1> SUFFICES ASSUME TypeOK, [Next]_vars
             PROVE  TypeOK'
    OBVIOUS
<1> USE DEF TypeOK
<1>1. ASSUME NEW c \in Clients, NEW requested \in RequestLevels,
             NEW acknowledged \in BOOLEAN,
             InvokeSetPrivacyLevel(c, requested, acknowledged)
      PROVE  TypeOK'
    <2> DEFINE effective == EffectivePrivacyLevel(policyFloor, requested)
    <2>1. effective \in Levels
        BY ConstantsAssumption, LevelFacts
    <2>2. [NoCall EXCEPT !.op = "set_privacy_level", !.pc = "read",
                         !.level = effective, !.acknowledged = acknowledged] \in Calls
        BY <2>1, LevelFacts DEF NoCall, Calls, Ops
    <2>3. call' \in [Clients -> Calls]
        BY <1>1, <2>2 DEF InvokeSetPrivacyLevel
    <2>4. history' \in Histories
        BY <1>1, <2>1 DEF InvokeSetPrivacyLevel, Histories
    <2> QED
        BY <1>1, <2>3, <2>4 DEF InvokeSetPrivacyLevel
<1>2. ASSUME NEW c \in Clients, NEW op \in Ops, Invoke(c, op)
      PROVE  TypeOK'
    <2>1. [NoCall EXCEPT !.op = op, !.pc = "read"] \in Calls
        BY LevelFacts DEF NoCall, Calls
    <2>2. history' \in Histories
        BY <1>2 DEF Invoke, Histories
    <2> QED
        BY <1>2, <2>1, <2>2 DEF Invoke
<1>3. ASSUME NEW c \in Clients, ReadState(c)
      PROVE  TypeOK'
    BY <1>3, ZenonT(30) DEF ReadState, Calls
<1>4. ASSUME NEW c \in Clients, WriteState(c)
      PROVE  TypeOK'
    BY <1>4, UpdatedTyped, LevelFacts, ZenonT(30) DEF WriteState, Calls
<1>5. ASSUME NEW c \in Clients, WriteFails(c)
      PROVE  TypeOK'
    BY <1>5, NoCallTyped DEF WriteFails
<1>6. ASSUME NEW c \in Clients, AppendAudit(c)
      PROVE  TypeOK'
    BY <1>6, NoCallTyped, AuditedTyped, FieldTyped DEF AppendAudit
<1>7. ASSUME NEW c \in Clients, DeleteAllData(c)
      PROVE  TypeOK'
    BY <1>7, LevelFacts DEF DeleteAllData, EmptyAuditLog, AuditLogs
<1>8. ASSUME Restart
      PROVE  TypeOK'
    BY <1>8, ResolvedFloorTyped, NoCallTyped, FieldTyped DEF Restart
<1>9. CASE UNCHANGED vars
    BY <1>9 DEF vars
<1> QED
    BY <1>1, <1>2, <1>3, <1>4, <1>5, <1>6, <1>7, <1>8, <1>9 DEF Next

\* The state of the command handlers is always well typed.
THEOREM TypeCorrect == Spec => []TypeOK
    BY InitTyped, StepTyped, PTL DEF Spec

-----------------------------------------------------------------------------
(***************************************************************************)
(* Provenance.  NothingForged alone is not inductive: a handler writes the *)
(* row it read earlier, so its copy and its request must be grounded too.  *)
(***************************************************************************)
RequestGrounded(k, asked) ==
    /\ k.op = "set_privacy_level" =>
          k.level \in asked.acknowledged \cup asked.imposed
    /\ k.op = "acknowledge_privacy_manifest" => asked.reconsented
    /\ k.op \in {"complete_onboarding", "resume_observation"} => asked.started

CallGrounded(k, asked) == RequestGrounded(k, asked) /\ Grounded(k.snap, asked)

CallsGrounded == \A c \in Clients : CallGrounded(call[c], history)

\* A call past its invocation is one of the five commands.
CallsNamed == \A c \in Clients : call[c].pc # "idle" => call[c].op \in Ops

ProvenanceInv == TypeOK /\ CallsNamed /\ NothingForged /\ CallsGrounded

\* What users have asked for only grows.
Extends(later, earlier) ==
    /\ earlier.acknowledged \subseteq later.acknowledged
    /\ earlier.imposed \subseteq later.imposed
    /\ earlier.started => later.started
    /\ earlier.reconsented => later.reconsented

\* A grounded copy stays grounded when its handler updates it.
LEMMA UpdatedGrounded ==
    ASSUME NEW k \in Calls, k.op \in Ops, NEW asked, CallGrounded(k, asked)
    PROVE  Grounded(Updated(k), asked)
    BY DEF CallGrounded, Grounded, RequestGrounded, Updated, Calls, Ops, PrivacyStates

\* Asking for more keeps grounded what was grounded.
LEMMA GroundedMonotone ==
    ASSUME NEW earlier, NEW later, Extends(later, earlier)
    PROVE  /\ \A row : Grounded(row, earlier) => Grounded(row, later)
           /\ \A k : CallGrounded(k, earlier) => CallGrounded(k, later)
    BY DEF Extends, Grounded, RequestGrounded, CallGrounded

\* The initial row asks for nothing, and neither does an idle client.
LEMMA NothingAsked ==
    \A asked : Grounded(InitialPrivacyState, asked) /\ CallGrounded(NoCall, asked)
    BY DEF Grounded, InitialPrivacyState, NoCall, CallGrounded, RequestGrounded

\* Nothing was asked for, and the row claims nothing.
LEMMA ProvenanceInit == Init => ProvenanceInv
    BY InitTyped, NothingAsked, NoCallTyped
    DEF Init, ProvenanceInv, CallsNamed, CallsGrounded, NothingForged

\* Every step keeps the row, the copies and the requests grounded.
LEMMA ProvenanceStep == ProvenanceInv /\ [Next]_vars => ProvenanceInv'
<1> SUFFICES ASSUME ProvenanceInv, [Next]_vars
             PROVE  CallsNamed' /\ NothingForged' /\ CallsGrounded'
    BY StepTyped DEF ProvenanceInv
<1> USE DEF ProvenanceInv, CallsNamed, CallsGrounded, NothingForged
<1>1. ASSUME NEW c \in Clients, NEW requested \in RequestLevels,
             NEW acknowledged \in BOOLEAN,
             InvokeSetPrivacyLevel(c, requested, acknowledged)
      PROVE  CallsNamed' /\ NothingForged' /\ CallsGrounded'
    <2> DEFINE effective == EffectivePrivacyLevel(policyFloor, requested)
    <2> DEFINE new == [NoCall EXCEPT !.op = "set_privacy_level", !.pc = "read",
                                     !.level = effective,
                                     !.acknowledged = acknowledged]
    <2>1. Extends(history', history)
        BY <1>1 DEF InvokeSetPrivacyLevel, Extends, TypeOK, Histories
    <2>2. effective \in history'.acknowledged \cup history'.imposed
        BY <1>1 DEF InvokeSetPrivacyLevel, TypeOK, Histories
    <2>3. new.op = "set_privacy_level" /\ new.level = effective
             /\ new.snap = InitialPrivacyState
        BY DEF NoCall
    <2>4. CallGrounded(new, history')
        <3> HIDE DEF new, effective
        <3> QED BY <2>2, <2>3, NothingAsked DEF CallGrounded, RequestGrounded
    <2>5. call' = [call EXCEPT ![c] = new] /\ privacyState' = privacyState
        BY <1>1 DEF InvokeSetPrivacyLevel
    <2> HIDE DEF new, effective
    <2>6. \A d \in Clients : call'[d] = IF d = c THEN new ELSE call[d]
        BY <2>5 DEF TypeOK
    <2> QED
        BY <2>1, <2>3, <2>4, <2>5, <2>6, GroundedMonotone DEF Ops
<1>2. ASSUME NEW c \in Clients, NEW op \in Ops, Invoke(c, op)
      PROVE  CallsNamed' /\ NothingForged' /\ CallsGrounded'
    <2> DEFINE new == [NoCall EXCEPT !.op = op, !.pc = "read"]
    <2>1. Extends(history', history)
        BY <1>2 DEF Invoke, Extends, TypeOK, Histories
    <2>2. new.op = op /\ new.snap = InitialPrivacyState
        BY DEF NoCall
    <2>3. RequestGrounded(new, history')
        <3>1. /\ op = "acknowledge_privacy_manifest" => history'.reconsented
              /\ op \in {"complete_onboarding", "resume_observation"} =>
                    history'.started
            BY <1>2 DEF Invoke, TypeOK, Histories
        <3>2. op # "set_privacy_level"
            BY <1>2 DEF Invoke
        <3> HIDE DEF new
        <3> QED BY <2>2, <3>1, <3>2 DEF RequestGrounded
    <2>4. call' = [call EXCEPT ![c] = new] /\ privacyState' = privacyState
        BY <1>2 DEF Invoke
    <2> HIDE DEF new
    <2>5. CallGrounded(new, history')
        BY <2>2, <2>3, NothingAsked DEF CallGrounded
    <2>6. \A d \in Clients : call'[d] = IF d = c THEN new ELSE call[d]
        BY <2>4 DEF TypeOK
    <2> QED
        BY <2>1, <2>2, <2>4, <2>5, <2>6, GroundedMonotone
<1>3. ASSUME NEW c \in Clients, ReadState(c)
      PROVE  CallsNamed' /\ NothingForged' /\ CallsGrounded'
    <2>1. \A d \in Clients :
             /\ call'[d].op = call[d].op /\ call'[d].level = call[d].level
             /\ call'[d].pc # "idle" => call[d].pc # "idle"
             /\ call'[d].snap \in {privacyState, call[d].snap}
        BY <1>3 DEF ReadState, TypeOK, Calls
    <2>2. history' = history /\ privacyState' = privacyState
        BY <1>3 DEF ReadState
    <2> QED
        BY <2>1, <2>2 DEF CallGrounded, RequestGrounded
<1>4. ASSUME NEW c \in Clients, WriteState(c)
      PROVE  CallsNamed' /\ NothingForged' /\ CallsGrounded'
    <2>1. \A d \in Clients :
             /\ call'[d].op = call[d].op /\ call'[d].level = call[d].level
             /\ call'[d].pc # "idle" => call[d].pc # "idle"
             /\ call'[d].snap \in {InitialPrivacyState, call[d].snap}
        BY <1>4 DEF WriteState, TypeOK, Calls
    <2>2. history' = history
        BY <1>4 DEF WriteState
    <2>3. privacyState' = Updated(call[c]) /\ call[c].op \in Ops /\ call[c] \in Calls
        BY <1>4 DEF WriteState, TypeOK
    <2>4. Grounded(Updated(call[c]), history)
        BY <2>3, UpdatedGrounded
    <2> QED
        BY <2>1, <2>2, <2>3, <2>4, NothingAsked DEF CallGrounded, RequestGrounded
<1>5. ASSUME NEW c \in Clients, WriteFails(c) \/ AppendAudit(c)
      PROVE  CallsNamed' /\ NothingForged' /\ CallsGrounded'
    <2>1. \A d \in Clients : call'[d] \in {NoCall, call[d]}
        BY <1>5 DEF WriteFails, AppendAudit, TypeOK
    <2>2. history' = history /\ privacyState' = privacyState
        BY <1>5 DEF WriteFails, AppendAudit
    <2> QED
        BY <2>1, <2>2, NothingAsked, NoCallTyped
<1>6. ASSUME NEW c \in Clients, DeleteAllData(c)
      PROVE  CallsNamed' /\ NothingForged' /\ CallsGrounded'
    BY <1>6, NothingAsked DEF DeleteAllData
<1>7. ASSUME Restart
      PROVE  CallsNamed' /\ NothingForged' /\ CallsGrounded'
    BY <1>7, NothingAsked, NoCallTyped DEF Restart
<1>8. CASE UNCHANGED vars
    BY <1>8 DEF vars
<1> QED
    BY <1>1, <1>2, <1>3, <1>4, <1>5, <1>6, <1>7, <1>8 DEF Next

\* However commands, delete-all, errors and restarts interleave, nothing in
\* the row comes from nowhere.
THEOREM NothingForgedAlways == Spec => []NothingForged
<1>1. ProvenanceInv => NothingForged
    BY DEF ProvenanceInv
<1> QED
    BY <1>1, ProvenanceInit, ProvenanceStep, PTL DEF Spec

-----------------------------------------------------------------------------
(***************************************************************************)
(* FR-17 holds where no floor is in force: then only an acknowledged       *)
(* request can name an observing level.                                    *)
(***************************************************************************)
NoFloorInv ==
    /\ ProvenanceInv
    /\ policyFloor = Manual /\ storedFloor = Manual
    /\ history.imposed \subseteq {Manual}

\* Without a floor nothing has been imposed yet.
LEMMA NoFloorInit == Floors \subseteq {Manual} /\ Init => NoFloorInv
    BY ProvenanceInit DEF Init, NoFloorInv, NoHistory

\* Without a floor every observing level in use stays acknowledged.
LEMMA NoFloorStep ==
    Floors \subseteq {Manual} /\ NoFloorInv /\ [Next]_vars => NoFloorInv'
<1> SUFFICES ASSUME Floors \subseteq {Manual}, NoFloorInv, [Next]_vars
             PROVE  /\ policyFloor' = Manual /\ storedFloor' = Manual
                    /\ history'.imposed \subseteq {Manual}
    BY ProvenanceStep DEF NoFloorInv
<1> USE DEF NoFloorInv
<1>1. ASSUME NEW c \in Clients, NEW requested \in RequestLevels,
             NEW acknowledged \in BOOLEAN,
             InvokeSetPrivacyLevel(c, requested, acknowledged)
      PROVE  history'.imposed \subseteq {Manual}
    <2>1. CASE acknowledged
        BY <1>1, <2>1 DEF InvokeSetPrivacyLevel, ProvenanceInv, TypeOK, Histories
    <2>2. CASE ~acknowledged
        <3>1. EffectivePrivacyLevel(policyFloor, requested) = Manual
            BY <1>1, <2>2 DEF InvokeSetPrivacyLevel, EffectivePrivacyLevel, Manual
        <3> QED
            BY <1>1, <2>2, <3>1 DEF InvokeSetPrivacyLevel, ProvenanceInv, TypeOK, Histories
    <2> QED
        BY <2>1, <2>2
<1>2. ASSUME NEW c \in Clients, NEW op \in Ops, Invoke(c, op)
      PROVE  history'.imposed \subseteq {Manual}
    BY <1>2 DEF Invoke, ProvenanceInv, TypeOK, Histories
<1>3. Restart => policyFloor' = Manual /\ storedFloor' = Manual /\ history' = history
    BY DEF Restart, ResolveEnterprisePolicy
<1> QED
    BY <1>1, <1>2, <1>3
    DEF Next, vars, InvokeSetPrivacyLevel, Invoke, ReadState, WriteState, WriteFails,
        AppendAudit, DeleteAllData

\* Without a floor, no level observes unless its permissions were acknowledged.
THEOREM AcknowledgedWithoutFloor ==
    ASSUME Floors \subseteq {Manual}
    PROVE  Spec => []ObservingLevelWasAcknowledged
<1>1. NoFloorInv => ObservingLevelWasAcknowledged
    BY DEF NoFloorInv, ProvenanceInv, NothingForged, Grounded,
           ObservingLevelWasAcknowledged
<1>2. Init => NoFloorInv
    BY NoFloorInit
<1>3. NoFloorInv /\ [Next]_vars => NoFloorInv'
    BY NoFloorStep
<1> QED
    BY <1>1, <1>2, <1>3, PTL DEF Spec

-----------------------------------------------------------------------------
(***************************************************************************)
(* The floor within a launch.  Every copy in flight and every level about  *)
(* to be written is at the floor already, or is Manual.                    *)
(***************************************************************************)
AtFloor(level) == level = Manual \/ level >= policyFloor

LaunchFloorInv ==
    /\ TypeOK
    /\ AtFloor(privacyState.level)
    /\ \A c \in Clients : AtFloor(call[c].level) /\ AtFloor(call[c].snap.level)

\* The initial level is Manual, which no floor forbids.
LEMMA LaunchFloorInit == Init => LaunchFloorInv
    BY InitTyped
    DEF Init, LaunchFloorInv, AtFloor, InitialPrivacyState, NoCall

\* Within a launch every step keeps row, copies and requests at the floor.
LEMMA LaunchFloorStep ==
    "restart" \notin Faults /\ LaunchFloorInv /\ [Next]_vars => LaunchFloorInv'
<1> SUFFICES ASSUME "restart" \notin Faults, LaunchFloorInv, [Next]_vars
             PROVE  /\ AtFloor(privacyState.level)'
                    /\ \A c \in Clients :
                          AtFloor(call[c].level)' /\ AtFloor(call[c].snap.level)'
    BY StepTyped DEF LaunchFloorInv
<1> USE DEF LaunchFloorInv, AtFloor
<1>1. policyFloor' = policyFloor
    BY DEF Next, vars, InvokeSetPrivacyLevel, Invoke, ReadState, WriteState, WriteFails,
           AppendAudit, DeleteAllData, Restart
<1>2. InitialPrivacyState.level = Manual
    BY DEF InitialPrivacyState
<1>3. NoCall.level = Manual /\ NoCall.snap.level = Manual
    BY <1>2 DEF NoCall
<1>4. ASSUME NEW c \in Clients, NEW requested \in RequestLevels,
             NEW acknowledged \in BOOLEAN,
             InvokeSetPrivacyLevel(c, requested, acknowledged)
      PROVE  /\ privacyState' = privacyState
             /\ \A d \in Clients :
                   /\ call'[d].level = call[d].level \/ call'[d].level >= policyFloor
                   /\ call'[d].snap = call[d].snap \/ call'[d].snap = InitialPrivacyState
    <2> DEFINE effective == EffectivePrivacyLevel(policyFloor, requested)
    <2> DEFINE new == [NoCall EXCEPT !.op = "set_privacy_level", !.pc = "read",
                                     !.level = effective,
                                     !.acknowledged = acknowledged]
    <2>1. effective >= policyFloor
        BY ConstantsAssumption, LevelFacts DEF TypeOK
    <2>2. new.level = effective /\ new.snap = InitialPrivacyState
        BY DEF NoCall
    <2>3. privacyState' = privacyState /\ call' = [call EXCEPT ![c] = new]
        BY <1>4 DEF InvokeSetPrivacyLevel
    <2> HIDE DEF new, effective
    <2> QED
        BY <2>1, <2>2, <2>3 DEF TypeOK
<1>5. ASSUME NEW c \in Clients, NEW op \in Ops, Invoke(c, op)
      PROVE  /\ privacyState' = privacyState
             /\ \A d \in Clients :
                   /\ call'[d].level \in {call[d].level, Manual}
                   /\ call'[d].snap \in {call[d].snap, InitialPrivacyState}
    <2> DEFINE new == [NoCall EXCEPT !.op = op, !.pc = "read"]
    <2>1. new.level = Manual /\ new.snap = InitialPrivacyState
        BY DEF NoCall
    <2>2. privacyState' = privacyState /\ call' = [call EXCEPT ![c] = new]
        BY <1>5 DEF Invoke
    <2> HIDE DEF new
    <2> QED
        BY <2>1, <2>2 DEF TypeOK
<1>6. ASSUME NEW c \in Clients, ReadState(c)
      PROVE  /\ privacyState' = privacyState
             /\ \A d \in Clients :
                   /\ call'[d].level = call[d].level
                   /\ call'[d].snap \in {call[d].snap, privacyState}
    BY <1>6 DEF ReadState, TypeOK, Calls
<1>7. ASSUME NEW c \in Clients, WriteState(c)
      PROVE  /\ AtFloor(privacyState.level)'
             /\ \A d \in Clients :
                   /\ call'[d].level = call[d].level
                   /\ call'[d].snap \in {call[d].snap, InitialPrivacyState}
    <2>1. call[c] \in Calls /\ privacyState' = Updated(call[c])
        BY <1>7 DEF WriteState, TypeOK
    <2>2. Updated(call[c]).level \in {call[c].level, call[c].snap.level}
        BY <2>1 DEF Updated, Calls, PrivacyStates
    <2>3. AtFloor(privacyState.level)'
        BY <1>1, <2>1, <2>2
    <2> QED
        BY <1>7, <2>3 DEF WriteState, TypeOK, Calls
<1>8. ASSUME NEW c \in Clients, WriteFails(c) \/ AppendAudit(c)
      PROVE  /\ privacyState' = privacyState
             /\ \A d \in Clients : call'[d] \in {call[d], NoCall}
    BY <1>8 DEF WriteFails, AppendAudit, TypeOK
<1>9. ASSUME NEW c \in Clients, DeleteAllData(c)
      PROVE  privacyState' = InitialPrivacyState /\ call' = call
    BY <1>9 DEF DeleteAllData
<1>10. CASE UNCHANGED vars
    BY <1>1, <1>10 DEF vars
<1> QED
    BY <1>1, <1>2, <1>3, <1>4, <1>5, <1>6, <1>7, <1>8, <1>9, <1>10 DEF Next, Restart

\* From the first launch on, and until the policy changes at a restart, an
\* observing device runs at the floor or above, whatever commands overlap.
THEOREM FloorHoldsWithinLaunch ==
    ASSUME "restart" \notin Faults
    PROVE  Spec => []FloorHolds
<1>1. LaunchFloorInv => FloorHolds
    BY DEF LaunchFloorInv, AtFloor, FloorHolds, Permits
<1>2. Init => LaunchFloorInv
    BY LaunchFloorInit
<1>3. LaunchFloorInv /\ [Next]_vars => LaunchFloorInv'
    BY LaunchFloorStep
<1> QED
    BY <1>1, <1>2, <1>3, PTL DEF Spec

-----------------------------------------------------------------------------
(***************************************************************************)
(* Atomicity for a UI that awaits each command: between a handler's read   *)
(* and its write nothing else writes, so its copy is still the row.        *)
(***************************************************************************)
FreshCopyInv ==
    /\ TypeOK
    /\ CallsNamed
    /\ \A c \in Clients : call[c].pc = "write" => call[c].snap = privacyState

\* No call is in flight, so no copy is stale.
LEMMA FreshCopyInit == Init => FreshCopyInv
    BY InitTyped, NoCallTyped DEF Init, FreshCopyInv, CallsNamed

\* With one caller nothing changes the row between its read and its write.
LEMMA FreshCopyStep ==
    ASSUME NEW client, Clients = {client}, FreshCopyInv, [Next]_vars
    PROVE  FreshCopyInv'
<1> SUFFICES /\ CallsNamed'
             /\ call'[client].pc = "write" => call'[client].snap = privacyState'
    BY StepTyped DEF FreshCopyInv
<1> USE DEF FreshCopyInv, CallsNamed
<1>1. ASSUME NEW requested \in RequestLevels, NEW acknowledged \in BOOLEAN,
             InvokeSetPrivacyLevel(client, requested, acknowledged)
      PROVE  call'[client].pc = "read" /\ call'[client].op \in Ops
    <2> DEFINE effective == EffectivePrivacyLevel(policyFloor, requested)
    <2> DEFINE new == [NoCall EXCEPT !.op = "set_privacy_level", !.pc = "read",
                                     !.level = effective,
                                     !.acknowledged = acknowledged]
    <2>1. new.pc = "read" /\ new.op = "set_privacy_level"
        BY DEF NoCall
    <2>2. call' = [call EXCEPT ![client] = new]
        BY <1>1 DEF InvokeSetPrivacyLevel
    <2> HIDE DEF new, effective
    <2> QED
        BY <2>1, <2>2 DEF TypeOK, Ops
<1>2. ASSUME NEW op \in Ops, Invoke(client, op)
      PROVE  call'[client].pc = "read" /\ call'[client].op \in Ops
    <2> DEFINE new == [NoCall EXCEPT !.op = op, !.pc = "read"]
    <2>1. new.pc = "read" /\ new.op = op
        BY DEF NoCall
    <2>2. call' = [call EXCEPT ![client] = new]
        BY <1>2 DEF Invoke
    <2> HIDE DEF new
    <2> QED
        BY <2>1, <2>2 DEF TypeOK
<1>3. ASSUME ReadState(client)
      PROVE  /\ call'[client].snap = privacyState'
             /\ call'[client].op = call[client].op /\ call[client].pc # "idle"
    BY <1>3 DEF ReadState, TypeOK, Calls
<1>4. ASSUME WriteState(client)
      PROVE  /\ call'[client].pc = "audit"
             /\ call'[client].op = call[client].op /\ call[client].pc # "idle"
    BY <1>4 DEF WriteState, TypeOK, Calls
<1>5. ASSUME WriteFails(client) \/ AppendAudit(client) \/ Restart
      PROVE  call'[client].pc = "idle"
    BY <1>5, NoCallTyped DEF WriteFails, AppendAudit, Restart, TypeOK
<1>6. ASSUME DeleteAllData(client)
      PROVE  call' = call /\ call[client].pc = "idle"
    BY <1>6 DEF DeleteAllData
<1>7. UNCHANGED vars => call' = call /\ privacyState' = privacyState
    BY DEF vars
<1> QED
    BY <1>1, <1>2, <1>3, <1>4, <1>5, <1>6, <1>7 DEF Next

\* PrivacyRow takes its constants from the same domain module.
LEMMA SameDomain ==
    /\ Atomic!CurrentManifestVersion = CurrentManifestVersion
    /\ Atomic!InitialPrivacyState = InitialPrivacyState
    BY DEF Atomic!CurrentManifestVersion, CurrentManifestVersion,
           Atomic!InitialPrivacyState, InitialPrivacyState, Atomic!Manual, Manual

\* Every step of the handlers is a step of PrivacyRow, or leaves the row alone.
LEMMA AtomicStep ==
    ASSUME NEW client, Clients = {client}, FreshCopyInv, [Next]_vars
    PROVE  [Atomic!Next]_privacyState
<1> USE DEF Atomic!Next, Atomic!Command
<1>1. ASSUME WriteState(client)
      PROVE  Atomic!Command
    <2>1. /\ call[client] \in Calls /\ call[client].op \in Ops
          /\ call[client].snap = privacyState
          /\ privacyState' = Updated(call[client])
        BY <1>1 DEF WriteState, FreshCopyInv, CallsNamed, TypeOK
    <2>2. CASE call[client].op = "set_privacy_level"
        <3>1. privacyState' = [privacyState EXCEPT !.level = call[client].level]
            BY <2>1, <2>2 DEF Updated
        <3> QED
            BY <2>1, <3>1 DEF Atomic!SetPrivacyLevel, Calls
    <2>3. CASE call[client].op = "acknowledge_privacy_manifest"
        BY <2>1, <2>3, SameDomain DEF Updated, Atomic!AcknowledgeManifest
    <2>4. CASE call[client].op = "pause_observation"
        BY <2>1, <2>4 DEF Updated, Atomic!PauseObservation
    <2>5. CASE call[client].op \in {"complete_onboarding", "resume_observation"}
        BY <2>1, <2>5 DEF Updated, Atomic!StartObservation
    <2> QED
        BY <2>1, <2>2, <2>3, <2>4, <2>5 DEF Ops
<1>2. DeleteAllData(client) => Atomic!DeleteAllData
    BY SameDomain DEF DeleteAllData, Atomic!DeleteAllData
<1> QED
    BY <1>1, <1>2
    DEF Next, vars, InvokeSetPrivacyLevel, Invoke, ReadState, WriteFails,
        AppendAudit, Restart

\* With a single caller, the read-modify-write handlers implement the atomic
\* commands of PrivacyRow, store errors, crashes and restarts included.
THEOREM SerialCommandsAreAtomic ==
    ASSUME NEW client, Clients = {client}
    PROVE  Spec => CommandsAreAtomic
<1>1. Init => Atomic!Init
    BY SameDomain DEF Init, Atomic!Init
<1>2. Init => FreshCopyInv
    BY FreshCopyInit
<1>3. FreshCopyInv /\ [Next]_vars => FreshCopyInv'
    BY FreshCopyStep
<1>4. FreshCopyInv /\ [Next]_vars => [Atomic!Next]_privacyState
    BY AtomicStep
<1> QED
    BY <1>1, <1>2, <1>3, <1>4, PTL DEF Spec, CommandsAreAtomic, Atomic!Spec

\* With a single caller a pause lasts: only a start command ends it.
THEOREM SerialPausesLast ==
    ASSUME NEW client, Clients = {client}
    PROVE  Spec => OnlyStartCommandsActivate
<1> DEFINE Started ==
        ~privacyState.active /\ privacyState'.active =>
            \E c \in Clients :
               /\ call[c].pc = "write"
               /\ call[c].op \in {"complete_onboarding", "resume_observation"}
<1>1. FreshCopyInv /\ [Next]_vars => [Started]_vars
    <2> SUFFICES ASSUME FreshCopyInv, [Next]_vars, ~privacyState.active, privacyState'.active
                 PROVE  /\ call[client].pc = "write"
                        /\ call[client].op \in {"complete_onboarding", "resume_observation"}
        OBVIOUS
    <2>1. CASE WriteState(client)
        <3>1. /\ call[client] \in Calls /\ call[client].op \in Ops
              /\ call[client].snap = privacyState /\ privacyState \in PrivacyStates
              /\ privacyState' = Updated(call[client])
            BY <2>1 DEF WriteState, FreshCopyInv, CallsNamed, TypeOK
        <3> QED
            BY <2>1, <3>1 DEF WriteState, Updated, Ops, PrivacyStates
    <2>2. CASE DeleteAllData(client)
        BY <2>2 DEF DeleteAllData, InitialPrivacyState
    <2>3. CASE UNCHANGED privacyState
        BY <2>3
    <2> QED
        BY <2>1, <2>2, <2>3
        DEF Next, vars, InvokeSetPrivacyLevel, Invoke, ReadState, WriteFails,
            AppendAudit, Restart
<1>2. Init => FreshCopyInv
    BY FreshCopyInit
<1>3. FreshCopyInv /\ [Next]_vars => FreshCopyInv'
    BY FreshCopyStep
<1> QED
    BY <1>1, <1>2, <1>3, PTL DEF Spec, OnlyStartCommandsActivate

\* A level on its way to the row honours the floor in force.
RequestAtFloor(k) == k.op = "set_privacy_level" => k.level >= policyFloor

FloorRequestsInv == FreshCopyInv /\ \A c \in Clients : RequestAtFloor(call[c])

\* With one caller a level is on its way only within the launch it came in.
LEMMA FloorRequestsStep ==
    ASSUME NEW client, Clients = {client}, FloorRequestsInv, [Next]_vars
    PROVE  FloorRequestsInv'
<1>t. FreshCopyInv /\ FreshCopyInv' /\ TypeOK
    BY FreshCopyStep DEF FloorRequestsInv, FreshCopyInv
<1> SUFFICES RequestAtFloor(call[client])'
    BY <1>t DEF FloorRequestsInv
<1> USE DEF RequestAtFloor
<1>0. RequestAtFloor(call[client])
    BY DEF FloorRequestsInv
<1>1. ASSUME NEW requested \in RequestLevels, NEW acknowledged \in BOOLEAN,
             InvokeSetPrivacyLevel(client, requested, acknowledged)
      PROVE  call'[client].level >= policyFloor /\ policyFloor' = policyFloor
    <2> DEFINE effective == EffectivePrivacyLevel(policyFloor, requested)
    <2>1. effective >= policyFloor
        BY <1>t, ConstantsAssumption, LevelFacts DEF TypeOK
    <2>2. call'[client].level = effective /\ policyFloor' = policyFloor
        BY <1>1, <1>t DEF InvokeSetPrivacyLevel, TypeOK, NoCall
    <2> HIDE DEF effective
    <2> QED
        BY <2>1, <2>2
<1>2. ASSUME NEW op \in Ops, Invoke(client, op)
      PROVE  call'[client].op # "set_privacy_level"
    BY <1>2, <1>t DEF Invoke, TypeOK, NoCall
<1>3. ASSUME ReadState(client) \/ WriteState(client)
      PROVE  /\ call'[client].op = call[client].op /\ call'[client].level = call[client].level
             /\ policyFloor' = policyFloor
    BY <1>3, <1>t DEF ReadState, WriteState, TypeOK, Calls
<1>4. ASSUME WriteFails(client) \/ AppendAudit(client) \/ Restart
      PROVE  call'[client].op = "none"
    BY <1>4, <1>t, NoCallTyped DEF WriteFails, AppendAudit, Restart, TypeOK
<1>5. ASSUME DeleteAllData(client) \/ UNCHANGED vars
      PROVE  call' = call /\ policyFloor' = policyFloor
    BY <1>5 DEF DeleteAllData, vars
<1> QED
    BY <1>0, <1>1, <1>2, <1>3, <1>4, <1>5 DEF Next

\* With a single caller every level written honours the floor in force, across
\* restarts and changes of the policy, but for the reset by delete-all.
THEOREM SerialLevelChangesHonorFloor ==
    ASSUME NEW client, Clients = {client}
    PROVE  Spec => LevelChangesHonorFloor
<1> DEFINE Honored ==
        privacyState'.level # privacyState.level =>
            privacyState'.level >= policyFloor \/ privacyState' = InitialPrivacyState
<1>1. FloorRequestsInv /\ [Next]_vars => [Honored]_vars
    <2> SUFFICES ASSUME FloorRequestsInv, [Next]_vars,
                        privacyState'.level # privacyState.level
                 PROVE  privacyState'.level >= policyFloor
                           \/ privacyState' = InitialPrivacyState
        OBVIOUS
    <2>1. CASE WriteState(client)
        <3>1. /\ call[client] \in Calls /\ call[client].op \in Ops
              /\ call[client].snap = privacyState /\ privacyState \in PrivacyStates
              /\ privacyState' = Updated(call[client])
              /\ RequestAtFloor(call[client])
            BY <2>1 DEF WriteState, FloorRequestsInv, FreshCopyInv, CallsNamed, TypeOK
        <3> QED
            BY <3>1 DEF Updated, PrivacyStates, RequestAtFloor
    <2>2. CASE DeleteAllData(client)
        BY <2>2 DEF DeleteAllData
    <2>3. CASE UNCHANGED privacyState
        BY <2>3
    <2> QED
        BY <2>1, <2>2, <2>3
        DEF Next, vars, InvokeSetPrivacyLevel, Invoke, ReadState, WriteFails,
            AppendAudit, Restart
<1>2. Init => FloorRequestsInv
    BY FreshCopyInit, NoCallTyped DEF Init, FloorRequestsInv, RequestAtFloor
<1>3. FloorRequestsInv /\ [Next]_vars => FloorRequestsInv'
    BY FloorRequestsStep
<1> QED
    BY <1>1, <1>2, <1>3, PTL DEF Spec, LevelChangesHonorFloor

-----------------------------------------------------------------------------
(***************************************************************************)
(* The audit log for a UI that awaits each command.  While an entry is     *)
(* still to be appended, the row holds what the entry will say.            *)
(***************************************************************************)
NewValue(k) ==
    CASE k.op = "set_privacy_level"            -> k.level
      [] k.op = "acknowledge_privacy_manifest" -> CurrentManifestVersion
      [] k.op = "pause_observation"            -> FALSE
      [] OTHER                                 -> TRUE

Told(row, log, field) ==
    row[field] = IF log[field] = None THEN InitialPrivacyState[field] ELSE log[field]

AuditInv ==
    /\ FreshCopyInv
    /\ \A c \in Clients :
          call[c].pc = "audit" => privacyState[FieldOf(call[c].op)] = NewValue(call[c])
    /\ \A field \in Fields \ unaudited :
          (\A c \in Clients : call[c].pc = "audit" => FieldOf(call[c].op) # field) =>
              Told(privacyState, auditLog, field)

\* A handler writes its own field and keeps the others.
LEMMA UpdatedField ==
    ASSUME NEW k \in Calls, k.op \in Ops
    PROVE  /\ Updated(k)[FieldOf(k.op)] = NewValue(k)
           /\ \A field \in Fields \ {FieldOf(k.op)} : Updated(k)[field] = k.snap[field]
<1> USE DEF Updated, FieldOf, NewValue, Fields, Calls, PrivacyStates
<1>1. CASE k.op = "set_privacy_level"
    BY <1>1
<1>2. CASE k.op = "acknowledge_privacy_manifest"
    BY <1>2
<1>3. CASE k.op = "pause_observation"
    BY <1>3
<1>4. CASE k.op \in {"complete_onboarding", "resume_observation"}
    BY <1>4
<1> QED
    BY <1>1, <1>2, <1>3, <1>4 DEF Ops

\* ... and appends an entry about that field only.
LEMMA AuditedField ==
    ASSUME NEW k \in Calls, k.op \in Ops, auditLog \in AuditLogs
    PROVE  /\ Audited(k)[FieldOf(k.op)] = NewValue(k)
           /\ NewValue(k) # None
           /\ \A field \in Fields \ {FieldOf(k.op)} : Audited(k)[field] = auditLog[field]
<1> USE ConstantsAssumption, LevelFacts DEF Audited, FieldOf, NewValue, Fields, Calls, AuditLogs
<1>1. CASE k.op = "set_privacy_level"
    BY <1>1
<1>2. CASE k.op = "acknowledge_privacy_manifest"
    BY <1>2
<1>3. CASE k.op = "pause_observation"
    BY <1>3
<1>4. CASE k.op \in {"complete_onboarding", "resume_observation"}
    BY <1>4
<1> QED
    BY <1>1, <1>2, <1>3, <1>4 DEF Ops

\* The initial row is what an empty log tells.
LEMMA EmptyLogTells == \A field \in Fields : Told(InitialPrivacyState, EmptyAuditLog, field)
    BY DEF Told, EmptyAuditLog, Fields

\* A new profile has an empty log and the initial row.
LEMMA AuditInit == Init => AuditInv
    BY FreshCopyInit, EmptyLogTells, NoCallTyped DEF Init, AuditInv

\* With one caller every step keeps the log telling what it can.
LEMMA AuditStep ==
    ASSUME NEW client, Clients = {client}, AuditInv, [Next]_vars
    PROVE  AuditInv'
<1> DEFINE k == call[client]
<1>t. FreshCopyInv /\ FreshCopyInv' /\ TypeOK /\ k \in Calls
    BY FreshCopyStep DEF AuditInv, FreshCopyInv, TypeOK
<1> USE DEF AuditInv
<1>1. ASSUME UNCHANGED <<privacyState, auditLog, unaudited>>,
             k.pc # "audit", call'[client].pc # "audit"
      PROVE  AuditInv'
    BY <1>1, <1>t
<1>2. CASE WriteState(client)
    <2>1. /\ k.op \in Ops /\ k.snap = privacyState /\ k.pc # "audit"
          /\ privacyState' = Updated(k)
        BY <1>2, <1>t DEF WriteState, FreshCopyInv, CallsNamed
    <2>2. /\ call'[client].pc = "audit" /\ call'[client].op = k.op
          /\ NewValue(call'[client]) = NewValue(k)
          /\ auditLog' = auditLog /\ unaudited' = unaudited
        BY <1>2, <1>t DEF WriteState, NewValue, TypeOK, Calls
    <2>3. privacyState'[FieldOf(k.op)] = NewValue(k)
        BY <2>1, <1>t, UpdatedField
    <2>4. \A field \in Fields \ {FieldOf(k.op)} : privacyState'[field] = privacyState[field]
        BY <2>1, <1>t, UpdatedField
    <2> HIDE DEF k
    <2>5. \A field \in Fields \ unaudited :
             field # FieldOf(k.op) => Told(privacyState', auditLog', field)
        BY <2>1, <2>2, <2>4 DEF Told, k
    <2> QED
        BY <1>t, <2>2, <2>3, <2>5
<1>3. CASE AppendAudit(client)
    <2>1. /\ k.op \in Ops /\ k.pc = "audit" /\ auditLog \in AuditLogs
          /\ privacyState' = privacyState /\ call'[client].pc = "idle"
        BY <1>3, <1>t, NoCallTyped DEF AppendAudit, FreshCopyInv, CallsNamed, TypeOK
    <2>2. privacyState[FieldOf(k.op)] = NewValue(k)
        BY <2>1
    <2>3. \A field \in Fields \ unaudited :
             field # FieldOf(k.op) => Told(privacyState, auditLog, field)
        BY <2>1
    <2>4. CASE auditLog' = Audited(k) /\ unaudited' = unaudited \ {FieldOf(k.op)}
        <3>1. \A field \in Fields \ {FieldOf(k.op)} : auditLog'[field] = auditLog[field]
            BY <2>1, <2>4, <1>t, AuditedField
        <3>2. auditLog'[FieldOf(k.op)] = NewValue(k) /\ NewValue(k) # None
            BY <2>1, <2>4, <1>t, AuditedField
        <3> HIDE DEF k
        <3>3. \A field \in Fields \ unaudited' : Told(privacyState', auditLog', field)
            BY <2>1, <2>2, <2>3, <2>4, <3>1, <3>2 DEF Told
        <3> QED
            BY <1>t, <2>1, <3>3
    <2>5. CASE unaudited' = unaudited \cup {FieldOf(k.op)} /\ auditLog' = auditLog
        BY <1>t, <2>1, <2>3, <2>5
    <2> QED
        BY <1>3, <2>4, <2>5 DEF AppendAudit
<1>4. CASE DeleteAllData(client)
    <2>1. /\ privacyState' = InitialPrivacyState /\ auditLog' = EmptyAuditLog
          /\ call'[client].pc # "audit"
        BY <1>4 DEF DeleteAllData
    <2> QED
        BY <1>t, <2>1, EmptyLogTells
<1>5. CASE Restart
    <2>1. /\ privacyState' = privacyState /\ auditLog' = auditLog
          /\ call'[client].pc = "idle"
        BY <1>5, NoCallTyped DEF Restart
    <2>2. \A field \in Fields \ unaudited' :
             field \notin unaudited /\ (k.pc = "audit" => FieldOf(k.op) # field)
        BY <1>5 DEF Restart
    <2> QED
        BY <1>t, <2>1, <2>2
<1>6. ASSUME NEW requested \in RequestLevels, NEW acknowledged \in BOOLEAN,
             InvokeSetPrivacyLevel(client, requested, acknowledged)
      PROVE  AuditInv'
    <2>1. call'[client].pc = "read"
        BY <1>6, <1>t DEF InvokeSetPrivacyLevel, TypeOK, NoCall
    <2> QED
        BY <1>1, <1>6, <2>1 DEF InvokeSetPrivacyLevel
<1>7. ASSUME NEW op \in Ops, Invoke(client, op)
      PROVE  AuditInv'
    <2>1. call'[client].pc = "read"
        BY <1>7, <1>t DEF Invoke, TypeOK, NoCall
    <2> QED
        BY <1>1, <1>7, <2>1 DEF Invoke
<1>8. CASE ReadState(client)
    <2>1. call'[client].pc = "write"
        BY <1>8, <1>t DEF ReadState, TypeOK, Calls
    <2> QED
        BY <1>1, <1>8, <2>1 DEF ReadState
<1>9. CASE WriteFails(client)
    <2>1. call'[client].pc = "idle"
        BY <1>9, <1>t, NoCallTyped DEF WriteFails, TypeOK
    <2> QED
        BY <1>1, <1>9, <2>1 DEF WriteFails
<1>10. CASE UNCHANGED vars
    BY <1>t, <1>10 DEF vars
<1> QED
    BY <1>2, <1>3, <1>4, <1>5, <1>6, <1>7, <1>8, <1>9, <1>10 DEF Next

\* With a single caller the newest audit entries tell the row, but for entries
\* lost to an error or to the end of the process.
THEOREM SerialAuditTellsTheState ==
    ASSUME NEW client, Clients = {client}
    PROVE  Spec => []AuditTellsTheState
<1>1. AuditInv => AuditTellsTheState
    BY DEF AuditInv, AuditTellsTheState, Told, Quiescent
<1>2. Init => AuditInv
    BY AuditInit
<1>3. AuditInv /\ [Next]_vars => AuditInv'
    BY AuditStep
<1> QED
    BY <1>1, <1>2, <1>3, PTL DEF Spec

=============================================================================
