--------------------------- MODULE PrivacyControl ---------------------------
(***************************************************************************)
(* The command handlers of the desktop shell that change the privacy_state *)
(* row (apps/desktop/src-tauri/src/commands.rs).  Each is an async Tauri   *)
(* command on a multi-threaded runtime: it reads the row, changes its own  *)
(* field in the copy, writes the whole row back, and then appends an audit *)
(* entry.  The store locks its connection for each of these calls, never   *)
(* across them, so calls made by different UI components interleave        *)
(* between any two.                                                        *)
(*                                                                         *)
(* Clients are the callers that may have a command in flight at the same   *)
(* time; one client is a UI that awaits each command before the next.      *)
(***************************************************************************)
EXTENDS PrivacyDomain

CONSTANTS
    Clients,        \* callers that may each have one command in flight
    RequestLevels,  \* levels the UI asks for
    Floors,         \* floors an enterprise-policy.json may carry
    None,           \* "no entry in the audit log"
    Faults          \* which of "store", "audit", "restart" may happen

ASSUME ConstantsAssumption ==
    /\ RequestLevels \subseteq Levels
    /\ Floors \subseteq Levels
    /\ None \notin Levels /\ None \notin BOOLEAN /\ None \notin ManifestVersions
    /\ Faults \subseteq {"store", "audit", "restart"}

VARIABLES
    privacyState,   \* the privacy_state row
    policyFloor,    \* AppState.enterprise_policy, fixed for a launch
    storedFloor,    \* the enterprise_policy table
    auditLog,       \* per kind of entry, what the newest one says
    call,           \* per client, the command in flight
    history,        \* what users have really asked for (ghost)
    unaudited       \* fields whose last change lost its audit entry (ghost)

vars == <<privacyState, policyFloor, storedFloor, auditLog, call, history, unaudited>>

Ops == {"set_privacy_level", "complete_onboarding", "acknowledge_privacy_manifest",
        "pause_observation", "resume_observation"}

NoCall == [op |-> "none", pc |-> "idle", level |-> Manual,
           acknowledged |-> FALSE, snap |-> InitialPrivacyState]

Calls ==
    [op : Ops \cup {"none"}, pc : {"idle", "read", "write", "audit"},
     level : Levels, acknowledged : BOOLEAN, snap : PrivacyStates]

\* The fields of the row, and the one that a command changes.
Fields == {"level", "consented", "active"}

FieldOf(op) ==
    CASE op = "set_privacy_level"            -> "level"
      [] op = "acknowledge_privacy_manifest" -> "consented"
      [] OTHER                               -> "active"

EmptyAuditLog == [level |-> None, consented |-> None, active |-> None]

AuditLogs ==
    [level : Levels \cup {None}, consented : ManifestVersions \cup {None},
     active : BOOLEAN \cup {None}]

\* acknowledged, imposed: the levels callers were let set, with and without
\* acknowledged permissions; started, reconsented: whether anyone asked for it.
NoHistory == [acknowledged |-> {}, imposed |-> {}, started |-> FALSE, reconsented |-> FALSE]

Histories ==
    [acknowledged : SUBSET Levels, imposed : SUBSET Levels,
     started : BOOLEAN, reconsented : BOOLEAN]

\* Every variable has its type.
TypeOK ==
    /\ privacyState \in PrivacyStates
    /\ policyFloor \in Levels
    /\ storedFloor \in Levels
    /\ auditLog \in AuditLogs
    /\ call \in [Clients -> Calls]
    /\ history \in Histories
    /\ unaudited \subseteq Fields

Init ==
    /\ privacyState = InitialPrivacyState
    /\ storedFloor \in Floors \cup {Manual}
    /\ policyFloor = storedFloor
    /\ auditLog = EmptyAuditLog
    /\ call = [c \in Clients |-> NoCall]
    /\ history = NoHistory
    /\ unaudited = {}

-----------------------------------------------------------------------------
(***************************************************************************)
(* A command, step by step.                                                *)
(***************************************************************************)

\* set_privacy_level up to its read: the level parses, an observing level
\* carries acknowledged permissions, and the policy floor is applied.
InvokeSetPrivacyLevel(c, requested, acknowledged) ==
    /\ call[c].pc = "idle"
    /\ requested # Manual => acknowledged
    /\ LET effective == EffectivePrivacyLevel(policyFloor, requested)
       IN  /\ call' = [call EXCEPT ![c] =
                          [NoCall EXCEPT !.op = "set_privacy_level", !.pc = "read",
                                         !.level = effective,
                                         !.acknowledged = acknowledged]]
           /\ history' = IF acknowledged
                         THEN [history EXCEPT !.acknowledged = @ \cup {effective}]
                         ELSE [history EXCEPT !.imposed = @ \cup {effective}]
    /\ UNCHANGED <<privacyState, policyFloor, storedFloor, auditLog, unaudited>>

\* The other four commands take no argument.
Invoke(c, op) ==
    /\ call[c].pc = "idle"
    /\ op \in Ops \ {"set_privacy_level"}
    /\ call' = [call EXCEPT ![c] = [NoCall EXCEPT !.op = op, !.pc = "read"]]
    /\ history' = [history EXCEPT
                     !.started = @ \/ op \in {"complete_onboarding", "resume_observation"},
                     !.reconsented = @ \/ op = "acknowledge_privacy_manifest"]
    /\ UNCHANGED <<privacyState, policyFloor, storedFloor, auditLog, unaudited>>

\* store.get_privacy_state()
ReadState(c) ==
    /\ call[c].pc = "read"
    /\ call' = [call EXCEPT ![c].pc = "write", ![c].snap = privacyState]
    /\ UNCHANGED <<privacyState, policyFloor, storedFloor, auditLog, history, unaudited>>

\* Mutants of the change a handler makes to its copy: raising the level also
\* starts observation; completing onboarding also records the consent.
LevelStarts(k) ==
    CASE k.op = "set_privacy_level"            ->
             [k.snap EXCEPT !.level = k.level, !.active = k.level # Manual]
      [] k.op = "acknowledge_privacy_manifest" ->
             [k.snap EXCEPT !.consented = CurrentManifestVersion]
      [] k.op = "pause_observation"            -> [k.snap EXCEPT !.active = FALSE]
      [] OTHER                                 -> [k.snap EXCEPT !.active = TRUE]

OnboardingConsents(k) ==
    CASE k.op = "set_privacy_level"            -> [k.snap EXCEPT !.level = k.level]
      [] k.op = "pause_observation"            -> [k.snap EXCEPT !.active = FALSE]
      [] k.op = "resume_observation"           -> [k.snap EXCEPT !.active = TRUE]
      [] OTHER -> [k.snap EXCEPT !.consented = CurrentManifestVersion,
                                 !.active = @ \/ k.op = "complete_onboarding"]

\* The copy a handler writes back: its own field changed, the rest as read.
Updated(k) ==
    CASE k.op = "set_privacy_level"            -> [k.snap EXCEPT !.level = k.level]
      [] k.op = "acknowledge_privacy_manifest" ->
             [k.snap EXCEPT !.consented = CurrentManifestVersion]
      [] k.op = "pause_observation"            -> [k.snap EXCEPT !.active = FALSE]
      [] OTHER                                 -> [k.snap EXCEPT !.active = TRUE]

\* store.set_privacy_state(&current)
WriteState(c) ==
    /\ call[c].pc = "write"
    /\ privacyState' = Updated(call[c])
    /\ call' = [call EXCEPT ![c].pc = "audit", ![c].snap = InitialPrivacyState]
    /\ UNCHANGED <<policyFloor, storedFloor, auditLog, history, unaudited>>

\* A store error ends the command before anything is written or audited.
WriteFails(c) ==
    /\ "store" \in Faults
    /\ call[c].pc = "write"
    /\ call' = [call EXCEPT ![c] = NoCall]
    /\ UNCHANGED <<privacyState, policyFloor, storedFloor, auditLog, history, unaudited>>

\* Mutant: resuming is not audited.
AuditsPausesOnly(k) ==
    CASE k.op = "set_privacy_level"            -> [auditLog EXCEPT !.level = k.level]
      [] k.op = "acknowledge_privacy_manifest" ->
             [auditLog EXCEPT !.consented = CurrentManifestVersion]
      [] k.op = "pause_observation"            -> [auditLog EXCEPT !.active = FALSE]
      [] OTHER                                 -> auditLog

\* log_audit: the entry carries what this command wrote.
Audited(k) ==
    CASE k.op = "set_privacy_level"            -> [auditLog EXCEPT !.level = k.level]
      [] k.op = "acknowledge_privacy_manifest" ->
             [auditLog EXCEPT !.consented = CurrentManifestVersion]
      [] k.op = "pause_observation"            -> [auditLog EXCEPT !.active = FALSE]
      [] OTHER                                 -> [auditLog EXCEPT !.active = TRUE]

AppendAudit(c) ==
    /\ call[c].pc = "audit"
    /\ LET field == FieldOf(call[c].op)
       IN  \/ auditLog' = Audited(call[c]) /\ unaudited' = unaudited \ {field}
          \/ /\ "audit" \in Faults               \* the error is ignored
             /\ unaudited' = unaudited \cup {field}
             /\ UNCHANGED auditLog
    /\ call' = [call EXCEPT ![c] = NoCall]
    /\ UNCHANGED <<privacyState, policyFloor, storedFloor, history>>

\* store.delete_all_data(): one transaction over every table and the row.  The
\* policy in memory is not touched; the rekeying that follows is in KeyVault.
DeleteAllData(c) ==
    /\ call[c].pc = "idle"
    /\ privacyState' = InitialPrivacyState
    /\ storedFloor' = Manual
    /\ auditLog' = EmptyAuditLog
    /\ unaudited' = {}
    /\ UNCHANGED <<policyFloor, call, history>>

-----------------------------------------------------------------------------
(***************************************************************************)
(* The process ends at any point and is launched again.  A policy file     *)
(* that parses is persisted and used; otherwise what was last persisted,   *)
(* or no policy at all when that cannot be read.                           *)
(***************************************************************************)
ResolveEnterprisePolicy ==
    \/ \E floor \in Floors :
          /\ policyFloor' = floor
          /\ \/ storedFloor' = floor
             \/ "store" \in Faults /\ UNCHANGED storedFloor   \* the error is ignored
    \/ /\ policyFloor' = storedFloor
       /\ UNCHANGED storedFloor
    \/ /\ "store" \in Faults
       /\ policyFloor' = Manual
       /\ UNCHANGED storedFloor

Restart ==
    /\ "restart" \in Faults
    /\ ResolveEnterprisePolicy
    /\ unaudited' = unaudited \cup
          {FieldOf(call[c].op) : c \in {d \in Clients : call[d].pc = "audit"}}
    /\ call' = [c \in Clients |-> NoCall]
    /\ UNCHANGED <<privacyState, auditLog, history>>

-----------------------------------------------------------------------------
Next ==
    \/ \E c \in Clients :
          \/ \E requested \in RequestLevels, acknowledged \in BOOLEAN :
                InvokeSetPrivacyLevel(c, requested, acknowledged)
          \/ \E op \in Ops : Invoke(c, op)
          \/ ReadState(c)
          \/ WriteState(c)
          \/ WriteFails(c)
          \/ AppendAudit(c)
          \/ DeleteAllData(c)
    \/ Restart

Spec == Init /\ [][Next]_vars

-----------------------------------------------------------------------------
(***************************************************************************)
(* Properties.                                                             *)
(***************************************************************************)

\* Nothing in a row comes from nowhere: an observing level was set by a
\* command for that level, consent by an acknowledgement, the active flag by a
\* start command, however the handlers' reads and writes interleave with each
\* other, with delete-all and with restarts.
Grounded(row, asked) ==
    /\ row.level # Manual => row.level \in asked.acknowledged \cup asked.imposed
    /\ row.consented # 0 => asked.reconsented
    /\ row.active => asked.started

NothingForged == Grounded(privacyState, history)

\* FR-17, as set_privacy_level states it: "Raising to any level that actually
\* observes requires the caller to carry the permissions the user
\* acknowledged for it".
ObservingLevelWasAcknowledged ==
    privacyState.level # Manual => privacyState.level \in history.acknowledged

\* The enterprise floor is the minimum the device runs at if it observes.
FloorHolds == Permits(privacyState) => privacyState.level >= policyFloor

\* Within a launch: whatever level the row moves to honours the floor, except
\* for the reset to Manual by delete-all.
LevelChangesHonorFloor ==
    [][privacyState'.level # privacyState.level =>
          privacyState'.level >= policyFloor \/ privacyState' = InitialPrivacyState]_vars

\* A pause lasts: only complete_onboarding and resume_observation turn
\* observation on again, never a command about another field.
OnlyStartCommandsActivate ==
    [][~privacyState.active /\ privacyState'.active =>
          \E c \in Clients :
             /\ call[c].pc = "write"
             /\ call[c].op \in {"complete_onboarding", "resume_observation"}]_vars

Quiescent == \A c \in Clients : call[c].pc = "idle"

\* FR-8: with no command in flight, the newest audit entry of a field tells
\* what the row holds, unless the entry of that field's last change was lost to
\* an error or to the end of the process.
AuditTellsTheState ==
    Quiescent =>
        \A field \in Fields \ unaudited :
            privacyState[field] = IF auditLog[field] = None THEN InitialPrivacyState[field]
                                  ELSE auditLog[field]

\* The handlers' read, change and write back is, for a UI that awaits each
\* command, the atomic change of one field that PrivacyRow specifies.
Atomic == INSTANCE PrivacyRow WITH RowLevels <- Levels

CommandsAreAtomic == Atomic!Spec

=============================================================================
