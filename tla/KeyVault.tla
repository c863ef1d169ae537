------------------------------ MODULE KeyVault ------------------------------
(***************************************************************************)
(* The master key: which key the SQLCipher file is encrypted under, which  *)
(* key the OS vault holds, and the two places that change them: a launch   *)
(* (main.rs) and delete-all (commands.rs), which erases the store, rekeys  *)
(* the open file and only then persists the new key.  The three calls of   *)
(* delete-all are separate: another delete-all, an error or the end of the *)
(* process can fall between any two.  A launch also migrates the schema,   *)
(* one statement after the other.                                          *)
(*                                                                         *)
(* Keys are numbered in the order they are generated; 256 random bits are  *)
(* taken never to repeat.                                                  *)
(***************************************************************************)
EXTENDS Naturals

CONSTANTS
    Clients,   \* callers that may each have one delete-all in flight
    MaxKeys,   \* bound: keys ever generated
    Faults     \* which of "get", "set", "store", "crash" may happen

ASSUME VaultAssumption ==
    /\ MaxKeys \in Nat
    /\ Faults \subseteq {"get", "set", "store", "crash"}

VARIABLES
    fileKey,   \* the key that opens the file, NoKey before it exists
    vaultKey,  \* the master-key entry of the OS vault, NoKey if there is none
    process,   \* the application's process
    schema,    \* which of the two rows of a new profile are there: "none",
               \* "version" (that of schema_version alone) or "complete"
    heldKey,   \* the key main holds between resolving it and opening the store
    call,      \* per client, the delete-all in flight
    made,      \* keys generated so far
    copies,    \* keys of the copies that were ever made of the file (ghost)
    doomed,    \* those that a delete-all reported as unreadable (ghost)
    severed,   \* the file's key may have been lost to a fault (ghost)
    cut        \* a migration ended between its two rows (ghost)

vars == <<fileKey, vaultKey, process, schema, heldKey, call, made, copies, doomed, severed, cut>>
migration == <<schema, cut>>

NoKey == 0
Keys == 1..MaxKeys
Fresh == made + 1

NoCall == [pc |-> "idle", key |-> NoKey, before |-> {}]

\* Every variable has its type.
TypeOK ==
    /\ fileKey \in Keys \cup {NoKey}
    /\ vaultKey \in Keys \cup {NoKey}
    /\ process \in {"off", "opening", "migrating", "inserting", "running", "refused"}
    /\ schema \in {"none", "version", "complete"}
    /\ heldKey \in Keys \cup {NoKey}
    /\ call \in [Clients -> [pc : {"idle", "rekey", "persist"},
                             key : Keys \cup {NoKey}, before : SUBSET Keys]]
    /\ made \in 0..MaxKeys
    /\ copies \subseteq Keys
    /\ doomed \subseteq Keys
    /\ severed \in BOOLEAN
    /\ cut \in BOOLEAN

Init ==
    /\ fileKey = NoKey /\ vaultKey = NoKey /\ heldKey = NoKey
    /\ process = "off" /\ schema = "none"
    /\ call = [c \in Clients |-> NoCall]
    /\ made = 0
    /\ copies = {} /\ doomed = {}
    /\ severed = FALSE /\ cut = FALSE

Quiescent == \A c \in Clients : call[c].pc = "idle"

-----------------------------------------------------------------------------
(***************************************************************************)
(* A launch.                                                               *)
(***************************************************************************)

\* resolve_master_key, when the vault has a usable entry.
UseVaultKey ==
    /\ vaultKey # NoKey
    /\ heldKey' = vaultKey
    /\ UNCHANGED <<vaultKey, made, severed>>

\* ... and when it has none, or could not be read: a new key, written to the
\* vault over whatever is there.  An error of that write is ignored.
GenerateKey ==
    /\ vaultKey = NoKey \/ "get" \in Faults
    /\ made < MaxKeys
    /\ made' = Fresh
    /\ heldKey' = Fresh
    /\ \/ vaultKey' = Fresh /\ severed' = (severed \/ NoKey \notin {vaultKey, fileKey})
       \/ "set" \in Faults /\ severed' = TRUE /\ UNCHANGED vaultKey

ResolveMasterKey ==
    /\ process = "off"
    /\ UseVaultKey \/ GenerateKey
    /\ process' = "opening"
    /\ UNCHANGED <<fileKey, call, copies, doomed, migration>>

\* SqlCipherEventStore::open(..).expect(..): a file that is not there yet is
\* created under the key, with its tables; one that the key does not open ends
\* the process.
OpenStore ==
    /\ process = "opening"
    /\ IF fileKey \in {NoKey, heldKey}
       THEN fileKey' = heldKey /\ process' = "migrating"
       ELSE process' = "refused" /\ UNCHANGED fileKey
    /\ heldKey' = NoKey
    /\ UNCHANGED <<vaultKey, call, made, copies, doomed, severed, migration>>

\* Mutant: a new profile is taken to have its row as soon as it has a version.
RecordVersionAlone ==
    /\ process = "migrating"
    /\ schema' = IF schema = "none" THEN "version" ELSE schema
    /\ process' = "running"
    /\ UNCHANGED <<fileKey, vaultKey, heldKey, call, made, copies, doomed, severed, cut>>

\* migrate: where no version was ever recorded, it is, and the privacy_state row
\* follows in a statement of its own.
RecordVersion ==
    /\ process = "migrating"
    /\ IF schema = "none"
       THEN schema' = "version" /\ process' = "inserting"
       ELSE process' = "running" /\ UNCHANGED schema
    /\ UNCHANGED <<fileKey, vaultKey, heldKey, call, made, copies, doomed, severed, cut>>

InsertPrivacyState ==
    /\ process = "inserting"
    /\ schema' = "complete"
    /\ process' = "running"
    /\ UNCHANGED <<fileKey, vaultKey, heldKey, call, made, copies, doomed, severed, cut>>

\* The process ends: after a refusal, after a failed migration, when the user
\* quits, or in a crash.
End ==
    /\ \/ process = "refused"
       \/ process \in {"migrating", "inserting"} /\ "store" \in Faults
       \/ process = "running" /\ Quiescent
       \/ process # "off" /\ "crash" \in Faults
    /\ process' = "off"
    /\ heldKey' = NoKey
    /\ call' = [c \in Clients |-> NoCall]
    /\ severed' = (severed \/ \E c \in Clients : call[c].pc = "persist")
    /\ cut' = (cut \/ process = "inserting")
    /\ UNCHANGED <<fileKey, vaultKey, schema, made, copies, doomed>>

\* Someone copies the file, if there is one: a backup, a synchronized folder.
CopyFile ==
    /\ copies' = copies \cup ({fileKey} \ {NoKey})
    /\ UNCHANGED <<fileKey, vaultKey, process, heldKey, call, made, doomed, severed, migration>>

-----------------------------------------------------------------------------
(***************************************************************************)
(* delete_all_data.                                                        *)
(***************************************************************************)

\* store.delete_all_data() succeeded; generate_master_key().  When the store
\* fails the command ends with nothing of this module changed.
EraseStore(c) ==
    /\ process = "running"
    /\ call[c].pc = "idle"
    /\ made < MaxKeys
    /\ made' = Fresh
    /\ call' = [call EXCEPT ![c] = [pc |-> "rekey", key |-> Fresh, before |-> copies]]
    /\ UNCHANGED <<fileKey, vaultKey, process, heldKey, copies, doomed, severed, migration>>

\* store.rekey(&new_key)
Rekey(c) ==
    /\ call[c].pc = "rekey"
    /\ fileKey' = call[c].key
    /\ call' = [call EXCEPT ![c].pc = "persist"]
    /\ UNCHANGED <<vaultKey, process, heldKey, made, copies, doomed, severed, migration>>

\* The pragma fails, or the query after it that verifies the key: then the file
\* has the new key already, which is dropped.
RekeyFails(c) ==
    /\ "store" \in Faults
    /\ call[c].pc = "rekey"
    /\ \/ UNCHANGED <<fileKey, severed>>
       \/ fileKey' = call[c].key /\ severed' = TRUE
    /\ call' = [call EXCEPT ![c] = NoCall]
    /\ UNCHANGED <<vaultKey, process, heldKey, made, copies, doomed, migration>>

\* Mutants: the vault entry is removed, as the data-flow document draws it; the
\* new key never reaches the vault.
PersistByRemoving(c) ==
    /\ call[c].pc = "persist"
    /\ vaultKey' = NoKey
    /\ doomed' = doomed \cup call[c].before
    /\ severed' = FALSE
    /\ call' = [call EXCEPT ![c] = NoCall]
    /\ UNCHANGED <<fileKey, process, heldKey, made, copies, migration>>

PersistNothing(c) ==
    /\ call[c].pc = "persist"
    /\ doomed' = doomed \cup call[c].before
    /\ severed' = FALSE
    /\ call' = [call EXCEPT ![c] = NoCall]
    /\ UNCHANGED <<fileKey, vaultKey, process, heldKey, made, copies, migration>>

\* secret_store.set(MASTER_KEY_ENTRY, ..), and Ok(true) to the caller.
PersistKey(c) ==
    /\ call[c].pc = "persist"
    /\ vaultKey' = call[c].key
    /\ doomed' = doomed \cup call[c].before
    /\ severed' = FALSE
    /\ call' = [call EXCEPT ![c] = NoCall]
    /\ UNCHANGED <<fileKey, process, heldKey, made, copies, migration>>

\* The vault refuses: the caller gets an error, and the new key is dropped.
PersistFails(c) ==
    /\ "set" \in Faults
    /\ call[c].pc = "persist"
    /\ severed' = TRUE
    /\ call' = [call EXCEPT ![c] = NoCall]
    /\ UNCHANGED <<fileKey, vaultKey, process, heldKey, made, copies, doomed, migration>>

-----------------------------------------------------------------------------
Next ==
    \/ ResolveMasterKey
    \/ OpenStore
    \/ RecordVersion
    \/ InsertPrivacyState
    \/ End
    \/ CopyFile
    \/ \E c \in Clients :
          \/ EraseStore(c)
          \/ Rekey(c)
          \/ RekeyFails(c)
          \/ PersistKey(c)
          \/ PersistFails(c)

Spec == Init /\ [][Next]_vars

-----------------------------------------------------------------------------
(***************************************************************************)
(* Properties.                                                             *)
(***************************************************************************)

\* Between calls the vault holds the key of the file, unless a fault has severed
\* them: a launch that could not read or write the vault entry, or a delete-all
\* that failed or ended between rekeying and its vault write.  No other error or
\* crash does, and a delete-all that succeeds mends it.
VaultOpensFile == Quiescent /\ fileKey # NoKey /\ ~severed => vaultKey = fileKey

\* No launch is turned away by its own store, unless by such a fault: the data
\* of a profile is not lost to a restart.
NeverRefused == ~severed => process # "refused"

\* Delete-all makes every earlier copy unreadable: once it has reported
\* success, neither the vault nor the file nor a launch is back on the key of
\* a copy that was made before it began.
OldCopiesUnreadable == doomed \cap {fileKey, vaultKey, heldKey} = {}

\* Only a migration that was cut off between its two rows leaves a program
\* running without a privacy_state row, which every command and the observation
\* loop fail to read from then on: whatever fails, no other launch does.
RunningHasRow == process = "running" /\ ~cut => schema = "complete"

=============================================================================
