--------------------------- MODULE KeyVaultProofs ---------------------------
(***************************************************************************)
(* The master key for any number of callers, keys and faults, as far as    *)
(* each theorem allows them.                                               *)
(***************************************************************************)
EXTENDS KeyVault, TLAPS

\* A new key is a key, and differs from every one made before.
LEMMA FreshFacts ==
    ASSUME TypeOK, made < MaxKeys
    PROVE  Fresh \in Keys /\ Fresh # NoKey /\ Fresh \in 0..MaxKeys /\ Fresh \notin 0..made
    BY VaultAssumption DEF TypeOK, Fresh, Keys, NoKey

\* The empty profile before its first launch is well typed.
LEMMA InitTyped == Init => TypeOK
<1>1. Init => severed \in BOOLEAN /\ cut \in BOOLEAN
    BY Zenon DEF Init
<1> QED
    BY <1>1, VaultAssumption DEF Init, TypeOK, NoCall, NoKey, Keys

\* Every step keeps the types.
LEMMA StepTyped == TypeOK /\ [Next]_vars => TypeOK'
<1> SUFFICES ASSUME TypeOK, [Next]_vars
             PROVE  TypeOK'
    OBVIOUS
<1> USE DEF TypeOK, migration
<1>1. CASE ResolveMasterKey
    BY <1>1, FreshFacts DEF ResolveMasterKey, UseVaultKey, GenerateKey
<1>2. CASE OpenStore
    BY <1>2 DEF OpenStore, NoKey
<1>3. CASE End
    <2>1. cut' \in BOOLEAN /\ severed' \in BOOLEAN
        BY <1>3, Zenon DEF End
    <2> QED
        BY <1>3, <2>1 DEF End, NoCall, NoKey
<1>4. CASE CopyFile
    BY <1>4 DEF CopyFile
<1>5. ASSUME NEW c \in Clients, EraseStore(c)
      PROVE  TypeOK'
    BY <1>5, FreshFacts DEF EraseStore
<1>6. ASSUME NEW c \in Clients, Rekey(c)
      PROVE  TypeOK'
    BY <1>6 DEF Rekey
<1>7. ASSUME NEW c \in Clients, RekeyFails(c) \/ PersistFails(c)
      PROVE  TypeOK'
    <2>1. severed' \in BOOLEAN
        BY <1>7, Zenon DEF RekeyFails, PersistFails
    <2>2. fileKey' \in Keys \cup {NoKey}
        BY <1>7 DEF RekeyFails, PersistFails
    <2> QED
        BY <1>7, <2>1, <2>2 DEF RekeyFails, PersistFails, NoCall
<1>8. ASSUME NEW c \in Clients, PersistKey(c)
      PROVE  TypeOK'
    BY <1>8 DEF PersistKey, NoCall
<1>9. CASE UNCHANGED vars
    BY <1>9 DEF vars
<1>10. CASE RecordVersion \/ InsertPrivacyState
    BY <1>10 DEF RecordVersion, InsertPrivacyState
<1> QED
    BY <1>1, <1>2, <1>3, <1>4, <1>5, <1>6, <1>7, <1>8, <1>9, <1>10 DEF Next

\* The keys, the process and the calls are always well typed.
THEOREM TypeCorrect == Spec => []TypeOK
    BY InitTyped, StepTyped, PTL DEF Spec

-----------------------------------------------------------------------------
(***************************************************************************)
(* Calls.  A delete-all runs only in a running process, which has dropped  *)
(* the key it was launched with.                                           *)
(***************************************************************************)
CallsRun ==
    /\ process # "opening" => heldKey = NoKey
    /\ \A c \in Clients : call[c].pc # "idle" => process = "running"

\* No key in use was generated later than the newest.
KeysWereMade ==
    /\ {fileKey, vaultKey, heldKey} \subseteq 0..made
    /\ copies \subseteq 1..made
    /\ doomed \subseteq copies

(***************************************************************************)
(* Earlier copies.  A delete-all in flight carries a key no copy is made   *)
(* under before the file is rekeyed, and a file rekeyed keeps that key     *)
(* until the call ends.                                                    *)
(***************************************************************************)
CallIsFresh(k) ==
    /\ k.pc # "idle" =>
          /\ k.before \subseteq copies
          /\ k.key \in 1..made
          /\ k.key \notin k.before \cup doomed
    /\ k.pc = "persist" => fileKey = k.key

CopiesInv ==
    /\ TypeOK /\ CallsRun /\ KeysWereMade
    /\ \A c \in Clients : CallIsFresh(call[c])
    /\ OldCopiesUnreadable

\* Before the first launch nothing was copied or promised.
LEMMA CopiesInit == Init => CopiesInv
    BY InitTyped, VaultAssumption
    DEF Init, CopiesInv, CallsRun, KeysWereMade, CallIsFresh, OldCopiesUnreadable, NoCall, NoKey

\* With one caller every step keeps the earlier copies unreadable.
LEMMA CopiesStep ==
    ASSUME NEW client, Clients = {client}
    PROVE  CopiesInv /\ [Next]_vars => CopiesInv'
<1> SUFFICES ASSUME CopiesInv, [Next]_vars
             PROVE  CopiesInv'
    OBVIOUS
<1>t. TypeOK /\ TypeOK'
    BY StepTyped DEF CopiesInv
<1>m. made \in Nat /\ 0 \in 0..made
    BY <1>t, VaultAssumption DEF TypeOK
<1> USE DEF CopiesInv, CallsRun, KeysWereMade, CallIsFresh, OldCopiesUnreadable, NoKey
<1>1. CASE ResolveMasterKey
    <2>1. CASE UseVaultKey
        BY <1>1, <1>t, <2>1 DEF ResolveMasterKey, UseVaultKey, TypeOK
    <2>2. CASE GenerateKey
        <3>1. /\ made' = made + 1 /\ Fresh = made + 1
              /\ 0..made \subseteq 0..made' /\ 1..made \subseteq 1..made'
              /\ Fresh \in 1..made' /\ Fresh \in 0..made' /\ Fresh \notin 1..made
            BY <1>m, <2>2 DEF GenerateKey, Fresh
        <3>2. Fresh \notin doomed
            BY <3>1
        <3>3. \A c \in Clients : call[c].pc = "idle"
            BY <1>1, <1>t DEF ResolveMasterKey, TypeOK
        <3> QED
            BY <1>1, <1>t, <2>2, <3>1, <3>2, <3>3 DEF ResolveMasterKey, GenerateKey
    <2> QED
        BY <1>1, <2>1, <2>2 DEF ResolveMasterKey
<1>2. CASE OpenStore
    <2>1. \A c \in Clients : call[c].pc = "idle"
        BY <1>2, <1>t DEF OpenStore, TypeOK
    <2>2. 0 \notin doomed
        BY <1>m
    <2> QED
        BY <1>2, <1>m, <1>t, <2>1, <2>2 DEF OpenStore
<1>3. CASE End
    <2>1. 0 \notin doomed
        BY <1>m
    <2> QED
        BY <1>3, <1>m, <1>t, <2>1 DEF End, NoCall
<1>4. CASE CopyFile
    <2>1. {fileKey} \ {0} \subseteq 1..made
        BY <1>m
    <2> QED
        BY <1>4, <1>t, <2>1 DEF CopyFile
<1>5. ASSUME NEW c \in Clients, EraseStore(c)
      PROVE  CopiesInv'
    <2>1. /\ made' = made + 1 /\ Fresh = made + 1
          /\ 0..made \subseteq 0..made' /\ 1..made \subseteq 1..made'
          /\ Fresh \in 1..made' /\ Fresh \notin 1..made
        BY <1>m, <1>5 DEF EraseStore, Fresh
    <2>2. call'[c] = [pc |-> "rekey", key |-> Fresh, before |-> copies]
        BY <1>5, <1>t DEF EraseStore, TypeOK
    <2>3. Fresh \notin copies \cup doomed
        BY <2>1
    <2> QED
        BY <1>5, <1>t, <2>1, <2>2, <2>3 DEF EraseStore
<1>6. ASSUME NEW c \in Clients, Rekey(c)
      PROVE  CopiesInv'
    <2>1. call'[c] = [call[c] EXCEPT !.pc = "persist"]
        BY <1>6, <1>t DEF Rekey, TypeOK
    <2>2. call[c].key \in 0..made /\ call[c].key \notin doomed
        BY <1>6, <1>m DEF Rekey
    <2>3. call[c] \in [pc : {"idle", "rekey", "persist"}, key : Keys \cup {0},
                       before : SUBSET Keys]
        BY <1>t DEF TypeOK
    <2> QED
        BY <1>6, <1>t, <2>1, <2>2, <2>3 DEF Rekey
<1>7. ASSUME NEW c \in Clients, RekeyFails(c) \/ PersistFails(c)
      PROVE  CopiesInv'
    BY <1>7, <1>t DEF RekeyFails, PersistFails, NoCall, TypeOK
<1>8. ASSUME NEW c \in Clients, PersistKey(c)
      PROVE  CopiesInv'
    <2>1. /\ fileKey = call[c].key /\ vaultKey' = call[c].key /\ heldKey = 0
          /\ call[c].key \notin doomed'
        BY <1>8 DEF PersistKey
    <2>2. 0 \notin doomed'
        BY <1>8, <1>m, <1>t DEF PersistKey
    <2>3. call'[c] = NoCall
        BY <1>8, <1>t DEF PersistKey, TypeOK
    <2>4. call[c].key \in 0..made /\ call[c].before \subseteq copies
        BY <1>8, <1>m DEF PersistKey
    <2>5. \A d \in Clients : call'[d] = NoCall
        BY <2>3
    <2>6. KeysWereMade'
        BY <1>8, <2>1, <2>4 DEF PersistKey
    <2>7. OldCopiesUnreadable'
        BY <1>8, <2>1, <2>2 DEF PersistKey
    <2> QED
        BY <1>8, <1>t, <2>5, <2>6, <2>7 DEF PersistKey, NoCall
<1>9. CASE UNCHANGED vars
    BY <1>9, <1>t DEF vars
<1>10. CASE RecordVersion \/ InsertPrivacyState
    BY <1>10, <1>t DEF RecordVersion, InsertPrivacyState, TypeOK
<1> QED
    BY <1>1, <1>2, <1>3, <1>4, <1>5, <1>6, <1>7, <1>8, <1>9, <1>10 DEF Next

\* A user interface that awaits each delete-all never gets back to the key of a
\* copy a successful delete-all promised away, whatever fails and whenever the
\* process ends.
THEOREM EarlierCopiesStayUnreadable ==
    ASSUME NEW client, Clients = {client}
    PROVE  Spec => []OldCopiesUnreadable
<1>1. CopiesInv => OldCopiesUnreadable
    BY DEF CopiesInv
<1> QED
    BY CopiesInit, CopiesStep, <1>1, PTL DEF Spec

-----------------------------------------------------------------------------
(***************************************************************************)
(* Vault and file.  Only a delete-all between its rekey and its vault      *)
(* write leaves them apart; if it is interrupted there they are severed.   *)
(***************************************************************************)
CallsHoldKeys ==
    \A c \in Clients :
        /\ call[c].pc # "idle" => call[c].key # NoKey
        /\ call[c].pc = "persist" => fileKey = call[c].key

InSync ==
    /\ process = "opening" => heldKey = vaultKey /\ vaultKey # NoKey
    /\ fileKey # NoKey =>
          \/ vaultKey = fileKey
          \/ \E c \in Clients : call[c].pc = "persist"
    /\ process # "refused"

SyncInv ==
    /\ TypeOK /\ CallsRun /\ CallsHoldKeys
    /\ process = "opening" => heldKey # NoKey
    /\ process \in {"migrating", "inserting", "running"} => fileKey # NoKey
    /\ ~severed => InSync

\* Neither file nor vault entry exists before the first launch.
LEMMA SyncInit == Init => SyncInv
    BY InitTyped DEF Init, SyncInv, CallsRun, CallsHoldKeys, InSync, NoCall, NoKey

\* With one caller every step keeps them in sync, or severs them.
LEMMA SyncStep ==
    ASSUME NEW client, Clients = {client}
    PROVE  SyncInv /\ [Next]_vars => SyncInv'
<1> SUFFICES ASSUME SyncInv, [Next]_vars
             PROVE  SyncInv'
    OBVIOUS
<1>t. TypeOK /\ TypeOK'
    BY StepTyped DEF SyncInv
<1> USE DEF SyncInv, CallsRun, CallsHoldKeys, InSync
<1>1. CASE ResolveMasterKey
    <2>1. \A c \in Clients : call[c].pc = "idle"
        BY <1>1, <1>t DEF ResolveMasterKey, TypeOK
    <2>2. CASE UseVaultKey
        BY <1>1, <1>t, <2>1, <2>2 DEF ResolveMasterKey, UseVaultKey
    <2>3. CASE GenerateKey
        <3>1. Fresh # NoKey
            BY <1>t, <2>3, FreshFacts DEF GenerateKey
        <3> QED
            BY <1>1, <1>t, <2>1, <2>3, <3>1 DEF ResolveMasterKey, GenerateKey
    <2> QED
        BY <1>1, <2>2, <2>3 DEF ResolveMasterKey
<1>2. CASE OpenStore
    <2>1. \A c \in Clients : call[c].pc = "idle"
        BY <1>2, <1>t DEF OpenStore, TypeOK
    <2> QED
        BY <1>2, <1>t, <2>1 DEF OpenStore
<1>3. CASE End
    BY <1>3, <1>t DEF End, NoCall
<1>4. CASE CopyFile
    BY <1>4, <1>t DEF CopyFile
<1>5. ASSUME NEW c \in Clients, EraseStore(c)
      PROVE  SyncInv'
    <2>1. Fresh # NoKey
        BY <1>5, <1>t, FreshFacts DEF EraseStore
    <2> QED
        BY <1>5, <1>t, <2>1 DEF EraseStore, TypeOK
<1>6. ASSUME NEW c \in Clients, Rekey(c)
      PROVE  SyncInv'
    <2>1. call'[c].pc = "persist" /\ call'[c].key = call[c].key
        BY <1>6, <1>t DEF Rekey, TypeOK
    <2> QED
        BY <1>6, <1>t, <2>1 DEF Rekey
<1>7. ASSUME NEW c \in Clients, RekeyFails(c) \/ PersistFails(c)
      PROVE  SyncInv'
    BY <1>7, <1>t DEF RekeyFails, PersistFails, TypeOK, NoCall
<1>8. ASSUME NEW c \in Clients, PersistKey(c)
      PROVE  SyncInv'
    BY <1>8, <1>t DEF PersistKey, TypeOK, NoCall
<1>9. CASE UNCHANGED vars
    BY <1>9, <1>t DEF vars
<1>10. CASE RecordVersion \/ InsertPrivacyState
    BY <1>10, <1>t DEF RecordVersion, InsertPrivacyState, TypeOK
<1> QED
    BY <1>1, <1>2, <1>3, <1>4, <1>5, <1>6, <1>7, <1>8, <1>9, <1>10 DEF Next

LEMMA SpecSync ==
    ASSUME NEW client, Clients = {client}
    PROVE  Spec => []SyncInv
    BY SyncInit, SyncStep, PTL DEF Spec

\* With one delete-all at a time the vault holds the key of the file between
\* calls, whatever fails outside the two windows in which they are severed.
THEOREM VaultAndFileStayInSync ==
    ASSUME NEW client, Clients = {client}
    PROVE  Spec => []VaultOpensFile
<1>1. SyncInv => VaultOpensFile
    BY DEF SyncInv, InSync, VaultOpensFile, Quiescent
<1> QED
    BY SpecSync, <1>1, PTL

\* With one delete-all at a time no launch is refused by the store of its own
\* profile, whatever fails outside those windows.
THEOREM LaunchIsNeverRefused ==
    ASSUME NEW client, Clients = {client}
    PROVE  Spec => []NeverRefused
<1>1. SyncInv => NeverRefused
    BY DEF SyncInv, InSync, NeverRefused
<1> QED
    BY SpecSync, <1>1, PTL

-----------------------------------------------------------------------------
(***************************************************************************)
(* The migration.  Unless one was cut off, a version without its row is    *)
(* there only while the launch that recorded it goes on.                   *)
(***************************************************************************)
RowInv ==
    ~cut => /\ process = "inserting" <=> schema = "version"
            /\ process = "running" => schema = "complete"

LEMMA RowStep == TypeOK /\ RowInv /\ [Next]_vars => RowInv'
<1> SUFFICES ASSUME TypeOK, RowInv, [Next]_vars
             PROVE  RowInv'
    OBVIOUS
<1> USE DEF RowInv, migration
<1>1. CASE ResolveMasterKey
    BY <1>1 DEF ResolveMasterKey
<1>2. CASE OpenStore
    BY <1>2 DEF OpenStore
<1>3. CASE RecordVersion
    BY <1>3 DEF RecordVersion, TypeOK
<1>4. CASE InsertPrivacyState
    BY <1>4 DEF InsertPrivacyState
<1>5. CASE End
    BY <1>5 DEF End
<1>6. CASE UNCHANGED <<process, schema, cut>>
    BY <1>6
<1>7. ASSUME NEW c \in Clients,
             EraseStore(c) \/ Rekey(c) \/ RekeyFails(c) \/ PersistKey(c) \/ PersistFails(c)
      PROVE  UNCHANGED <<process, schema, cut>>
    BY <1>7 DEF EraseStore, Rekey, RekeyFails, PersistKey, PersistFails
<1>8. CopyFile \/ UNCHANGED vars => UNCHANGED <<process, schema, cut>>
    BY DEF CopyFile, vars
<1> QED
    BY <1>1, <1>2, <1>3, <1>4, <1>5, <1>6, <1>7, <1>8 DEF Next

\* However many delete-alls overlap and whatever fails, a running program has its
\* privacy_state row, unless a migration was cut off between its two rows.
THEOREM RunningAlwaysHasRow == Spec => []RunningHasRow
<1>1. Init => RowInv
    BY DEF Init, RowInv
<1>2. RowInv => RunningHasRow
    BY DEF RowInv, RunningHasRow
<1> QED
    BY InitTyped, StepTyped, RowStep, <1>1, <1>2, PTL DEF Spec

=============================================================================
