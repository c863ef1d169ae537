\* One delete-all at a time; vault and store errors, and crashes.
SPECIFICATION Spec
CONSTANTS
    Clients = {c1}
    MaxKeys = 5
    Faults = {"get", "set", "store", "crash"}
INVARIANTS VaultOpensFile NeverRefused OldCopiesUnreadable RunningHasRow
