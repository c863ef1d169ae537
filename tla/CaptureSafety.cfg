\* A clipboard source and a file watcher; errors and restarts.
SPECIFICATION Spec
CONSTANTS
    RowLevels = {1, 4}
    Kind <- ClipboardAndFiles
    TextContents = {"secret", "ambiguous"}
    MaxPending = 2
    MaxEvents = 1
    Faults = {"poll", "insert", "read", "restart"}
INVARIANTS StoredEventsAllowed CapturedUnderConsent
