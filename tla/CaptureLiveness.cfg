\* A window source and a file watcher; errors and restarts; the loop keeps being
\* scheduled.
SPECIFICATION FairSpec
CONSTANTS
    RowLevels = {1, 2}
    Kind <- WindowAndFiles
    TextContents = {"clean"}
    MaxPending = 1
    MaxEvents = 1
    Faults = {"poll", "insert", "read", "restart"}
PROPERTIES SnapshotCatchesUp FileOperationsCaptured
