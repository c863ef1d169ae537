\* Delete-all in the middle of a pass.
SPECIFICATION Spec
CONSTANTS
    RowLevels = {0, 2}
    Kind <- FilesOnly
    TextContents = {"clean"}
    MaxPending = 1
    MaxEvents = 1
    Faults = {}
INVARIANT DeletedStaysDeleted
