\* One command at a time; store and audit errors, crashes and policy files.
SPECIFICATION Spec
CONSTANTS
    Clients = {c1}
    RequestLevels = {0, 3}
    Floors = {0, 2}
    None = None
    Faults = {"store", "audit", "restart"}
INVARIANT AuditTellsTheState
PROPERTIES LevelChangesHonorFloor OnlyStartCommandsActivate CommandsAreAtomic
