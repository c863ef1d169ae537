\* Errors and restarts; one command at a time.
SPECIFICATION Spec
CONSTANTS
    Workflows = {w1, w2}
    LocalProviders = {}
    CloudProviders = {cloud}
    None = None
    Clients = {c1}
    RowLevels = {1, 4}
    MinOccurrences = 1
    MaxAttempts = 2
    MaxEvents = 2
    MaxPatterns = 3
    Faults = {"store", "restart"}
SYMMETRY WorkflowSymmetry
INVARIANTS RowsBelongTogether SuggestedOnce RevocationTakesEffect
