\* Deep mode, left before the sweep.
SPECIFICATION Spec
CONSTANTS
    Workflows = {w1}
    LocalProviders = {}
    CloudProviders = {cloud}
    None = None
    Clients = {c1}
    RowLevels = {3, 4}
    MinOccurrences = 1
    MaxAttempts = 2
    MaxEvents = 1
    MaxPatterns = 1
    Faults = {}
INVARIANT DeepContentStaysLocal
