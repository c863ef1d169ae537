\* No error; the task keeps being scheduled.
SPECIFICATION FairSpec
CONSTANTS
    Workflows = {w1, w2}
    LocalProviders = {local}
    CloudProviders = {}
    None = None
    Clients = {c1}
    RowLevels = {4}
    MinOccurrences = 1
    MaxAttempts = 2
    MaxEvents = 2
    MaxPatterns = 3
    Faults = {}
PROPERTIES ExpiredEventsGo PatternsSettle
