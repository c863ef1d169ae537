\* Consent given, then all data deleted and a provider set again.
SPECIFICATION Spec
CONSTANTS
    Workflows = {w1}
    LocalProviders = {}
    CloudProviders = {cloud}
    None = None
    Clients = {c1}
    RowLevels = {1}
    MinOccurrences = 1
    MaxAttempts = 2
    MaxEvents = 2
    MaxPatterns = 2
    Faults = {}
PROPERTY CloudNeedsShownConsent
