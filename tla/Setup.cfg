\* A local and a cloud provider; failures and crashes anywhere.
SPECIFICATION FairSpec
CONSTANTS
    Offered = {"ollama", "anthropic"}
    Allowlist = {"ollama", "anthropic"}
    Floor = 0
    WizardLevels = {0, 2}
    Models = {"default"}
    MaxChecks = 1
    MaxEdits = 3
INVARIANTS TypeOK SetupIsWhatWasChosen ProvidersResolve
PROPERTIES CompletedWithProvider EditsForgetChecks StartIsAnswered
CHECK_DEADLOCK FALSE
