SPECIFICATION Spec
CONSTANTS
    MaxAp = 2
    MaxFaults = 1
INVARIANTS
    PromptBeforeRequest
    RestartHeard
PROPERTIES
    ReportedIfSent
    ScansAgain
