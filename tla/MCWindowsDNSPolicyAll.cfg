SPECIFICATION FairSpec
CONSTANTS
    Faults <- MCAnythingFails
    MaxRuns = 3
INVARIANTS
    HonestReport
    NormalExitRestores
    CloseWaitsForCleanup
    OneRuleInForce
    UserEntryKept
PROPERTY CloseEnds
