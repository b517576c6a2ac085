SPECIFICATION Spec
CONSTANTS
    Faults <- MCLeavesEarly
    MaxRuns = 1
INVARIANT EveryExitRestores
