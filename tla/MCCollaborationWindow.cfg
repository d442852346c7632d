CONSTANTS
    Plan <- MCPlan
    Output <- MCOutput
    Observation <- MCObservation
    MaxSpend = 2
SPECIFICATION Spec
\* A window that has returned or raised stops.
CHECK_DEADLOCK FALSE
INVARIANTS
    ReturnedTruthful
    NothingLeftBehind
    FailureReceipted
    SpentWithinHardBudget
