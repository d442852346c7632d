SPECIFICATION MCSpec
CONSTANTS
    Ids <- MCIds
    Cases <- MCCases
    HandWritten <- MCHandWritten
    DataSets <- MCDataSets
    Items <- MCItems
    Claims <- MCClaims
    MaxEpochs = 2
    MaxSeeds = 2
    MaxVisits = 4
\* The walk has returned, or the claim has been assessed.
CHECK_DEADLOCK FALSE
INVARIANTS
    CyclesNamed
    ExperimentIsolated
    ClaimsGrounded
PROPERTY
    WalkEnds
