CONSTANTS
    CaseInput <- MCCaseInput
    Supplied <- MCSupplied
    Query <- MCQuery
    Terminal = {"retired"}
    Limit = {1, 2}
    MaxPatterns = 3
    Rule <- MCRule
    DeadScope = {"nowhere", "never"}
    UniversalScope = {"always", "global"}
    MinHeuristics = 1
    MaxHeuristics = 2
    MaxSnapshots = 3
    TaxonomyPath = {"p", "q"}
    Threshold <- MCThreshold
SPECIFICATION MCSpec
INVARIANTS PatternsSound OffersJustified HeuristicsSound CapturedClusters
CHECK_DEADLOCK FALSE
