SPECIFICATION Spec
CONSTANTS
    MaxStep = 3
    MaxRuns = 3
    MaxMetric = 2
    Problem <- MCProblem
    Request <- MCRequest
    Uninterrupted <- MCUninterrupted
\* A caller need not call again.
CHECK_DEADLOCK FALSE
INVARIANTS
    ResumesExactly
    BudgetKept
    ResultTruthful
