SPECIFICATION FairSpec
CONSTANTS
    leader = leader
    c1 = c1
    Leader = leader
    Child = {c1}
    Stream = {"stdout", "stderr"}
    Limit <- MCLimit
    MaxBytes <- MCMaxBytes
    MaxFaults = 1
\* The call has returned and every process has exited.
CHECK_DEADLOCK FALSE
INVARIANT
    ReportTruthful
PROPERTIES
    CauseKept
    CallReturns
