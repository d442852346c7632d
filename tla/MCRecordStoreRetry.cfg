SPECIFICATION RetrySpec
CONSTANTS
    t1 = t1
    t2 = t2
    t3 = t3
    p = p
    a1 = a1
    a2 = a2
    b1 = b1
    A = A
    B = B
    NoThread = NoThread
    NoRecord = NoRecord
    Thread <- MCThread
    Domain = {p}
    DomainOf <- MCDomainOf
    Record <- MCRecord
    Id = {A, B}
    IdOf <- MCIdOf
    Rank <- MCRank
    Own <- MCOwn
    MaxFaults = 2
\* Answered callers stop.
CHECK_DEADLOCK FALSE
PROPERTY
    RetriesHeal
