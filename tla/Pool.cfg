CONSTANTS
    Workers = {w1, w2, w3}
    Submitters = {s1, s2, b1}
    Bare = {b1}
    SoftMaxes = {0, 1}
    HardMax = 2
    MaxDel = 2
    Interrupts = TRUE
    Destroys = TRUE
    NoJob = NoJob
SPECIFICATION FairSpec
CHECK_DEADLOCK FALSE
INVARIANTS
    TypeOK
    JobsExact
    SoftLimit
    Attended
PROPERTIES
    JobsRun
    SubmitReturns
