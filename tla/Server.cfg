CONSTANTS
    Requests = {r1, r2, r3}
    Links = {l1, l2}
    LinkMin = 1
    CommitMax = 2
    MaxFaults = 2
    Coalesce = FALSE
SPECIFICATION FairSpec
CHECK_DEADLOCK FALSE
INVARIANTS
    TypeOK
    OwnAnswer
    PipeExact
    Carried
PROPERTIES
    Completes
    Closes
