CONSTANTS
    Requests = {r1, r2, r3}
    Links = {l1}
    LinkMin = 1
    CommitMax = 3
    MaxFaults = 0
    Coalesce = TRUE
SPECIFICATION Spec
SYMMETRY mc_Symmetry
CHECK_DEADLOCK FALSE
INVARIANT
    OwnAnswer
