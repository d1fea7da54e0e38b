CONSTANTS
    Clients = {c1, c2}
    Events = {v1, v2, v3}
    Relevant = {v1, v2}
    Silent = {v2}
    MaxIdx = 3
    LinearMax = 2
    Capped = {c2}
SPECIFICATION FairSpec
INVARIANTS
    TypeOK
    PollAsserts
PROPERTIES
    
    PollReleased
