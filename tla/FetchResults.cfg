CONSTANTS
    a = a b = b s1 = s1 u1 = u1
    Users = {u1}
    Worker = Worker NoCtx = NoCtx
    Requests = {a, b}
    Asks <- mc_Asks
    Servers = {s1, s2}
    Errant = {s2}
    Hint <- mc_Hint
    AttemptLimit <- mc_AttemptLimit
    RequestsMax = 2
    End = End Unset = Unset
SPECIFICATION FairSpec
PROPERTIES
    CallReturns
CHECK_DEADLOCK FALSE
