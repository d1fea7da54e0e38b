CONSTANTS
    n1 = n1
    MaxUnits = 4
    Nodes = {n1, n2}
    Targets <- mc_Targets
SPECIFICATION FairSpec
INVARIANTS
    TypeOK
    OneTxn
PROPERTIES
    Carried
    Flushed
    TxnsEnd
CHECK_DEADLOCK FALSE
