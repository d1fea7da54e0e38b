CONSTANTS
    Ctxs = {c1, c2, c3}
    NoCtx = NoCtx
    Min <- mc_Min
    MaxTries = 2
    Usages = {{"upgrade"}, {"convert"}}
SPECIFICATION FairSpec
INVARIANTS
    TypeOK
    WriterExclusive
PROPERTY
    ReadersReleased
