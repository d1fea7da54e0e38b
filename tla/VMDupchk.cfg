SPECIFICATION FairSpec
CONSTANTS
  r1 = r1 r2 = r2
  NoEval = NoEval NoEvent = NoEvent
  Evals = {e1, e2}
  RemoteEvents = {r1}
  LocalEvents = {}
  AuthChain <- mc_AuthChain
  Redelivery = TRUE
  PostHooks = FALSE
  Faults = FALSE
  MaxBoots = 0
PROPERTIES DupchkReleases
CHECK_DEADLOCK FALSE
