SPECIFICATION Spec
CONSTANTS
  r1 = r1 r2 = r2
  NoEval = NoEval NoEvent = NoEvent
  Evals = {e1, e2, e3}
  RemoteEvents = {r1}
  LocalEvents = {l1, l2}
  AuthChain <- mc_AuthChain
  Redelivery = FALSE
  PostHooks = TRUE
  Faults = FALSE
  MaxBoots = 0
INVARIANTS EventIdxConsistent
CHECK_DEADLOCK FALSE
