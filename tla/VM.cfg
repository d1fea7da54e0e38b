SPECIFICATION FairSpec
CONSTANTS
  r1 = r1 r2 = r2
  NoEval = NoEval NoEvent = NoEvent
  Evals = {e1, e2, e3}
  RemoteEvents = {r1, r2}
  LocalEvents = {l1, l2}
  AuthChain <- mc_AuthChain
  Redelivery = TRUE
  PostHooks = TRUE
  Faults = TRUE
  MaxBoots = 1
INVARIANTS TypeOK UniqueSequence CommitExclusive SequenceAsserts AcceptedDurable
PROPERTIES WrittenOnce LogSpec SequenceReleased ExecuteReturns
CHECK_DEADLOCK FALSE
