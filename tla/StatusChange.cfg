\* Two stories, two callers, at most two orphaned commits, one placement move.
SPECIFICATION StorySpec
CONSTANTS
  None = None
  b1 = b1
  b2 = b2
  actor = actor
  k1 = k1
  k2 = k2
  k3 = k3
  k4 = k4
  proof = proof
  Actors = {actor}
  Keys = {k1, k2, k3, k4}
  Evidence = {proof}
  Baselines = {b1, b2}
  Ids <- PackageIds
  Packages <- StoryPackages
  Preds <- StoryPreds
  EventIds = {e1, e2, e3, e4}
  Clients = {c1, c2}
  Requests <- StoryRequests
  MaxVersion = 4
  MaxEpoch = 2
  MaxOrphans = 2
SYMMETRY StorySymmetry
INVARIANTS DoneIsVerified StartedAfterPredecessors HistoryIsChain StaleRefusalIsFinal
PROPERTIES WritesUnderPlacement ImplementsLedger
