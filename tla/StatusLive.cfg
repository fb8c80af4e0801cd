\* Waiting for rows, keys and COMMIT, and retrying after a lost answer.  No symmetry: the property is liveness.
SPECIFICATION LiveSpec
CONSTANTS
  None = None
  b1 = b1
  b2 = b2
  actor = actor
  k1 = k1
  k2 = k2
  k3 = k3
  k4 = k4
  proof = proof
  Actors = {actor}
  Keys = {k1, k2, k3, k4}
  Evidence = {proof}
  Baselines = {b1}
  Ids <- PackageIds
  Packages <- LivePackages
  Preds <- LivePreds
  EventIds = {1, 2, 3}
  Clients = {c1, c2}
  Requests <- LiveRequests
  MaxVersion = 3
  MaxEpoch = 2
  MaxOrphans = 1
PROPERTIES CallsReturn RepeatedReceiptIsRecovered
