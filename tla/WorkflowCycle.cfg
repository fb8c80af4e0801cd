\* An insertion into an edge that undo has taken away.
SPECIFICATION MCSpec
CONSTANTS
  n1 = n1
  n2 = n2
  n3 = n3
  w1 = w1
  w2 = w2
  None = None
  NodeIds = {n1, n2, n3}
  Workflows = {w1}
  Stored <- Loose
  Imports <- File
  HistoryLimit = 3
  Jobs = {j1}
  MaxFaults = 1
  MaxGestures = 7
INVARIANTS Acyclic
CHECK_DEADLOCK FALSE
