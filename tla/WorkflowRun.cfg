\* A run after a save that failed.
SPECIFICATION MCSpec
CONSTANTS
  n1 = n1
  n2 = n2
  n3 = n3
  w1 = w1
  w2 = w2
  None = None
  NodeIds = {n1, n2, n3}
  Workflows = {w1, w2}
  Stored <- Published
  Imports <- File
  HistoryLimit = 1
  Jobs = {j1}
  MaxFaults = 1
  MaxGestures = 2
PROPERTIES RunsLatest
CHECK_DEADLOCK FALSE
