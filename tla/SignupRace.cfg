SPECIFICATION StorySpec
CONSTANTS
  a1 = a1
  a2 = a2
  k1 = k1
  k2 = k2
  s1 = s1
  p1 = p1
  p2 = p2
  None = None
  Ticket = a1
  Attempts = {a1}
  Codes = {k1, k2}
  Sessions = {s1}
  Profiles = {p1}
  Callers = {x1, x2}
  Evidence <- TwoTicks
  Requests <- RaceRequests
  HostRequests <- RaceRequests
  Lifetime = 1
  MaxTime = 2
  Skew = 0
  MaxFaults = 1
  MaxActs = 2
SYMMETRY RaceSymmetry
CHECK_DEADLOCK FALSE
INVARIANTS CodeInCustody ToldIsFinal ShownIsRecorded
PROPERTIES AuthorityIsFresh ImplementsStore
