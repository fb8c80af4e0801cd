SPECIFICATION LiveSpec
CONSTANTS
  a1 = a1
  a2 = a2
  k1 = k1
  k2 = k2
  s1 = s1
  p1 = p1
  p2 = p2
  None = None
  Ticket = a1
  Attempts = {a1, a2}
  Codes = {k1, k2}
  Sessions = {s1}
  Profiles = {p1, p2}
  Callers = {x1}
  Evidence <- TwoTicks
  Requests <- AllRequests
  HostRequests <- RetryRequests
  Lifetime = 1
  MaxTime = 3
  Skew = 1
  MaxFaults = 1
  MaxActs = 2
CHECK_DEADLOCK FALSE
INVARIANTS RecordsAreReadable
PROPERTIES AttemptsEnd CancelEnds
