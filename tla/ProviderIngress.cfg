SPECIFICATION MCSpec
CONSTANTS
  Events <- MCEvents
  Cells = {c1, c2}
  Requests = {r1, r2, r3}
  Latecomer = r3
  Slots = 2
  MaxMoves = 1
INVARIANTS EventsInOrder
CHECK_DEADLOCK FALSE
PROPERTIES ImplementsDelivery AcknowledgedIsApplied
