SPECIFICATION Spec
CONSTANTS
  Messages = {1, 2, 3}
  SentAt <- Times
  Flagged = {3}
  PRIMITIVES <- One
  Dispatches = {d1, d2, d3}
  MaxFaults = 1
SYMMETRY DeliverySymmetry
INVARIANTS PassedIsRead SlotsHaveRows
CHECK_DEADLOCK FALSE
