SPECIFICATION LiveSpec
CONSTANTS
  Collectors = {k1, k2}
  Pids = {p1, p2}
  MaxCommands = 3
  MaxFaults = 1
  None = None
INVARIANTS OneServingChild StoppedMeansAsked
PROPERTIES StartsEventually StopsEventually
CHECK_DEADLOCK FALSE
