SPECIFICATION Spec
CONSTANTS
  Collectors = {k1}
  Pids = {p1, p2}
  MaxCommands = 3
  MaxFaults = 1
  None = None
PROPERTIES WithdrawnStaysWithdrawn
CHECK_DEADLOCK FALSE
