SPECIFICATION Spec
CONSTANTS
  Actors = {x, y, z}
  Known = {x, y, z}
  MaxProfiles = 1
  MaxVerdicts = 2
  MaxCommands = 0
  MaxTasks = 2
SYMMETRY ActorSymmetry
INVARIANT RejectedNeverMerges
CHECK_DEADLOCK FALSE
