SPECIFICATION Spec
CONSTANTS
  Actors = {x, y, z}
  Known = {x, y, z}
  MaxProfiles = 2
  MaxVerdicts = 2
  MaxCommands = 2
  MaxTasks = 2
SYMMETRY ActorSymmetry
INVARIANTS PersonasAreVouched ListsMatchRows AnnouncedHasRow VerdictsLand
PROPERTY VerdictsAreFinal
CHECK_DEADLOCK FALSE
