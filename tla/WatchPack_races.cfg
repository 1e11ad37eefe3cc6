CONSTANTS
  MaxTasks = 3
  Pausers = {p1, p2}
  None = None
  MaxCrashes = 1
SPECIFICATION FairSpec
INVARIANTS Stoppable StatusIsTrue
PROPERTIES PausedFallsSilent
