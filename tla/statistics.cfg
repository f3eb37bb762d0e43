SPECIFICATION Spec
CONSTANTS
  Requests = {r1, r2}
  Projects = {"p1", "p2"}
  Known = {"p1"}
  Updates <- MCUpdates
  StatTTL = 1
  GlobalTTL = 2
  StatFaults = TRUE
  None = None
SYMMETRY RequestSymmetry
INVARIANTS  StaleOnlyAfterOverlap RemovedFades
