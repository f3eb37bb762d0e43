SPECIFICATION Spec
CONSTANTS
  Exports = {"e1"}
  Queueing = {}
  Polled = {}
  Users = {"u1", "u2"}
  Asked <- MCAsked
  ProjectFiles <- MCProjectFiles
  V4 <- MCV4
  Nature <- MCNature
  Size <- MCSize
  maxRetries = 1
  BATCH_SIZE = 2
  ToolFaults = TRUE
  None = None
CHECK_DEADLOCK FALSE
INVARIANT FullExportServed
