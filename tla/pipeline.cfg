SPECIFICATION FairSpec
CONSTANTS
  Exports <- MCExports
  Queueing <- MCQueueing
  Polled = {"e2"}
  Users = {"u1", "u2"}
  Asked <- MCAsked
  ProjectFiles <- MCProjectFiles
  V4 <- MCV4
  Nature <- MCNature
  Size <- MCSize
  maxRetries = 1
  BATCH_SIZE = 2
  ToolFaults = TRUE
  None = None
CHECK_DEADLOCK FALSE
INVARIANTS EveryFileAccounted ServedWhatWasAsked NoTempLeft CompletedIsTrue
PROPERTY EveryExportEnds
