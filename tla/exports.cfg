\* Three calls at a time and without end on one slot, a queue of one, runs that
\* outlive the cleanup.
SPECIFICATION FairSpec
CONSTANTS
  Exports = {e1, e2, e3}
  maxConcurrentExports = 1
  MaxQueue = 1
  Priorities = {2, 3}
  Hangs = TRUE
INVARIANTS SlotsReturned NoIdleSlot QueuedStillWaiting
PROPERTY EveryExportAnswered
