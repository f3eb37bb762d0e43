SPECIFICATION FairSpec
CONSTANTS
  Publishers = {p1, p2}
  EventTypes = {"project.created", "project.updated"}
  Threshold = 3
  CriticalRetries = 3
  StandardRetries = 2
  None = None
INVARIANTS ClosedBelowThreshold DeliveryCount
PROPERTIES ImplementsPublication PublicationReturns BreakerRecovers
