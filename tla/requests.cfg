SPECIFICATION FairSpec
CONSTANTS
  Requests = {r1, r2}
  Projects = {p1, p2}
  Users = {u1, u2}
  Names = {n1}
  Files = {f1}
  Ops = {"create", "findOne", "update", "archive", "delete", "updateGeneratedFiles"}
  Seeds = {p1}
  Faults = {"db", "cache", "events", "crash"}
  UniqueStamps = TRUE
  None = None
INVARIANT OnlyOwnerServed
PROPERTIES ImplementsLifecycle EveryRequestAnswered
