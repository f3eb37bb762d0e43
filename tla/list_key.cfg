SPECIFICATION CachesSpec
CONSTANTS
  Clients = {c1, c2}
  Keys <- MCKeys
  CallKeys <- MCCallKeys
  InvalidKeys <- MCInvalid
  CallSets <- MCListsOnly
  Projects = {"p1", "p2"}
  Users = {"u1", "u2"}
  Listers = {c1}
  Queries <- MCStatusQueries
  OwnerOf <- MCOwnerOf
  Written = {"p1"}
  PageTTL = 1
  LockTTL = 2
  CacheFaults = FALSE
  NoLock = NoLock
  None = None
  Asks <- MCAsks
  Services = {s1, s2}
  Stamps = {1, 2}
  ConnectRetries = 2
INVARIANT StatusServed
