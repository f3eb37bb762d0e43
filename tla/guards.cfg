SPECIFICATION Spec
CONSTANTS
  Clients = {c1, c2}
  Tokens = {"ta", "tb"}
  Users = {"ann", "bob"}
  ProjectOwner = "ann"
  TokenUser <- MCTokenUser
  Requested <- MCRequested
  Revocable = {"ta"}
  TTL = 2
  ShortTTL = 1
  GuardFaults = {"cache", "db", "auth"}
  None = None
INVARIANTS AdmittedOnRecentValidation OnlyOwnerPasses DeletedGrantFades OwnerRefusedOnlyAfterArchive
