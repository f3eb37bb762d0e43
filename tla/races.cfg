SPECIFICATION Spec
CONSTANTS
  Requests = {r1, r2, r3}
  Projects = {p1}
  Users = {u1}
  Names = {n1}
  Files = {f1}
  Ops = {"update", "archive", "delete", "updateGeneratedFiles"}
  Seeds = {p1}
  Faults = {}
  UniqueStamps = TRUE
  None = None
SYMMETRY RequestSymmetry
INVARIANTS ArchivedOnce StatusReported FilesKept
PROPERTIES DeletedIsFinal NoOverwriteOfUnread ArchivedEventTruthful
