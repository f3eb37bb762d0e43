\* One project's data with texts and file lists at the limits of every rule,
\* and a walk through the pages of four projects.
SPECIFICATION Spec
CONSTANTS
  NoRow = NoRow
  Names <- MCNames
  Descriptions <- MCDescriptions
  Prompts <- MCPrompts
  FileLists <- MCFileLists
  Ages <- MCAges
  Projects = {p1, p2, p3, p4}
  Limits <- MCLimits
  MaxLimit = 3
CHECK_DEADLOCK FALSE
INVARIANTS AcceptedIsStored StoredWithinLimits ViewsAgree UntouchedSeen
