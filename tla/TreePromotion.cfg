SPECIFICATION FairSpec
CONSTANTS
  a = a
  b = b
  s = s
  v1 = v1
  v2 = v2
  Absent = Absent
  Edited = Edited
  Sealed = Sealed
  Path <- MCPath
  Seed <- MCSeed
  Credential <- MCCredential
  Value <- MCValue
  Renders <- MCRenders
  Chosen <- MCChosen
  MaxFaults = 1
  MaxEdits = 1
  MaxChanges = 1
CHECK_DEADLOCK FALSE
INVARIANTS
  TypeOK
  LedgerTrue
PROPERTIES
  EditsSaved
  EventuallyPromoted
