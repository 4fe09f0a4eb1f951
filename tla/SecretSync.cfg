SPECIFICATION FairSpec
CONSTANTS
  q1 = q1
  q2 = q2
  p1 = p1
  p2 = p2
  v1 = v1
  v2 = v2
  NoProc = NoProc
  NoSecret = NoSecret
  NoFile = NoFile
  Edited = Edited
  Proc <- MCProc
  Path <- MCPath
  Value <- MCValue
  Dedicated <- MCDedicated
  Configured <- MCConfigured
  Chosen <- MCChosen
  MaxStamp = 5
  MaxFaults = 1
  MaxEdits = 1
  MaxChanges = 1
CHECK_DEADLOCK FALSE
INVARIANTS
  TypeOK
  LedgerTrue
  RecordsSealed
PROPERTIES
  EditsKept
  EventuallySynced
