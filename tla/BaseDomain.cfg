SPECIFICATION FairSpec
CONSTANTS
  p1 = p1
  p2 = p2
  placeholder = placeholder
  a = a
  b = b
  Placeholder = placeholder
  None = None
  Custom = Custom
  Process <- TwoProcesses
  Pipeline <- OneProcess
  Domain <- Domains
  MaxEdits = 1
  MaxFaults = 1
INVARIANTS
  TypeOK
  IdentityAgrees
PROPERTIES
  OwnedStays
  EventuallyAgrees
