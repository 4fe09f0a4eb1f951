SPECIFICATION FairSpec
CONSTANTS
  p1 = p1
  p2 = p2
  None = None
  NoFile = NoFile
  Torn = Torn
  Process <- TwoApplies
  MaxId = 5
  MaxFaults = 1
  MaxEdits = 1
  MaxRotations = 2
INVARIANTS
  TypeOK
  NothingForgotten
PROPERTIES
  KeepsUsable
  EventuallyApplied
