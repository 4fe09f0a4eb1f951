SPECIFICATION FairSpec
CONSTANTS
  p1 = p1
  p2 = p2
  None = None
  NoFile = NoFile
  Torn = Torn
  Process <- OneApply
  MaxId = 4
  MaxFaults = 1
  MaxEdits = 0
  MaxRotations = 1
PROPERTY AdoptsCompleted
