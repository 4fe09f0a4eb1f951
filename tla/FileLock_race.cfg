SPECIFICATION Spec
CONSTANTS
  p1 = p1
  p2 = p2
  p3 = p3
  i1 = i1
  i2 = i2
  i3 = i3
  i4 = i4
  NoFile = NoFile
  NoProc = NoProc
  Proc <- MCTwo
  Inode <- MCThreeFiles
  Destroyers <- MCNone
  Breakers <- MCNone
  MaxFaults = 0
INVARIANT Exclusion
