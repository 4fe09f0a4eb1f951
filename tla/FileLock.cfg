SPECIFICATION FairSpec
CONSTANTS
  p1 = p1
  p2 = p2
  p3 = p3
  i1 = i1
  i2 = i2
  i3 = i3
  i4 = i4
  NoFile = NoFile
  NoProc = NoProc
  Proc <- MCThree
  Inode <- MCThreeFiles
  Destroyers <- MCDestroyer
  Breakers <- MCBreaker
  MaxFaults = 1
INVARIANTS
  TypeOK
  FlockOwned
  ExclusiveWhileLinked
PROPERTY NeverStuck
