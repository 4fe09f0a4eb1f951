SPECIFICATION Spec
CONSTANTS
  k1 = k1
  k2 = k2
  k3 = k3
  u = u
  other = other
  mine = mine
  theirs = theirs
  all = all
  some = some
  m1 = m1
  m2 = m2
  p1 = p1
  NoKey = NoKey
  SopsConfig = SopsConfig
  Key <- MCKey
  Group <- MCGroup
  AgeGroup <- MCGroup
  GroupOf <- MCGroupOf
  Cluster = mine
  Rule <- MCRule
  Manifest <- MCManifest
  RuleOf <- MCRuleOf
  InitialRules <- MCInitialRules
  InitialStatus <- MCUnregistered
  InitialPrimary <- MCNone
  InitialKeyFile <- MCKeyFile
  Held <- MCHeld
  Proc <- MCOne
  Commands <- MCAllCommands
  Flaky <- MCFlaky
  MaxCrashes = 1
SYMMETRY MCSymmetry
INVARIANTS
  TypeOK
  RolledBack
  DualKey
  RetiredOut
PROPERTIES
  OnlyTargetRemoved
  StaysAuthorized
  KeepsRegistry
