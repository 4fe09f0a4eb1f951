SPECIFICATION RegistrySpec
CONSTANTS
  k1 = k1
  k2 = k2
  k3 = k3
  other = other
  ssh = ssh
  age1 = age1
  age2 = age2
  ssh1 = ssh1
  NoKey = NoKey
  Key <- MCKey
  Group <- MCGroup
  AgeGroup <- MCAgeGroup
  GroupOf <- MCGroupOf
SYMMETRY MCSymmetry
INVARIANTS
  RegistryTypeOK
  OnePrimary
  Lineage
PROPERTIES
  KeepsRing
