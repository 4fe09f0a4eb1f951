SPECIFICATION FairSpec
CONSTANTS
  g1 = g1
  g2 = g2
  NoGen = NoGen
  NoFile = NoFile
  Torn = Torn
  NSteps = 5
  Gen <- MCGen
  Always <- MCAlways
  Probes <- MCProbes
  Apply = 2
  Lifecycle <- MCLifecycle
  Completion <- MCCompletion
  Serving = 5
  Chosen <- MCChosen
  MaxFaults = 1
CHECK_DEADLOCK FALSE
INVARIANTS
  TypeOK
  ResumesOwnWork
  CompleteWhenReady
PROPERTY EventuallyDeployed
