SPECIFICATION Spec
CONSTANTS
  good1 = good1
  good2 = good2
  bad = bad
  Before = Before
  Torn = Torn
  NoDeploy = NoDeploy
  Deploys <- ThreeDeploys
  Accepted <- MCAccepted
  NFiles = 3
  Unlocked = {}
  Faults = {}
INVARIANTS
  TypeOK
  RestartSafe
  RunsWhatPassed
PROPERTIES
  DeployIsAtomic
CHECK_DEADLOCK FALSE
