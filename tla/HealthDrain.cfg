SPECIFICATION FairSpec
CONSTANTS
  b1 = b1
  b2 = b2
  i1 = i1
  sweep = sweep
  panel = panel
  Backends = {b1, b2}
  Instances = {i1}
  BackendOf <- InFirst
  Sweepers = {sweep}
  OnDemand = {panel}
  Settings <- AllSettings
  Choices <- FirstIsEdited
  Editable = {i1}
  Flaky = {i1}
  MaxCount = 2
INVARIANTS
  TypeOK
  DecisionIsDeployed
PROPERTIES
  Recovers
