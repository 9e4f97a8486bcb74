SPECIFICATION Spec
CONSTANTS
  good1 = good1
  good2 = good2
  bad = bad
  Before = Before
  Torn = Torn
  NoDeploy = NoDeploy
  Deploys <- TwoDeploys
  Accepted <- MCAccepted
  NFiles = 3
  Unlocked = {}
  Faults = {"render_error", "exception", "worker_death", "restart_midway"}
PROPERTY DeployedIsLive
CHECK_DEADLOCK FALSE
