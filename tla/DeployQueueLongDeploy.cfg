SPECIFICATION Spec
CONSTANTS
  r1 = r1
  r2 = r2
  r3 = r3
  alice = alice
  bob = bob
  NoUser = NoUser
  NoTask = NoTask
  Requests <- ThreeRequests
  Users <- MCUsers
  UserOf <- NoAuthor3
  MaxRetries = 1
  Outcomes = {"deployed", "failed"}
  Faults = {"outlasts_retry"}
INVARIANT JoinedIsIncluded
CHECK_DEADLOCK FALSE
