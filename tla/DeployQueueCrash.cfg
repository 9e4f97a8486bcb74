SPECIFICATION FairSpec
CONSTANTS
  r1 = r1
  r2 = r2
  r3 = r3
  alice = alice
  bob = bob
  NoUser = NoUser
  NoTask = NoTask
  Requests <- ThreeRequests
  Users <- MCUsers
  UserOf <- NoAuthor3
  MaxRetries = 1
  Outcomes = {"deployed", "failed"}
  Faults = {"publish_error", "worker_death", "broker_lag", "outlasts_retry"}
INVARIANTS
  TypeOK
  MutualExclusion
PROPERTIES
  SiteNeverRegresses
  LockIsFreed
  
  DeploysAreSerial
CHECK_DEADLOCK FALSE
