SPECIFICATION FairSpec
CONSTANTS
  r1 = r1
  r2 = r2
  r3 = r3
  alice = alice
  bob = bob
  NoUser = NoUser
  NoTask = NoTask
  Requests <- ThreeRequests
  Users <- MCUsers
  UserOf <- TwoAuthors
  MaxRetries = 1
  Outcomes = {"deployed"}
  Faults = {"broker_lag"}
INVARIANTS
  NoOrphanedEdit
  AttributedToAnAuthor
PROPERTY EveryEditGoesLive
CHECK_DEADLOCK FALSE
