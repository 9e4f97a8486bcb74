SPECIFICATION FairSpec
CONSTANTS
  r1 = r1
  r2 = r2
  c1 = c1
  c2 = c2
  None = None
  Requests <- TwoRequests
  Codes <- TwoCodes
  Threshold = 2
  Minutes = 2
  Week = 1
  MaxCount = 3
  MaxUses = 2
  MaxDevices = 1
  MaxSetups = 2
INVARIANTS
  TypeOK
  ThresholdLocks
  LateFailuresAreFew
  ConfirmedIsProven
  CodesWorkOnce
PROPERTY
  LockEnds
CHECK_DEADLOCK FALSE
