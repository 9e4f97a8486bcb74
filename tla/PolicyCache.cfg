SPECIFICATION FairSpec
CONSTANTS
  p1 = p1
  office = office
  None = None
  Deploy = Deploy
  Loopback = Loopback
  Requests <- OneRequest
  Addresses <- TwoAddresses
  Changes <- Edits
  Seed <- WithCa
  MaxWrites = 3
INVARIANTS
  TypeOK
  StaleOnlyByRace
  LiveIsCurrent
  MtlsHasCa
PROPERTY
  CacheSettles
CHECK_DEADLOCK FALSE
