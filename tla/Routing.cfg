SPECIFICATION FairSpec
CONSTANTS
  d = d
  b1 = b1
  b2 = b2
  b3 = b3
  r1 = r1
  h1 = h1
  h2 = h2
  i = i
  v = v
  o1 = o1
  o2 = o2
  None = None
  AcceptEncoding = AcceptEncoding
  Domains <- OneDomain
  Backends <- ThreeBackends
  Rules <- OneRule
  Instances <- OneInstance
  Values <- OneValue
  UpstreamOf <- SharedName
  Routes <- TwoRoutes
  Headers <- TwoHeaders
  Operators <- TwoOperators
  Patches <- CacheEdits
  NewRules <- NewAny
  Seed <- SmallSites
  MaxEdits = 2
INVARIANTS
  TypeOK
  RefusedIsRetried
  LiveIsCurrent
  UnsafeOnlyByOverlap
  KeyedUntilEdited
PROPERTY
  Settles
CHECK_DEADLOCK FALSE
