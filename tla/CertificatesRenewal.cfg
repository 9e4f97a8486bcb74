SPECIFICATION FairSpec
CONSTANTS
  a = a
  b = b
  p = p
  q = q
  Domains = {a}
  Workers = {p}
  Sweepers = {q}
  Syncers = {q}
  Deleters = {q}
  Faults = {"host_renewal"}
  Editable = {a}
  MaxVersion = 2
  MaxPk = 1
PROPERTIES
  FileIsNoted
  DueIsAttempted
