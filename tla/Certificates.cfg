SPECIFICATION Spec
CONSTANTS
  a = a
  b = b
  p = p
  q = q
  Domains = {a}
  Workers = {p}
  Sweepers = {q}
  Syncers = {q}
  Deleters = {q}
  Faults = {"host_renewal", "task_death"}
  Editable = {}
  MaxVersion = 2
  MaxPk = 2
INVARIANTS
  TypeOK
  FilesAreThere
  BusyHasWorker
  ServedIsDeployed
