\* Requests of three VMs for two licenses, two at a time on AWS.
SPECIFICATION Spec
CONSTANTS
  Vm = {v1, v2, v3}
  License = {l1, l2}
  Handler = {h1, h2}
  Settings <- AllButAzureInParallel
  MaxCount = 2
  None = None
SYMMETRY Symmetry
INVARIANTS TypeOK NoSharedLicense OneLicensePerVm
PROPERTIES OutOfStockIsTrue ImplementsPool
CHECK_DEADLOCK FALSE
