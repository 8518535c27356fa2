\* Two requests at once on Azure.
SPECIFICATION Spec
CONSTANTS
  Vm = {v1, v2}
  License = {l1}
  Handler = {h1, h2}
  Settings <- AzureInParallel
  MaxCount = 2
  None = None
INVARIANTS NoSharedLicense
CHECK_DEADLOCK FALSE
