\* One request of a VM at a time, on either platform.
SPECIFICATION FairSpec
CONSTANTS
  Vm = {v1}
  Handler = {h1}
  Deployments <- AwsTerminatesAzureKeeps
  FirstSeqs = {0}
  Interval = 1
  DelayAllowance = 0
  HeartbeatLossCount = 2
  SyncRecoveryCount = 2
  Overlap = FALSE
  Faults = FALSE
  MaxTime = 7
  MaxReboots = 0
  MaxInFlight = 1
  NoRecord = NoRecord
PROPERTIES ImplementsLedger UnhealthyIsHandled
CHECK_DEADLOCK FALSE
