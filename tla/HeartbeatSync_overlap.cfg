\* Two requests of one VM at once, with faults, on either platform.
SPECIFICATION Spec
CONSTANTS
  Vm = {v1}
  Handler = {h1, h2}
  Deployments <- AwsKeepsAzureTerminates
  FirstSeqs = {1}
  Interval = 1
  DelayAllowance = 0
  HeartbeatLossCount = 1
  SyncRecoveryCount = 2
  Overlap = TRUE
  Faults = TRUE
  MaxTime = 4
  MaxReboots = 1
  MaxInFlight = 1
  NoRecord = NoRecord
SYMMETRY HandlerSymmetry
INVARIANTS TypeOK RecordConsistent
PROPERTIES NoOlderOverwrite NoRegressionBeforeReboot
CHECK_DEADLOCK FALSE
