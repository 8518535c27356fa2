\* Two heartbeats of a recovering VM handled at once.
SPECIFICATION Spec
CONSTANTS
  Vm = {v1}
  Handler = {h1, h2}
  Deployments <- AwsKeepsUnhealthy
  FirstSeqs = {1}
  Interval = 1
  DelayAllowance = 0
  HeartbeatLossCount = 1
  SyncRecoveryCount = 2
  Overlap = TRUE
  Faults = FALSE
  MaxTime = 5
  MaxReboots = 0
  MaxInFlight = 1
  NoRecord = NoRecord
PROPERTIES RecoveryIsEarned
CHECK_DEADLOCK FALSE
