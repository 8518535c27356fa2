SPECIFICATION FairSpec
CONSTANTS
  v1 = v1
  h1 = h1
  n1 = n1
  n2 = n2
  c1 = c1
  None = None
  Vm = {v1}
  Handler = {h1}
  Nic = {n1, n2}
  Vpn = {c1}
  MaxFaults = 2
  RunTime = 1
  MaxExecutionTime = 3
  Deployments <- SerialDeployments
INVARIANT LeavesNoTrace
INVARIANT InServiceIsAttached
INVARIANT RecordedIsAttached
INVARIANT StrayIsFindable
PROPERTY HooksAreCompleted
PROPERTY RoutesConclude
CHECK_DEADLOCK FALSE
