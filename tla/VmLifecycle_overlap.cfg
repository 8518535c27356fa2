SPECIFICATION Spec
CONSTANTS
  v1 = v1
  h1 = h1
  h2 = h2
  n1 = n1
  n2 = n2
  c1 = c1
  None = None
  Vm = {v1}
  Handler = {h1, h2}
  Nic = {n1, n2}
  Vpn = {c1}
  MaxFaults = 1
  RunTime = 1
  MaxExecutionTime = 3
  Deployments <- OverlapDeployments
SYMMETRY HandlerSymmetry
INVARIANT TypeOK
INVARIANT AttachedIsTagged
INVARIANT InServiceWasConfigured
INVARIANT RecordedIsRouted
CHECK_DEADLOCK FALSE
