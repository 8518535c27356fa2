\* Two VMs, of which one may be launched after the list was cached, and two requests at once.
SPECIFICATION Spec
CONSTANTS
  v1 = v1
  v2 = v2
  h1 = h1
  h2 = h2
  Vm = {v1, v2}
  Handler = {h1, h2}
  Undefined = Undefined
  None = None
INVARIANT RunningVmIsFound
