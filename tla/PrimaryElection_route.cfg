\* A request of an unhealthy VM that elects another one.
SPECIFICATION Spec
CONSTANTS
  Vm = {v1, v2}
  Preferred = {v1, v2}
  Handler = {h1}
  Deployments <- AwsTimed
  Group = Group
  Instant = {1, 2, 3, 4, 5, 6}
  Silent = {v1}
  Troubled = {v1}
  Faults = {}
  None = None
INVARIANTS RouteFollowsPrimary
CHECK_DEADLOCK FALSE
