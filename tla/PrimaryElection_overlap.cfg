\* Two requests at once on AWS, with failures of every kind.
SPECIFICATION Spec
CONSTANTS
  Vm = {v1, v2}
  Preferred = {v1, v2}
  Handler = {h1, h2}
  Deployments <- AwsTimed
  Group = Group
  Instant = {1, 2, 3, 4, 5, 6}
  Silent = {}
  Troubled = {v1, v2}
  Faults = {"delete", "elect", "save", "tag", "terminate", "abort"}
  None = None
SYMMETRY OverlapSymmetry
VIEW WithoutRouteAndTags
PROPERTIES ElectionNotOverruled
CHECK_DEADLOCK FALSE
