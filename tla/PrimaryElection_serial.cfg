\* One request at a time, on either platform, with either firmware; v3 is in another scaling group.
SPECIFICATION FairSpec
CONSTANTS
  Vm = {v1, v2, v3}
  Preferred = {v1, v2}
  Handler = {h1}
  Deployments <- EveryPairOfSettings
  Group = Group
  Instant = {1, 2, 3, 4}
  Silent = {v1}
  Troubled = {v1}
  Faults = {}
  None = None
INVARIANTS TypeOK SinglePrimaryRecord
PROPERTIES FitPrimaryKept RouteMovesToPrimary TagMovesToPrimary GonePrimaryReplaced
CHECK_DEADLOCK FALSE
