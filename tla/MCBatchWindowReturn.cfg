SPECIFICATION Spec
CONSTANTS
  now = now
  soon = soon
  late = late
  Regions = {now, soon, late}
  Premises = {soon, late}
  Window <- Windows
  LongestWindow = 2
  MaxTime = 4
  MaxSequence = 2
  MaxLives = 2
PROPERTIES StaleCallChangesNothing
CHECK_DEADLOCK FALSE
