SPECIFICATION FairSpec
CONSTANTS
  now = now
  soon = soon
  late = late
  Regions = {now, soon, late}
  Premises = {soon, late}
  Window <- Windows
  LongestWindow = 2
  MaxTime = 4
  MaxSequence = 2
  MaxLives = 2
INVARIANTS TypeOK PendingIsArmed ToldByDue
PROPERTIES OwnStaleCallChangesNothing EveryWriteIsTold
CHECK_DEADLOCK FALSE
