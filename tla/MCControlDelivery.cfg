SPECIFICATION DeliverySpec
CONSTANTS
  Levels = {findings}
  Premises = {}
  Agents = {a1}
  NoWriter = NoWriter
  Writers = {a1, app, NoWriter}
  Keys = {}
  NoKey = NoKey
  NoRegion = NoRegion
  NoDeclaration = NoDeclaration
  Idle = 1
  Wall = 1
  MaxSequence = 2
  MaxTime = 0
  Controls = {c1, c2}
  Reaching = {c2}
  Declarations = {"address"}
  Wants <- WantsAll
  PageSize = 2
  Predicated = {}
  LateStart = FALSE
  MaxCrashes = 1
  MaxFlight = 2
INVARIANTS TypeOK NoNotificationLost EveryNotificationAnswerable CacheNeverAhead
CHECK_DEADLOCK FALSE
