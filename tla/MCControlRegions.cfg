SPECIFICATION DeliverySpec
CONSTANTS
  Levels = {findings, plans}
  Premises = {}
  Agents = {a1}
  NoWriter = NoWriter
  Writers = {a1, app, NoWriter}
  Keys = {}
  NoKey = NoKey
  NoRegion = NoRegion
  NoDeclaration = NoDeclaration
  Idle = 1
  Wall = 1
  MaxSequence = 2
  MaxTime = 0
  Controls = {c1, c2}
  Reaching = {c2}
  Declarations = {"callback", "address"}
  Wants <- WantsAll
  PageSize = 2
  Predicated = {}
  LateStart = FALSE
  MaxCrashes = 0
  MaxFlight = 1
INVARIANT NoRegionLost
CHECK_DEADLOCK FALSE
