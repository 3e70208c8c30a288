SPECIFICATION ReplicasSpec
CONSTANTS
  Levels = {findings}
  Premises = {}
  Agents = {}
  NoWriter = NoWriter
  Writers = {app, NoWriter}
  Keys = {}
  NoKey = NoKey
  NoRegion = NoRegion
  NoDeclaration = NoDeclaration
  Idle = 1
  Wall = 2
  MaxSequence = 2
  MaxTime = 2
  Controls = {c1, c2}
  Reaching = {}
  Declarations = {"callback"}
  Wants <- WantsAll
  PageSize = 2
  Predicated = {}
  LateStart = FALSE
  MaxCrashes = 0
  MaxFlight = 0
PROPERTY GateRefusesClosed
CHECK_DEADLOCK FALSE
