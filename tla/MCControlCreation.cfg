SPECIFICATION Spec
CONSTANTS
  Levels = {findings}
  Premises = {goal}
  Agents = {}
  NoWriter = NoWriter
  Writers = {app, NoWriter}
  Keys = {}
  NoKey = NoKey
  NoRegion = NoRegion
  NoDeclaration = NoDeclaration
  Idle = 1
  Wall = 2
  MaxSequence = 2
  MaxTime = 2
  Controls = {c1, c2}
  Reaching = {}
  Declarations = {"callback"}
  Wants <- WantsAll
  PageSize = 2
  Predicated = {c1}
  LateStart = FALSE
  MaxCrashes = 0
  MaxFlight = 0
INVARIANT CreationConverges
CHECK_DEADLOCK FALSE
