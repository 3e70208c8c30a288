SPECIFICATION SweptSpec
CONSTANTS
  Levels = {}
  Premises = {goal}
  Agents = {}
  NoWriter = NoWriter
  Writers = {app, NoWriter}
  Keys = {}
  NoKey = NoKey
  NoRegion = NoRegion
  NoDeclaration = NoDeclaration
  Idle = 1
  Wall = 1
  MaxSequence = 2
  MaxTime = 2
  Controls = {c1, c2}
  Reaching = {}
  Declarations = {"callback"}
  Wants <- WantsAll
  PageSize = 2
  Predicated = {c1}
  LateStart = FALSE
  MaxCrashes = 1
  MaxFlight = 0
INVARIANT OneOutcome
PROPERTIES SettlesAfterCalls EveryRunCloses
CHECK_DEADLOCK FALSE
