SPECIFICATION ClientSpec
CONSTANTS
  Levels = {findings}
  Premises = {goal}
  Keys = {k}
  NoKey = NoKey
  Agents = {a}
  MayWrite <- WritesAll
  DefaultLimit = 1
  MaxLimit = 1
  Callers = {c1}
  Operations = {"write", "set_premise", "read_board", "read_level", "ack"}
  Attempts = 2
  MaxCalls = 2
  MaxLog = 2
INVARIANTS TypeOK AtMostOnce AnswersAreTrue PagesAreWhole
PROPERTY EveryCallReturns
CHECK_DEADLOCK FALSE
