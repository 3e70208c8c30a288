SPECIFICATION Spec
CONSTANTS
  Levels = {l}
  Premises = {p}
  Agents = {a}
  Keys = {k}
  NoKey = NoKey
  c1 = c1
  c2 = c2
  Callers = {c1, c2}
  ProcessOf <- TwoProcesses
  Engines = {"sqlite"}
  Topics = {"record"}
  MaxWrites = 2
  MaxOpens = 2
PROPERTY ConflictIsFinal
SYMMETRY Symmetry
CHECK_DEADLOCK FALSE
