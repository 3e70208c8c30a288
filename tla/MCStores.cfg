SPECIFICATION Spec
CONSTANTS
  Levels = {l}
  Premises = {p}
  Agents = {a}
  Keys = {k}
  NoKey = NoKey
  c1 = c1
  c2 = c2
  Callers = {c1, c2}
  ProcessOf <- TwoProcesses
  Engines = {"sqlite", "mongo", "postgres"}
  Topics = {"record", "run"}
  MaxWrites = 2
  MaxOpens = 2
INVARIANTS TypeOK RecordWhole OneCloses AckedWithinNotified
PROPERTIES KeysAgree RetryIsRecognised ConflictIsFinalInOneSnapshot OneFirstAnswerOfServers KeepsTheRecord
SYMMETRY Symmetry
CHECK_DEADLOCK FALSE
