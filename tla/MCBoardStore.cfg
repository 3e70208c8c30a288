SPECIFICATION Spec
CONSTANTS
  Levels = {findings}
  Premises = {goal}
  Agents = {a1}
  Writers = {app}
  Keys = {k1}
  Declarations = {d1, d2}
  NoKey = NoKey
  NoRegion = NoRegion
  NoDeclaration = NoDeclaration
  Idle = 1
  Wall = 1
  MaxSequence = 2
  MaxTime = 1
INVARIANTS TypeOK RecordAgrees KeyWritesOnce OutboxKeepsIntent AckedWithinNotified
PROPERTIES ProgressOnlyRises OutcomeStands KeepsTheRecord
