SPECIFICATION RunningSpec
CONSTANTS
  Lanes = {l1}
  Notifier = Notifier
  Stop = Stop
  Attempts = 2
  RecordsSends = TRUE
  Outlasts = TRUE
  MaxNotes = 3
INVARIANTS TypeOK OneFate OnlySendsAreMarked
PROPERTIES CloseAccounts EveryQueuedIsAnswered
CHECK_DEADLOCK FALSE
