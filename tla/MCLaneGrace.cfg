SPECIFICATION Spec
CONSTANTS
  Lanes = {l1}
  Notifier = Notifier
  Stop = Stop
  Attempts = 2
  RecordsSends = TRUE
  Outlasts = TRUE
  MaxNotes = 2
INVARIANT NothingUnreported
CHECK_DEADLOCK FALSE
