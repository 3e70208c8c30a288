SPECIFICATION Spec
CONSTANTS
  Lanes = {l1}
  Notifier = Notifier
  Stop = Stop
  Attempts = 2
  RecordsSends = TRUE
  Outlasts = FALSE
  MaxNotes = 2
INVARIANT NothingLeftQueued
CHECK_DEADLOCK FALSE
