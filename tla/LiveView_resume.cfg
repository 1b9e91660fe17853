\* One session, two changes, one pause.
SPECIFICATION Spec
CONSTANTS
  Sessions = {s1}
  None = None
  Batch = 1
  MaxChanges = 2
  MaxSteps = 4
CHECK_DEADLOCK FALSE
INVARIANT ResumedIsFresh
