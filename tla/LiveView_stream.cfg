\* Two sessions, up to two changes of the index; changes, clicks, broken streams and
\* failed requests of the page three in all.
SPECIFICATION Spec
CONSTANTS
  Sessions = {s1, s2}
  None = None
  Batch = 1
  MaxChanges = 2
  MaxSteps = 3
SYMMETRY Symmetry
CHECK_DEADLOCK FALSE
INVARIANTS SettlingInv EveryRowTold FreshUnlessPaused ResetClearsBoxes ExportIsTrue
