\* Overlapping operations, no crash.
SPECIFICATION Spec
CONSTANTS
  None = None
  Torn = Torn
  Procs = {p1, p2}
  Devices = {d1, d2}
  MaxCalls = 4
  MaxCrashes = 0
SYMMETRY Symmetry
INVARIANT RevokedStaysRevoked
CHECK_DEADLOCK FALSE
