\* A checked stop against a stop and a start of another process.
SPECIFICATION Spec
CONSTANTS
  None = None
  AnySession = AnySession
  Absent = Absent
  Torn = Torn
  Procs = {p1, p2}
  Sessions = {s1, s2}
  Faults <- NoFaults
  MaxFaults = 0
INVARIANT StopsOnlyWanted
