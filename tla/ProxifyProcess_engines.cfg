\* Two operations at a time, two instances, one of them dies by itself; bodies of up
\* to three bytes of which two are kept; two exchanges, two sessions, three milliseconds.
SPECIFICATION MCSpec
CONSTANTS
  None = None
  Absent = Absent
  Torn = Torn
  Procs = {p1, p2}
  Instances = {i1, i2}
  MaxDeaths = 1
  BodyKinds <- MCBodies
  MaxBody = 2
  Exchanges = {e1, e2}
  NoExchange = NoExchange
  MaxSessions = 2
  MaxMillis = 2
SYMMETRY Symmetry
INVARIANTS  NoForeignKilled ReadyIsOwn  RunningIsManaged PayloadIsTrue ArchiveIsComplete ArchiveIsOwn
CHECK_DEADLOCK FALSE
