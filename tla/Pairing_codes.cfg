\* Two devices and a `pair` command; operations on the device list overlap.
SPECIFICATION PairingSpec
CONSTANTS
  None = None
  Torn = Torn
  Procs = {p1, p2}
  Devices = {d1, d2}
  MaxCalls = 4
  MaxCrashes = 1
  Phones = {q1, q2}
  PairCodes = {v3}
  MaxScans = 2
SYMMETRY Symmetry
CHECK_DEADLOCK FALSE
INVARIANTS PairingInv RevokedUnlessOverwritten PairedUnlessOverwritten OneImporter ReportsAreTrue
