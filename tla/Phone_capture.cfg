\* Two calls at a time, three in all, one VPN start, two faults.
SPECIFICATION Spec
CONSTANTS
  None = None
  Handlers = {h1, h2}
  Commands = {c1, c2, c3}
  Sessions = {s1, s2}
  Overlap = FALSE
  Terminals = TRUE
  MaxBoots = 1
  MaxFaults = 2
  MaxQueue = 1
SYMMETRY Symmetry
INVARIANTS InStepInv ActsOnOwnSessions InStep AnswersAreTrue StartsOnce ConfirmSticks
PROPERTY AnswerStable
CHECK_DEADLOCK FALSE
