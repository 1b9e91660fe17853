\* An event stream is open when the signal arrives; nothing fails.
SPECIFICATION FairSpec
CONSTANTS
  None = None
  Handlers = {h1}
  Commands = {c1}
  Sessions = {s1, s2}
  Overlap = FALSE
  Terminals = FALSE
  Pages = TRUE
  Errors = FALSE
INVARIANT ExitStopsProxify
CHECK_DEADLOCK FALSE
