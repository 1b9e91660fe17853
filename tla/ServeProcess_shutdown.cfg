\* One handler, two commandIds, other terminals, pages and errors.
SPECIFICATION FairSpec
CONSTANTS
  None = None
  Handlers = {h1}
  Commands = {c1, c2}
  Sessions = {s1, s2}
  Overlap = FALSE
  Terminals = TRUE
  Pages = TRUE
  Errors = TRUE
INVARIANT ServeInv
PROPERTIES ArchivedBeforeProxifyStops SignalEnds
CHECK_DEADLOCK FALSE
