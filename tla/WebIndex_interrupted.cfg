\* One rescan is interrupted.
SPECIFICATION FairSpec
CONSTANTS
  None = None
  Absent = Absent
  Torn = Torn
  MaxLines = 2
  MaxArchives = 1
  MaxInterrupts = 1
PROPERTY EventuallyIndexed
