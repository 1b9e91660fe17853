\* Two transactions, two archivings, one interrupted rescan.
SPECIFICATION FairSpec
CONSTANTS
  None = None
  Absent = Absent
  Torn = Torn
  MaxLines = 2
  MaxArchives = 2
  MaxInterrupts = 1
INVARIANTS IndexInv RowsMatchCursor
PROPERTIES KeepsContract IndexedUnlessInterrupted
