\* Two processes, two sessions, one failure of any kind, anywhere.
SPECIFICATION FairSpec
CONSTANTS
  None = None
  AnySession = AnySession
  Absent = Absent
  Torn = Torn
  Procs = {p1, p2}
  Sessions = {s1, s2}
  Faults <- OneOfEach
  MaxFaults = 1
INVARIANTS CleanInv CompletedIsArchived FilesAgree RecordingFollowsSession
PROPERTIES ImplementsLifecycle HoldsBriefly EveryCallReturns
