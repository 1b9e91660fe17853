--------------------------- MODULE SessionStoreProofs ---------------------------
(***************************************************************************)
(* Proofs about SessionStore for any number of processes, sessions and     *)
(* failures: the inductive invariant, archive-before-complete, and the     *)
(* refinement of CaptureLifecycle.                                         *)
(***************************************************************************)
EXTENDS SessionStore, TLAPS

\* The values a call, a session state and the files range over.
LEMMA RequestFields ==
  ASSUME NEW r \in Requests
  PROVE  /\ r.kind \in {"start", "stop", "abandon", "mark"}
         /\ r.want \in Sessions \cup {AnySession, None}
         /\ r.kind \in {"abandon", "mark"} => r.want \in Sessions
         /\ r.kind \in {"start", "mark"} => r.status \in {"recording", "starting"}
         /\ r.kind = "stop" => r.status = "completed"
         /\ r.kind = "abandon" => r.status = "abandoned"
         /\ r.kind = "start" => r.status = "recording"
         /\ r.status \in Statuses
BY DEF Requests, Statuses

\* A missing and a torn file differ from each other and from every document.
LEMMA FileValues ==
  /\ Absent \notin SessionState /\ Torn \notin SessionState
  /\ Absent \notin Statuses /\ Torn \notin Statuses
  /\ Absent # Torn
  /\ None \notin Engines
BY FileValuesAssumption, SessionStoreAssumption

\* The initial state satisfies the inductive invariant.
THEOREM InitIndInv == Init => IndInv
<1> SUFFICES ASSUME Init PROVE IndInv
  OBVIOUS
<1> USE SessionStoreAssumption, FileValues DEF Init
<1>1. TypeOK
  BY DEF TypeOK, Unlocked
<1>2. OperationInv
  BY DEF OperationInv, LockedSteps
<1>3. HolderInv
  BY DEF HolderInv
<1>4. FilesInv
  BY DEF FilesInv, IsActive, FinalStatuses, Statuses
<1>5. CompletedIsArchived
  BY DEF CompletedIsArchived, Statuses
<1>6. QED
  BY <1>1, <1>2, <1>3, <1>4, <1>5 DEF IndInv

\* Whatever goes wrong is one of the kinds of Faults.
LEMMA FaultsBounded ==
  ASSUME TypeOK, NEW kind, UNCHANGED faults \/ Fault(kind)
  PROVE  faults' \in SUBSET Faults
BY DEF TypeOK, Fault

\* A command is called (main.go, control_server.go).
LEMMA CallInv == ASSUME IndInv, NEW p \in Procs, Call(p) PROVE IndInv'
<1> USE SessionStoreAssumption, FileValues, RequestFields
    DEF IndInv, Call, storeVars, Advance, Return, GoTo, FailWrite, Fault
<1>1. TypeOK'
  BY DEF TypeOK, OperationInv, StepAfter, FirstStep, SessionState, Unlocked, LockedSteps, IsActive, ActiveIs, StepsOf, Engines, Statuses
<1>2. OperationInv'
  BY DEF TypeOK, OperationInv, StepAfter, FirstStep, SessionState, Unlocked, LockedSteps, IsActive, ActiveIs, StepsOf, Engines, Statuses
<1>3. HolderInv'
  BY DEF TypeOK, OperationInv, HolderInv, FilesInv, StepAfter, FirstStep, SessionState, Unlocked, LockedSteps, IsActive, ActiveIs, StepsOf, Engines, StartPending, ArchiveIsSafe
<1>4. FilesInv'
  BY DEF TypeOK, OperationInv, HolderInv, FilesInv, StepAfter, FirstStep, SessionState, Unlocked, LockedSteps, IsActive, ActiveIs, StepsOf, Engines, Statuses, FinalStatuses, StartPending, ArchiveIsSafe
<1>5. CompletedIsArchived'
  BY DEF CompletedIsArchived, ArchiveIsSafe, TypeOK, OperationInv, HolderInv, SessionState, Unlocked, LockedSteps, StepsOf, Engines, Statuses
<1>6. QED
  BY <1>1, <1>2, <1>3, <1>4, <1>5

\* The monitor's look at the active session before it stops it, without the lock.
LEMMA CheckInv == ASSUME IndInv, NEW p \in Procs, CheckBeforeStop(p) PROVE IndInv'
<1> USE SessionStoreAssumption, FileValues, RequestFields
    DEF IndInv, CheckBeforeStop, storeVars, Advance, Return, GoTo, FailWrite, Fault
<1>1. TypeOK'
  BY DEF TypeOK, OperationInv, StepAfter, FirstStep, SessionState, Unlocked, LockedSteps, IsActive, ActiveIs, StepsOf, Engines, Statuses
<1>2. OperationInv'
  BY DEF TypeOK, OperationInv, StepAfter, FirstStep, SessionState, Unlocked, LockedSteps, IsActive, ActiveIs, StepsOf, Engines, Statuses
<1>3. HolderInv'
  BY DEF TypeOK, OperationInv, HolderInv, FilesInv, StepAfter, FirstStep, SessionState, Unlocked, LockedSteps, IsActive, ActiveIs, StepsOf, Engines, StartPending, ArchiveIsSafe
<1>4. FilesInv'
  BY DEF TypeOK, OperationInv, HolderInv, FilesInv, StepAfter, FirstStep, SessionState, Unlocked, LockedSteps, IsActive, ActiveIs, StepsOf, Engines, Statuses, FinalStatuses, StartPending, ArchiveIsSafe
<1>5. CompletedIsArchived'
  BY DEF CompletedIsArchived, ArchiveIsSafe, TypeOK, OperationInv, HolderInv, SessionState, Unlocked, LockedSteps, StepsOf, Engines, Statuses
<1>6. QED
  BY <1>1, <1>2, <1>3, <1>4, <1>5

\* A start takes the lock and finds no active session.
LEMMA BeginStartInv == ASSUME IndInv, NEW p \in Procs, BeginStart(p) PROVE IndInv'
<1> USE SessionStoreAssumption, FileValues, RequestFields
    DEF IndInv, BeginStart, Enter, Advance, Return, GoTo, FailWrite, Fault
<1>1. TypeOK'
  BY DEF TypeOK, OperationInv, StepAfter, FirstStep, SessionState, Unlocked, LockedSteps, IsActive, ActiveIs, StepsOf, Engines, Statuses
<1>2. OperationInv'
  BY DEF TypeOK, OperationInv, StepAfter, FirstStep, SessionState, Unlocked, LockedSteps, IsActive, ActiveIs, StepsOf, Engines, Statuses
<1>3. HolderInv'
  BY DEF TypeOK, OperationInv, HolderInv, FilesInv, StepAfter, FirstStep, SessionState, Unlocked, LockedSteps, IsActive, ActiveIs, StepsOf, Engines, StartPending, ArchiveIsSafe
<1>4. FilesInv'
  BY DEF TypeOK, OperationInv, HolderInv, FilesInv, StepAfter, FirstStep, SessionState, Unlocked, LockedSteps, IsActive, ActiveIs, StepsOf, Engines, Statuses, FinalStatuses, StartPending, ArchiveIsSafe
<1>5. CompletedIsArchived'
  BY DEF CompletedIsArchived, ArchiveIsSafe, FilesInv, FinalStatuses, TypeOK, OperationInv, HolderInv, SessionState, Unlocked, LockedSteps, StepsOf, Engines, Statuses
<1>6. QED
  BY <1>1, <1>2, <1>3, <1>4, <1>5

\* A stop takes the lock and finds an active session.
LEMMA BeginStopInv == ASSUME IndInv, NEW p \in Procs, BeginStop(p) PROVE IndInv'
<1> USE SessionStoreAssumption, FileValues, RequestFields
    DEF IndInv, BeginStop, Enter, Advance, Return, GoTo, FailWrite, Fault
<1>1. TypeOK'
  BY DEF TypeOK, OperationInv, StepAfter, FirstStep, SessionState, Unlocked, LockedSteps, IsActive, ActiveIs, StepsOf, Engines, Statuses
<1>2. OperationInv'
  BY DEF TypeOK, OperationInv, FilesInv, StepAfter, FirstStep, SessionState, Unlocked, LockedSteps, IsActive, ActiveIs, StepsOf, Engines, Statuses
<1>3. HolderInv'
  BY DEF TypeOK, OperationInv, HolderInv, FilesInv, StepAfter, FirstStep, SessionState, Unlocked, LockedSteps, IsActive, ActiveIs, StepsOf, Engines, StartPending, ArchiveIsSafe
<1>4. FilesInv'
  BY DEF TypeOK, OperationInv, HolderInv, FilesInv, StepAfter, FirstStep, SessionState, Unlocked, LockedSteps, IsActive, ActiveIs, StepsOf, Engines, Statuses, FinalStatuses, StartPending, ArchiveIsSafe
<1>5. CompletedIsArchived'
  BY DEF CompletedIsArchived, ArchiveIsSafe, TypeOK, OperationInv, HolderInv, SessionState, Unlocked, LockedSteps, StepsOf, Engines, Statuses
<1>6. QED
  BY <1>1, <1>2, <1>3, <1>4, <1>5

\* An abandon or a mark takes the lock and finds its session.
LEMMA BeginOnWantedInv == ASSUME IndInv, NEW p \in Procs, BeginOnWanted(p) PROVE IndInv'
<1> USE SessionStoreAssumption, FileValues, RequestFields
    DEF IndInv, BeginOnWanted, Enter, Advance, Return, GoTo, FailWrite, Fault
<1>1. TypeOK'
  BY DEF TypeOK, OperationInv, StepAfter, FirstStep, SessionState, Unlocked, LockedSteps, IsActive, ActiveIs, StepsOf, Engines, Statuses
<1>2. OperationInv'
  BY DEF TypeOK, OperationInv, FilesInv, StepAfter, FirstStep, SessionState, Unlocked, LockedSteps, IsActive, ActiveIs, StepsOf, Engines, Statuses
<1>3. HolderInv'
  BY DEF TypeOK, OperationInv, HolderInv, FilesInv, StepAfter, FirstStep, SessionState, Unlocked, LockedSteps, IsActive, ActiveIs, StepsOf, Engines, StartPending, ArchiveIsSafe
<1>4. FilesInv'
  BY DEF TypeOK, OperationInv, HolderInv, FilesInv, StepAfter, FirstStep, SessionState, Unlocked, LockedSteps, IsActive, ActiveIs, StepsOf, Engines, Statuses, FinalStatuses, StartPending, ArchiveIsSafe
<1>5. CompletedIsArchived'
  BY DEF CompletedIsArchived, ArchiveIsSafe, TypeOK, OperationInv, HolderInv, SessionState, Unlocked, LockedSteps, StepsOf, Engines, Statuses
<1>6. QED
  BY <1>1, <1>2, <1>3, <1>4, <1>5

\* A command takes the lock, finds the wrong session state and returns its error.
LEMMA RefuseInv == ASSUME IndInv, NEW p \in Procs, RefuseStart(p) \/ RefuseOther(p) PROVE IndInv'
<1> USE SessionStoreAssumption, FileValues, RequestFields
    DEF IndInv, RefuseStart, RefuseOther, Refuse, storeVars, Advance, Return, GoTo, FailWrite, Fault
<1>1. TypeOK'
  BY DEF TypeOK, OperationInv, StepAfter, FirstStep, SessionState, Unlocked, LockedSteps, IsActive, ActiveIs, StepsOf, Engines, Statuses
<1>2. OperationInv'
  BY DEF TypeOK, OperationInv, StepAfter, FirstStep, SessionState, Unlocked, LockedSteps, IsActive, ActiveIs, StepsOf, Engines, Statuses
<1>3. HolderInv'
  BY DEF TypeOK, OperationInv, HolderInv, FilesInv, StepAfter, FirstStep, SessionState, Unlocked, LockedSteps, IsActive, ActiveIs, StepsOf, Engines, StartPending, ArchiveIsSafe
<1>4. FilesInv'
  BY DEF TypeOK, OperationInv, HolderInv, FilesInv, StepAfter, FirstStep, SessionState, Unlocked, LockedSteps, IsActive, ActiveIs, StepsOf, Engines, Statuses, FinalStatuses, StartPending, ArchiveIsSafe
<1>5. CompletedIsArchived'
  BY DEF CompletedIsArchived, ArchiveIsSafe, TypeOK, OperationInv, HolderInv, SessionState, Unlocked, LockedSteps, StepsOf, Engines, Statuses
<1>6. QED
  BY <1>1, <1>2, <1>3, <1>4, <1>5

\* A start of Charles switches recording on.
LEMMA StartRecordingInv == ASSUME IndInv, NEW p \in Procs, StartRecording(p) PROVE IndInv'
<1> USE SessionStoreAssumption, FileValues, RequestFields DEF IndInv
<1>1. /\ Advance(p) \/ Return(p)
      /\ pc[p] = "record"
      /\ UNCHANGED <<active, meta, archived, engine, opened>>
  BY DEF StartRecording
<1>2. recording' \in BOOLEAN
  BY Zenon DEF StartRecording, TypeOK
<1>3. UNCHANGED faults \/ Fault("plain")
  BY Zenon DEF StartRecording
<1>4. TypeOK'
  BY <1>1, <1>2, <1>3, FaultsBounded DEF Advance, Return, GoTo, TypeOK, OperationInv, StepAfter, FirstStep, SessionState, Unlocked, LockedSteps, IsActive, ActiveIs, StepsOf, Engines, Statuses
<1>5. OperationInv'
  BY <1>1 DEF Advance, Return, GoTo, TypeOK, OperationInv, StepAfter, FirstStep, SessionState, Unlocked, LockedSteps, IsActive, ActiveIs, StepsOf, Engines, Statuses
<1>6. HolderInv'
  BY <1>1 DEF Advance, Return, GoTo, TypeOK, OperationInv, StepAfter, FirstStep, SessionState, Unlocked, LockedSteps, IsActive, ActiveIs, StepsOf, Engines, HolderInv, FilesInv, StartPending, ArchiveIsSafe
<1>7. FilesInv'
  BY <1>1 DEF FilesInv, IsActive
<1>8. CompletedIsArchived'
  BY <1>1, <1>3 DEF CompletedIsArchived, ArchiveIsSafe, Fault, TypeOK
<1>9. QED
  BY <1>4, <1>5, <1>6, <1>7, <1>8

\* A stop of Charles switches recording off.
LEMMA StopRecordingInv == ASSUME IndInv, NEW p \in Procs, StopRecording(p) PROVE IndInv'
<1> USE SessionStoreAssumption, FileValues, RequestFields DEF IndInv
<1>1. /\ Advance(p) \/ Return(p)
      /\ pc[p] = "unrecord"
      /\ UNCHANGED <<active, meta, archived, engine, opened>>
  BY DEF StopRecording
<1>2. recording' \in BOOLEAN
  BY Zenon DEF StopRecording, TypeOK
<1>3. UNCHANGED faults \/ Fault("plain")
  BY Zenon DEF StopRecording
<1>4. TypeOK'
  BY <1>1, <1>2, <1>3, FaultsBounded DEF Advance, Return, GoTo, TypeOK, OperationInv, StepAfter, FirstStep, SessionState, Unlocked, LockedSteps, IsActive, ActiveIs, StepsOf, Engines, Statuses
<1>5. OperationInv'
  BY <1>1 DEF Advance, Return, GoTo, TypeOK, OperationInv, StepAfter, FirstStep, SessionState, Unlocked, LockedSteps, IsActive, ActiveIs, StepsOf, Engines, Statuses
<1>6. HolderInv'
  BY <1>1 DEF Advance, Return, GoTo, TypeOK, OperationInv, StepAfter, FirstStep, SessionState, Unlocked, LockedSteps, IsActive, ActiveIs, StepsOf, Engines, HolderInv, FilesInv, StartPending, ArchiveIsSafe
<1>7. FilesInv'
  BY <1>1 DEF FilesInv, IsActive
<1>8. CompletedIsArchived'
  BY <1>1, <1>3 DEF CompletedIsArchived, ArchiveIsSafe, Fault, TypeOK
<1>9. QED
  BY <1>4, <1>5, <1>6, <1>7, <1>8

\* A start whose metadata could not be written switches recording off again.
LEMMA UndoRecordingInv == ASSUME IndInv, NEW p \in Procs, UndoRecording(p) PROVE IndInv'
<1> USE SessionStoreAssumption, FileValues, RequestFields DEF IndInv
<1>1. /\ Return(p)
      /\ pc[p] = "undo"
      /\ UNCHANGED <<active, meta, archived, engine, opened>>
  BY DEF UndoRecording
<1>2. recording' \in BOOLEAN
  BY Zenon DEF UndoRecording, TypeOK
<1>3. UNCHANGED faults \/ Fault("plain")
  BY Zenon DEF UndoRecording
<1>4. TypeOK'
  BY <1>1, <1>2, <1>3, FaultsBounded DEF Return, TypeOK, OperationInv, StepAfter, FirstStep, SessionState, Unlocked, LockedSteps, IsActive, ActiveIs, StepsOf, Engines, Statuses
<1>5. OperationInv'
  BY <1>1 DEF Return, TypeOK, OperationInv, StepAfter, FirstStep, SessionState, Unlocked, LockedSteps, IsActive, ActiveIs, StepsOf, Engines, Statuses
<1>6. HolderInv'
  BY <1>1 DEF Return, TypeOK, OperationInv, StepAfter, FirstStep, SessionState, Unlocked, LockedSteps, IsActive, ActiveIs, StepsOf, Engines, HolderInv
<1>7. FilesInv'
  BY <1>1 DEF FilesInv, IsActive
<1>8. CompletedIsArchived'
  BY <1>1, <1>3 DEF CompletedIsArchived, ArchiveIsSafe, Fault, TypeOK
<1>9. QED
  BY <1>4, <1>5, <1>6, <1>7, <1>8

\* A stop archives the data of its session; this is where CompletedIsArchived is earned.
LEMMA ExportInv == ASSUME IndInv, NEW p \in Procs, Export(p) PROVE IndInv'
<1> USE SessionStoreAssumption, FileValues, RequestFields DEF IndInv
<1>0. lock = p /\ cur[p] \in SessionState /\ cur[p].id \in Sessions
  BY DEF Export, TypeOK, OperationInv, StepAfter, FirstStep, SessionState, Unlocked, LockedSteps, IsActive, ActiveIs, StepsOf, Engines
<1>1. /\ Advance(p) \/ Return(p)
      /\ pc[p] = "export"
      /\ UNCHANGED <<active, meta, recording, engine, opened>>
  BY DEF Export
<1>2. /\ archived' \in [Sessions -> BOOLEAN]
      /\ \A s \in Sessions : archived[s] /\ (engine[s] = "proxify" \/ faults' = {}) => archived'[s]
      /\ Advance(p) => archived'[cur[p].id] \/ Return(p)
  <2>1. CASE archived' = [archived EXCEPT ![cur[p].id] = TRUE]
    BY <2>1, <1>0 DEF TypeOK
  <2>2. CASE BrokenArchive(p) /\ Return(p) /\ Fault("plain")
    <3>0. faults' # {}
      BY <2>2 DEF Fault, TypeOK
    <3>1. CASE UNCHANGED archived
      BY <2>2, <3>1 DEF TypeOK
    <3>2. CASE /\ cur[p].engine = "charles"
               /\ archived' = [archived EXCEPT ![cur[p].id] = FALSE]
      <4>1. engine[cur[p].id] = "charles"
        BY <1>0, <3>2 DEF OperationInv
      <4>2. QED
        BY <2>2, <3>0, <3>2, <4>1, <1>0 DEF TypeOK
    <3>3. QED
      BY <2>2, <3>1, <3>2 DEF BrokenArchive
  <2>3. QED
    BY <2>1, <2>2 DEF Export
<1>3. UNCHANGED faults \/ Fault("plain")
  BY Zenon DEF Export
<1>4. TypeOK'
  BY <1>1, <1>2, <1>3, FaultsBounded DEF Advance, Return, GoTo, TypeOK, OperationInv, StepAfter, FirstStep, SessionState, Unlocked, LockedSteps, IsActive, ActiveIs, StepsOf, Engines, Statuses
<1>5. OperationInv'
  BY <1>1 DEF Advance, Return, GoTo, TypeOK, OperationInv, StepAfter, FirstStep, SessionState, Unlocked, LockedSteps, IsActive, ActiveIs, StepsOf, Engines, Statuses
<1>6. HolderInv'
  BY <1>1, <1>2 DEF Advance, Return, GoTo, TypeOK, OperationInv, StepAfter, FirstStep, SessionState, Unlocked, LockedSteps, IsActive, ActiveIs, StepsOf, Engines, HolderInv, FilesInv, StartPending, ArchiveIsSafe
<1>7. FilesInv'
  BY <1>1, <1>2 DEF FilesInv, IsActive
<1>8. CompletedIsArchived'
  BY <1>1, <1>2, <1>3 DEF CompletedIsArchived, ArchiveIsSafe, Fault, TypeOK
<1>9. QED
  BY <1>4, <1>5, <1>6, <1>7, <1>8

\* meta.json is truncated: until it is filled it says nothing.
LEMMA TruncateMetaInv == ASSUME IndInv, NEW p \in Procs, TruncateMeta(p) PROVE IndInv'
<1> USE SessionStoreAssumption, FileValues, RequestFields
    DEF IndInv, TruncateMeta, Advance, Return, GoTo, FailWrite, Fault
<1>1. TypeOK'
  BY DEF TypeOK, OperationInv, StepAfter, FirstStep, SessionState, Unlocked, LockedSteps, IsActive, ActiveIs, StepsOf, Engines, Statuses
<1>2. OperationInv'
  BY DEF TypeOK, OperationInv, StepAfter, FirstStep, SessionState, Unlocked, LockedSteps, IsActive, ActiveIs, StepsOf, Engines, Statuses
<1>3. HolderInv'
  BY DEF TypeOK, OperationInv, HolderInv, FilesInv, StepAfter, FirstStep, SessionState, Unlocked, LockedSteps, IsActive, ActiveIs, StepsOf, Engines, StartPending, ArchiveIsSafe
<1>4. FilesInv'
  BY DEF TypeOK, OperationInv, HolderInv, FilesInv, StepAfter, FirstStep, SessionState, Unlocked, LockedSteps, IsActive, ActiveIs, StepsOf, Engines, Statuses, FinalStatuses, StartPending, ArchiveIsSafe
<1>5. CompletedIsArchived'
  BY DEF CompletedIsArchived, ArchiveIsSafe, TypeOK, OperationInv, HolderInv, SessionState, Unlocked, LockedSteps, StepsOf, Engines, Statuses
<1>6. QED
  BY <1>1, <1>2, <1>3, <1>4, <1>5

\* meta.json gets its contents; a completed status is written only after Export.
LEMMA FillMetaInv == ASSUME IndInv, NEW p \in Procs, FillMeta(p) PROVE IndInv'
<1> USE SessionStoreAssumption, FileValues, RequestFields
    DEF IndInv, FillMeta, Advance, Return, GoTo, FailWrite, Fault
<1>1. TypeOK'
  BY DEF TypeOK, OperationInv, StepAfter, FirstStep, SessionState, Unlocked, LockedSteps, IsActive, ActiveIs, StepsOf, Engines, Statuses
<1>2. OperationInv'
  BY DEF TypeOK, OperationInv, StepAfter, FirstStep, SessionState, Unlocked, LockedSteps, IsActive, ActiveIs, StepsOf, Engines, Statuses
<1>3. HolderInv'
  BY DEF TypeOK, OperationInv, HolderInv, FilesInv, StepAfter, FirstStep, SessionState, Unlocked, LockedSteps, IsActive, ActiveIs, StepsOf, Engines, StartPending, ArchiveIsSafe
<1>4. FilesInv'
  BY DEF TypeOK, OperationInv, HolderInv, FilesInv, StepAfter, FirstStep, SessionState, Unlocked, LockedSteps, IsActive, ActiveIs, StepsOf, Engines, Statuses, FinalStatuses, StartPending, ArchiveIsSafe
<1>5. CompletedIsArchived'
  BY DEF CompletedIsArchived, ArchiveIsSafe, TypeOK, OperationInv, HolderInv, SessionState, Unlocked, LockedSteps, StepsOf, Engines, Statuses
<1>6. QED
  BY <1>1, <1>2, <1>3, <1>4, <1>5

\* active-session.json is truncated.
LEMMA TruncateStateInv == ASSUME IndInv, NEW p \in Procs, TruncateState(p) PROVE IndInv'
<1> USE SessionStoreAssumption, FileValues, RequestFields
    DEF IndInv, TruncateState, Advance, Return, GoTo, FailWrite, Fault
<1>1. TypeOK'
  BY DEF TypeOK, OperationInv, StepAfter, FirstStep, SessionState, Unlocked, LockedSteps, IsActive, ActiveIs, StepsOf, Engines, Statuses
<1>2. OperationInv'
  BY DEF TypeOK, OperationInv, StepAfter, FirstStep, SessionState, Unlocked, LockedSteps, IsActive, ActiveIs, StepsOf, Engines, Statuses
<1>3. HolderInv'
  BY DEF TypeOK, OperationInv, HolderInv, FilesInv, StepAfter, FirstStep, SessionState, Unlocked, LockedSteps, IsActive, ActiveIs, StepsOf, Engines, StartPending, ArchiveIsSafe
<1>4. FilesInv'
  BY DEF TypeOK, OperationInv, HolderInv, FilesInv, StepAfter, FirstStep, SessionState, Unlocked, LockedSteps, IsActive, ActiveIs, StepsOf, Engines, Statuses, FinalStatuses, StartPending, ArchiveIsSafe
<1>5. CompletedIsArchived'
  BY DEF CompletedIsArchived, ArchiveIsSafe, TypeOK, OperationInv, HolderInv, SessionState, Unlocked, LockedSteps, StepsOf, Engines, Statuses
<1>6. QED
  BY <1>1, <1>2, <1>3, <1>4, <1>5

\* active-session.json gets its contents.
LEMMA FillStateInv == ASSUME IndInv, NEW p \in Procs, FillState(p) PROVE IndInv'
<1> USE SessionStoreAssumption, FileValues, RequestFields
    DEF IndInv, FillState, Advance, Return, GoTo, FailWrite, Fault
<1>1. TypeOK'
  BY DEF TypeOK, OperationInv, StepAfter, FirstStep, SessionState, Unlocked, LockedSteps, IsActive, ActiveIs, StepsOf, Engines, Statuses
<1>2. OperationInv'
  BY DEF TypeOK, OperationInv, StepAfter, FirstStep, SessionState, Unlocked, LockedSteps, IsActive, ActiveIs, StepsOf, Engines, Statuses
<1>3. HolderInv'
  BY DEF TypeOK, OperationInv, HolderInv, FilesInv, StepAfter, FirstStep, SessionState, Unlocked, LockedSteps, IsActive, ActiveIs, StepsOf, Engines, StartPending, ArchiveIsSafe
<1>0. /\ cur[p] \in SessionState /\ cur[p].id \in Sessions
      /\ cur[p].engine = engine[cur[p].id] /\ engine[cur[p].id] # None
      /\ cur[p].status \notin FinalStatuses
  BY DEF TypeOK, OperationInv, SessionState, Unlocked, LockedSteps, StepsOf, Engines, FinalStatuses
<1>4. FilesInv'
  BY <1>0 DEF TypeOK, FilesInv, IsActive, ActiveIs, StartPending, ArchiveIsSafe
<1>5. CompletedIsArchived'
  BY DEF CompletedIsArchived, ArchiveIsSafe, TypeOK, OperationInv, HolderInv, SessionState, Unlocked, LockedSteps, StepsOf, Engines, Statuses
<1>6. QED
  BY <1>1, <1>2, <1>3, <1>4, <1>5

\* active-session.json is removed at the end of a stop or an abandon.
LEMMA ClearStateInv == ASSUME IndInv, NEW p \in Procs, ClearState(p) PROVE IndInv'
<1> USE SessionStoreAssumption, FileValues, RequestFields
    DEF IndInv, ClearState, Advance, Return, GoTo, FailWrite, Fault
<1>1. TypeOK'
  BY DEF TypeOK, OperationInv, StepAfter, FirstStep, SessionState, Unlocked, LockedSteps, IsActive, ActiveIs, StepsOf, Engines, Statuses
<1>2. OperationInv'
  BY DEF TypeOK, OperationInv, StepAfter, FirstStep, SessionState, Unlocked, LockedSteps, IsActive, ActiveIs, StepsOf, Engines, Statuses
<1>3. HolderInv'
  BY DEF TypeOK, OperationInv, HolderInv, FilesInv, StepAfter, FirstStep, SessionState, Unlocked, LockedSteps, IsActive, ActiveIs, StepsOf, Engines, StartPending, ArchiveIsSafe
<1>4. FilesInv'
  BY DEF TypeOK, OperationInv, HolderInv, FilesInv, StepAfter, FirstStep, SessionState, Unlocked, LockedSteps, IsActive, ActiveIs, StepsOf, Engines, Statuses, FinalStatuses, StartPending, ArchiveIsSafe
<1>5. CompletedIsArchived'
  BY DEF CompletedIsArchived, ArchiveIsSafe, TypeOK, OperationInv, HolderInv, SessionState, Unlocked, LockedSteps, StepsOf, Engines, Statuses
<1>6. QED
  BY <1>1, <1>2, <1>3, <1>4, <1>5

\* A process dies between any two steps and the kernel frees its lock.
LEMMA CrashInv == ASSUME IndInv, NEW p \in Procs, Crash(p) PROVE IndInv'
<1> USE SessionStoreAssumption, FileValues, RequestFields
    DEF IndInv, Crash, BrokenArchive, Advance, Return, GoTo, FailWrite, Fault
<1>0. archived' \in [Sessions -> BOOLEAN]
  <2>1. CASE UNCHANGED archived
    BY <2>1 DEF TypeOK
  <2>2. CASE archived' = [archived EXCEPT ![cur[p].id] = FALSE]
    BY <2>2 DEF TypeOK
  <2>3. QED
    BY <2>1, <2>2
<1>1. TypeOK'
  BY <1>0 DEF TypeOK, OperationInv, StepAfter, FirstStep, SessionState, Unlocked, LockedSteps, IsActive, ActiveIs, StepsOf, Engines, Statuses
<1>2. OperationInv'
  BY DEF TypeOK, OperationInv, StepAfter, FirstStep, SessionState, Unlocked, LockedSteps, IsActive, ActiveIs, StepsOf, Engines, Statuses
<1>3. HolderInv'
  BY DEF TypeOK, OperationInv, HolderInv, FilesInv, StepAfter, FirstStep, SessionState, Unlocked, LockedSteps, IsActive, ActiveIs, StepsOf, Engines, StartPending, ArchiveIsSafe
<1>4. FilesInv'
  BY DEF TypeOK, OperationInv, HolderInv, FilesInv, StepAfter, FirstStep, SessionState, Unlocked, LockedSteps, IsActive, ActiveIs, StepsOf, Engines, Statuses, FinalStatuses, StartPending, ArchiveIsSafe
<1>5. CompletedIsArchived'
  BY DEF CompletedIsArchived, ArchiveIsSafe, TypeOK, OperationInv, HolderInv, SessionState, Unlocked, LockedSteps, StepsOf, Engines, Statuses
<1>6. QED
  BY <1>1, <1>2, <1>3, <1>4, <1>5
-----------------------------------------------------------------------------
\* A step that changes nothing.
LEMMA StutterInv == ASSUME IndInv, UNCHANGED vars PROVE IndInv'
<1> USE DEF IndInv, vars
<1>1. TypeOK'
  BY DEF TypeOK
<1>2. OperationInv'
  BY DEF OperationInv
<1>3. HolderInv'
  BY DEF HolderInv, StartPending, IsActive, ActiveIs, ArchiveIsSafe
<1>4. FilesInv' /\ CompletedIsArchived'
  BY DEF FilesInv, IsActive, CompletedIsArchived, ArchiveIsSafe
<1>5. QED
  BY <1>1, <1>2, <1>3, <1>4

\* The inductive invariant holds in every reachable state: only the holder of
\* the flock works on the files, and it knows what is in them.
THEOREM IndInvHolds == Spec => []IndInv
<1>1. IndInv /\ [Next]_vars => IndInv'
  <2> SUFFICES ASSUME IndInv, [Next]_vars PROVE IndInv'
    OBVIOUS
  <2>1. ASSUME NEW p \in Procs, Call(p) PROVE IndInv'
    BY <2>1, CallInv
  <2>2. ASSUME NEW p \in Procs, CheckBeforeStop(p) PROVE IndInv'
    BY <2>2, CheckInv
  <2>3. ASSUME NEW p \in Procs, Begin(p) PROVE IndInv'
    BY <2>3, BeginStartInv, BeginStopInv, BeginOnWantedInv, RefuseInv DEF Begin
  <2>4. ASSUME NEW p \in Procs, Step(p) PROVE IndInv'
    BY <2>4, StartRecordingInv, StopRecordingInv, UndoRecordingInv, ExportInv, TruncateMetaInv,
       FillMetaInv, TruncateStateInv, FillStateInv, ClearStateInv DEF Step
  <2>5. ASSUME NEW p \in Procs, Crash(p) PROVE IndInv'
    BY <2>5, CrashInv
  <2>6. QED
    BY <2>1, <2>2, <2>3, <2>4, <2>5, StutterInv DEF Next
<1>2. QED
  BY <1>1, InitIndInv, PTL DEF Spec

\* Type correctness of the store.
THEOREM TypeCorrect == Spec => []TypeOK
BY IndInvHolds, PTL DEF IndInv

\* recordStop writes "completed" only after the exports are on disk: always for
\* Proxify, and for Charles as long as nothing failed.
THEOREM ArchivedBeforeCompleted == Spec => []CompletedIsArchived
BY IndInvHolds, PTL DEF IndInv

-----------------------------------------------------------------------------
(* The refinement of CaptureLifecycle.                                     *)

\* Outside a rewrite of active-session.json the open session is the active one.
LEMMA OpenIsActive ==
  ASSUME lock = None \/ pc[lock] # "fillState"
  PROVE  OpenSession = IF IsActive THEN active.id ELSE None
BY SessionStoreAssumption DEF OpenSession

\* Outcomes change only with the open session, with opened, or with the
\* metadata of a session that is over.
LEMMA OutcomeKept ==
  ASSUME OpenSession' = OpenSession, opened' = opened,
         \A s \in opened : s # OpenSession => meta'[s] = meta[s]
  PROVE  Outcome' = Outcome
BY DEF Outcome

\* The store starts where the abstract lifecycle starts: no session is open.
LEMMA InitMaps == Init => Lifecycle!Init
<1> SUFFICES ASSUME Init PROVE Lifecycle!Init
  OBVIOUS
<1>1. OpenSession = None
  BY FileValues DEF Init, OpenSession, IsActive
<1>2. Outcome = [s \in Sessions |-> "new"]
  BY DEF Init, Outcome
<1>3. ~MayLose
  BY DEF Init, MayLose
<1>4. MayLose = FALSE
  <2>1. MayLose \in BOOLEAN
    BY Zenon DEF MayLose
  <2>2. QED
    BY <1>3, <2>1
<1>5. QED
  BY <1>1, <1>2, <1>4, Zenon DEF Lifecycle!Init

\* Failures are never forgotten.
LEMMA FaultsGrow == [Next]_vars => faults \subseteq faults'
<1> SUFFICES ASSUME [Next]_vars PROVE faults \subseteq faults'
  OBVIOUS
<1>1. ASSUME NEW kind, Fault(kind) PROVE faults \subseteq faults'
  BY <1>1 DEF Fault
<1>2. ASSUME NEW p \in Procs,
             Call(p) \/ CheckBeforeStop(p) \/ Begin(p) \/ Step(p) \/ Crash(p)
      PROVE  UNCHANGED faults \/ \E kind \in FaultKinds : Fault(kind)
  <2>1. CASE Call(p) \/ CheckBeforeStop(p) \/ Begin(p)
    BY <2>1 DEF Call, CheckBeforeStop, Begin, BeginStart, RefuseStart, BeginStop,
                BeginOnWanted, RefuseOther, Enter, Refuse
  <2>2. CASE Step(p)
    BY <2>2 DEF Step, StartRecording, StopRecording, UndoRecording, Export, TruncateMeta,
                FillMeta, TruncateState, FillState, ClearState, FaultKinds
  <2>3. CASE Crash(p)
    BY <2>3 DEF Crash, FaultKinds
  <2>4. QED
    BY <1>2, <2>1, <2>2, <2>3
<1>3. QED
  BY <1>1, <1>2 DEF Next, vars

\* Steps that leave active-session.json alone, or rewrite it for the session it
\* names, are invisible to the callers.
LEMMA QuietSteps ==
  ASSUME IndInv, NEW p \in Procs,
         \/ Call(p) \/ CheckBeforeStop(p) \/ Begin(p)
         \/ StartRecording(p) \/ StopRecording(p) \/ UndoRecording(p) \/ Export(p)
         \/ TruncateMeta(p) \/ FillMeta(p) \/ TruncateState(p)
  PROVE  OpenSession' = OpenSession /\ Outcome' = Outcome
<1> USE SessionStoreAssumption, FileValues, RequestFields DEF IndInv
<1>1. CASE Call(p) \/ CheckBeforeStop(p) \/ RefuseStart(p) \/ RefuseOther(p)
  <2>1. /\ UNCHANGED <<storeVars, cur>>
        /\ \A q \in Procs : lock = q => pc'[q] = pc[q]
    BY <1>1 DEF Call, CheckBeforeStop, RefuseStart, RefuseOther, Refuse,
                TypeOK, OperationInv, LockedSteps, storeVars
  <2>2. OpenSession' = OpenSession
    BY <2>1 DEF OpenSession, IsActive, storeVars
  <2>3. QED
    BY <2>1, <2>2, OutcomeKept DEF storeVars
<1>2. CASE BeginStart(p) \/ BeginStop(p) \/ BeginOnWanted(p)
  <2>1. /\ UNCHANGED <<active, meta, opened>>
        /\ lock = None /\ lock' = p /\ pc'[p] # "fillState"
    BY <1>2 DEF BeginStart, BeginStop, BeginOnWanted, Enter, FirstStep, TypeOK,
                SessionState, Engines, IsActive, ActiveIs
  <2>2. OpenSession' = OpenSession
    BY <2>1 DEF OpenSession, IsActive
  <2>3. QED
    BY <2>1, <2>2, OutcomeKept
<1>3. CASE \/ StartRecording(p) \/ StopRecording(p) \/ UndoRecording(p) \/ Export(p)
          \/ TruncateMeta(p) \/ FillMeta(p)
  <2>1. /\ UNCHANGED <<active, opened>>
        /\ lock = p /\ pc[p] # "fillState"
        /\ lock' = None \/ (lock' = p /\ pc'[p] # "fillState")
    <3>1. /\ UNCHANGED <<active, opened>>
          /\ \/ /\ pc[p] \in {"record", "unrecord", "export", "fillMeta"}
                /\ Advance(p) \/ Return(p) \/ FailWrite(p)
             \/ /\ pc[p] \in {"undo", "meta"}
                /\ GoTo(p, "fillMeta") \/ Return(p) \/ FailWrite(p)
      BY <1>3 DEF StartRecording, StopRecording, UndoRecording, Export, TruncateMeta, FillMeta
    <3>2. lock = p
      BY <3>1 DEF OperationInv, LockedSteps
    <3>3. pc[p] \in {"record", "unrecord", "export", "fillMeta"}
            => StepAfter(req[p].kind, cur[p].engine, pc[p]) # "fillState"
      BY DEF StepAfter
    <3>4. QED
      BY <3>1, <3>2, <3>3 DEF Advance, FailWrite, GoTo, Return, TypeOK
  <2>2. OpenSession' = OpenSession
    BY <2>1 DEF OpenSession, IsActive
  <2>3. \A s \in opened : s # OpenSession => meta'[s] = meta[s]
    <3>1. CASE UNCHANGED meta
      BY <3>1
    <3>2. CASE TruncateMeta(p) \/ FillMeta(p)
      <4>1. \A s \in Sessions \ {cur[p].id} : meta'[s] = meta[s]
        BY <3>2 DEF TruncateMeta, FillMeta, TypeOK
      <4>2. cur[p].id \in opened => cur[p].id = OpenSession
        BY <2>1, <3>2, OpenIsActive DEF TruncateMeta, FillMeta, TypeOK, OperationInv, HolderInv,
           StartPending, StepsOf, LockedSteps, SessionState, Engines, ActiveIs
      <4>3. QED
        BY <4>1, <4>2 DEF TypeOK
    <3>3. QED
      BY <1>3, <3>1, <3>2 DEF StartRecording, StopRecording, UndoRecording, Export
  <2>4. QED
    BY <2>1, <2>2, <2>3, OutcomeKept
<1>4. CASE TruncateState(p)
  <2>1. lock = p /\ pc[p] = "state" /\ cur[p] \in SessionState /\ UNCHANGED <<meta, opened>>
    BY <1>4 DEF TruncateState, TypeOK, OperationInv, LockedSteps
  <2>2. OpenSession = IF IsActive THEN active.id ELSE None
    BY <2>1, OpenIsActive
  <2>3. CASE active' = Torn /\ GoTo(p, "fillState")
    <3>1. OpenSession' = IF cur[p].id \in opened THEN cur[p].id ELSE None
      BY <2>1, <2>3 DEF OpenSession, IsActive, GoTo, TypeOK
    <3>2. IF cur[p].id \in opened THEN ActiveIs(cur[p].id) ELSE ~IsActive
      BY <2>1 DEF HolderInv, StartPending, OperationInv
    <3>3. OpenSession' = OpenSession
      BY <2>2, <3>1, <3>2 DEF ActiveIs
    <3>4. QED
      BY <2>1, <3>3, OutcomeKept
  <2>4. CASE FailWrite(p) /\ UNCHANGED active
    <3>1. lock' = None \/ (lock' = p /\ pc'[p] # "fillState")
      BY <2>1, <2>4 DEF FailWrite, GoTo, Return, TypeOK
    <3>2. OpenSession' = OpenSession
      BY <2>2, <2>4, <3>1 DEF OpenSession, IsActive
    <3>3. QED
      BY <2>1, <3>2, OutcomeKept
  <2>5. QED
    BY <1>4, <2>3, <2>4 DEF TruncateState
<1>5. QED
  BY <1>1, <1>2, <1>3, <1>4 DEF Begin

\* The step that completes active-session.json opens a session or leaves the
\* marked one open; a write that fails there may lose the marked session.
LEMMA FillStateMaps ==
  ASSUME IndInv, NEW p \in Procs, FillState(p)
  PROVE  Lifecycle!Move \/ (OpenSession' = OpenSession /\ Outcome' = Outcome)
<1> USE SessionStoreAssumption, FileValues, RequestFields DEF IndInv
<1> DEFINE s == cur[p].id
<1>1. /\ lock = p /\ pc[p] = "fillState" /\ cur[p] \in SessionState /\ s \in Sessions
      /\ active = Torn /\ UNCHANGED meta
      /\ lock' = None \/ (lock' = p /\ pc'[p] # "fillState")
  BY DEF FillState, TypeOK, OperationInv, HolderInv, LockedSteps, SessionState,
         Advance, FailWrite, GoTo, Return, StepAfter
<1>2. OpenSession = IF s \in opened THEN s ELSE None
  BY <1>1 DEF OpenSession, IsActive
<1>3. s \notin opened => Outcome[s] = "new" /\ meta[s] \notin FinalStatuses
  BY <1>1 DEF Outcome, FilesInv
<1>4. CASE active' = cur[p] /\ opened' = opened \cup {s}
  <2>1. OpenSession' = s
    BY <1>1, <1>4 DEF OpenSession, IsActive
  <2>2. CASE s \in opened
    <3>1. opened' = opened
      BY <2>2, <1>4
    <3>2. QED
      BY <1>1, <1>2, <2>1, <2>2, <3>1, OutcomeKept
  <2>3. CASE s \notin opened
    <3>1. Outcome' = [Outcome EXCEPT ![s] = "open"]
      BY <1>1, <1>2, <1>4, <2>1, <2>3 DEF Outcome, TypeOK
    <3>2. Lifecycle!Open(s)
      BY <1>2, <1>3, <2>1, <2>3, <3>1 DEF Lifecycle!Open
    <3>3. QED
      BY <1>1, <3>2 DEF Lifecycle!Move
  <2>4. QED
    BY <2>2, <2>3
<1>5. CASE active' = Torn /\ opened' = opened /\ Fault("tearing")
  <2>1. OpenSession' = None
    BY <1>1, <1>5 DEF OpenSession, IsActive
  <2>2. CASE s \notin opened
    BY <1>1, <1>2, <1>5, <2>1, <2>2, OutcomeKept
  <2>3. CASE s \in opened
    <3>1. Outcome' = [Outcome EXCEPT ![s] = IF meta[s] \in FinalStatuses THEN meta[s] ELSE "lost"]
      BY <1>1, <1>2, <1>5, <2>1, <2>3 DEF Outcome, TypeOK
    <3>2. MayLose'
      BY <1>5 DEF Fault, MayLose
    <3>3. QED
      BY <1>1, <1>2, <2>1, <2>3, <3>1, <3>2
         DEF Lifecycle!Move, Lifecycle!Close, Lifecycle!Lose, FinalStatuses
  <2>4. QED
    BY <2>2, <2>3
<1>6. QED
  BY <1>1, <1>4, <1>5 DEF FillState

\* Removing active-session.json closes the session with the status its
\* metadata already carry.
LEMMA ClearStateMaps ==
  ASSUME IndInv, NEW p \in Procs, ClearState(p)
  PROVE  Lifecycle!Move \/ (OpenSession' = OpenSession /\ Outcome' = Outcome)
<1> USE SessionStoreAssumption, FileValues, RequestFields DEF IndInv
<1> DEFINE s == cur[p].id
<1>1. /\ lock = p /\ pc[p] = "clear" /\ s \in Sessions /\ s \in opened
      /\ ActiveIs(s) /\ meta[s] \in FinalStatuses
      /\ lock' = None /\ UNCHANGED <<meta, opened>>
  BY DEF ClearState, Return, TypeOK, OperationInv, HolderInv, LockedSteps, SessionState,
         StepsOf, Engines, FinalStatuses
<1>2. OpenSession = s
  BY <1>1 DEF OpenSession, ActiveIs
<1>3. CASE active' = Absent
  <2>1. OpenSession' = None
    BY <1>1, <1>3 DEF OpenSession, IsActive
  <2>2. Outcome' = [Outcome EXCEPT ![s] = meta[s]]
    BY <1>1, <1>2, <2>1 DEF Outcome, TypeOK
  <2>3. QED
    BY <1>1, <1>2, <2>1, <2>2 DEF Lifecycle!Move, Lifecycle!Close, FinalStatuses
<1>4. CASE UNCHANGED active
  <2>1. OpenSession' = OpenSession
    BY <1>1, <1>2, <1>4 DEF OpenSession, IsActive, ActiveIs
  <2>2. QED
    BY <1>1, <2>1, OutcomeKept
<1>5. QED
  BY <1>3, <1>4 DEF ClearState

\* A crash is visible only while active-session.json is being rewritten.
LEMMA CrashMaps ==
  ASSUME IndInv, NEW p \in Procs, Crash(p)
  PROVE  Lifecycle!Move \/ (OpenSession' = OpenSession /\ Outcome' = Outcome)
<1> USE SessionStoreAssumption, FileValues, RequestFields DEF IndInv
<1>1. UNCHANGED <<active, meta, opened>>
  BY DEF Crash
<1>2. CASE lock = p /\ pc[p] = "fillState" /\ cur[p].id \in opened
  <2> DEFINE s == cur[p].id
  <2>1. active = Torn /\ s \in Sessions /\ lock' = None
    BY <1>2 DEF Crash, TypeOK, OperationInv, HolderInv, SessionState
  <2>2. OpenSession = s /\ OpenSession' = None
    BY <1>1, <1>2, <2>1 DEF OpenSession, IsActive
  <2>3. Outcome' = [Outcome EXCEPT ![s] = IF meta[s] \in FinalStatuses THEN meta[s] ELSE "lost"]
    BY <1>1, <1>2, <2>1, <2>2 DEF Outcome, TypeOK
  <2>4. MayLose'
    BY DEF Crash, Fault, MayLose
  <2>5. QED
    BY <2>1, <2>2, <2>3, <2>4 DEF Lifecycle!Move, Lifecycle!Close, Lifecycle!Lose, FinalStatuses
<1>3. CASE ~(lock = p /\ pc[p] = "fillState" /\ cur[p].id \in opened)
  <2>1. OpenSession' = OpenSession
    <3>1. CASE lock = p
      BY <1>1, <1>3, <3>1 DEF Crash, OpenSession, IsActive
    <3>2. CASE lock # p
      BY <1>1, <3>2 DEF Crash, OpenSession, IsActive, TypeOK
    <3>3. QED
      BY <3>1, <3>2
  <2>2. QED
    BY <1>1, <2>1, OutcomeKept
<1>4. QED
  BY <1>2, <1>3

\* For any number of processes, sessions and failures, the files under the
\* flock implement the lifecycle: one session at a time, each ends once, and
\* only a crash or a failed write can lose one.
THEOREM Refinement == Spec => ImplementsLifecycle
<1>1. IndInv /\ [Next]_vars => [Lifecycle!Move]_<<OpenSession, Outcome>>
  <2> SUFFICES ASSUME IndInv, [Next]_vars
               PROVE  Lifecycle!Move \/ (OpenSession' = OpenSession /\ Outcome' = Outcome)
    OBVIOUS
  <2>1. CASE UNCHANGED vars
    BY <2>1 DEF vars, OpenSession, Outcome, IsActive
  <2>2. CASE Next
    <3>1. PICK p \in Procs :
             Call(p) \/ CheckBeforeStop(p) \/ Begin(p) \/ Step(p) \/ Crash(p)
      BY <2>2 DEF Next
    <3>2. QED
      BY <3>1, QuietSteps, FillStateMaps, ClearStateMaps, CrashMaps DEF Step
  <2>3. QED
    BY <2>1, <2>2
<1>2. [Next]_vars => MayLose' \in {MayLose, TRUE}
  <2>1. [Next]_vars /\ MayLose => MayLose'
    BY FaultsGrow DEF MayLose
  <2>2. MayLose \in BOOLEAN /\ MayLose' \in BOOLEAN
    BY Zenon DEF MayLose
  <2>3. QED
    BY <2>1, <2>2
<1>3. IndInv /\ [Next]_vars => [Lifecycle!Next]_(Lifecycle!lifecycleVars)
  BY <1>1, <1>2 DEF Lifecycle!Next, Lifecycle!lifecycleVars
<1>4. QED
  BY <1>3, InitMaps, IndInvHolds, PTL DEF Spec, ImplementsLifecycle, Lifecycle!Spec

-----------------------------------------------------------------------------
(* What holds as long as nothing failed: the documents and the switch agree. *)

\* Steps that leave every file, the lock and the holder's step alone.
LEMMA OutsideClean ==
  ASSUME CleanInv, NEW p \in Procs,
         Call(p) \/ CheckBeforeStop(p) \/ RefuseStart(p) \/ RefuseOther(p)
  PROVE  CleanFilesInv' /\ CleanSwitchInv'
<1> USE SessionStoreAssumption, FileValues DEF CleanInv, IndInv
<1>1. /\ UNCHANGED <<storeVars, cur, faults>>
      /\ \A q \in Procs : lock = q => pc'[q] = pc[q] /\ req'[q] = req[q]
  BY DEF Call, CheckBeforeStop, RefuseStart, RefuseOther, Refuse,
         TypeOK, OperationInv, LockedSteps
<1>2. CleanFilesInv'
  BY <1>1 DEF CleanFilesInv, Settled, ActiveIs, IsActive, StartPending, storeVars
<1>3. CleanSwitchInv'
  <2>1. MustRecord' = MustRecord
    BY <1>1 DEF MustRecord, HolderRecords, IsActive, storeVars
  <2>2. QED
    BY <1>1, <2>1 DEF CleanSwitchInv, CharlesOpened, storeVars
<1>4. QED
  BY <1>2, <1>3

\* Taking the lock: the session the holder picked is the only one it may unsettle.
LEMMA EnterClean ==
  ASSUME CleanInv, NEW p \in Procs, BeginStart(p) \/ BeginStop(p) \/ BeginOnWanted(p)
  PROVE  CleanFilesInv' /\ CleanSwitchInv'
<1> USE SessionStoreAssumption, FileValues, RequestFields DEF CleanInv, IndInv
<1>1. /\ lock = None /\ lock' = p /\ cur'[p] \in SessionState /\ cur'[p].id \in Sessions
      /\ UNCHANGED <<req, active, meta, archived, recording, opened, faults>>
      /\ req[p] \in Requests
      /\ pc' = [pc EXCEPT ![p] = FirstStep(req[p].kind, cur'[p].engine)]
      /\ \A s \in Sessions : s # cur'[p].id => engine'[s] = engine[s]
  BY DEF BeginStart, BeginStop, BeginOnWanted, Enter, TypeOK, OperationInv, SessionState,
         Unlocked, IsActive, ActiveIs, Statuses
<1>2. /\ req[p].kind = "start" => ~IsActive /\ cur'[p].id \notin opened
      /\ req[p].kind # "start" => IsActive /\ cur'[p].id = active.id /\ cur'[p].engine = active.engine
                                  /\ UNCHANGED engine
  BY DEF BeginStart, BeginStop, BeginOnWanted, Enter, TypeOK, ActiveIs, FilesInv, SessionState, IsActive
<1>3. pc'[p] = FirstStep(req[p].kind, cur'[p].engine) /\ pc'[p] \in {"record", "unrecord", "export", "meta", "state"}
  BY <1>1 DEF TypeOK, FirstStep, SessionState, Engines
<1>4. CleanFilesInv'
  <2> SUFFICES ASSUME faults = {} PROVE CleanFilesInv'
    BY <1>1 DEF CleanFilesInv
  <2>1. active # Torn /\ \A s \in Sessions : Settled(s)
    BY <1>1 DEF CleanFilesInv
  <2>2. \A s \in Sessions : s # cur'[p].id => Settled(s)'
    BY <1>1, <2>1 DEF Settled, ActiveIs, IsActive
  <2>3. /\ StartPending(p)' => pc'[p] # "state" \/ cur'[p].engine # "proxify"
        /\ req'[p].kind \in {"start", "mark"} /\ ~StartPending(p)' => pc'[p] # "meta"
    BY <1>1, <1>3 DEF StartPending, FirstStep, SessionState, Engines
  <2>4. QED
    BY <1>1, <1>3, <2>1, <2>2, <2>3 DEF CleanFilesInv
<1>5. CleanSwitchInv'
  <2>1. MustRecord' <=> IsActive /\ active.engine = "charles"
    BY <1>1, <1>2, <1>3 DEF MustRecord, HolderRecords, FirstStep, SessionState, Engines
  <2>2. MustRecord <=> IsActive /\ active.engine = "charles"
    BY <1>1 DEF MustRecord
  <2>3. CharlesOpened' => CharlesOpened
    BY <1>1, <1>2 DEF CharlesOpened, TypeOK
  <2>4. QED
    BY <1>1, <2>1, <2>2, <2>3 DEF CleanSwitchInv
<1>6. QED
  BY <1>4, <1>5

\* A step that meets no failure and ends the operation, or leads to its next step.
Ends(p) == lock' = None
Leads(p, step) ==
  lock' = p /\ pc'[p] = step /\ req'[p] = req[p] /\ cur'[p] = cur[p]

\* What Advance leads to, once the step that follows is known.
LEMMA AdvanceStep ==
  ASSUME TypeOK, NEW p \in Procs, lock = p,
         NEW step, step = StepAfter(req[p].kind, cur[p].engine, pc[p]), Advance(p)
  PROVE  IF step = "idle" THEN Ends(p) ELSE Leads(p, step)
BY DEF Advance, Return, GoTo, Ends, Leads, TypeOK

\* The successful step of each operation.
Succeeds(p) ==
  /\ UNCHANGED engine
  /\ \/ /\ pc[p] = "record" /\ req[p].kind = "start" /\ cur[p].engine = "charles"
        /\ recording' = TRUE /\ UNCHANGED <<active, meta, opened>>
        /\ Leads(p, "state")
     \/ /\ pc[p] = "unrecord" /\ req[p].kind \in {"stop", "abandon"} /\ cur[p].engine = "charles"
        /\ recording' = FALSE /\ UNCHANGED <<active, meta, opened>>
        /\ Leads(p, "export") \/ Leads(p, "meta")
     \/ /\ pc[p] = "export" /\ req[p].kind = "stop"
        /\ UNCHANGED <<active, meta, recording, opened>>
        /\ Leads(p, "meta")
     \/ /\ pc[p] = "meta"
        /\ meta' = [meta EXCEPT ![cur[p].id] = Torn] /\ UNCHANGED <<active, recording, opened>>
        /\ Leads(p, "fillMeta")
     \/ /\ pc[p] = "fillMeta"
        /\ meta' = [meta EXCEPT ![cur[p].id] = cur[p].status] /\ UNCHANGED <<active, recording, opened>>
        /\ \/ req[p].kind \in {"stop", "abandon"} /\ Leads(p, "clear")
           \/ req[p].kind = "start" /\ cur[p].engine = "proxify" /\ Leads(p, "state")
           \/ req[p].kind = "start" /\ cur[p].engine = "charles" /\ Ends(p)
           \/ req[p].kind = "mark" /\ Ends(p)
     \/ /\ pc[p] = "state" /\ req[p].kind \in {"start", "mark"}
        /\ active' = Torn /\ UNCHANGED <<meta, recording, opened>>
        /\ Leads(p, "fillState")
     \/ /\ pc[p] = "fillState" /\ req[p].kind \in {"start", "mark"}
        /\ active' = cur[p] /\ opened' = opened \cup {cur[p].id} /\ UNCHANGED <<meta, recording>>
        /\ \/ req[p].kind = "start" /\ cur[p].engine = "proxify" /\ Ends(p)
           \/ req[p].kind = "start" /\ cur[p].engine = "charles" /\ Leads(p, "meta")
           \/ req[p].kind = "mark" /\ Leads(p, "meta")
     \/ /\ pc[p] = "clear" /\ req[p].kind \in {"stop", "abandon"}
        /\ active' = Absent /\ UNCHANGED <<meta, recording, opened>>
        /\ Ends(p)

\* A step that meets no failure is the successful step of its operation.
LEMMA CleanStep ==
  ASSUME IndInv, NEW p \in Procs, Step(p), faults' = {}, pc[p] # "undo"
  PROVE  Succeeds(p)
<1> USE DEF IndInv
<1>1. \A kind : ~Fault(kind)
  BY DEF Fault
<1>2. /\ lock = p /\ req[p] \in Requests /\ cur[p] \in SessionState
      /\ pc[p] \in StepsOf(req[p].kind, cur[p].engine)
      /\ cur[p].engine \in Engines
      /\ req[p].kind \in {"start", "stop", "abandon", "mark"}
  BY RequestFields DEF Step, StartRecording, StopRecording, UndoRecording, Export, TruncateMeta,
     FillMeta, TruncateState, FillState, ClearState, OperationInv, LockedSteps, SessionState
<1>3. CASE StartRecording(p)
  BY <1>1, <1>2, <1>3, AdvanceStep, Zenon DEF StartRecording, Succeeds, StepAfter, StepsOf, Engines
<1>4. CASE StopRecording(p)
  BY <1>1, <1>2, <1>4, AdvanceStep, Zenon DEF StopRecording, Succeeds, StepAfter, StepsOf, Engines
<1>5. CASE Export(p)
  BY <1>1, <1>2, <1>5, AdvanceStep DEF Export, Succeeds, StepAfter, StepsOf, Engines
<1>6. CASE TruncateMeta(p)
  BY <1>1, <1>2, <1>6, AdvanceStep DEF TruncateMeta, Succeeds, StepAfter, StepsOf, Engines, GoTo,
     Leads, TypeOK
<1>7. CASE FillMeta(p)
  BY <1>1, <1>2, <1>7, AdvanceStep DEF FillMeta, Succeeds, StepAfter, StepsOf, Engines
<1>8. CASE TruncateState(p)
  BY <1>1, <1>2, <1>8, AdvanceStep DEF TruncateState, Succeeds, StepAfter, StepsOf, Engines, GoTo,
     Leads, TypeOK
<1>9. CASE FillState(p)
  BY <1>1, <1>2, <1>9, AdvanceStep DEF FillState, Succeeds, StepAfter, StepsOf, Engines
<1>10. CASE ClearState(p)
  BY <1>1, <1>2, <1>10, AdvanceStep DEF ClearState, Succeeds, StepAfter, StepsOf, Engines, Return, Ends
<1>11. QED
  BY <1>3, <1>4, <1>5, <1>6, <1>7, <1>8, <1>9, <1>10 DEF Step, UndoRecording

\* A step under the lock leaves the documents and the switch as they must be.
LEMMA StepClean ==
  ASSUME CleanInv, NEW p \in Procs, Step(p)
  PROVE  CleanFilesInv' /\ CleanSwitchInv'
<1> SUFFICES ASSUME faults' = {} PROVE CleanFilesInv' /\ CleanSwitchInv'
  BY DEF CleanFilesInv, CleanSwitchInv
<1> USE SessionStoreAssumption, FileValues, RequestFields DEF CleanInv, IndInv
<1>1. faults = {}
  BY FaultsGrow DEF Next
<1>2. pc[p] \in LockedSteps
  BY DEF Step, StartRecording, StopRecording, UndoRecording, Export, TruncateMeta, FillMeta,
     TruncateState, FillState, ClearState, LockedSteps
<1>3. lock = p /\ pc[p] # "idle"
  BY <1>2 DEF OperationInv, LockedSteps
<1>4. /\ lock = p /\ pc[p] \in LockedSteps /\ req[p] \in Requests
      /\ cur[p] \in SessionState /\ cur[p].id \in Sessions
      /\ engine[cur[p].id] = cur[p].engine /\ engine[cur[p].id] # None
      /\ pc[p] \in StepsOf(req[p].kind, cur[p].engine) /\ pc[p] # "undo"
      /\ faults = {}
  BY <1>1, <1>2, <1>3 DEF OperationInv, SessionState, Engines, CleanFilesInv
<1>5. Succeeds(p)
  BY <1>4, CleanStep
<1> PICK s \in Sessions : s = cur[p].id
  BY <1>4
<1>6. /\ \A r \in Sessions : r # s => Settled(r) /\ meta'[r] = meta[r]
      /\ UNCHANGED engine
      /\ \A r \in Sessions : r # s => ~ActiveIs(r) /\ ~ActiveIs(r)'
  <2>1. UNCHANGED engine /\ \A r \in Sessions : r # s => Settled(r) /\ meta'[r] = meta[r]
    BY <1>5, <1>4 DEF Succeeds, Leads, Ends, CleanFilesInv, TypeOK
  <2>2. ~IsActive \/ ActiveIs(s)
    BY <1>4 DEF HolderInv, StartPending, StepsOf, SessionState, Engines, IsActive
  <2>3. UNCHANGED active \/ active' \in {Torn, Absent} \/ active' = cur[p]
    BY <1>5, <1>4 DEF Succeeds, Leads, Ends
  <2>4. QED
    BY <2>1, <2>2, <2>3, <1>4 DEF ActiveIs, IsActive
<1>7. \A r \in Sessions : r # s => Settled(r)'
  BY <1>6 DEF Settled
<1>8. /\ lock' \in {None, p}
      /\ lock' = p => /\ req'[p] = req[p] /\ cur'[p] = cur[p]
                      /\ pc'[p] \in LockedSteps \ {"undo"}
      /\ lock' = None => pc[p] \in {"clear", "fillMeta", "fillState"}
  BY <1>5, <1>4 DEF Succeeds, Leads, Ends, StepsOf, LockedSteps, Engines, SessionState, TypeOK
<1>9. CleanFilesInv'
  <2>1. CASE lock' = None
    <3>1. Settled(s)' /\ active' # Torn
      <4>1. CASE pc[p] = "clear"
        <5>1. active' = Absent /\ meta'[s] \in FinalStatuses
          BY <1>5, <1>4, <4>1 DEF Succeeds, HolderInv, OperationInv, FinalStatuses
        <5>2. QED
          BY <1>4, <1>6, <5>1 DEF Settled, ActiveIs, IsActive
      <4>2. CASE pc[p] = "fillMeta"
        <5>1. active = cur[p] /\ meta'[s] = cur[p].status /\ active' = active
          BY <1>5, <1>4, <1>8, <2>1, <4>2 DEF Succeeds, Leads, Ends, CleanFilesInv, StartPending,
             StepsOf, Engines,
             SessionState, TypeOK
        <5>2. QED
          BY <1>4, <1>6, <5>1 DEF Settled, ActiveIs, IsActive, OperationInv
      <4>3. CASE pc[p] = "fillState"
        <5>1. active' = cur[p] /\ meta'[s] = cur[p].status
          BY <1>5, <1>4, <1>8, <2>1, <4>3 DEF Succeeds, Leads, Ends, CleanFilesInv, StartPending,
             StepsOf, Engines,
             SessionState, TypeOK
        <5>2. QED
          BY <1>4, <1>6, <5>1 DEF Settled, ActiveIs, IsActive, OperationInv
      <4>4. QED
        BY <1>8, <2>1, <4>1, <4>2, <4>3
    <3>2. QED
      BY <1>7, <2>1, <3>1 DEF CleanFilesInv
  <2>2. CASE lock' = p
    <3>1. active' = Torn => pc'[p] = "fillState"
      BY <1>5, <1>4, <1>8, <2>2 DEF Succeeds, Leads, Ends, CleanFilesInv, TypeOK
    <3>2. StartPending(p)' /\ pc'[p] \in {"state", "fillState"} /\ cur'[p].engine = "proxify"
            => meta'[s] = cur[p].status
      BY <1>5, <1>4, <1>8, <2>2 DEF Succeeds, Leads, Ends, CleanFilesInv, StartPending, StepsOf, Engines,
             SessionState, TypeOK
    <3>3. req'[p].kind \in {"start", "mark"} /\ ~StartPending(p)' /\ pc'[p] \in {"meta", "fillMeta"}
            => active' = cur[p]
      BY <1>5, <1>4, <1>8, <2>2 DEF Succeeds, Leads, Ends, CleanFilesInv, StartPending, StepsOf, Engines,
             SessionState, TypeOK
    <3>4. QED
      BY <1>7, <1>8, <2>2, <3>1, <3>2, <3>3 DEF CleanFilesInv
  <2>3. QED
    BY <1>8, <2>1, <2>2
<1>10. CleanSwitchInv'
  <2>1. MustRecord = HolderRecords(p)
    BY <1>4 DEF MustRecord
  <2>2. CASE pc[p] \in {"record", "unrecord"}
    <3>1. lock' = p /\ recording' = (pc[p] = "record")
      BY <1>5, <1>4, <1>8, <2>2 DEF Succeeds, Leads, Ends
    <3>2. MustRecord' <=> pc[p] = "record"
      BY <1>5, <1>4, <1>8, <2>2, <3>1 DEF Succeeds, Leads, Ends, MustRecord, HolderRecords, StepsOf,
         Engines, SessionState, TypeOK
    <3>3. QED
      BY <3>1, <3>2 DEF CleanSwitchInv
  <2>3. CASE pc[p] \notin {"record", "unrecord"}
    <3>1. UNCHANGED recording
      BY <1>5, <1>4, <2>3 DEF Succeeds, Leads, Ends, LockedSteps
    <3>2. HolderRecords(p) <=> cur[p].engine = "charles" /\ req[p].kind \in {"start", "mark"}
      BY <1>4, <2>3 DEF HolderRecords, StepsOf, Engines, SessionState
    <3>3. MustRecord' <=> HolderRecords(p)
      <4>1. CASE lock' = p
        BY <1>5, <1>4, <1>8, <2>3, <3>2, <4>1 DEF Succeeds, Leads, Ends, MustRecord, HolderRecords,
           StepsOf, Engines,
           SessionState, TypeOK
      <4>2. CASE lock' = None
        <5>1. MustRecord' <=> IsActive' /\ active'.engine = "charles"
          BY <4>2 DEF MustRecord
        <5>2. CASE pc[p] = "clear"
          BY <1>5, <1>4, <3>2, <5>1, <5>2 DEF Succeeds, Leads, Ends, IsActive, StepsOf, Engines,
             SessionState
        <5>3. CASE pc[p] \in {"fillMeta", "fillState"}
          <6>1. active' = cur[p] /\ req[p].kind \in {"start", "mark"}
            BY <1>5, <1>4, <1>8, <4>2, <5>3 DEF Succeeds, Leads, Ends, CleanFilesInv, StartPending,
               StepsOf, Engines,
               SessionState, TypeOK
          <6>2. QED
            BY <1>4, <3>2, <5>1, <6>1 DEF IsActive
        <5>4. QED
          BY <1>8, <4>2, <5>2, <5>3
      <4>3. QED
        BY <1>8, <4>1, <4>2
    <3>4. CharlesOpened' /\ ~HolderRecords(p) => CharlesOpened
      <4>1. opened' \in {opened, opened \cup {s}} /\ UNCHANGED engine
            /\ (opened' # opened => pc[p] = "fillState")
        BY <1>5, <1>4, <1>6 DEF Succeeds, Leads, Ends
      <4>2. pc[p] = "fillState" => cur[p].engine = engine[s] /\ req[p].kind \in {"start", "mark"}
        BY <1>4 DEF OperationInv, StepsOf, Engines, SessionState
      <4>3. QED
        BY <3>2, <4>1, <4>2 DEF CharlesOpened
    <3>5. QED
      BY <1>4, <2>1, <3>1, <3>3, <3>4, Zenon DEF CleanSwitchInv
  <2>4. QED
    BY <2>2, <2>3
<1>11. QED
  BY <1>9, <1>10

\* The files and the switch stay settled as long as nothing fails.
THEOREM CleanInvHolds == Spec => []CleanInv
<1>1. Init => CleanInv
  <2> SUFFICES ASSUME Init PROVE CleanInv
    OBVIOUS
  <2> USE SessionStoreAssumption, FileValues DEF Init
  <2>1. CleanFilesInv
    BY DEF CleanFilesInv, Settled, ActiveIs, IsActive
  <2>2. CleanSwitchInv
    BY DEF CleanSwitchInv, MustRecord, IsActive, CharlesOpened
  <2>3. QED
    BY <2>1, <2>2, InitIndInv DEF CleanInv
<1>2. CleanInv /\ IndInv' /\ [Next]_vars => CleanInv'
  <2> SUFFICES ASSUME CleanInv, [Next]_vars PROVE CleanFilesInv' /\ CleanSwitchInv'
    BY DEF CleanInv
  <2>1. CASE UNCHANGED vars
    BY <2>1 DEF vars, CleanInv, CleanFilesInv, Settled, ActiveIs, IsActive, StartPending,
                CleanSwitchInv, MustRecord, HolderRecords, CharlesOpened
  <2>2. ASSUME NEW p \in Procs, Crash(p) PROVE CleanFilesInv' /\ CleanSwitchInv'
    BY <2>2 DEF Crash, Fault, CleanFilesInv, CleanSwitchInv
  <2>3. QED
    BY <2>1, <2>2, OutsideClean, EnterClean, StepClean DEF Next, Begin
<1>3. QED
  BY <1>1, <1>2, IndInvHolds, PTL DEF Spec

\* Between operations, and as long as nothing failed, active-session.json and
\* the metadata of every session agree, whoever wrote them.
THEOREM DocumentsAgree == Spec => []FilesAgree
<1>1. CleanInv => FilesAgree
  BY SessionStoreAssumption DEF CleanInv, CleanFilesInv, FilesAgree, Settled
<1>2. QED
  BY <1>1, CleanInvHolds, PTL

\* As long as no request, write or process failed, Charles records exactly
\* while a Charles session is active.
THEOREM SwitchFollowsSession == Spec => []RecordingFollowsSession
<1>1. CleanInv => RecordingFollowsSession
  <2> SUFFICES ASSUME CleanInv, lock = None, faults = {}
               PROVE  /\ IsActive /\ active.engine = "charles" => recording
                      /\ ~IsActive /\ (\E s \in opened : engine[s] = "charles") => ~recording
    BY DEF RecordingFollowsSession
  <2>1. MustRecord <=> IsActive /\ active.engine = "charles"
    BY SessionStoreAssumption DEF MustRecord
  <2>2. QED
    BY <2>1, Zenon DEF CleanInv, CleanSwitchInv, CharlesOpened
<1>2. QED
  BY <1>1, CleanInvHolds, PTL

-----------------------------------------------------------------------------
(* How long the lock is held.                                              *)

\* The number of steps left at each step.
LEMMA StepsLeftIs ==
  ASSUME NEW kind, NEW e
  PROVE  /\ StepsLeft(kind, e, "record") = 6 /\ StepsLeft(kind, e, "unrecord") = 5
         /\ StepsLeft(kind, e, "export") = 4
         /\ StepsLeft(kind, e, "clear") = 1 /\ StepsLeft(kind, e, "undo") = 1
         /\ kind = "start" /\ e = "proxify" =>
              /\ StepsLeft(kind, e, "meta") = 4 /\ StepsLeft(kind, e, "fillMeta") = 3
              /\ StepsLeft(kind, e, "state") = 2 /\ StepsLeft(kind, e, "fillState") = 1
         /\ ~(kind = "start" /\ e = "proxify") =>
              /\ StepsLeft(kind, e, "state") = 5 /\ StepsLeft(kind, e, "fillState") = 4
              /\ StepsLeft(kind, e, "meta") = 3 /\ StepsLeft(kind, e, "fillMeta") = 2
BY DEF StepsLeft

\* Every step that follows another one is nearer to the end of the operation.
LEMMA NextIsCloser ==
  ASSUME NEW kind \in {"start", "stop", "abandon", "mark"}, NEW e \in Engines,
         NEW step \in StepsOf(kind, e)
  PROVE  /\ step \notin {"meta", "state", "undo"} /\ StepAfter(kind, e, step) # "idle"
              => StepsLeft(kind, e, StepAfter(kind, e, step)) < StepsLeft(kind, e, step)
         /\ step = "meta" => StepsLeft(kind, e, "fillMeta") < StepsLeft(kind, e, step)
         /\ step = "state" => StepsLeft(kind, e, "fillState") < StepsLeft(kind, e, step)
         /\ kind = "start" /\ e = "charles" /\ step \in {"meta", "fillMeta", "state", "fillState"}
              => StepsLeft(kind, e, "undo") < StepsLeft(kind, e, step)
<1>1. /\ step = "meta" => StepsLeft(kind, e, "fillMeta") < StepsLeft(kind, e, step)
      /\ step = "state" => StepsLeft(kind, e, "fillState") < StepsLeft(kind, e, step)
      /\ kind = "start" /\ e = "charles" /\ step \in {"meta", "fillMeta", "state", "fillState"}
           => StepsLeft(kind, e, "undo") < StepsLeft(kind, e, step)
  BY StepsLeftIs
<1>2. CASE step \in {"record", "unrecord", "export", "clear"}
  BY <1>1, <1>2, StepsLeftIs DEF StepsOf, StepAfter, Engines
<1>3. CASE step = "fillMeta"
  BY <1>1, <1>3, StepsLeftIs DEF StepsOf, StepAfter, Engines
<1>4. CASE step = "fillState"
  BY <1>1, <1>4, StepsLeftIs DEF StepsOf, StepAfter, Engines
<1>5. step \in LockedSteps
  BY DEF StepsOf, LockedSteps, Engines
<1>6. QED
  BY <1>1, <1>2, <1>3, <1>4, <1>5 DEF LockedSteps

\* What the holder carries.
LEMMA HolderIs ==
  ASSUME IndInv, NEW p \in Procs, Step(p)
  PROVE  /\ lock = p /\ pc \in [Procs -> Unlocked \cup LockedSteps]
         /\ req[p].kind \in {"start", "stop", "abandon", "mark"}
         /\ cur[p].engine \in Engines
         /\ pc[p] \in StepsOf(req[p].kind, cur[p].engine)
BY RequestFields DEF IndInv, TypeOK, OperationInv, LockedSteps, SessionState, Step, StartRecording,
   StopRecording, UndoRecording, Export, TruncateMeta, FillMeta, TruncateState, FillState, ClearState

\* A step of the holder gives the lock back or leads to a step nearer to that.
LEMMA StepIsCloser ==
  ASSUME IndInv, NEW p \in Procs, Step(p)
  PROVE  lock' = None \/ (lock' = p /\ Left(p)' < Left(p))
<1> DEFINE kind == req[p].kind
           e == cur[p].engine
<1>0. /\ lock = p /\ pc \in [Procs -> Unlocked \cup LockedSteps]
      /\ kind \in {"start", "stop", "abandon", "mark"} /\ e \in Engines
      /\ pc[p] \in StepsOf(kind, e)
  BY HolderIs
<1>1. ASSUME NEW step \in LockedSteps, GoTo(p, step),
             StepsLeft(kind, e, step) < StepsLeft(kind, e, pc[p])
      PROVE  lock' = p /\ Left(p)' < Left(p)
  BY <1>0, <1>1 DEF GoTo, Left
<1>2. ASSUME Return(p) PROVE lock' = None
  BY <1>2 DEF Return
<1>3. ASSUME Advance(p), pc[p] \notin {"meta", "state", "undo"}
      PROVE  lock' = None \/ (lock' = p /\ Left(p)' < Left(p))
  <2> DEFINE next == StepAfter(kind, e, pc[p])
  <2>1. next \in LockedSteps \cup {"idle"}
    BY <1>0, <1>3 DEF StepsOf, StepAfter, LockedSteps, Engines
  <2>2. CASE next = "idle"
    BY <1>2, <1>3, <2>2 DEF Advance
  <2>3. CASE next # "idle"
    <3>1. GoTo(p, next) /\ next \in LockedSteps
      BY <1>3, <2>1, <2>3 DEF Advance
    <3>2. StepsLeft(kind, e, next) < StepsLeft(kind, e, pc[p])
      BY <1>0, <1>3, <2>3, NextIsCloser
    <3>3. QED
      BY <1>1, <3>1, <3>2
  <2>4. QED
    BY <2>2, <2>3
<1>4. ASSUME FailWrite(p), pc[p] \in {"meta", "fillMeta", "state", "fillState"}
      PROVE  lock' = None \/ (lock' = p /\ Left(p)' < Left(p))
  <2>1. CASE kind = "start" /\ e = "charles"
    <3>1. GoTo(p, "undo") /\ "undo" \in LockedSteps
      BY <1>4, <2>1 DEF FailWrite, LockedSteps
    <3>2. StepsLeft(kind, e, "undo") < StepsLeft(kind, e, pc[p])
      BY <1>0, <1>4, <2>1, NextIsCloser
    <3>3. QED
      BY <1>1, <3>1, <3>2
  <2>2. QED
    BY <1>2, <1>4, <2>1 DEF FailWrite
<1>5. ASSUME pc[p] = "meta", GoTo(p, "fillMeta")
      PROVE  lock' = p /\ Left(p)' < Left(p)
  <2>1. StepsLeft(kind, e, "fillMeta") < StepsLeft(kind, e, pc[p]) /\ "fillMeta" \in LockedSteps
    BY <1>0, <1>5, NextIsCloser DEF LockedSteps
  <2>2. QED
    BY <1>1, <1>5, <2>1
<1>6. ASSUME pc[p] = "state", GoTo(p, "fillState")
      PROVE  lock' = p /\ Left(p)' < Left(p)
  <2>1. StepsLeft(kind, e, "fillState") < StepsLeft(kind, e, pc[p]) /\ "fillState" \in LockedSteps
    BY <1>0, <1>6, NextIsCloser DEF LockedSteps
  <2>2. QED
    BY <1>1, <1>6, <2>1
<1>7. \/ pc[p] \notin {"meta", "state", "undo"} /\ Advance(p)
      \/ Return(p)
      \/ pc[p] \in {"meta", "fillMeta", "state", "fillState"} /\ FailWrite(p)
      \/ pc[p] = "meta" /\ GoTo(p, "fillMeta")
      \/ pc[p] = "state" /\ GoTo(p, "fillState")
  BY DEF Step, StartRecording, StopRecording, UndoRecording, Export, TruncateMeta, FillMeta,
         TruncateState, FillState, ClearState
<1>8. QED
  BY <1>2, <1>3, <1>4, <1>5, <1>6, <1>7

\* Whoever does not hold the lock leaves the holder, its files and the switch alone.
LEMMA OthersLeaveHolder ==
  ASSUME IndInv, NEW p \in Procs, lock = p, NEW q \in Procs,
         Call(q) \/ CheckBeforeStop(q) \/ Begin(q) \/ (q # p /\ Crash(q))
  PROVE  lock' = p /\ UNCHANGED <<pc[p], req[p], cur[p], active, meta, archived, recording>>
<1>0. pc[p] \in LockedSteps /\ p # None /\ pc \in [Procs -> Unlocked \cup LockedSteps]
  BY SessionStoreAssumption DEF IndInv, OperationInv, TypeOK
<1>1. CASE Call(q) \/ CheckBeforeStop(q)
  BY <1>0, <1>1 DEF Call, CheckBeforeStop, storeVars, LockedSteps, IndInv, TypeOK
<1>2. CASE Begin(q)
  BY <1>0, <1>2 DEF Begin, BeginStart, RefuseStart, BeginStop, BeginOnWanted, RefuseOther
<1>3. CASE q # p /\ Crash(q)
  <2>1. pc[q] # "export"
    BY <1>3 DEF IndInv, OperationInv, LockedSteps
  <2>2. QED
    BY <1>3, <2>1 DEF Crash, IndInv, TypeOK
<1>4. QED
  BY <1>1, <1>2, <1>3

\* No operation holds the lock for ever: for any number of processes and failures the
\* holder alone writes, and it gives the lock back after six steps of its own at most.
THEOREM HeldBriefly == Spec => HoldsBriefly
<1>1. IndInv /\ [Next]_vars =>
        [\A p \in Procs : lock = p =>
           \/ lock' = None
           \/ lock' = p /\ Left(p)' < Left(p)
           \/ lock' = p /\ UNCHANGED <<pc[p], req[p], cur[p], active, meta, archived, recording>>]_vars
  <2> SUFFICES ASSUME IndInv, Next, NEW p \in Procs, lock = p
               PROVE  \/ lock' = None
                      \/ lock' = p /\ Left(p)' < Left(p)
                      \/ /\ lock' = p
                         /\ UNCHANGED <<pc[p], req[p], cur[p], active, meta, archived, recording>>
    BY DEF vars
  <2>1. PICK q \in Procs : Call(q) \/ CheckBeforeStop(q) \/ Begin(q) \/ Step(q) \/ Crash(q)
    BY DEF Next
  <2>2. CASE Step(q)
    <3>1. q = p
      BY <2>2, HolderIs
    <3>2. QED
      BY <2>2, <3>1, StepIsCloser
  <2>3. CASE Crash(q) /\ q = p
    BY <2>3 DEF Crash
  <2>4. CASE Call(q) \/ CheckBeforeStop(q) \/ Begin(q) \/ (q # p /\ Crash(q))
    BY <2>4, OthersLeaveHolder
  <2>5. QED
    BY <2>1, <2>2, <2>3, <2>4
<1>2. QED
  BY <1>1, IndInvHolds, PTL DEF Spec, HoldsBriefly

-----------------------------------------------------------------------------
(* What the lifecycle is worth to the callers.                             *)

\* A step of the lifecycle keeps one session open at most, and loses none that no
\* failure could have destroyed.
LEMMA LifecycleStep ==
  ASSUME Lifecycle!LifecycleInv, [Lifecycle!Next]_(Lifecycle!lifecycleVars)
  PROVE  /\ Lifecycle!LifecycleInv'
         /\ \A s \in Sessions : /\ Outcome[s] # "new" => Outcome'[s] # "new"
                                /\ Outcome[s] \in Lifecycle!Final => Outcome'[s] = Outcome[s]
<1> DEFINE Kept == OpenSession' = OpenSession /\ Outcome' = Outcome
<1> USE SessionStoreAssumption
    DEF Lifecycle!LifecycleInv, Lifecycle!LifecycleTypeOK, Lifecycle!Final
<1>1. MayLose' \in BOOLEAN /\ (MayLose => MayLose')
  BY Zenon DEF Lifecycle!Next, Lifecycle!lifecycleVars
<1>2. CASE Kept
  BY <1>1, <1>2
<1>3. ASSUME NEW s \in Sessions, Lifecycle!Open(s)
      PROVE  /\ Lifecycle!LifecycleInv'
             /\ \A t \in Sessions : /\ Outcome[t] # "new" => Outcome'[t] # "new"
                                    /\ Outcome[t] \in Lifecycle!Final => Outcome'[t] = Outcome[t]
  BY <1>1, <1>3 DEF Lifecycle!Open
<1>4. ASSUME NEW s \in Sessions, NEW how \in Lifecycle!Final, how = "lost" => MayLose',
             Lifecycle!Close(s, how)
      PROVE  /\ Lifecycle!LifecycleInv'
             /\ \A t \in Sessions : /\ Outcome[t] # "new" => Outcome'[t] # "new"
                                    /\ Outcome[t] \in Lifecycle!Final => Outcome'[t] = Outcome[t]
  BY <1>1, <1>4 DEF Lifecycle!Close
<1>5. QED
  BY <1>2, <1>3, <1>4 DEF Lifecycle!Next, Lifecycle!Move, Lifecycle!Lose, Lifecycle!lifecycleVars

\* At the beginning no session is open and all are new.
LEMMA LifecycleInit == Lifecycle!Init => Lifecycle!LifecycleInv
BY SessionStoreAssumption
   DEF Lifecycle!Init, Lifecycle!LifecycleInv, Lifecycle!LifecycleTypeOK, Lifecycle!Final

\* In every behaviour of the lifecycle the open session is the only one that is neither
\* new nor over, and none is lost before state was destroyed.
THEOREM LifecycleHolds == Lifecycle!Spec => []Lifecycle!LifecycleInv
BY LifecycleInit, LifecycleStep, PTL DEF Lifecycle!Spec

\* In every behaviour of the lifecycle a session that ends has ended for good.
THEOREM LifecycleEnds == Lifecycle!Spec => Lifecycle!EndsForGood
BY LifecycleInit, LifecycleStep, PTL DEF Lifecycle!Spec, Lifecycle!EndsForGood

\* So it is for the store's files, whatever fails (session_manager.go:45-151).
THEOREM NothingLost == Spec => []Lifecycle!LifecycleInv
BY Refinement, LifecycleHolds, PTL DEF ImplementsLifecycle

\* No operation of any process reopens a session that is over or changes how it ended.
THEOREM EndedForGood == Spec => Lifecycle!EndsForGood
BY Refinement, LifecycleEnds, PTL DEF ImplementsLifecycle
=============================================================================
