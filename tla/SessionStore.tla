----------------------------- MODULE SessionStore -----------------------------
(***************************************************************************)
(* The capture-session store of the CLI: active-session.json, the          *)
(* meta.json of every session, Charles' recording switch, and the          *)
(* operations start, stop, abandon and mark that several processes and     *)
(* HTTP handlers run on them.  session-operation.lock (flock) serialises   *)
(* the operations; the checks callers make before stop, and every other    *)
(* reader, do not take it.                                                 *)
(*                                                                         *)
(* os.WriteFile truncates and then writes, so a file is Torn in between    *)
(* and stays Torn when the write fails or the process dies there.  Each    *)
(* request to Charles and each file operation may fail; Faults is the set  *)
(* of failures a behaviour may meet, MaxFaults bounds how many it meets.   *)
(***************************************************************************)
EXTENDS Naturals, FiniteSets

CONSTANTS Procs,      \* CLI processes and HTTP handler goroutines
          Sessions,   \* capture ids newCaptureID can draw
          None,       \* no process, no session, no precondition
          AnySession, \* precondition of serve's stop: some session is active
          Absent,     \* a file that does not exist
          Torn,       \* a file that does not parse
          Faults,     \* failures admitted, each at most once: its kind and a number
          MaxFaults   \* bound on the failures of one behaviour

Engines == {"proxify", "charles"}
\* A crash or a failed write can leave a file torn; a failed request to Charles,
\* export or removal leaves the control files as they were.
FaultKinds == {"tearing", "plain"}

ASSUME SessionStoreAssumption ==
  /\ None \notin Procs \cup Sessions \cup Engines
  /\ AnySession \notin Sessions \cup {None}
  /\ Absent # Torn
  /\ Faults \subseteq [kind : FaultKinds, nr : Nat]
  /\ MaxFaults \in Nat

Statuses == {"recording", "starting", "completed", "abandoned"}
FinalStatuses == {"completed", "abandoned"}

\* sessionState: the fields that decide control.  StoppedMS is set only on the
\* copy that stop and abandon write to meta.json, so active-session.json
\* always holds StoppedMS = 0.
SessionState == [id : Sessions, engine : Engines, status : Statuses]

ASSUME FileValuesAssumption == {Absent, Torn} \cap (SessionState \cup Statuses) = {}

\* A call of the store.  want is the session the caller asked for: abandon and
\* mark compare it under the lock, stop before taking it.
Requests ==
  [kind : {"start"}, want : {None}, status : {"recording"}]
  \cup [kind : {"stop"}, want : Sessions \cup {AnySession, None}, status : {"completed"}]
  \cup [kind : {"abandon"}, want : Sessions, status : {"abandoned"}]
  \cup [kind : {"mark"}, want : Sessions, status : {"starting", "recording"}]

VARIABLES
  lock,      \* holder of session-operation.lock
  active,    \* active-session.json
  meta,      \* meta.json of every session: Absent, Torn or its status
  archived,  \* the session's exports are complete on disk
  recording, \* Charles' recording switch
  engine,    \* engine of every id drawn so far, None for an id not drawn
  opened,    \* history: sessions that active-session.json has named
  pc,        \* where each process is
  req,       \* the call it is executing
  cur,       \* the sessionState it works on under the lock
  faults     \* failures that have happened

storeVars == <<lock, active, meta, archived, recording, engine, opened>>
procVars == <<pc, req, cur>>
vars == <<lock, active, meta, archived, recording, engine, opened, pc, req, cur, faults>>

Unlocked == {"idle", "check", "wait"}
LockedSteps == {"record", "unrecord", "undo", "export", "meta", "fillMeta",
                "state", "fillState", "clear"}

TypeOK ==
  /\ lock \in Procs \cup {None}
  /\ active \in SessionState \cup {Absent, Torn}
  /\ meta \in [Sessions -> Statuses \cup {Absent, Torn}]
  /\ archived \in [Sessions -> BOOLEAN]
  /\ recording \in BOOLEAN
  /\ engine \in [Sessions -> Engines \cup {None}]
  /\ opened \in SUBSET Sessions
  /\ pc \in [Procs -> Unlocked \cup LockedSteps]
  /\ req \in [Procs -> Requests \cup {None}]
  /\ cur \in [Procs -> SessionState \cup {None}]
  /\ faults \in SUBSET Faults

\* active-session.json parses.
IsActive == active \in SessionState
ActiveIs(s) == IsActive /\ active.id = s

Init ==
  /\ lock = None
  /\ active = Absent
  /\ meta = [s \in Sessions |-> Absent]
  /\ archived = [s \in Sessions |-> FALSE]
  /\ recording \in BOOLEAN
  /\ engine = [s \in Sessions |-> None]
  /\ opened = {}
  /\ pc = [p \in Procs |-> "idle"]
  /\ req = [p \in Procs |-> None]
  /\ cur = [p \in Procs |-> None]
  /\ faults = {}

\* A failure of this kind happens.
Fault(kind) ==
  /\ Cardinality(faults) < MaxFaults
  /\ \E f \in Faults \ faults : f.kind = kind /\ faults' = faults \cup {f}

-----------------------------------------------------------------------------
(* The order of the steps of each operation.                               *)

\* Mutants: stop forgets to export, stop and abandon leave Charles recording.
FirstStepNoExport(kind, e) ==
  CASE kind = "start" /\ e = "charles" -> "record"
    [] kind = "mark" -> "state"
    [] OTHER -> "meta"
FirstStepKeepsRecording(kind, e) ==
  CASE kind = "start" /\ e = "charles" -> "record"
    [] kind = "stop" -> "export"
    [] kind = "mark" -> "state"
    [] OTHER -> "meta"

\* First step after active-session.json was read under the lock.
FirstStep(kind, e) ==
  CASE kind = "start" /\ e = "proxify" -> "meta"
    [] kind = "start" /\ e = "charles" -> "record"
    [] kind = "stop" /\ e = "proxify"  -> "export"
    [] kind = "abandon" /\ e = "proxify" -> "meta"
    [] kind \in {"stop", "abandon"} /\ e = "charles" -> "unrecord"
    [] kind = "mark" -> "state"

\* Mutant: mark forgets the session's own metadata.
StepAfterNoMarkMeta(kind, e, step) ==
  CASE step = "record" -> "state"
    [] step = "unrecord" -> IF kind = "stop" THEN "export" ELSE "meta"
    [] step = "export" -> "meta"
    [] step = "fillMeta" -> IF kind \in {"stop", "abandon"} THEN "clear"
                            ELSE IF e = "proxify" THEN "state" ELSE "idle"
    [] step = "fillState" -> IF e = "charles" /\ kind = "start" THEN "meta" ELSE "idle"
    [] step = "clear" -> "idle"

\* Mutant: a mark that has written both documents begins again.
StepAfterMarkAgain(kind, e, step) ==
  CASE step = "record" -> "state"
    [] step = "unrecord" -> IF kind = "stop" THEN "export" ELSE "meta"
    [] step = "export" -> "meta"
    [] step = "fillMeta" -> IF kind \in {"stop", "abandon"} THEN "clear"
                            ELSE IF e = "proxify" THEN "state"
                            ELSE "idle"
    [] step = "fillState" -> IF kind = "start" /\ e = "proxify" THEN "idle" ELSE "meta"
    [] step = "clear" -> "idle"

\* The step that follows a successful step; "idle" ends the operation.
StepAfter(kind, e, step) ==
  CASE step = "record" -> "state"
    [] step = "unrecord" -> IF kind = "stop" THEN "export" ELSE "meta"
    [] step = "export" -> "meta"
    [] step = "fillMeta" -> IF kind \in {"stop", "abandon"} THEN "clear"
                            ELSE IF kind = "start" /\ e = "proxify" THEN "state"
                            ELSE "idle"
    [] step = "fillState" -> IF kind = "start" /\ e = "proxify" THEN "idle" ELSE "meta"
    [] step = "clear" -> "idle"

\* Mutant: the unlock is forgotten.
ReturnLocked(p) ==
  /\ pc' = [pc EXCEPT ![p] = "idle"]
  /\ req' = [req EXCEPT ![p] = None]
  /\ cur' = [cur EXCEPT ![p] = None]
  /\ UNCHANGED lock

\* p returns to its caller; the deferred unlock runs on every path.
Return(p) ==
  /\ lock' = None
  /\ pc' = [pc EXCEPT ![p] = "idle"]
  /\ req' = [req EXCEPT ![p] = None]
  /\ cur' = [cur EXCEPT ![p] = None]

GoTo(p, step) ==
  /\ pc' = [pc EXCEPT ![p] = step]
  /\ UNCHANGED <<lock, req, cur>>

\* The step p is at succeeded.
Advance(p) ==
  LET next == StepAfter(req[p].kind, cur[p].engine, pc[p])
  IN  IF next = "idle" THEN Return(p) ELSE GoTo(p, next)

\* The step p is at failed: a Charles start first switches recording off again
\* when it could not write a file, everything else just returns the error.
FailWrite(p) ==
  IF req[p].kind = "start" /\ cur[p].engine = "charles" THEN GoTo(p, "undo") ELSE Return(p)

-----------------------------------------------------------------------------
(* Calls.                                                                  *)

\* A process calls the store.  The phone and the foreground monitor can only
\* name a session that was started; record stop names none.
Call(p) ==
  /\ pc[p] = "idle"
  /\ \E r \in Requests :
       /\ r.want \in Sessions => engine[r.want] # None
       /\ req' = [req EXCEPT ![p] = r]
       /\ pc' = [pc EXCEPT ![p] = IF r.kind = "stop" /\ r.want # None THEN "check" ELSE "wait"]
  /\ UNCHANGED <<storeVars, cur, faults>>

\* handleStop, the foreground monitor and serve read active-session.json
\* without the lock and only then call stop, which names no session.
CheckBeforeStop(p) ==
  /\ pc[p] = "check"
  /\ IF IsActive /\ req[p].want \in {active.id, AnySession}
     THEN /\ pc' = [pc EXCEPT ![p] = "wait"]
          /\ UNCHANGED req
     ELSE /\ pc' = [pc EXCEPT ![p] = "idle"]
          /\ req' = [req EXCEPT ![p] = None]
  /\ UNCHANGED <<storeVars, cur, faults>>

Enter(p, s) ==
  /\ lock' = p
  /\ cur' = [cur EXCEPT ![p] = s]
  /\ pc' = [pc EXCEPT ![p] = FirstStep(req[p].kind, s.engine)]
  /\ UNCHANGED <<req, active, meta, archived, recording, opened, faults>>

\* The lock is taken and given back without any write.
Refuse(p) ==
  /\ pc' = [pc EXCEPT ![p] = "idle"]
  /\ req' = [req EXCEPT ![p] = None]
  /\ UNCHANGED <<storeVars, cur, faults>>

\* Mutant: the check for an active session is dropped.
BeginStartUnchecked(p) ==
  /\ pc[p] = "wait" /\ lock = None
  /\ req[p].kind = "start"
  /\ \E s \in Sessions, e \in Engines :
       /\ engine[s] = None
       /\ engine' = [engine EXCEPT ![s] = e]
       /\ Enter(p, [id |-> s, engine |-> e, status |-> "recording"])

\* recordStart under the lock.  A file that is missing or does not parse counts
\* as "no active session".  The id is new.
BeginStart(p) ==
  /\ pc[p] = "wait" /\ lock = None
  /\ req[p].kind = "start"
  /\ ~IsActive
  /\ \E s \in Sessions, e \in Engines :
       /\ engine[s] = None
       /\ engine' = [engine EXCEPT ![s] = e]
       /\ Enter(p, [id |-> s, engine |-> e, status |-> "recording"])

\* An active session, or an engine that is not running.
RefuseStart(p) ==
  /\ pc[p] = "wait" /\ lock = None
  /\ req[p].kind = "start"
  /\ Refuse(p)

\* recordStop reads whatever session is active now.
BeginStop(p) ==
  /\ pc[p] = "wait" /\ lock = None
  /\ req[p].kind = "stop"
  /\ IsActive
  /\ Enter(p, [active EXCEPT !.status = "completed"])
  /\ UNCHANGED engine

\* abandon and markActiveSessionStatus compare the id under the lock.
BeginOnWanted(p) ==
  /\ pc[p] = "wait" /\ lock = None
  /\ req[p].kind \in {"abandon", "mark"}
  /\ ActiveIs(req[p].want)
  /\ Enter(p, [active EXCEPT !.status = req[p].status])
  /\ UNCHANGED engine

RefuseOther(p) ==
  /\ pc[p] = "wait" /\ lock = None
  /\ \/ req[p].kind = "stop" /\ ~IsActive
     \/ req[p].kind \in {"abandon", "mark"} /\ ~ActiveIs(req[p].want)
  /\ Refuse(p)

-----------------------------------------------------------------------------
(* Steps under the lock.                                                   *)

\* GET /recording/start.  A lost answer may still have switched it on.
StartRecording(p) ==
  /\ pc[p] = "record"
  /\ \/ recording' = TRUE /\ Advance(p) /\ UNCHANGED faults
     \/ recording' \in {recording, TRUE} /\ Return(p) /\ Fault("plain")
  /\ UNCHANGED <<active, meta, archived, engine, opened>>

\* GET /recording/stop, before the exports of a stop or the mark of an abandon.  A stop
\* asks the Charles of its own --proxy flag: all commands are taken to name the same one.
StopRecording(p) ==
  /\ pc[p] = "unrecord"
  /\ \/ recording' = FALSE /\ Advance(p) /\ UNCHANGED faults
     \/ recording' \in {recording, FALSE} /\ Return(p) /\ Fault("plain")
  /\ UNCHANGED <<active, meta, archived, engine, opened>>

\* GET /recording/stop after a failed start; its error is ignored.
UndoRecording(p) ==
  /\ pc[p] = "undo"
  /\ Return(p)
  /\ \/ recording' = FALSE /\ UNCHANGED faults
     \/ recording' \in {recording, FALSE} /\ Fault("plain")
  /\ UNCHANGED <<active, meta, archived, engine, opened>>

\* The session's data are written to its directory.  Proxify's traffic.jsonl
\* replaces the old file by a rename; Charles' exports overwrite it in place.
BrokenArchive(p) ==
  \/ UNCHANGED archived
  \/ cur[p].engine = "charles" /\ archived' = [archived EXCEPT ![cur[p].id] = FALSE]

Export(p) ==
  /\ pc[p] = "export"
  /\ \/ archived' = [archived EXCEPT ![cur[p].id] = TRUE] /\ Advance(p) /\ UNCHANGED faults
     \/ BrokenArchive(p) /\ Return(p) /\ Fault("plain")
  /\ UNCHANGED <<active, meta, recording, engine, opened>>

\* writeSessionMetadata: truncate, then fill.  A stop with --out first writes the
\* same document to the output directory, which no other part reads; a failure
\* there is a failure before the truncation.
TruncateMeta(p) ==
  /\ pc[p] = "meta"
  /\ \/ /\ meta' = [meta EXCEPT ![cur[p].id] = Torn]
        /\ GoTo(p, "fillMeta")
        /\ UNCHANGED faults
     \/ Fault("tearing") /\ FailWrite(p) /\ UNCHANGED meta
  /\ UNCHANGED <<active, archived, recording, engine, opened>>

FillMeta(p) ==
  /\ pc[p] = "fillMeta"
  /\ \/ /\ meta' = [meta EXCEPT ![cur[p].id] = cur[p].status]
        /\ Advance(p)
        /\ UNCHANGED faults
     \/ /\ \E m \in {Torn, cur[p].status} : meta' = [meta EXCEPT ![cur[p].id] = m]
        /\ FailWrite(p)
        /\ Fault("tearing")
  /\ UNCHANGED <<active, archived, recording, engine, opened>>

\* writeState: truncate, then fill.
TruncateState(p) ==
  /\ pc[p] = "state"
  /\ \/ active' = Torn /\ GoTo(p, "fillState") /\ UNCHANGED faults
     \/ Fault("tearing") /\ FailWrite(p) /\ UNCHANGED active
  /\ UNCHANGED <<meta, archived, recording, engine, opened>>

FillState(p) ==
  /\ pc[p] = "fillState"
  /\ \/ /\ active' = cur[p]
        /\ opened' = opened \cup {cur[p].id}
        /\ Advance(p)
        /\ UNCHANGED faults
     \/ /\ \/ active' = Torn /\ UNCHANGED opened
           \/ active' = cur[p] /\ opened' = opened \cup {cur[p].id}
        /\ FailWrite(p)
        /\ Fault("tearing")
  /\ UNCHANGED <<meta, archived, recording, engine>>

\* clearState: os.Remove.
ClearState(p) ==
  /\ pc[p] = "clear"
  /\ \/ active' = Absent /\ UNCHANGED faults
     \/ Fault("plain") /\ UNCHANGED active
  /\ Return(p)
  /\ UNCHANGED <<meta, archived, recording, engine, opened>>

\* The process dies; the kernel drops its flock, the files stay as they are.
Crash(p) ==
  /\ pc[p] # "idle"
  /\ Fault("tearing")
  /\ lock' = IF lock = p THEN None ELSE lock
  /\ IF pc[p] = "export" THEN BrokenArchive(p) ELSE UNCHANGED archived
  /\ pc' = [pc EXCEPT ![p] = "idle"]
  /\ req' = [req EXCEPT ![p] = None]
  /\ cur' = [cur EXCEPT ![p] = None]
  /\ UNCHANGED <<active, meta, recording, engine, opened>>

-----------------------------------------------------------------------------
Begin(p) ==
  \/ BeginStart(p) \/ RefuseStart(p)
  \/ BeginStop(p) \/ BeginOnWanted(p) \/ RefuseOther(p)

Step(p) ==
  \/ StartRecording(p) \/ StopRecording(p) \/ UndoRecording(p)
  \/ Export(p)
  \/ TruncateMeta(p) \/ FillMeta(p)
  \/ TruncateState(p) \/ FillState(p)
  \/ ClearState(p)

Next ==
  \E p \in Procs :
     Call(p) \/ CheckBeforeStop(p) \/ Begin(p) \/ Step(p) \/ Crash(p)

Spec == Init /\ [][Next]_vars

\* A process that runs keeps running: Charles requests time out after 10 s and
\* file operations return.  flock wakes a waiter whenever the holder leaves; that
\* the same waiter is not passed over for ever is the SF conjunct.
Fairness ==
  \A p \in Procs :
     /\ WF_vars(CheckBeforeStop(p))
     /\ WF_vars(Step(p))
     /\ SF_vars(Begin(p))

FairSpec == Spec /\ Fairness

-----------------------------------------------------------------------------
(* Properties.                                                             *)

\* The session active-session.json stands for; while mark rewrites the file it
\* is the session being marked.
OpenSession ==
  IF IsActive THEN active.id
  ELSE IF lock \in Procs /\ pc[lock] = "fillState" /\ cur[lock].id \in opened
       THEN cur[lock].id
       ELSE None

Outcome ==
  [s \in Sessions |->
     IF s \notin opened THEN "new"
     ELSE IF s = OpenSession THEN "open"
     ELSE IF meta[s] \in FinalStatuses THEN meta[s]
     ELSE "lost"]

\* A failure that can destroy active-session.json has happened.
MayLose == \E f \in faults : f.kind = "tearing"

Lifecycle == INSTANCE CaptureLifecycle
  WITH open <- OpenSession, outcome <- Outcome,
       mayLose <- MayLose

\* The store implements the lifecycle its callers rely on (session_manager.go:15
\* "the single entry point for mutating a capture session"): one session at a
\* time, every session ends once, and a failed stop, export or Charles request
\* never makes a session unreachable (serve.go:309: record stop recovers it).
ImplementsLifecycle == Lifecycle!Spec

\* A session whose metadata say completed has its exports on disk: a Proxify
\* session always, a Charles session unless something failed (recordStop
\* exports first, but a repeated stop overwrites the Charles exports in place).
ArchiveIsSafe(s) == engine[s] = "proxify" \/ faults = {}

CompletedIsArchived ==
  \A s \in Sessions : meta[s] = "completed" /\ ArchiveIsSafe(s) => archived[s]

\* Between operations, and as long as nothing failed, the files of all sessions
\* agree: the active session's metadata repeat active-session.json, every
\* earlier session is completed or abandoned, no directory claims to be
\* recording without being active.
FilesAgree ==
  lock = None /\ faults = {} =>
    /\ active # Torn
    /\ \A s \in Sessions :
         /\ engine[s] = None => meta[s] = Absent
         /\ ActiveIs(s) => meta[s] = active.status
         /\ engine[s] # None /\ ~ActiveIs(s) => meta[s] \in FinalStatuses

\* Charles records exactly while a Charles session is active: an operation that
\* ends without a failure leaves the switch and the session file in agreement.
RecordingFollowsSession ==
  lock = None /\ faults = {} =>
    /\ IsActive /\ active.engine = "charles" => recording
    /\ ~IsActive /\ (\E s \in opened : engine[s] = "charles") => ~recording

\* A stop that was asked to end one session ends that session
\* (session_manager_test.go:80: "replacement session must not be stopped").
StopsOnlyWanted ==
  \A p \in Procs :
     lock = p /\ req[p].kind = "stop" /\ req[p].want \in Sessions
       => cur[p].id = req[p].want

\* Every call returns, also when Charles or the disk fails.
EveryCallReturns == \A p \in Procs : pc[p] # "idle" ~> pc[p] = "idle"

\* Steps an operation has before it at most, the present one included.
StepsLeft(kind, e, step) ==
  LET proxifyStart == kind = "start" /\ e = "proxify"
  IN  CASE step = "record" -> 6
        [] step = "unrecord" -> 5
        [] step = "state" -> IF proxifyStart THEN 2 ELSE 5
        [] step = "fillState" -> IF proxifyStart THEN 1 ELSE 4
        [] step = "export" -> 4
        [] step = "meta" -> IF proxifyStart THEN 4 ELSE 3
        [] step = "fillMeta" -> IF proxifyStart THEN 3 ELSE 2
        [] step \in {"clear", "undo"} -> 1

Left(p) == StepsLeft(req[p].kind, cur[p].engine, pc[p])

\* While a process holds the lock nobody else writes a file of the store or Charles'
\* switch, and each step of its own brings it nearer to giving the lock back, also
\* when the step failed: what bounds the wait of all others (session_manager.go:118).
HoldsBriefly ==
  [][\A p \in Procs : lock = p =>
       \/ lock' = None
       \/ lock' = p /\ Left(p)' < Left(p)
       \/ lock' = p /\ UNCHANGED <<pc[p], req[p], cur[p], active, meta, archived, recording>>]_vars

-----------------------------------------------------------------------------
(* The inductive invariant behind the safety properties.                   *)

\* The steps an operation passes through.
StepsOf(kind, e) ==
  CASE kind = "start" /\ e = "proxify" -> {"meta", "fillMeta", "state", "fillState"}
    [] kind = "start" /\ e = "charles" ->
         {"record", "state", "fillState", "meta", "fillMeta", "undo"}
    [] kind = "stop" /\ e = "proxify" -> {"export", "meta", "fillMeta", "clear"}
    [] kind = "stop" /\ e = "charles" -> {"unrecord", "export", "meta", "fillMeta", "clear"}
    [] kind = "abandon" /\ e = "proxify" -> {"meta", "fillMeta", "clear"}
    [] kind = "abandon" /\ e = "charles" -> {"unrecord", "meta", "fillMeta", "clear"}
    [] kind = "mark" -> {"state", "fillState", "meta", "fillMeta"}

\* Only the holder of the lock is inside an operation, and it carries a session
\* of the engine it was drawn for.
OperationInv ==
  \A p \in Procs :
    /\ pc[p] \in LockedSteps <=> lock = p
    /\ pc[p] # "idle" => req[p] \in Requests
    /\ lock = p =>
         /\ cur[p] \in SessionState
         /\ pc[p] \in StepsOf(req[p].kind, cur[p].engine)
         /\ cur[p].engine = engine[cur[p].id]
         /\ cur[p].status = req[p].status

\* A start that has not yet filled active-session.json.
StartPending(p) ==
  /\ req[p].kind = "start"
  /\ \/ cur[p].engine = "proxify"
     \/ pc[p] \in {"record", "state", "fillState"}

\* What the holder knows about the files it works on.
HolderInv ==
  \A p \in Procs : lock = p =>
    /\ pc[p] = "fillState" => active = Torn
    /\ StartPending(p) => ~IsActive /\ cur[p].id \notin opened
    /\ req[p].kind # "start" => cur[p].id \in opened
    /\ req[p].kind # "start" /\ pc[p] # "fillState" => ActiveIs(cur[p].id)
    /\ req[p].kind = "start" /\ cur[p].engine = "charles" /\ pc[p] \in {"meta", "fillMeta"}
         => ActiveIs(cur[p].id)
    /\ pc[p] = "clear" => meta[cur[p].id] = cur[p].status
    /\ req[p].kind = "stop" /\ pc[p] \in {"meta", "fillMeta"} /\ ArchiveIsSafe(cur[p].id)
         => archived[cur[p].id]

\* active-session.json names a drawn session that is not over; a session it
\* never named has no final metadata.
FilesInv ==
  /\ IsActive => /\ active.id \in opened
                 /\ active.engine = engine[active.id]
                 /\ active.status \notin FinalStatuses
  /\ \A s \in Sessions : /\ s \in opened => engine[s] # None
                         /\ meta[s] \in FinalStatuses => s \in opened

IndInv == TypeOK /\ OperationInv /\ HolderInv /\ FilesInv /\ CompletedIsArchived

\* As long as nothing failed, the documents of every session the holder does not
\* work on are settled, active-session.json is torn only while it is rewritten,
\* and whichever of its two documents the holder wrote first is there already.
Settled(s) ==
  /\ engine[s] = None => meta[s] = Absent
  /\ ActiveIs(s) => meta[s] = active.status
  /\ engine[s] # None /\ ~ActiveIs(s) => meta[s] \in FinalStatuses

CleanFilesInv ==
  faults = {} =>
    /\ active = Torn => lock \in Procs /\ pc[lock] = "fillState"
    /\ \A s \in Sessions : (lock \in Procs /\ cur[lock].id = s) \/ Settled(s)
    /\ \A p \in Procs : lock = p =>
         /\ pc[p] # "undo"
         /\ StartPending(p) /\ pc[p] \in {"state", "fillState"} /\ cur[p].engine = "proxify"
              => meta[cur[p].id] = cur[p].status
         /\ req[p].kind \in {"start", "mark"} /\ ~StartPending(p) /\ pc[p] \in {"meta", "fillMeta"}
              => active = cur[p]

\* Whether the switch must be on, as the holder of the lock leaves it between
\* its steps; with the lock free a Charles session is active.
HolderRecords(p) ==
  /\ cur[p].engine = "charles"
  /\ req[p].kind = "start" => pc[p] # "record"
  /\ req[p].kind \in {"stop", "abandon"} => pc[p] = "unrecord"

MustRecord ==
  IF lock \in Procs THEN HolderRecords(lock) ELSE IsActive /\ active.engine = "charles"

CharlesOpened == \E s \in opened : engine[s] = "charles"

CleanSwitchInv ==
  faults = {} => /\ MustRecord => recording
                 /\ ~MustRecord /\ CharlesOpened => ~recording

CleanInv == IndInv /\ CleanFilesInv /\ CleanSwitchInv
=============================================================================
