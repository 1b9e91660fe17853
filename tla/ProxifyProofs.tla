----------------------------- MODULE ProxifyProofs -----------------------------
(***************************************************************************)
(* Proofs about the three modules on Proxify: ProxifyProcess for any       *)
(* number of terminals, servers, instances and deaths; BodyCapture for     *)
(* bodies of any length and any limit on what is kept of them;             *)
(* TransactionLog for any number of exchanges, sessions and milliseconds.  *)
(* The modules share no variable, and no lemma speaks of two of them.      *)
(***************************************************************************)
EXTENDS Proxify, SequenceTheorems, TLAPS

-----------------------------------------------------------------------------
(* The process: in any order of the operations no other program is         *)
(* signalled, and the port is for the one start that has found it free.    *)

\* No process and no missing or torn file is an instance.
LEMMA Names ==
  /\ None \notin Procs /\ None \notin Instances
  /\ Absent \notin Instances /\ Torn \notin Instances
  /\ None # Absent /\ None # Torn /\ Absent # Torn
  /\ MaxDeaths \in Nat
BY ProxifyAssumption

-----------------------------------------------------------------------------
(* Types and pids.                                                         *)

\* An operation works on an instance whose pid cannot have passed to another
\* program, so what it signals is Proxify.
LEMMA PidStep ==
  ASSUME TypeOK, PidInv, [Next]_vars
  PROVE  TypeOK' /\ PidInv'
<1>0. races' \subseteq {"starts", "session"}
  BY DEF TypeOK, Next, Races, vars
<1> USE Names, <1>0 DEF engineVars, sessionVars
<1>1. ASSUME NEW p \in Procs, Call(p) PROVE TypeOK' /\ PidInv'
  BY <1>1 DEF Call, TypeOK, PidInv, NoForeignKilled, Ops, Steps, FirstStep
<1>2. ASSUME NEW p \in Procs, UNCHANGED overlapped,
             EnsureRunning(p) \/ CheckSession(p) \/ CheckRunning(p) \/ CheckPort(p)
      PROVE  TypeOK' /\ PidInv'
  BY <1>2 DEF EnsureRunning, CheckSession, CheckRunning, CheckPort, Fail, Return, GoTo,
     TypeOK, PidInv, NoForeignKilled, Steps
<1>3. ASSUME NEW p \in Procs, UNCHANGED overlapped, Spawn(p) PROVE TypeOK' /\ PidInv'
  BY <1>3 DEF Spawn, TypeOK, PidInv, NoForeignKilled, Steps
<1>4. ASSUME NEW p \in Procs, UNCHANGED overlapped, WaitReady(p) PROVE TypeOK' /\ PidInv'
  BY <1>4 DEF WaitReady, Terminate, Fail, Return, GoTo, TypeOK, PidInv, NoForeignKilled, Steps
<1>5. ASSUME NEW p \in Procs, UNCHANGED overlapped, TruncateFile(p) \/ FillFile(p) \/ ReadBack(p)
      PROVE  TypeOK' /\ PidInv'
  BY <1>5 DEF TruncateFile, FillFile, ReadBack, Terminate, Fail, Return, GoTo, TypeOK, PidInv, NoForeignKilled, Steps
<1>6. ASSUME NEW p \in Procs, UNCHANGED overlapped, ReadAndSignal(p) PROVE TypeOK' /\ PidInv'
  <2>1. CASE file \in alive /\ Terminate(file) /\ cur' = [cur EXCEPT ![p] = file]
             /\ pc' = [pc EXCEPT ![p] = "waitDead"] /\ UNCHANGED <<op, started>>
    <3>1. file \in Instances /\ file \in spawned /\ file \notin reused
      BY <2>1 DEF TypeOK
    <3>2. QED
      BY <1>6, <2>1, <3>1 DEF ReadAndSignal, Terminate, TypeOK, PidInv, NoForeignKilled, Steps
  <2>2. CASE GoTo(p, "remove") /\ UNCHANGED engineVars
    BY <1>6, <2>2 DEF ReadAndSignal, GoTo, TypeOK, PidInv, NoForeignKilled, Steps
  <2>3. CASE Leave(p) /\ UNCHANGED engineVars
    BY <1>6, <2>3 DEF ReadAndSignal, Leave, Return, TypeOK, PidInv, NoForeignKilled, Steps
  <2>4. QED
    BY <1>6, <2>1, <2>2, <2>3 DEF ReadAndSignal
<1>7. ASSUME NEW p \in Procs, UNCHANGED overlapped, WaitDead(p) \/ RemoveFile(p)
      PROVE  TypeOK' /\ PidInv'
  BY <1>7 DEF WaitDead, RemoveFile, Leave, Return, GoTo, TypeOK, PidInv, NoForeignKilled, Steps
<1>8. ASSUME NEW i \in Instances, Bind(i) \/ Die(i) \/ ReusePid(i) PROVE TypeOK' /\ PidInv'
  BY <1>8 DEF Bind, Die, ReusePid, TypeOK, PidInv, NoForeignKilled, Steps
<1>9. ASSUME RecordStart \/ RecordStop PROVE TypeOK' /\ PidInv'
  <2>1. /\ session' \in spawned \cup {None} /\ reading' \in spawned \cup {None}
        /\ overlapped' \in BOOLEAN
        /\ UNCHANGED <<file, spawned, alive, signalled, port, reused, harmed, deaths, pc, op, cur, started>>
    BY <1>9 DEF RecordStart, RecordStop, FileRuns, TypeOK
  <2>2. QED
    BY <2>1 DEF TypeOK, PidInv, NoForeignKilled
<1>10. ASSUME UNCHANGED vars PROVE TypeOK' /\ PidInv'
  BY <1>10 DEF vars, TypeOK, PidInv, NoForeignKilled
<1>11. QED
  BY <1>1, <1>2, <1>3, <1>4, <1>5, <1>6, <1>7, <1>8, <1>9, <1>10 DEF Next, Operation

-----------------------------------------------------------------------------
(* The port.                                                               *)

\* Whatever else goes on, a start that has found the port free has it for its own
\* instance as long as no other start has found so too.
LEMMA RaceStep ==
  ASSUME TypeOK, TypeOK', RaceInv, [Next]_vars
  PROVE  RaceInv'
<1> USE Names DEF Listeners, PastSession, PastPort, engineVars, sessionVars
<1> DEFINE Ports == "starts" \notin races =>
             /\ \A i \in Listeners : port = i \/ \E p \in Procs : pc[p] = "wait" /\ cur[p] = i
             /\ \A p \in Procs :
                  /\ pc[p] = "spawn" => port = None
                  /\ pc[p] = "wait" => port \in {None, cur[p]}
                  /\ pc[p] \in {"truncate", "fill"} /\ cur[p] \in alive => port = cur[p]
             /\ file \in alive => port = file
           Recording == races = {} =>
             /\ reading # None => port \in {None, reading}
             /\ session # None => port \in {None, session} /\ \A p \in Procs : pc[p] \notin PastSession
           Alone == "starts" \notin races =>
             \A p, q \in Procs : pc[p] \in PastPort /\ pc[q] \in PastPort => p = q
           Apart == races = {} /\ reading # None => \A p \in Procs : pc[p] \notin PastSession
<1>1. Alone /\ Apart /\ Ports /\ Recording
  BY DEF RaceInv, Races
<1>2. /\ races \subseteq races' /\ Races' \subseteq races'
      /\ Alone' /\ Apart'
  <2>1. races \subseteq races' /\ Races' \subseteq races'
    BY DEF Next, vars, Races, RaceInv
  <2>2. QED
    BY <2>1 DEF Races
<1>3. reading' # None => session' = None
  BY DEF RaceInv, Next, Operation, Call, EnsureRunning, CheckSession, CheckRunning, CheckPort, Spawn,
     WaitReady, TruncateFile, FillFile, ReadBack, ReadAndSignal, WaitDead, RemoveFile, Bind, Die,
     ReusePid, RecordStart, RecordStop, vars
<1> USE <1>1, <1>2 DEF TypeOK
<1>4. ASSUME NEW p \in Procs,
             Call(p) \/ EnsureRunning(p) \/ CheckSession(p) \/ CheckRunning(p) \/ CheckPort(p)
      PROVE  Ports' /\ Recording'
  BY <1>4 DEF Call, FirstStep, Ops, EnsureRunning, CheckSession, CheckRunning, CheckPort, Fail, Return, GoTo
<1>5. ASSUME NEW p \in Procs, Spawn(p) PROVE Ports' /\ Recording'
  <2>1. PICK i \in Instances \ spawned :
          /\ alive' = alive \cup {i} /\ cur' = [cur EXCEPT ![p] = i]
          /\ pc[p] = "spawn" /\ pc' = [pc EXCEPT ![p] = "wait"]
          /\ UNCHANGED <<file, signalled, port, sessionVars>>
    BY <1>5 DEF Spawn
  <2>2. Ports'
    BY <2>1
  <2>3. Recording'
    BY <2>1
  <2>4. QED
    BY <2>2, <2>3
<1>6. ASSUME NEW p \in Procs, WaitReady(p) \/ TruncateFile(p) \/ FillFile(p) \/ ReadBack(p)
      PROVE  Ports' /\ Recording'
  <2>1. CASE WaitReady(p)
    BY <2>1 DEF WaitReady, Terminate, Fail, Return, GoTo
  <2>2. CASE TruncateFile(p) \/ FillFile(p) \/ ReadBack(p)
    BY <2>2 DEF TruncateFile, FillFile, ReadBack, Terminate, Fail, Return, GoTo
  <2>3. QED
    BY <1>6, <2>1, <2>2
<1>7. ASSUME NEW p \in Procs, ReadAndSignal(p) \/ WaitDead(p) \/ RemoveFile(p)
      PROVE  Ports' /\ Recording'
  <2>1. CASE ReadAndSignal(p)
    BY <2>1 DEF ReadAndSignal, Terminate, Leave, Return, GoTo
  <2>2. CASE WaitDead(p) \/ RemoveFile(p)
    BY <2>2 DEF WaitDead, RemoveFile, Leave, Return, GoTo
  <2>3. QED
    BY <1>7, <2>1, <2>2
\* Only a start that waits has an instance that can still come to listen.
<1>8. ASSUME NEW i \in Instances, Bind(i) PROVE Ports' /\ Recording'
  <2>1. ASSUME "starts" \notin races
        PROVE  /\ port = None /\ port' = i
               /\ \E p \in Procs : pc[p] = "wait" /\ cur[p] = i
    BY <1>8, <2>1 DEF Bind
  <2>2. Ports'
    BY <1>8, <2>1 DEF Bind
  <2>3. Recording'
    BY <1>8, <2>1 DEF Bind
  <2>4. QED
    BY <2>2, <2>3
<1>9. ASSUME NEW i \in Instances, Die(i) \/ ReusePid(i) PROVE Ports' /\ Recording'
  BY <1>9 DEF Die, ReusePid
<1>10. ASSUME RecordStart \/ RecordStop PROVE Ports' /\ Recording'
  BY <1>10 DEF RecordStart, RecordStop, FileRuns, RaceInv
<1>11. ASSUME UNCHANGED vars PROVE Ports' /\ Recording'
  BY <1>11 DEF vars
<1>12. Ports' /\ Recording'
  BY <1>4, <1>5, <1>6, <1>7, <1>8, <1>9, <1>10, <1>11 DEF Next, Operation
<1>13. QED
  BY <1>2, <1>3, <1>12 DEF RaceInv

-----------------------------------------------------------------------------
(* One operation at a time.                                                *)

\* While nothing overlaps, an operation that is under way is the only one, so what
\* it found out about the instances still holds in its later steps.
LEMMA OrderStep ==
  ASSUME ProcessInv, TypeOK', [Next]_vars
  PROVE  OrderInv'
<1> SUFFICES ASSUME OneAtATime' PROVE OrderInv'
  BY DEF OrderInv
<1> USE Names DEF ProcessInv, OneAtATime, Listeners, engineVars, sessionVars
<1>1. ASSUME NEW p \in Procs, Call(p) PROVE OrderInv'
  <2>1. /\ ~overlapped /\ reading = None /\ \A q \in Procs : pc[q] = "idle"
        /\ UNCHANGED <<file, engineVars, sessionVars, cur, started>>
        /\ pc'[p] \in {"checkSession", "ensureRunning", "read"}
        /\ \A q \in Procs : q # p => pc'[q] = "idle"
    BY <1>1 DEF Call, FirstStep, Ops, TypeOK
  <2>2. QED
    BY <2>1 DEF OrderInv, FileSteps
<1>2. ASSUME NEW p \in Procs, Operation(p), UNCHANGED overlapped PROVE OrderInv'
  <2>1. /\ ~overlapped
        /\ pc[p] # "idle" /\ \A q \in Procs : q # p => pc[q] = "idle" /\ pc'[q] = "idle"
        /\ reading = None /\ UNCHANGED <<sessionVars, reading, session>>
    BY <1>2 DEF OrderInv, Operation, EnsureRunning, CheckSession, CheckRunning, CheckPort, Spawn,
       WaitReady, TruncateFile, FillFile, ReadBack, ReadAndSignal, WaitDead, RemoveFile, Fail, Leave,
       Return, GoTo, TypeOK
  <2>2. CASE EnsureRunning(p) \/ CheckSession(p) \/ CheckRunning(p) \/ CheckPort(p)
    BY <2>1, <2>2 DEF OrderInv, FileSteps, EnsureRunning, CheckSession, CheckRunning, CheckPort,
       FileRuns, Fail, Return, GoTo, TypeOK
  <2>3. CASE Spawn(p)
    BY <2>1, <2>3 DEF OrderInv, FileSteps, Spawn, TypeOK
  <2>4. CASE WaitReady(p)
    BY <2>1, <2>4 DEF OrderInv, FileSteps, WaitReady, Terminate, Fail, Return, GoTo, TypeOK
  <2>5. CASE TruncateFile(p) \/ FillFile(p) \/ ReadBack(p)
    BY <2>1, <2>5 DEF OrderInv, FileSteps, TruncateFile, FillFile, ReadBack, Terminate, Fail, Return,
       GoTo, TypeOK
  <2>6. CASE ReadAndSignal(p)
    BY <2>1, <2>6 DEF OrderInv, FileSteps, ReadAndSignal, LeavesOwn, Terminate, Leave, Return, GoTo, TypeOK
  <2>7. CASE WaitDead(p) \/ RemoveFile(p)
    BY <2>1, <2>7 DEF OrderInv, FileSteps, WaitDead, RemoveFile, Leave, Return, GoTo, TypeOK
  <2>8. QED
    BY <1>2, <2>2, <2>3, <2>4, <2>5, <2>6, <2>7 DEF Operation
<1>3. ASSUME NEW i \in Instances, Bind(i) PROVE OrderInv'
  BY <1>3 DEF Bind, OrderInv, FileSteps, TypeOK
<1>4. ASSUME NEW i \in Instances, Die(i) PROVE OrderInv'
  BY <1>4 DEF Die, OrderInv, FileSteps, TypeOK
<1>5. ASSUME NEW i \in Instances, ReusePid(i) PROVE OrderInv'
  BY <1>5 DEF ReusePid, OrderInv, FileSteps, TypeOK
<1>6. ASSUME RecordStart PROVE OrderInv'
  BY <1>6 DEF RecordStart, FileRuns, OrderInv, FileSteps, TypeOK
<1>7. ASSUME RecordStop PROVE OrderInv'
  BY <1>7 DEF RecordStop, OrderInv, FileSteps, TypeOK
<1>8. ASSUME UNCHANGED vars PROVE OrderInv'
  BY <1>8 DEF vars, OrderInv, FileSteps
<1>9. QED
  BY <1>1, <1>2, <1>3, <1>4, <1>5, <1>6, <1>7, <1>8 DEF Next

-----------------------------------------------------------------------------
\* The pids, the instances and the port as the operations leave them.
THEOREM ProcessInvHolds == Spec => []ProcessInv
<1>1. Init => ProcessInv
  <2> SUFFICES ASSUME Init PROVE ProcessInv
    OBVIOUS
  <2> USE Names DEF Init
  <2>1. TypeOK
    <3>1. harmed \in BOOLEAN /\ overlapped \in BOOLEAN
      OBVIOUS
    <3>2. QED
      BY <3>1 DEF TypeOK, Steps
  <2>2. PidInv
    BY DEF PidInv, NoForeignKilled
  <2>3. RaceInv
    BY DEF RaceInv, Races, Listeners, PastSession, PastPort
  <2>4. OrderInv
    BY DEF OrderInv, Listeners, FileSteps
  <2>5. QED
    BY <2>1, <2>2, <2>3, <2>4 DEF ProcessInv
<1>2. ProcessInv /\ [Next]_vars => ProcessInv'
  BY PidStep, RaceStep, OrderStep DEF ProcessInv
<1>3. QED
  BY <1>1, <1>2, PTL DEF Spec

\* In any order of starts, stops, deaths and reuses of pids, no program that is
\* not Proxify is ever signalled.
THEOREM NoForeign == Spec => []NoForeignKilled
BY ProcessInvHolds, PTL DEF ProcessInv, PidInv

\* Whatever runs beside it, a start that has found Proxify ready has found the instance
\* it started, unless another start had found the port free, too.
THEOREM ReadyOwn == Spec => []ReadyIsOwn
<1>1. ProcessInv => ReadyIsOwn
  BY DEF ProcessInv, RaceInv, ReadyIsOwn
<1>2. QED
  BY <1>1, ProcessInvHolds, PTL

\* The instance that listens while a session records is the one whose traffic file the
\* session reads, unless the session or another start came between the checks of a start
\* and its Proxify.
THEOREM SessionEngine == Spec => []SessionOnCurrentEngine
<1>1. ProcessInv => SessionOnCurrentEngine
  BY DEF ProcessInv, RaceInv, SessionOnCurrentEngine
<1>2. QED
  BY <1>1, ProcessInvHolds, PTL

\* Between operations every instance that was not told to stop is the one in
\* proxify.json.
THEOREM RunningManaged == Spec => []RunningIsManaged
<1>1. ProcessInv => RunningIsManaged
  BY DEF ProcessInv, OrderInv, RunningIsManaged, Listeners, FileSteps
<1>2. QED
  BY <1>1, ProcessInvHolds, PTL

-----------------------------------------------------------------------------
(* The bodies.                                                             *)

\* The lengths the argument is about.
LEMMA BodyKind ==
  ASSUME BodyTypeOK
  PROVE  kind.size \in Nat /\ kind.declared \in {-1, kind.size} /\ MaxBody \in Nat
BY BodyAssumption DEF BodyTypeOK

\* A payload that is not marked truncated has every byte of the body.
LEMMA GivenIsTrue ==
  ASSUME BodyInv
  PROVE  /\ Captured \in 0..MaxBody
         /\ Truncated \in BOOLEAN
         /\ Truncated \/ Captured = kind.size
<1>1. /\ counted \in 0..kind.size /\ (sawEnd => counted = kind.size)
      /\ kind.size \in Nat /\ kind.declared \in {-1, kind.size} /\ MaxBody \in Nat
  BY BodyKind DEF BodyInv, BodyTypeOK
<1>2. Truncated \in BOOLEAN
  <2>1. Captured \in Int
    BY <1>1 DEF Captured
  <2>2. (kind.declared > Captured) \in BOOLEAN /\ (counted > Captured) \in BOOLEAN
    BY <1>1, <2>1
  <2>3. QED
    BY <2>2, Zenon DEF Truncated
<1>3. QED
  BY <1>1, <1>2 DEF Truncated, Captured

\* The first payload of an exchange is its only one.
LEMMA GiveFirst ==
  ASSUME BodyInv, ~done, Give, UNCHANGED kind
  PROVE  /\ payloads' \in Seq([captured : 0..MaxBody, truncated : BOOLEAN])
         /\ Len(payloads') = 1
         /\ \A i \in DOMAIN payloads' : payloads'[i].truncated \/ payloads'[i].captured = kind.size
<1>1. /\ payloads \in Seq([captured : 0..MaxBody, truncated : BOOLEAN]) /\ Len(payloads) = 0
      /\ payloads' = Append(payloads, [captured |-> Captured, truncated |-> Truncated])
  BY DEF BodyInv, BodyTypeOK, Give
<1>2. [captured |-> Captured, truncated |-> Truncated] \in [captured : 0..MaxBody, truncated : BOOLEAN]
  BY GivenIsTrue
<1>3. payloads' \in Seq([captured : 0..MaxBody, truncated : BOOLEAN]) /\ Len(payloads') = 1
  BY <1>1, <1>2
<1>4. payloads'[1] = [captured |-> Captured, truncated |-> Truncated]
  BY <1>1, <1>2
<1>5. QED
  BY <1>3, <1>4, GivenIsTrue

\* complete leaves one payload behind when the body is that of a response.
LEMMA CompleteOnce ==
  ASSUME BodyInv, Complete, UNCHANGED <<side, kind>>
  PROVE  /\ done' \in BOOLEAN
         /\ payloads' \in Seq([captured : 0..MaxBody, truncated : BOOLEAN])
         /\ Len(payloads') = IF done' THEN 1 ELSE 0
         /\ \A i \in DOMAIN payloads' : payloads'[i].truncated \/ payloads'[i].captured = kind.size
         /\ side = "response" => payloads' # <<>>
<1>1. CASE side = "request" \/ done
  <2>1. UNCHANGED <<done, payloads>>
    BY <1>1 DEF Complete
  <2>2. done \in BOOLEAN /\ (done => payloads # <<>>)
    BY EmptySeq DEF BodyInv, BodyTypeOK
  <2>3. QED
    BY <1>1, <2>1, <2>2 DEF BodyInv, BodyTypeOK, PayloadIsTrue
<1>2. CASE ~(side = "request" \/ done)
  BY <1>2, GiveFirst DEF Complete
<1>3. QED
  BY <1>1, <1>2

\* What is true of a body stays true in every step of the two goroutines and of
\* the response that asks for the payload.
THEOREM BodyInvHolds == BodySpec => []BodyInv
<1>1. BodyInit => BodyInv
  <2> SUFFICES ASSUME BodyInit PROVE BodyInv
    OBVIOUS
  <2>1. BodyTypeOK
    <3>1. kind.size \in Nat /\ MaxBody \in Nat
      BY BodyAssumption DEF BodyInit
    <3>2. payloads \in Seq([captured : 0..MaxBody, truncated : BOOLEAN])
      BY EmptySeq, Zenon DEF BodyInit
    <3>3. /\ counted \in 0..passed /\ passed \in 0..kind.size
      BY <3>1 DEF BodyInit
    <3>4. pending \in [count : 0..kind.size, error : {"none", "EOF", "other"}]
      BY <3>1 DEF BodyInit
    <3>5. sawEnd \in BOOLEAN /\ done \in BOOLEAN
      BY DEF BodyInit
    <3>6. QED
      BY <3>2, <3>3, <3>4, <3>5 DEF BodyInit, BodyTypeOK
  <2>2. PayloadIsTrue
    BY DEF BodyInit, PayloadIsTrue
  <2>3. QED
    BY <2>1, <2>2 DEF BodyInit, BodyInv
<1>2. BodyInv /\ [BodyNext]_bodyVars => BodyInv'
  <2> SUFFICES ASSUME BodyInv, [BodyNext]_bodyVars PROVE BodyInv'
    OBVIOUS
  <2> USE BodyKind DEF BodyInv
  <2>1. CASE SourceReads
    BY <2>1 DEF SourceReads, BodyTypeOK, PayloadIsTrue
  <2>2. CASE CountRead
    BY <2>2 DEF CountRead, BodyTypeOK, PayloadIsTrue
  <2>3. CASE CloseSource
    BY <2>3 DEF CloseSource, BodyTypeOK, PayloadIsTrue
  <2>4. CASE ReaderCompletes
    BY <2>4, CompleteOnce DEF ReaderCompletes, BodyTypeOK, PayloadIsTrue
  <2>5. CASE CloserCompletes
    BY <2>5, CompleteOnce DEF CloserCompletes, BodyTypeOK, PayloadIsTrue
  <2>6. CASE ResponseArrives
    BY <2>6, GiveFirst DEF ResponseArrives, BodyTypeOK, PayloadIsTrue
  <2>7. CASE UNCHANGED bodyVars
    BY <2>7 DEF bodyVars, BodyTypeOK, PayloadIsTrue
  <2>8. QED
    BY <2>1, <2>2, <2>3, <2>4, <2>5, <2>6, <2>7 DEF BodyNext
<1>3. QED
  BY <1>1, <1>2, PTL DEF BodySpec

\* For bodies of any length, declared or not, and any limit: one payload per
\* body, and a body that is not marked truncated was kept in full.
THEOREM PayloadTrue == BodySpec => []PayloadIsTrue
BY BodyInvHolds, PTL DEF BodyInv

-----------------------------------------------------------------------------
(* The log: the windows of the sessions do not share a line, and none      *)
(* misses one.                                                             *)

\* The lines of the live file, with the one that is half written at the end.
LEMMA LinesShape ==
  ASSUME LogTypeOK
  PROVE  /\ Lines \in Seq(Exchanges) /\ Begun \in Nat /\ Begun = Len(Lines)
         /\ Len(log) \in Nat /\ Len(log) <= Begun /\ Begun <= Len(log) + 1
         /\ \A i \in 1..Len(log) : Lines[i] = log[i] /\ log[i] \in Exchanges
         /\ \A i \in 1..Begun : Lines[i] \in Exchanges
         /\ \A i \in 1..Begun : i > Len(log) => half # NoExchange /\ Lines[i] = half
         /\ half \in Exchanges => Begun = Len(log) + 1
BY LogAssumption DEF LogTypeOK, Lines, Begun

\* Every line is of an exchange that is over, and no two lines are of the same one.
LEMMA LinesDistinct ==
  ASSUME LogTypeOK, LinesInv
  PROVE  /\ \A i \in 1..Begun : exchange[Lines[i]].stage \in {"complete", "logged"}
         /\ \A i, j \in 1..Begun : Lines[i] = Lines[j] => i = j
<1>1. \A i \in 1..Begun : \/ i \in 1..Len(log) /\ Lines[i] = log[i]
                          \/ i = Len(log) + 1 /\ half # NoExchange /\ Lines[i] = half
  BY LinesShape
<1>2. \A i \in 1..Begun : exchange[Lines[i]].stage \in {"complete", "logged"}
  BY <1>1 DEF LinesInv
<1>3. \A i, j \in 1..Begun : Lines[i] = Lines[j] => i = j
  BY <1>1 DEF LinesInv
<1>4. QED
  BY <1>2, <1>3

\* Extract reads the lines between two offsets of the file.
LEMMA ExtractedLines ==
  ASSUME LogTypeOK, NEW from \in Nat, NEW to \in Nat, to <= Begun
  PROVE  \A e : e \in ToSet(SubSeq(Lines, from + 1, to))
                  <=> \E i \in 1..Begun : from < i /\ i <= to /\ Lines[i] = e
<1>1. \A i \in (from + 1)..to : Lines[i] \in Exchanges
  BY LinesShape
<1> DEFINE sub == SubSeq(Lines, from + 1, to)
<1>2. /\ sub \in Seq(Exchanges)
      /\ Len(sub) = IF from + 1 <= to THEN to - (from + 1) + 1 ELSE 0
      /\ \A i \in 1..(to - (from + 1) + 1) : sub[i] = Lines[from + 1 + i - 1]
  BY <1>1, SubSeqProperties
<1>3. DOMAIN sub = 1..Len(sub)
  BY <1>2
<1> HIDE DEF sub
<1>4. ASSUME NEW e, e \in ToSet(sub)
      PROVE  \E i \in 1..Begun : from < i /\ i <= to /\ Lines[i] = e
  <2>1. PICK k \in 1..Len(sub) : sub[k] = e
    BY <1>3, <1>4 DEF ToSet
  <2>2. from + k \in 1..Begun /\ from + k <= to /\ Lines[from + k] = e
    BY <1>2, <2>1, LinesShape
  <2>3. QED
    BY <2>1, <2>2
<1>5. ASSUME NEW e, NEW i \in 1..Begun, from < i, i <= to, Lines[i] = e
      PROVE  e \in ToSet(sub)
  <2>1. i - from \in 1..Len(sub) /\ sub[i - from] = e
    BY <1>2, <1>5, LinesShape
  <2>2. QED
    BY <1>3, <2>1 DEF ToSet
<1>6. QED
  BY <1>4, <1>5 DEF sub

-----------------------------------------------------------------------------
(* Exchanges and their lines.                                              *)

\* While a stop is under way the active session is one of the recorded ones.
LEMMA CurrentIsOne ==
  ASSUME LogTypeOK, StepInv, step \in {"stopping", "extracting", "finishing"}
  PROVE  /\ current \in RecordedSessions /\ current = latest
         /\ due[current] \subseteq Exchanges /\ archive[current] \subseteq Exchanges
BY LogAssumption DEF LogTypeOK, StepInv, RecordedSessions

\* A step of the traffic that adds no line and leaves what is known of every
\* exchange but for its stage.
LEMMA QuietTraffic ==
  ASSUME LogInv, LogTypeOK', LinesInv', Lines' = Lines, UNCHANGED recordVars,
         clock <= clock', Len(log) <= Len(log)',
         \A i \in 1..Len(log) : log'[i] = log[i],
         \A e \in Exchanges : /\ exchange'[e].began = exchange[e].began
                              /\ exchange'[e].during = exchange[e].during
                              /\ exchange'[e].phone = exchange[e].phone
  PROVE  LogInv'
<1> USE DEF LogInv
<1>1. Begun' = Begun
  BY DEF Begun
<1>2. StepInv'
  BY <1>1 DEF StepInv, recordVars
<1>3. WindowInv'
  BY <1>1, SMTT(40) DEF WindowInv, recordVars, LogTypeOK
<1>4. ArchiveInv'
  BY <1>1 DEF ArchiveInv, recordVars, Matches, LogTypeOK
<1>5. DueInv'
  <2>1. ASSUME step \in {"stopping", "extracting"}, NEW e \in due[current]
        PROVE  /\ exchange'[e].during = current /\ Matches(e)' /\ exchange'[e].began <= stopMillis
               /\ \E i \in 1..Len(log)' : log'[i] = e /\ (step = "extracting" => i <= endLines)
    <3>1. e \in Exchanges
      BY <2>1, CurrentIsOne
    <3>2. PICK i \in 1..Len(log) : log[i] = e /\ (step = "extracting" => i <= endLines)
      BY <2>1 DEF DueInv
    <3>3. Len(log) \in Nat /\ Len(log)' \in Nat
      <4>1. log \in Seq(Exchanges) /\ log' \in Seq(Exchanges)
        BY DEF LogTypeOK
      <4>2. QED
        BY <4>1
    <3>4. i \in 1..Len(log)' /\ log'[i] = e
      BY <3>2, <3>3
    <3>5. QED
      BY <2>1, <3>1, <3>2, <3>4 DEF DueInv, Matches
  <2>2. QED
    BY <2>1 DEF DueInv, recordVars, ArchiveIsComplete
<1>6. QED
  BY <1>2, <1>3, <1>4, <1>5

\* Time passes: what has begun has begun earlier.
LEMMA TickInv == ASSUME LogInv, Tick PROVE LogInv'
<1>1. /\ clock' = clock + 1 /\ clock < MaxMillis
      /\ UNCHANGED <<trafficVars, recordVars>> /\ UNCHANGED <<exchange, half, log, engineUp>>
      /\ Lines' = Lines
  BY DEF Tick, trafficVars, Lines
<1>2. LogTypeOK'
  BY <1>1, LogAssumption DEF LogInv, LogTypeOK, recordVars
<1>3. LinesInv'
  BY <1>1 DEF LogInv, LinesInv
<1>4. QED
  BY <1>1, <1>2, <1>3, QuietTraffic DEF LogInv, LogTypeOK

\* A request belongs to the active session, whose window has opened before.
LEMMA ForwardInv == ASSUME LogInv, NEW e \in Exchanges, Forward(e) PROVE LogInv'
<1> USE DEF LogInv
<1>1. /\ engineUp /\ exchange[e].stage = "new"
      /\ UNCHANGED <<clock, half, log, engineUp, recordVars>>
      /\ UNCHANGED <<latest, window, current, step, stopMillis, endLines, archive, final, due>>
      /\ Lines' = Lines /\ Begun' = Begun
  BY DEF Forward, recordVars, Lines, Begun
<1>2. PICK phone \in BOOLEAN :
        exchange' = [exchange EXCEPT ![e] =
          [stage |-> "forwarded", began |-> clock, phone |-> phone, during |-> current]]
  BY DEF Forward
<1>3. \A i \in 1..Begun : Lines[i] # e
  BY <1>1, LinesDistinct
<1>4. LogTypeOK'
  <2>1. exchange' \in [Exchanges ->
          [stage : {"new", "forwarded", "complete", "logged"},
           began : 0..MaxMillis, phone : BOOLEAN, during : 0..MaxSessions]]
    BY <1>2, LogAssumption DEF LogTypeOK
  <2>2. QED
    BY <1>1, <2>1 DEF LogTypeOK
<1>5. LinesInv'
  <2>1. \A x \in Exchanges : exchange[x].stage # "new" => exchange'[x] = exchange[x]
    BY <1>1, <1>2 DEF LogTypeOK
  <2>2. \A k \in 1..Len(log) : log[k] \in Exchanges
    BY DEF LogTypeOK
  <2>3. \A k \in 1..Len(log') : exchange'[log'[k]].stage = "logged"
    BY <1>1, <2>1, <2>2 DEF LinesInv
  <2>4. half' # NoExchange => exchange'[half'].stage = "complete"
    BY <1>1, <2>1 DEF LinesInv, LogTypeOK
  <2>5. \A k, l \in 1..Len(log') : log'[k] = log'[l] => k = l
    BY <1>1 DEF LinesInv
  <2>6. QED
    BY <2>3, <2>4, <2>5 DEF LinesInv
<1>6. StepInv'
  BY <1>1 DEF StepInv
<1>7. WindowInv'
  <2>1. \A s \in RecordedSessions : window'[s].from <= Begun' /\ window'[s].start <= clock'
    BY <1>1 DEF WindowInv
  <2>2. /\ current \in Nat /\ latest \in Nat /\ current <= latest /\ clock \in Nat
        /\ current # 0 => current = latest /\ current \in RecordedSessions
        /\ current # 0 => step \notin {"opening", "activating"}
    BY LogAssumption DEF LogTypeOK, StepInv, RecordedSessions
  <2>3. ASSUME NEW x \in Exchanges, x = e
        PROVE  /\ exchange'[x].began <= clock' /\ exchange'[x].during <= latest'
               /\ exchange'[x].during # 0 =>
                    /\ exchange'[x].during = latest' => step' \notin {"opening", "activating"}
                    /\ exchange'[x].began >= window'[exchange'[x].during].start
                    /\ \A i \in 1..Begun' : Lines'[i] = x => i > window'[exchange'[x].during].from
    <3>1. exchange'[x].began = clock /\ exchange'[x].during = current
      BY <1>2, <2>3 DEF LogTypeOK
    <3>2. step' = step
      BY <1>1 DEF recordVars
    <3>3. current # 0 => window[current].start <= clock /\ window[current].start \in Nat
      BY <2>2, LogAssumption DEF WindowInv, LogTypeOK
    <3>4. QED
      BY <1>1, <1>3, <2>2, <2>3, <3>1, <3>2, <3>3
  <2>4. ASSUME NEW x \in Exchanges, x # e
        PROVE  /\ exchange'[x].began <= clock' /\ exchange'[x].during <= latest'
               /\ exchange'[x].during # 0 =>
                    /\ exchange'[x].during = latest' => step' \notin {"opening", "activating"}
                    /\ exchange'[x].began >= window'[exchange'[x].during].start
                    /\ \A i \in 1..Begun' : Lines'[i] = x => i > window'[exchange'[x].during].from
    <3>1. exchange'[x] = exchange[x]
      BY <1>2, <2>4 DEF LogTypeOK
    <3>2. step' = step
      BY <1>1 DEF recordVars
    <3>3. QED
      BY <1>1, <3>1, <3>2 DEF WindowInv
  <2>5. QED
    BY <2>1, <2>3, <2>4 DEF WindowInv
<1>8. ArchiveInv'
  <2>1. ASSUME NEW s \in RecordedSessions, NEW x \in archive[s]
        PROVE  exchange'[x] = exchange[x]
    <3>1. x \in Exchanges
      BY <2>1 DEF LogTypeOK
    <3>2. x # e
      BY <1>3, <2>1 DEF ArchiveInv
    <3>3. QED
      BY <1>2, <3>1, <3>2 DEF LogTypeOK
  <2>2. QED
    BY <1>1, <2>1 DEF ArchiveInv, Matches
<1>9. DueInv'
  <2>1. \A i \in 1..Len(log) : log[i] # e
    BY <1>3, LinesShape
  <2>2. ASSUME step \in {"stopping", "extracting"}, NEW x \in due[current]
        PROVE  x \in Exchanges /\ x # e /\ exchange'[x] = exchange[x]
    <3>1. x \in Exchanges
      BY <2>2, CurrentIsOne
    <3>2. x # e
      BY <2>1, <2>2 DEF DueInv
    <3>3. QED
      BY <1>2, <3>1, <3>2 DEF LogTypeOK
  <2>3. QED
    BY <1>1, <2>2 DEF DueInv, Matches, ArchiveIsComplete
<1>10. QED
  BY <1>4, <1>5, <1>6, <1>7, <1>8, <1>9

\* The end of a response writes no line yet.
LEMMA CompleteExchangeInv == ASSUME LogInv, NEW e \in Exchanges, CompleteExchange(e) PROVE LogInv'
<1> USE DEF LogInv
<1>1. /\ exchange[e].stage = "forwarded" /\ exchange' = [exchange EXCEPT ![e].stage = "complete"]
      /\ UNCHANGED <<clock, half, log, engineUp, recordVars>> /\ Lines' = Lines
      /\ UNCHANGED <<latest, window, current, step, stopMillis, endLines, archive, final, due>>
  BY DEF CompleteExchange, recordVars, Lines
<1>2. LogTypeOK'
  BY <1>1 DEF LogTypeOK
<1>3. LinesInv'
  BY <1>1 DEF LinesInv, LogTypeOK
<1>4. QED
  <2>1. clock <= clock' /\ Len(log) <= Len(log)'
    BY <1>1 DEF LogTypeOK
  <2>2. \A x \in Exchanges : /\ exchange'[x].began = exchange[x].began
                            /\ exchange'[x].during = exchange[x].during
                            /\ exchange'[x].phone = exchange[x].phone
    BY <1>1 DEF LogTypeOK
  <2>3. QED
    BY <1>1, <1>2, <1>3, <2>1, <2>2, QuietTraffic

\* A line begins behind every offset a session start has read.
LEMMA BeginLineInv == ASSUME LogInv, NEW e \in Exchanges, BeginLine(e) PROVE LogInv'
<1> USE DEF LogInv
<1>1. /\ exchange[e].stage = "complete" /\ half = NoExchange /\ half' = e
      /\ UNCHANGED <<clock, exchange, log, engineUp, recordVars>>
      /\ UNCHANGED <<latest, window, current, step, stopMillis, endLines, archive, final, due>>
      /\ e # NoExchange
  BY LogAssumption DEF BeginLine, recordVars
<1>2. /\ Lines = log /\ Lines' = Append(log, e) /\ Len(log) \in Nat
      /\ Begun = Len(log) /\ Begun' = Begun + 1
      /\ Lines'[Begun + 1] = e /\ \A i \in 1..Begun : Lines'[i] = Lines[i]
  BY <1>1 DEF Lines, Begun, LogTypeOK
<1>3. \A i \in 1..Begun' : i \in 1..Begun \/ i = Begun + 1
  BY <1>2
<1>4. LogTypeOK'
  BY <1>1 DEF LogTypeOK
<1>5. LinesInv'
  BY <1>1 DEF LinesInv
<1>6. StepInv'
  BY <1>1, <1>2 DEF StepInv, LogTypeOK
<1>7. WindowInv'
  <2>1. \A s \in RecordedSessions : window[s].from <= Begun' /\ window[s].from < Begun + 1
    BY <1>2 DEF WindowInv, LogTypeOK
  <2>2. ASSUME NEW x \in Exchanges, exchange[x].during # 0, NEW i \in 1..Begun', Lines'[i] = x
        PROVE  i > window[exchange[x].during].from
    <3>1. exchange[x].during \in RecordedSessions
      BY <2>2, LogAssumption DEF LogTypeOK, RecordedSessions
    <3>2. QED
      BY <1>1, <1>2, <1>3, <2>1, <2>2, <3>1 DEF WindowInv
  <2>3. QED
    BY <1>1, <2>1, <2>2 DEF WindowInv
<1>8. ArchiveInv'
  <2> SUFFICES ASSUME NEW s \in RecordedSessions, NEW x \in archive[s]
               PROVE  /\ s <= latest /\ exchange[x].began >= window[s].start /\ Matches(x)
                      /\ \E i \in 1..Begun' :
                           /\ Lines'[i] = x /\ window[s].from < i
                           /\ \A t \in RecordedSessions : s < t /\ t <= latest => i <= window[t].from
    BY <1>1 DEF ArchiveInv, Matches
  <2>1. PICK i \in 1..Begun :
          /\ Lines[i] = x /\ window[s].from < i
          /\ \A t \in RecordedSessions : s < t /\ t <= latest => i <= window[t].from
    BY DEF ArchiveInv
  <2>2. i \in 1..Begun' /\ Lines'[i] = x
    BY <1>2, <2>1
  <2>3. QED
    BY <2>1, <2>2 DEF ArchiveInv
<1>9. DueInv'
  BY <1>1 DEF DueInv, Matches, ArchiveIsComplete
<1>10. QED
  BY <1>4, <1>5, <1>6, <1>7, <1>8, <1>9

\* The line that was half written stays where it was.
LEMMA EndLineInv == ASSUME LogInv, EndLine PROVE LogInv'
<1> USE DEF LogInv
<1>1. /\ half # NoExchange /\ half \in Exchanges /\ half' = NoExchange
      /\ log' = Append(log, half)
      /\ exchange' = [exchange EXCEPT ![half].stage = "logged"]
      /\ UNCHANGED <<clock, engineUp, recordVars>>
      /\ UNCHANGED <<latest, window, current, step, stopMillis, endLines, archive, final, due>>
  BY DEF EndLine, recordVars, LogTypeOK
<1>2. /\ Lines = Append(log, half) /\ Lines' = Lines
      /\ log \in Seq(Exchanges) /\ log' \in Seq(Exchanges) /\ Len(log) \in Nat
      /\ Len(log') = Len(log) + 1 /\ log'[Len(log) + 1] = half
      /\ \A i \in 1..Len(log) : log'[i] = log[i]
  BY <1>1 DEF Lines, LogTypeOK
<1>3. LogTypeOK'
  <2>1. window' \in [RecordedSessions -> [from : 0..Len(log') + 1, start : 0..MaxMillis]]
    BY <1>1, <1>2 DEF LogTypeOK
  <2>2. endLines' \in 0..Len(log') + 1
    BY <1>1, <1>2 DEF LogTypeOK
  <2>3. QED
    BY <1>1, <1>2, <2>1, <2>2 DEF LogTypeOK
<1>4. LinesInv'
  <2>1. \A i \in 1..Len(log) : log[i] # half
    BY <1>1 DEF LinesInv
  <2>2. \A i \in 1..Len(log') : i \in 1..Len(log) \/ i = Len(log) + 1
    BY <1>2
  <2>3. \A i \in 1..Len(log) : log[i] \in Exchanges
    BY <1>2
  <2>4. \A i \in 1..Len(log') : exchange'[log'[i]].stage = "logged"
    BY <1>1, <1>2, <2>1, <2>2, <2>3 DEF LinesInv, LogTypeOK
  <2>5. \A i, j \in 1..Len(log') : log'[i] = log'[j] => i = j
    BY <1>2, <2>1, <2>2 DEF LinesInv
  <2>6. QED
    BY <1>1, <2>4, <2>5 DEF LinesInv
<1>5. QED
  BY <1>1, <1>2, <1>3, <1>4, QuietTraffic DEF LogTypeOK

\* An instance that stops may leave half a line; it counts in no later window.
LEMMA EngineStopsInv == ASSUME LogInv, EngineStops PROVE LogInv'
<1>1. /\ engineUp' = FALSE /\ UNCHANGED <<clock, exchange, half, log, recordVars>> /\ Lines' = Lines
  BY DEF EngineStops, Lines
<1>2. LogTypeOK' /\ LinesInv'
  BY <1>1 DEF LogInv, LogTypeOK, LinesInv, recordVars
<1>3. QED
  BY <1>1, <1>2, QuietTraffic DEF LogInv, LogTypeOK

-----------------------------------------------------------------------------
(* Sessions.                                                               *)

\* The session steps leave the traffic, its lines and the clock alone.
LEMMA SessionStepTraffic ==
  ASSUME UNCHANGED <<clock, trafficVars>>
  PROVE  /\ clock' = clock /\ exchange' = exchange /\ half' = half /\ log' = log /\ engineUp' = engineUp
         /\ Lines' = Lines /\ Begun' = Begun
         /\ \A e : Matches(e)' = Matches(e)
BY DEF trafficVars, Lines, Begun, Matches

\* The new window opens at the end of the file, behind all that is archived.
LEMMA StatAtStartInv == ASSUME LogInv, StatAtStart PROVE LogInv'
<1> USE DEF LogInv
<1> DEFINE new == latest + 1
<1>1. /\ current = 0 /\ step = "idle" /\ latest < MaxSessions /\ latest' = new /\ step' = "opening"
      /\ window' = [window EXCEPT ![new].from = Begun]
      /\ UNCHANGED <<clock, trafficVars, current, stopMillis, endLines, archive, final, due>>
      /\ clock' = clock /\ exchange' = exchange /\ half' = half /\ log' = log /\ engineUp' = engineUp
      /\ Lines' = Lines /\ Begun' = Begun
  BY SessionStepTraffic DEF StatAtStart
<1>2. /\ latest \in Nat /\ MaxSessions \in Nat /\ new \in RecordedSessions
      /\ Begun \in Nat /\ Begun <= Len(log) + 1 /\ Len(log) \in Nat
      /\ \A s \in RecordedSessions : s \in Nat /\ (s # new => window'[s] = window[s])
      /\ window'[new].from = Begun /\ window'[new].start = window[new].start
  <2>1. latest \in Nat /\ MaxSessions \in Nat /\ new \in RecordedSessions
    BY <1>1, LogAssumption DEF LogTypeOK, RecordedSessions
  <2>2. Begun \in Nat /\ Begun <= Len(log) + 1 /\ Len(log) \in Nat
    BY LinesShape
  <2>3. \A s \in RecordedSessions : s \in Nat
    BY DEF RecordedSessions
  <2>4. /\ \A s \in RecordedSessions : s # new => window'[s] = window[s]
        /\ window'[new].from = Begun /\ window'[new].start = window[new].start
    <3>1. window \in [RecordedSessions -> [from : 0..Len(log) + 1, start : 0..MaxMillis]]
      BY DEF LogTypeOK
    <3>2. QED
      BY <1>1, <2>1, <3>1
  <2>5. QED
    BY <2>1, <2>2, <2>3, <2>4
<1>3. archive[new] = {} /\ new \notin final
  <2>1. new \in Nat /\ new > latest
    BY <1>2
  <2>2. \A s \in RecordedSessions : archive[s] # {} => s <= latest
    BY DEF ArchiveInv
  <2>3. \A s \in final : s <= latest
    BY DEF StepInv
  <2>4. QED
    BY <1>2, <2>1, <2>2, <2>3
<1>4. LogTypeOK'
  <2>1. window' \in [RecordedSessions -> [from : 0..Len(log) + 1, start : 0..MaxMillis]]
    <3>1. Begun \in 0..Len(log) + 1
      BY <1>2
    <3>2. window \in [RecordedSessions -> [from : 0..Len(log) + 1, start : 0..MaxMillis]]
      BY DEF LogTypeOK
    <3>3. QED
      BY <1>1, <3>1, <3>2
  <2>2. latest' \in 0..MaxSessions /\ current' \in {0, latest'}
    BY <1>1, <1>2
  <2>3. QED
    BY <1>1, <2>1, <2>2 DEF LogTypeOK
<1>5. LinesInv'
  BY <1>1 DEF LinesInv
<1>6. StepInv'
  BY <1>1, <1>2, <1>3 DEF StepInv, LogTypeOK
<1>7. WindowInv'
  <2>1. \A e \in Exchanges : exchange[e].during \in 0..latest
    BY <1>2, LogAssumption DEF WindowInv, LogTypeOK
  <2>2. \A e \in Exchanges : exchange[e].during # 0 =>
          window'[exchange[e].during] = window[exchange[e].during] /\ exchange[e].during # new
    BY <1>2, <2>1 DEF RecordedSessions
  <2>3. \A s \in RecordedSessions : window'[s].from <= Begun /\ window'[s].start <= clock
    BY <1>2 DEF WindowInv
  <2>4. QED
    BY <1>1, <1>2, <2>1, <2>2, <2>3 DEF WindowInv
<1>8. ArchiveInv'
  <2> SUFFICES ASSUME NEW s \in RecordedSessions, NEW e \in archive[s]
               PROVE  /\ s <= new /\ exchange[e].began >= window'[s].start /\ Matches(e)
                      /\ \E i \in 1..Begun :
                           /\ Lines[i] = e /\ window'[s].from < i
                           /\ \A t \in RecordedSessions : s < t /\ t <= new => i <= window'[t].from
    BY <1>1 DEF ArchiveInv, Matches
  <2>1. s <= latest /\ s # new /\ window'[s] = window[s]
    BY <1>2, <1>3 DEF ArchiveInv
  <2>2. PICK i \in 1..Begun :
          /\ Lines[i] = e /\ window[s].from < i
          /\ \A t \in RecordedSessions : s < t /\ t <= latest => i <= window[t].from
    BY DEF ArchiveInv
  <2>3. ASSUME NEW t \in RecordedSessions, s < t, t <= new PROVE i <= window'[t].from
    <3>1. CASE t = new
      BY <1>2, <3>1
    <3>2. CASE t # new
      BY <1>2, <2>2, <2>3, <3>2
    <3>3. QED
      BY <3>1, <3>2
  <2>4. s <= new
    BY <1>2, <2>1
  <2>5. QED
    BY <2>1, <2>2, <2>3, <2>4 DEF ArchiveInv
<1>9. DueInv'
  BY <1>1 DEF DueInv, ArchiveIsComplete
<1>10. QED
  BY <1>4, <1>5, <1>6, <1>7, <1>8, <1>9

\* No exchange is of the session yet when it reads its time.
LEMMA TimeAtStartInv == ASSUME LogInv, TimeAtStart PROVE LogInv'
<1> USE DEF LogInv
<1>1. /\ step = "opening" /\ step' = "activating"
      /\ window' = [window EXCEPT ![latest].start = clock]
      /\ UNCHANGED <<clock, trafficVars, latest, current, stopMillis, endLines, archive, final, due>>
      /\ clock' = clock /\ exchange' = exchange /\ half' = half /\ log' = log /\ engineUp' = engineUp
      /\ Lines' = Lines /\ Begun' = Begun
  BY SessionStepTraffic DEF TimeAtStart
<1>2. /\ latest \in RecordedSessions /\ clock \in Nat /\ archive[latest] = {}
      /\ \A s \in RecordedSessions : window'[s].from = window[s].from
      /\ \A s \in RecordedSessions : s # latest => window'[s] = window[s]
      /\ window'[latest].start = clock
  BY <1>1, LogAssumption DEF LogTypeOK, RecordedSessions, StepInv
<1>3. LogTypeOK'
  BY <1>1 DEF LogTypeOK
<1>4. LinesInv'
  BY <1>1 DEF LinesInv
<1>5. StepInv'
  BY <1>1 DEF StepInv
<1>6. WindowInv'
  <2>1. \A e \in Exchanges : exchange[e].during # 0 =>
          exchange[e].during \in RecordedSessions /\ exchange[e].during # latest
    BY <1>1, LogAssumption DEF WindowInv, LogTypeOK, RecordedSessions
  <2>2. \A s \in RecordedSessions : window'[s].from <= Begun /\ window'[s].start <= clock
    BY <1>2 DEF WindowInv
  <2>3. QED
    BY <1>1, <1>2, <2>1, <2>2 DEF WindowInv
<1>7. ArchiveInv'
  <2>1. \A s \in RecordedSessions : archive[s] # {} => window'[s].start = window[s].start
    BY <1>2
  <2>2. QED
    BY <1>1, <1>2, <2>1 DEF ArchiveInv, Matches
<1>8. DueInv'
  BY <1>1 DEF DueInv, ArchiveIsComplete
<1>9. QED
  BY <1>3, <1>4, <1>5, <1>6, <1>7, <1>8

\* The session is active once its window is open.
LEMMA ActivateInv == ASSUME LogInv, Activate PROVE LogInv'
<1> USE DEF LogInv
<1>1. /\ step = "activating" /\ step' = "idle" /\ current' = latest
      /\ UNCHANGED <<clock, trafficVars, latest, window, stopMillis, endLines, archive, final, due>>
      /\ clock' = clock /\ exchange' = exchange /\ half' = half /\ log' = log /\ engineUp' = engineUp
      /\ Lines' = Lines /\ Begun' = Begun
  BY SessionStepTraffic DEF Activate
<1>2. LogTypeOK'
  BY <1>1 DEF LogTypeOK
<1>3. LinesInv' /\ StepInv'
  BY <1>1 DEF LinesInv, StepInv
<1>4. WindowInv'
  BY <1>1 DEF WindowInv
<1>5. ArchiveInv' /\ DueInv'
  BY <1>1 DEF ArchiveInv, Matches, DueInv, ArchiveIsComplete
<1>6. QED
  BY <1>2, <1>3, <1>4, <1>5

\* What the archive will owe is in the file when the stop reads its time.
LEMMA BeginStoppingInv == ASSUME LogInv, BeginStopping PROVE LogInv'
<1> USE DEF LogInv
<1>1. /\ step = "idle" /\ current # 0 /\ step' = "stopping" /\ stopMillis' = clock
      /\ due' = [due EXCEPT ![current] =
           {e \in ToSet(log) : exchange[e].during = current /\ Matches(e)}]
      /\ UNCHANGED <<clock, trafficVars, latest, window, current, endLines, archive, final>>
      /\ clock' = clock /\ exchange' = exchange /\ half' = half /\ log' = log /\ engineUp' = engineUp
      /\ Lines' = Lines /\ Begun' = Begun
  BY SessionStepTraffic DEF BeginStopping
<1>2. /\ ToSet(log) \subseteq Exchanges
      /\ \A e \in ToSet(log) : \E i \in 1..Len(log) : log[i] = e
  <2>1. DOMAIN log = 1..Len(log) /\ \A i \in 1..Len(log) : log[i] \in Exchanges
    BY DEF LogTypeOK
  <2>2. QED
    BY <2>1 DEF ToSet
<1>3. current \in RecordedSessions /\ current \notin final
  BY <1>1, LogAssumption DEF LogTypeOK, RecordedSessions, StepInv
<1>4. /\ due'[current] = {e \in ToSet(log) : exchange[e].during = current /\ Matches(e)}
      /\ \A s \in RecordedSessions : s # current => due'[s] = due[s]
  BY <1>1, <1>3 DEF LogTypeOK
<1>5. LogTypeOK'
  <2>1. due' \in [RecordedSessions -> SUBSET Exchanges]
    BY <1>1, <1>2, <1>3 DEF LogTypeOK
  <2>2. QED
    BY <1>1, <2>1 DEF LogTypeOK
<1>6. LinesInv' /\ StepInv'
  BY <1>1 DEF LinesInv, StepInv
<1>7. WindowInv' /\ ArchiveInv'
  BY <1>1 DEF WindowInv, ArchiveInv, Matches
<1>8. DueInv'
  <2>1. \A e \in due'[current] : /\ exchange[e].during = current /\ Matches(e) /\ exchange[e].began <= clock
                                 /\ \E i \in 1..Len(log) : log[i] = e
    BY <1>2, <1>4 DEF WindowInv
  <2>2. \A s \in final : due'[s] \subseteq archive[s]
    BY <1>3, <1>4 DEF DueInv, ArchiveIsComplete, LogTypeOK
  <2>3. QED
    BY <1>1, <2>1, <2>2 DEF DueInv, ArchiveIsComplete, Matches
<1>9. QED
  BY <1>5, <1>6, <1>7, <1>8

\* The size is read after the time, so every line that is owed lies before it.
LEMMA StatAtStopInv == ASSUME LogInv, StatAtStop PROVE LogInv'
<1> USE DEF LogInv
<1>1. /\ step = "stopping" /\ step' = "extracting" /\ endLines' \in {Len(log), Begun}
      /\ UNCHANGED <<clock, trafficVars, latest, window, current, stopMillis, archive, final, due>>
      /\ clock' = clock /\ exchange' = exchange /\ half' = half /\ log' = log /\ engineUp' = engineUp
      /\ Lines' = Lines /\ Begun' = Begun
  BY SessionStepTraffic DEF StatAtStop
<1>2. /\ Len(log) \in Nat /\ Begun \in Nat /\ Len(log) <= Begun /\ Begun <= Len(log) + 1
      /\ endLines' \in 0..Len(log) + 1 /\ Len(log) <= endLines' /\ endLines' <= Begun
  BY <1>1, LinesShape
<1>3. LogTypeOK'
  BY <1>1, <1>2 DEF LogTypeOK
<1>4. LinesInv' /\ StepInv'
  BY <1>1, <1>2 DEF LinesInv, StepInv
<1>5. WindowInv' /\ ArchiveInv'
  BY <1>1 DEF WindowInv, ArchiveInv, Matches
<1>6. DueInv'
  <2>1. \A i \in 1..Len(log) : i <= endLines'
    BY <1>2
  <2>2. QED
    BY <1>1, <2>1 DEF DueInv, Matches, ArchiveIsComplete
<1>7. QED
  BY <1>3, <1>4, <1>5, <1>6

\* The copy has what is owed, and nothing of an earlier or a later session.
LEMMA ExtractInv == ASSUME LogInv, Extract PROVE LogInv'
<1> USE DEF LogInv
<1>1. /\ step = "extracting"
      /\ UNCHANGED <<clock, trafficVars, latest, window, current, final, due>>
      /\ clock' = clock /\ exchange' = exchange /\ half' = half /\ log' = log /\ engineUp' = engineUp
      /\ Lines' = Lines /\ Begun' = Begun
  BY SessionStepTraffic DEF Extract
<1>2. /\ current \in RecordedSessions /\ current = latest /\ current # 0 /\ current \notin final
      /\ archive[current] \subseteq Exchanges
  BY <1>1, CurrentIsOne DEF StepInv
<1>3. LinesInv' /\ WindowInv'
  BY <1>1 DEF LinesInv, WindowInv, Extract
<1>4. CASE step' = "idle" /\ UNCHANGED archive /\ stopMillis' = 0 /\ endLines' = 0
  <2>1. LogTypeOK'
    <3>1. 0 \in 0..MaxMillis /\ 0 \in 0..Len(log) + 1
      BY LogAssumption, LinesShape
    <3>2. QED
      BY <1>1, <1>4, <3>1 DEF LogTypeOK
  <2>2. StepInv' /\ ArchiveInv' /\ DueInv'
    BY <1>1, <1>4 DEF StepInv, ArchiveInv, Matches, DueInv, ArchiveIsComplete
  <2>3. QED
    BY <1>3, <2>1, <2>2
<1>5. CASE /\ archive' = [archive EXCEPT ![current] =
                {e \in ToSet(SubSeq(Lines, window[current].from + 1, endLines)) :
                   InWindow(e) /\ Matches(e)}]
           /\ step' = "finishing" /\ UNCHANGED <<stopMillis, endLines>>
  <2>1. /\ window[current].from \in Nat /\ endLines \in Nat /\ endLines <= Begun
    BY <1>1, <1>2, LinesShape DEF LogTypeOK, StepInv
  <2>2. \A e : e \in archive'[current] <=>
          /\ InWindow(e) /\ Matches(e)
          /\ \E i \in 1..Begun : window[current].from < i /\ i <= endLines /\ Lines[i] = e
    <3>1. \A e : e \in ToSet(SubSeq(Lines, window[current].from + 1, endLines))
                  <=> \E i \in 1..Begun : window[current].from < i /\ i <= endLines /\ Lines[i] = e
      BY <2>1, ExtractedLines
    <3>2. archive'[current] =
            {e \in ToSet(SubSeq(Lines, window[current].from + 1, endLines)) : InWindow(e) /\ Matches(e)}
      BY <1>2, <1>5 DEF LogTypeOK
    <3>3. QED
      BY <3>1, <3>2
  <2>3. \A s \in RecordedSessions : s # current => archive'[s] = archive[s]
    BY <1>5 DEF LogTypeOK
  <2>4. archive'[current] \subseteq Exchanges
    BY <2>2, LinesShape
  <2>5. LogTypeOK'
    <3>1. archive' \in [RecordedSessions -> SUBSET Exchanges]
      BY <1>2, <1>5, <2>3, <2>4 DEF LogTypeOK
    <3>2. QED
      BY <1>1, <1>5, <3>1 DEF LogTypeOK
  <2>6. StepInv'
    BY <1>1, <1>2, <1>5 DEF StepInv
  <2>7. ArchiveInv'
    <3>1. ASSUME NEW e \in archive'[current]
          PROVE  /\ exchange[e].began >= window[current].start /\ Matches(e)
                 /\ \E i \in 1..Begun :
                      /\ Lines[i] = e /\ window[current].from < i
                      /\ \A t \in RecordedSessions : current < t /\ t <= latest => i <= window[t].from
      <4>1. PICK i \in 1..Begun : window[current].from < i /\ Lines[i] = e
        BY <2>2
      <4>2. \A t \in RecordedSessions : ~(current < t /\ t <= latest)
        BY <1>2 DEF RecordedSessions
      <4>3. QED
        BY <2>2, <4>1, <4>2 DEF InWindow
    <3>2. current <= latest
      BY <1>2 DEF RecordedSessions
    <3>3. QED
      BY <1>1, <2>3, <3>1, <3>2 DEF ArchiveInv, Matches
  <2>8. DueInv'
    <3>1. ASSUME NEW e \in due[current] PROVE e \in archive'[current]
      <4>1. /\ exchange[e].during = current /\ Matches(e) /\ exchange[e].began <= stopMillis
            /\ e \in Exchanges
        BY <1>1, CurrentIsOne DEF DueInv
      <4>2. PICK i \in 1..Len(log) : log[i] = e /\ i <= endLines
        BY <1>1 DEF DueInv
      <4>3. i \in 1..Begun /\ Lines[i] = e
        BY <4>2, LinesShape
      <4>4. exchange[e].began >= window[current].start /\ i > window[current].from
        BY <1>2, <4>1, <4>3 DEF WindowInv
      <4>5. window[current].from < i
        BY <2>1, <4>3, <4>4, LinesShape
      <4>6. QED
        BY <2>2, <4>1, <4>2, <4>3, <4>4, <4>5 DEF InWindow
    <3>2. \A s \in final : s # current /\ s \in RecordedSessions
      BY <1>2 DEF LogTypeOK
    <3>3. QED
      BY <1>1, <1>5, <2>3, <3>1, <3>2 DEF DueInv, ArchiveIsComplete
  <2>9. QED
    BY <1>3, <2>5, <2>6, <2>7, <2>8
<1>6. QED
  BY <1>4, <1>5 DEF Extract

\* A session is completed with its archive; one that is abandoned is not completed.
LEMMA EndSessionInv == ASSUME LogInv, FinishStop \/ AbandonSession PROVE LogInv'
<1> USE DEF LogInv
<1>1. /\ current # 0 /\ step' = "idle" /\ current' \in {0, current}
      /\ UNCHANGED <<clock, trafficVars, latest, window, archive, due>>
      /\ clock' = clock /\ exchange' = exchange /\ half' = half /\ log' = log /\ engineUp' = engineUp
      /\ Lines' = Lines /\ Begun' = Begun
  BY SessionStepTraffic DEF FinishStop, AbandonSession, StepInv
<1>2. current \in RecordedSessions /\ current = latest /\ current \notin final
  BY <1>1, LogAssumption DEF LogTypeOK, StepInv, RecordedSessions
<1>3. \/ final' = final
      \/ step = "finishing" /\ current' = 0 /\ final' = final \cup {current}
  BY DEF FinishStop, AbandonSession
<1>4. LogTypeOK'
  <2>1. stopMillis' \in 0..MaxMillis /\ endLines' \in 0..Len(log) + 1
    BY LogAssumption, LinesShape DEF FinishStop, AbandonSession, LogTypeOK
  <2>2. QED
    BY <1>1, <1>2, <1>3, <2>1 DEF LogTypeOK
<1>5. LinesInv' /\ WindowInv'
  BY <1>1 DEF LinesInv, WindowInv
<1>6. StepInv'
  <2>1. 0 \notin final
    BY DEF LogTypeOK, RecordedSessions
  <2>2. latest <= latest
    BY <1>2 DEF RecordedSessions
  <2>3. QED
    BY <1>1, <1>2, <1>3, <2>1, <2>2 DEF StepInv, RecordedSessions
<1>7. ArchiveInv'
  BY <1>1 DEF ArchiveInv, Matches
<1>8. DueInv'
  BY <1>1, <1>3 DEF DueInv, ArchiveIsComplete
<1>9. QED
  BY <1>4, <1>5, <1>6, <1>7, <1>8

-----------------------------------------------------------------------------
\* Where the lines of every session lie in the live file, whatever goes on while
\* its start and its stop read the offsets and the times.
THEOREM LogInvHolds == LogSpec => []LogInv
<1>1. LogInit => LogInv
  <2> SUFFICES ASSUME LogInit PROVE LogInv
    OBVIOUS
  <2> USE LogAssumption DEF LogInit
  <2>1. LogTypeOK
    <3>1. log \in Seq(Exchanges) /\ Len(log) = 0
      BY EmptySeq
    <3>2. QED
      BY <3>1 DEF LogTypeOK
  <2>2. Lines = <<>> /\ Begun = 0
    BY EmptySeq DEF Lines, Begun
  <2>3. LinesInv /\ StepInv
    BY <2>2, EmptySeq DEF LinesInv, StepInv
  <2>4. WindowInv /\ ArchiveInv /\ DueInv
    BY <2>2 DEF WindowInv, ArchiveInv, DueInv, ArchiveIsComplete
  <2>5. QED
    BY <2>1, <2>3, <2>4 DEF LogInv
<1>2. LogInv /\ [LogNext]_logVars => LogInv'
  <2> SUFFICES ASSUME LogInv, [LogNext]_logVars PROVE LogInv'
    OBVIOUS
  <2>1. CASE UNCHANGED logVars
    <3>1. /\ UNCHANGED <<clock, exchange, half, log, engineUp, recordVars>> /\ Lines' = Lines
          /\ UNCHANGED <<latest, window, current, step, stopMillis, endLines, archive, final, due>>
      BY <2>1 DEF logVars, trafficVars, recordVars, Lines
    <3>2. LogTypeOK' /\ LinesInv'
      BY <3>1 DEF LogInv, LogTypeOK, LinesInv
    <3>3. clock <= clock' /\ Len(log) <= Len(log)'
      BY <3>1 DEF LogInv, LogTypeOK
    <3>4. QED
      BY <3>1, <3>2, <3>3, QuietTraffic
  <2>2. QED
    BY <2>1, TickInv, ForwardInv, CompleteExchangeInv, BeginLineInv, EndLineInv, EngineStopsInv,
       StatAtStartInv, TimeAtStartInv, ActivateInv, BeginStoppingInv, StatAtStopInv, ExtractInv,
       EndSessionInv DEF LogNext
<1>3. QED
  BY <1>1, <1>2, PTL DEF LogSpec

\* A completed session has every exchange that was forwarded and logged while it
\* was active.
THEOREM ArchiveComplete == LogSpec => []ArchiveIsComplete
BY LogInvHolds, PTL DEF LogInv, DueInv

\* No exchange is archived twice, none from before its session, none of another device.
THEOREM ArchiveOwn == LogSpec => []ArchiveIsOwn
<1>1. LogInv => ArchiveIsOwn
  <2> SUFFICES ASSUME LogInv, NEW s \in RecordedSessions, NEW e \in archive[s],
                      NEW t \in RecordedSessions \ {s}, e \in archive[t]
               PROVE  FALSE
    BY DEF ArchiveIsOwn, LogInv, ArchiveInv
  <2> USE DEF LogInv
  <2>1. \A x, y \in RecordedSessions : x < y /\ e \in archive[x] /\ e \in archive[y] => FALSE
    <3> SUFFICES ASSUME NEW x \in RecordedSessions, NEW y \in RecordedSessions, x < y,
                        e \in archive[x], e \in archive[y]
                 PROVE  FALSE
      OBVIOUS
    <3>1. y <= latest
      BY DEF ArchiveInv
    <3>2. PICK i \in 1..Begun : Lines[i] = e /\ i <= window[y].from
      BY <3>1 DEF ArchiveInv
    <3>3. PICK j \in 1..Begun : Lines[j] = e /\ window[y].from < j
      BY DEF ArchiveInv
    <3>4. i = j
      BY <3>2, <3>3, LinesDistinct
    <3>5. window[y].from \in Nat /\ Begun \in Nat
      <4>1. Begun \in Nat /\ Len(log) \in Nat
        BY LinesShape
      <4>2. QED
        BY <4>1 DEF LogTypeOK
    <3>6. QED
      BY <3>2, <3>3, <3>4, <3>5
  <2>2. s < t \/ t < s
    BY LogAssumption DEF RecordedSessions
  <2>3. QED
    BY <2>1, <2>2
<1>2. QED
  BY <1>1, LogInvHolds, PTL

-----------------------------------------------------------------------------
(* The sessions of the log and those of the store.                         *)

\* A session that is being started is the latest, and not open yet.
Starting(s) == s > latest \/ (s = latest /\ step \in {"opening", "activating"})

\* Every step of the log keeps to the lifecycle.
LEMMA LogFollows ==
  ASSUME LogInv, LogNext
  PROVE  RecordLifecycle!Move \/ UNCHANGED <<current, RecordOutcome>>
<1> USE LogAssumption DEF LogInv
<1>0. /\ latest \in 0..MaxSessions /\ MaxSessions \in Nat /\ current \in {0, latest}
      /\ final \subseteq RecordedSessions /\ current \notin final
      /\ step = "activating" => current = 0 /\ latest # 0 /\ latest \notin final
      /\ step = "finishing" => current # 0
  BY DEF LogTypeOK, StepInv
<1>1. ASSUME UNCHANGED recordVars PROVE UNCHANGED <<current, RecordOutcome>>
  BY <1>1 DEF recordVars, RecordOutcome
<1>2. CASE Tick \/ EndLine \/ EngineStops
           \/ \E e \in Exchanges : Forward(e) \/ CompleteExchange(e) \/ BeginLine(e)
  BY <1>1, <1>2 DEF Tick, EndLine, EngineStops, Forward, CompleteExchange, BeginLine
<1>3. CASE StatAtStart
  <2>1. \A s \in RecordedSessions : Starting(s)' <=> Starting(s)
    BY <1>0, <1>3 DEF StatAtStart, Starting, RecordedSessions
  <2>2. RecordOutcome' = RecordOutcome
    BY <1>3, <2>1 DEF StatAtStart, RecordOutcome, Starting
  <2>3. QED
    BY <1>3, <2>2 DEF StatAtStart
<1>4. CASE TimeAtStart \/ BeginStopping \/ StatAtStop \/ Extract
  <2>1. UNCHANGED <<latest, current, final>>
    BY <1>4 DEF TimeAtStart, BeginStopping, StatAtStop, Extract
  <2>2. step' \in {"opening", "activating"} <=> step \in {"opening", "activating"}
    BY <1>4 DEF TimeAtStart, BeginStopping, StatAtStop, Extract
  <2>3. \A s \in RecordedSessions : Starting(s)' <=> Starting(s)
    BY <2>1, <2>2 DEF Starting
  <2>4. RecordOutcome' = RecordOutcome
    BY <2>1, <2>3 DEF RecordOutcome, Starting
  <2>5. QED
    BY <2>1, <2>4
<1>5. CASE Activate
  <2>1. current = 0 /\ current' = latest /\ latest \in RecordedSessions /\ latest \notin final
    BY <1>0, <1>5 DEF Activate, RecordedSessions
  <2>2. RecordOutcome[latest] = "new"
    BY <1>5, <2>1 DEF Activate, RecordOutcome
  <2>3. RecordOutcome' = [RecordOutcome EXCEPT ![latest] = "open"]
    <3>1. /\ UNCHANGED <<latest, final>> /\ ~Starting(latest)'
          /\ \A s \in RecordedSessions : s # 0 /\ (s # latest => (Starting(s)' <=> Starting(s)))
      BY <1>0, <1>5, <2>1 DEF Activate, Starting, RecordedSessions
    <3>2. QED
      BY <2>1, <3>1 DEF RecordOutcome, Starting
  <2>4. RecordLifecycle!Open(latest)
    BY <2>1, <2>2, <2>3 DEF RecordLifecycle!Open
  <2>5. QED
    BY <2>1, <2>4 DEF RecordLifecycle!Move
<1>6. CASE FinishStop \/ AbandonSession
  <2>1. current # 0 /\ current = latest /\ latest \in RecordedSessions /\ latest \notin final
    BY <1>0, <1>6 DEF FinishStop, AbandonSession, RecordedSessions
  <2>2. UNCHANGED latest /\ step \notin {"opening", "activating"} /\ step' = "idle"
    BY <1>6 DEF FinishStop, AbandonSession
  <2>0. \A s \in RecordedSessions : \/ ~Starting(s)' /\ ~Starting(s)
                                    \/ s > latest /\ s # current /\ Starting(s)' /\ Starting(s)
    BY <1>0, <2>1, <2>2 DEF Starting, RecordedSessions
  <2>3. CASE UNCHANGED <<current, final>>
    <3>1. RecordOutcome' = RecordOutcome
      BY <2>0, <2>3 DEF RecordOutcome, Starting
    <3>2. QED
      BY <2>3, <3>1
  <2>4. CASE current' = 0 /\ final' = final \cup {current}
    <3>1. RecordOutcome' = [RecordOutcome EXCEPT ![current] = "completed"]
      <4>1. \A s \in RecordedSessions : s # 0
        BY DEF RecordedSessions
      <4>2. QED
        BY <2>0, <2>1, <2>4, <4>1 DEF RecordOutcome, Starting
    <3>2. RecordLifecycle!Close(current, "completed")
      BY <2>4, <3>1 DEF RecordLifecycle!Close
    <3>3. QED
      BY <2>1, <3>2 DEF RecordLifecycle!Move
  <2>5. CASE current' = 0 /\ final' = final
    <3>1. RecordOutcome' = [RecordOutcome EXCEPT ![current] = "abandoned"]
      <4>1. \A s \in RecordedSessions : s # 0
        BY DEF RecordedSessions
      <4>2. QED
        BY <2>0, <2>1, <2>5, <4>1 DEF RecordOutcome, Starting
    <3>2. RecordLifecycle!Close(current, "abandoned")
      BY <2>5, <3>1 DEF RecordLifecycle!Close
    <3>3. QED
      BY <2>1, <3>2 DEF RecordLifecycle!Move
  <2>6. QED
    BY <1>6, <2>3, <2>4, <2>5 DEF FinishStop, AbandonSession
<1>7. QED
  BY <1>2, <1>3, <1>4, <1>5, <1>6 DEF LogNext

\* The sessions that the stops archive live as CaptureLifecycle says, which the store
\* implements: for any number of sessions and exchanges.
THEOREM LogLifecycle == LogSpec => FollowsLifecycle
<1>1. LogInit => RecordLifecycle!Init
  <2> SUFFICES ASSUME LogInit PROVE RecordLifecycle!Init
    OBVIOUS
  <2>1. RecordOutcome = [s \in RecordedSessions |-> "new"]
    BY LogAssumption DEF LogInit, RecordOutcome, RecordedSessions
  <2>2. QED
    BY <2>1 DEF LogInit, RecordLifecycle!Init
<1>2. LogInv /\ [LogNext]_logVars => [RecordLifecycle!Next]_(RecordLifecycle!lifecycleVars)
  <2> SUFFICES ASSUME LogInv, [LogNext]_logVars
               PROVE  RecordLifecycle!Move \/ UNCHANGED <<current, RecordOutcome>>
    BY DEF RecordLifecycle!Next, RecordLifecycle!lifecycleVars
  <2>1. CASE UNCHANGED logVars
    BY <2>1 DEF logVars, recordVars, RecordOutcome
  <2>2. QED
    BY <2>1, LogFollows
<1>3. QED
  BY <1>1, <1>2, LogInvHolds, PTL DEF LogSpec, FollowsLifecycle, RecordLifecycle!Spec

-----------------------------------------------------------------------------
(* Process, bodies and log together.                                       *)

\* Of the three the inductive invariants hold side by side.
THEOREM ProxifyInvHolds == ProxifySpec => []ProxifyInv
<1>1. ProxifySpec => []ProcessInv /\ []BodyInv /\ []LogInv
  BY ProcessInvHolds, BodyInvHolds, LogInvHolds DEF ProxifySpec
<1>2. ProcessInv /\ BodyInv /\ LogInv => ProxifyInv
  BY DEF ProxifyInv
<1>3. QED
  BY <1>1, <1>2, PTL
=============================================================================
