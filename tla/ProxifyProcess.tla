---------------------------- MODULE ProxifyProcess ----------------------------
(***************************************************************************)
(* The managed Proxify process: proxify.json names the instance that was   *)
(* started last by its pid and start time.  Terminals start, stop and      *)
(* query it; serve and its start handlers ensure that one runs, and serve  *)
(* stops the one it started.  No lock orders these operations, and the     *)
(* session lock does not cover them.                                       *)
(*                                                                         *)
(* An instance is one execution of Proxify.  Its pid can be given to       *)
(* another program once it is dead and reaped.  The comparison of pid and  *)
(* start time and the signal that follows it at once are one step.         *)
(***************************************************************************)
EXTENDS Naturals

CONSTANTS Procs,      \* terminals, serve, start handlers
          Instances,  \* executions of Proxify
          None,
          Absent, Torn,
          MaxDeaths   \* Proxify instances that die by themselves

ASSUME ProxifyAssumption ==
  /\ {None, Absent, Torn} \cap (Procs \cup Instances) = {}
  /\ None # Absent /\ None # Torn /\ Absent # Torn
  /\ MaxDeaths \in Nat

VARIABLES
  file,      \* proxify.json: an instance, Absent or Torn
  spawned,   \* instances started so far
  alive,     \* those that run
  signalled, \* those that got SIGTERM
  port,      \* the instance that listens on the proxy port
  reused,    \* dead instances whose pid another program has now
  harmed,    \* history: another program was signalled
  session,   \* instance whose traffic file the active Proxify session reads
  reading,   \* instance a record start has found running
  deaths,
  overlapped, \* history: two operations ran at the same time
  races,     \* history: the checks of a start that were overtaken
  pc, op,    \* step and operation of each process
  cur,       \* the instance it works on
  started    \* serveStartedProxify of a serve process

engineVars == <<spawned, alive, signalled, port, reused, harmed, deaths>>
sessionVars == <<session, reading>>
vars == <<file, engineVars, sessionVars, overlapped, races, pc, op, cur, started>>

\* ensure is a start handler's, serve the same at the start of serve, leave the
\* end of serve.
Ops == {"start", "ensure", "serve", "stop", "status", "leave"}
Steps == {"idle", "ensureRunning", "checkSession", "checkRunning", "checkPort", "spawn", "wait",
          "truncate", "fill", "readBack", "read", "waitDead", "remove"}

TypeOK ==
  /\ file \in spawned \cup {Absent, Torn}
  /\ alive \cup signalled \cup reused \subseteq spawned /\ spawned \subseteq Instances
  /\ alive \cap reused = {}
  /\ port \in alive \cup {None}
  /\ harmed \in BOOLEAN /\ overlapped \in BOOLEAN /\ races \subseteq {"starts", "session"}
  /\ session \in spawned \cup {None} /\ reading \in spawned \cup {None}
  /\ deaths \in 0..MaxDeaths
  /\ pc \in [Procs -> Steps] /\ op \in [Procs -> Ops \cup {None}]
  /\ cur \in [Procs -> spawned \cup {None}] /\ started \in [Procs -> spawned \cup {None}]

Init ==
  /\ file = Absent
  /\ spawned = {} /\ alive = {} /\ signalled = {} /\ port = None
  /\ reused = {} /\ harmed = FALSE /\ deaths = 0 /\ overlapped = FALSE /\ races = {}
  /\ session = None /\ reading = None
  /\ pc = [p \in Procs |-> "idle"]
  /\ op = [p \in Procs |-> None]
  /\ cur = [p \in Procs |-> None]
  /\ started = [p \in Procs |-> None]

\* managedProcessMatches of the instance in the file.
FileRuns == file \in alive

GoTo(p, step) == pc' = [pc EXCEPT ![p] = step] /\ UNCHANGED <<op, cur, started>>

Return(p) ==
  /\ pc' = [pc EXCEPT ![p] = "idle"]
  /\ op' = [op EXCEPT ![p] = None]
  /\ cur' = [cur EXCEPT ![p] = None]

Fail(p) == Return(p) /\ UNCHANGED started

\* A stop, a status or the exit of serve returns; after it serve is no more.
Leave(p) == Return(p) /\ started' = IF op[p] = "leave" THEN [started EXCEPT ![p] = None] ELSE started

\* kill(pid, SIGTERM); a zombie does not mind.
Terminate(i) ==
  /\ signalled' = IF i \in alive THEN signalled \cup {i} ELSE signalled
  /\ harmed' = (harmed \/ i \in reused)
  /\ UNCHANGED <<spawned, alive, port, reused, deaths>>

-----------------------------------------------------------------------------
FirstStep(kind) ==
  CASE kind = "start" -> "checkSession"
    [] kind \in {"ensure", "serve"} -> "ensureRunning"
    [] kind \in {"stop", "status", "leave"} -> "read"

Call(p) ==
  /\ pc[p] = "idle"
  /\ overlapped' = (overlapped \/ reading # None \/ \E q \in Procs : pc[q] # "idle")
  /\ \E kind \in Ops :
       /\ kind = "serve" => started[p] = None
       /\ kind = "leave" => started[p] # None
       /\ op' = [op EXCEPT ![p] = kind]
       /\ pc' = [pc EXCEPT ![p] = FirstStep(kind)]
  /\ UNCHANGED <<file, engineVars, sessionVars, cur, started>>

\* ensureManagedProxify: a running Proxify is enough.
EnsureRunning(p) ==
  /\ pc[p] = "ensureRunning"
  /\ IF FileRuns THEN Fail(p) ELSE GoTo(p, "checkSession")
  /\ UNCHANGED <<file, engineVars, sessionVars>>

\* Mutant: the active session is not looked at.
CheckSessionNot(p) ==
  /\ pc[p] = "checkSession"
  /\ GoTo(p, "checkRunning")
  /\ UNCHANGED <<file, engineVars, sessionVars>>

\* proxifyStart: an active Proxify session, a running Proxify, a used port.
CheckSession(p) ==
  /\ pc[p] = "checkSession"
  /\ IF session # None THEN Fail(p) ELSE GoTo(p, "checkRunning")
  /\ UNCHANGED <<file, engineVars, sessionVars>>

CheckRunning(p) ==
  /\ pc[p] = "checkRunning"
  /\ IF FileRuns THEN Fail(p) ELSE GoTo(p, "checkPort")
  /\ UNCHANGED <<file, engineVars, sessionVars>>

\* Mutant: the port is not tried.
CheckPortNot(p) ==
  /\ pc[p] = "checkPort"
  /\ GoTo(p, "spawn")
  /\ UNCHANGED <<file, engineVars, sessionVars>>

CheckPort(p) ==
  /\ pc[p] = "checkPort"
  /\ IF port # None THEN Fail(p) ELSE GoTo(p, "spawn")
  /\ UNCHANGED <<file, engineVars, sessionVars>>

Spawn(p) ==
  /\ pc[p] = "spawn"
  /\ \E i \in Instances \ spawned :
       /\ spawned' = spawned \cup {i}
       /\ alive' = alive \cup {i}
       /\ cur' = [cur EXCEPT ![p] = i]
  /\ pc' = [pc EXCEPT ![p] = "wait"]
  /\ UNCHANGED <<file, signalled, port, reused, harmed, deaths, sessionVars, op, started>>

\* waitForProxifyReady: the process runs and something accepts on the port; or it
\* has exited, or 5 s are over, and it is terminated.
WaitReady(p) ==
  /\ pc[p] = "wait"
  /\ \/ cur[p] \in alive /\ port # None /\ GoTo(p, "truncate") /\ UNCHANGED engineVars
     \/ Terminate(cur[p]) /\ Fail(p)
  /\ UNCHANGED <<file, sessionVars>>

\* writeProxifyState truncates proxify.json, fills it and sets its mode.  Each may fail:
\* then the instance is terminated, and the file stays as it is.
TruncateFile(p) ==
  /\ pc[p] = "truncate"
  /\ \/ file' = Torn /\ GoTo(p, "fill") /\ UNCHANGED engineVars
     \/ Terminate(cur[p]) /\ Fail(p) /\ UNCHANGED file
  /\ UNCHANGED sessionVars

FillFile(p) ==
  /\ pc[p] = "fill"
  /\ \/ /\ file' = cur[p]
        /\ IF op[p] = "serve" THEN GoTo(p, "readBack") ELSE Fail(p)
        /\ UNCHANGED engineVars
     \/ Terminate(cur[p]) /\ Fail(p) /\ file' \in {file, cur[p]}
  /\ UNCHANGED sessionVars

\* Mutant: a file that is gone or does not parse is taken for an instance.
ReadBackUnchecked(p) ==
  /\ pc[p] = "readBack"
  /\ started' = [started EXCEPT ![p] = file]
  /\ Return(p)
  /\ UNCHANGED <<file, engineVars, sessionVars>>

\* serve takes the instance it now finds in the file for its own.
ReadBack(p) ==
  /\ pc[p] = "readBack"
  /\ started' = [started EXCEPT ![p] = IF file \in Instances THEN file ELSE None]
  /\ Return(p)
  /\ UNCHANGED <<file, engineVars, sessionVars>>

-----------------------------------------------------------------------------
LeavesOwn(p) == op[p] = "leave" /\ file = started[p]

\* Mutant: the start time is not compared.
ReadAndSignalAnyPid(p) ==
  /\ pc[p] = "read"
  /\ IF file \in Instances /\ op[p] \in {"stop", "leave"}
     THEN /\ Terminate(file)
          /\ cur' = [cur EXCEPT ![p] = file]
          /\ pc' = [pc EXCEPT ![p] = "waitDead"]
          /\ UNCHANGED <<op, started>>
     ELSE Fail(p) /\ UNCHANGED engineVars
  /\ UNCHANGED <<file, sessionVars>>

\* Mutant: stop does not signal, it only forgets the instance.
ReadAndForget(p) ==
  /\ pc[p] = "read"
  /\ IF file \in Instances THEN GoTo(p, "remove") ELSE Fail(p)
  /\ UNCHANGED <<file, engineVars, sessionVars>>

\* The instance in the file is signalled by stop, and by leave when serve
\* started it; a dead one is only forgotten, by status and leave.
ReadAndSignal(p) ==
  /\ pc[p] = "read"
  /\ \/ /\ file \in alive
        /\ op[p] = "stop" \/ LeavesOwn(p)
        /\ Terminate(file)
        /\ cur' = [cur EXCEPT ![p] = file]
        /\ pc' = [pc EXCEPT ![p] = "waitDead"]
        /\ UNCHANGED <<op, started>>
     \/ /\ file \in spawned \ alive
        /\ op[p] = "status" \/ LeavesOwn(p)
        /\ GoTo(p, "remove")
        /\ UNCHANGED engineVars
     \/ /\ \/ file \in {Absent, Torn}
           \/ file \in alive /\ op[p] = "status"
           \/ file \in spawned \ alive /\ op[p] = "stop"
           \/ op[p] = "leave" /\ file # started[p]
        /\ Leave(p)
        /\ UNCHANGED engineVars
  /\ UNCHANGED <<file, sessionVars>>

\* Up to 5 s.
WaitDead(p) ==
  /\ pc[p] = "waitDead"
  /\ IF cur[p] \in alive THEN Leave(p) ELSE GoTo(p, "remove")
  /\ UNCHANGED <<file, engineVars, sessionVars>>

\* It returns the same way when the file cannot be removed.
RemoveFile(p) ==
  /\ pc[p] = "remove"
  /\ file' \in {Absent, file}
  /\ Leave(p)
  /\ UNCHANGED <<engineVars, sessionVars>>

-----------------------------------------------------------------------------
(* Proxify itself, other programs and the session commands.                *)

\* The instance listens, or exits when the port is taken.  It handles no signal,
\* so after SIGTERM it does nothing but die.
Bind(i) ==
  /\ i \in alive \ signalled /\ port # i
  /\ IF port = None
     THEN port' = i /\ UNCHANGED alive
     ELSE alive' = alive \ {i} /\ UNCHANGED port
  /\ UNCHANGED <<file, spawned, signalled, reused, harmed, deaths, sessionVars, overlapped, pc, op, cur, started>>

\* It dies of SIGTERM or by itself.
Die(i) ==
  /\ i \in alive
  /\ \/ i \in signalled /\ UNCHANGED deaths
     \/ deaths < MaxDeaths /\ deaths' = deaths + 1
  /\ alive' = alive \ {i}
  /\ port' = IF port = i THEN None ELSE port
  /\ UNCHANGED <<file, spawned, signalled, reused, harmed, sessionVars, overlapped, pc, op, cur, started>>

\* Another program gets the pid of a dead instance.  While the process that
\* started the instance runs and has not released it, the dead one stays a zombie.
ReusePid(i) ==
  /\ i \in spawned \ alive
  /\ \A p \in Procs : cur[p] = i => pc[p] \in {"waitDead", "remove"}
  /\ reused' = reused \cup {i}
  /\ UNCHANGED <<file, spawned, alive, signalled, port, harmed, deaths, sessionVars,
                 overlapped, pc, op, cur, started>>

\* proxifyRecordStart finds the instance running and names its traffic file in
\* the session, under the session lock.  A stop ends the session at any time.
RecordStart ==
  /\ \/ /\ session = None /\ reading = None /\ FileRuns
        /\ overlapped' = (overlapped \/ \E p \in Procs : pc[p] # "idle")
        /\ reading' = file /\ UNCHANGED session
     \/ /\ reading # None
        /\ session' = reading /\ reading' = None /\ UNCHANGED overlapped
  /\ UNCHANGED <<file, engineVars, pc, op, cur, started>>

RecordStop ==
  /\ session # None
  /\ session' = None
  /\ UNCHANGED <<reading, file, engineVars, overlapped, pc, op, cur, started>>

-----------------------------------------------------------------------------
Operation(p) ==
  \/ EnsureRunning(p) \/ CheckSession(p) \/ CheckRunning(p) \/ CheckPort(p)
  \/ Spawn(p) \/ WaitReady(p) \/ TruncateFile(p) \/ FillFile(p) \/ ReadBack(p)
  \/ ReadAndSignal(p) \/ WaitDead(p) \/ RemoveFile(p)

\* Steps of a start after its look at the active session, and of these the ones after
\* the trial of the port, until its Proxify is ready.
PastPort == {"spawn", "wait"}
PastSession == {"checkRunning", "checkPort"} \cup PastPort

\* Two starts have tried the port before either Proxify was ready; a session is about to
\* begin on an instance while a start that saw no session is under way.
Races ==
  {r \in {"starts", "session"} :
     \/ r = "starts" /\ \E p, q \in Procs : p # q /\ pc[p] \in PastPort /\ pc[q] \in PastPort
     \/ r = "session" /\ reading # None /\ \E p \in Procs : pc[p] \in PastSession}

Next ==
  /\ \/ \E p \in Procs : Call(p) \/ (Operation(p) /\ UNCHANGED overlapped)
     \/ \E i \in Instances : Bind(i) \/ Die(i) \/ ReusePid(i)
     \/ RecordStart \/ RecordStop
  /\ races' = races \cup Races'

Spec == Init /\ [][Next]_vars

-----------------------------------------------------------------------------
\* No other program is ever signalled, though pids are reused and nothing orders
\* the operations (cli/README.md:73).
NoForeignKilled == ~harmed

\* A start that found its Proxify ready found its own, not another one that answers on
\* the port, so that proxify.json names the one that listens (cli/README.md:268: serve
\* makes sure the managed Proxify runs).  Of all that nothing orders only one thing
\* spoils it: two starts that have both found the port free (proxy_proxify.go:138).
ReadyIsOwn ==
  "starts" \notin races =>
    \A p \in Procs : pc[p] \in {"truncate", "fill"} /\ cur[p] \in alive => port = cur[p]

\* While a session records, Proxify is not replaced by an instance that writes another
\* traffic file (proxy_proxify.go:133), unless the session began, or two starts met,
\* between the checks of a start and its Proxify.
SessionOnCurrentEngine ==
  races = {} /\ session # None /\ port # None => port = session

\* This one holds as long as the operations ran one after the other; the code orders
\* them by nothing but the user.
OneAtATime == ~overlapped

\* An instance that runs, and was not told to stop, is the one stop and status
\* know: no start, stop or status forgets it.
RunningIsManaged ==
  OneAtATime /\ (\A p \in Procs : pc[p] = "idle") => alive \ signalled \subseteq {file}

-----------------------------------------------------------------------------
(* The inductive invariants behind the four.                               *)

\* The pid of an instance is not reused before its starter has released it.
PidInv ==
  /\ NoForeignKilled
  /\ \A p \in Procs :
       pc[p] \in {"wait", "truncate", "fill"} => cur[p] # None /\ cur[p] \notin reused

\* Instances that can still listen on the port.
Listeners == alive \ signalled

\* Steps at which the file names every instance that can listen.
FileSteps == {"idle", "ensureRunning", "checkSession", "checkRunning", "readBack", "read"}

\* What a start knows of the port, whatever else goes on: but for the instance it has
\* spawned nothing can come to listen there, and the file names no other that does.
RaceInv ==
  /\ Races \subseteq races
  /\ "starts" \notin races =>
       /\ \A i \in Listeners : port = i \/ \E p \in Procs : pc[p] = "wait" /\ cur[p] = i
       /\ \A p \in Procs :
            /\ pc[p] = "spawn" => port = None
            /\ pc[p] = "wait" => port \in {None, cur[p]}
            /\ pc[p] \in {"truncate", "fill"} /\ cur[p] \in alive => port = cur[p]
       /\ file \in alive => port = file
  /\ reading # None => session = None
  /\ races = {} =>
       /\ reading # None => port \in {None, reading}
       /\ session # None => port \in {None, session} /\ \A p \in Procs : pc[p] \notin PastSession

\* What one operation at a time knows of the instances.
OrderInv ==
  OneAtATime =>
    /\ \A p, q \in Procs : pc[p] # "idle" /\ pc[q] # "idle" => p = q
    /\ reading # None => \A p \in Procs : pc[p] = "idle"
    /\ (\A p \in Procs : pc[p] \in FileSteps) => Listeners \subseteq {file}
    /\ \A p \in Procs :
         /\ pc[p] \in {"checkPort", "spawn", "waitDead", "remove"} => Listeners = {}
         /\ pc[p] \in {"wait", "truncate", "fill"} => Listeners \subseteq {cur[p]}

ProcessInv == TypeOK /\ PidInv /\ RaceInv /\ OrderInv
=============================================================================
