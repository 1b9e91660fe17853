----------------------------- MODULE ServeProcess -----------------------------
(***************************************************************************)
(* The life of one `httpcapture serve` process: it starts Proxify unless   *)
(* one runs, opens the control server (ControlServer) and the local Web    *)
(* viewer, and on a signal archives the active session, shuts both servers *)
(* down with one 5 s deadline and stops the Proxify it started.            *)
(***************************************************************************)
EXTENDS ControlServer

CONSTANTS Pages,  \* browsers may hold an event stream of the viewer open
          Errors  \* setup steps, the Web listener and the shutdown may fail

ASSUME ServeAssumption == {Pages, Errors} \subseteq BOOLEAN

VARIABLES
  phase,    \* where serveCommand is
  noted,    \* the session the shutdown found active
  record,   \* the Proxify that proxify.json names: "none", "ours" or an "other" one
  runs,     \* "ours", which this serve has started, runs
  mine,     \* serveStartedProxify, "none" for nil
  page      \* an event stream is open

proxifyVars == <<record, runs, mine>>
serveVars == <<phase, noted, proxifyVars, page>>
vars == <<controlVars, serveVars>>

\* "exited" returns nil, "failed" returns an error.
Ended == {"exited", "failed"}
Phases == {"proxify", "readBack", "setup", "serving", "peek", "archive", "drainControl",
           "drainWeb", "stopProxify"} \cup Ended

\* The control listener accepts from the end of the setup until its Shutdown,
\* the Web listener already during the setup.
ControlAccepts == phase \in {"serving", "peek", "archive"}
WebAccepts == phase \in {"proxify", "readBack", "setup", "serving", "peek", "archive", "drainControl"}

TypeOK ==
  /\ ControlTypeOK
  /\ phase \in Phases
  /\ noted \in Sessions \cup {None}
  /\ record \in {"none", "ours", "other"} /\ mine \in {"none", "ours", "other"}
  /\ runs \in BOOLEAN
  /\ page \in BOOLEAN
  /\ runs /\ phase \notin {"readBack", "failed"} => mine # "none"
  /\ noted # None => phase \in {"archive", "drainControl", "drainWeb", "stopProxify"} \cup Ended

Init ==
  /\ ControlInit
  /\ phase = "proxify"
  /\ noted = None
  /\ record \in {"none", "other"} /\ runs = FALSE /\ mine = "none"
  /\ page = FALSE

-----------------------------------------------------------------------------
(* Startup.                                                                *)

\* ensureManagedProxifyForServe: the managed Proxify is used when it runs (on
\* another port it is an error), otherwise one is started ...
EnsureProxify ==
  /\ phase = "proxify"
  /\ \/ record = "other" /\ phase' = "setup" /\ UNCHANGED <<record, runs>>
     \/ /\ record' = "ours" /\ runs' = TRUE
        /\ phase' = "readBack"
     \/ Errors /\ phase' = "failed" /\ UNCHANGED <<record, runs>>
  /\ UNCHANGED <<controlVars, noted, mine, page>>

\* Mutant: serve forgets that it started Proxify.
ReadBackForgets ==
  /\ phase = "readBack"
  /\ phase' = "setup"
  /\ UNCHANGED <<controlVars, noted, proxifyVars, page>>

\* ... and what proxify.json says then is the one serve has started.
ReadBack ==
  /\ phase = "readBack"
  /\ \/ record # "none" /\ mine' = record /\ phase' = "setup"
     \/ (record = "none" \/ Errors) /\ phase' = "failed" /\ UNCHANGED mine
  /\ UNCHANGED <<controlVars, noted, record, runs, page>>

\* Certificate, identity, control listener, device, QR code: any may fail.
Setup ==
  /\ phase = "setup"
  /\ phase' \in (IF Errors THEN {"serving", "failed"} ELSE {"serving"})
  /\ UNCHANGED <<controlVars, noted, proxifyVars, page>>

-----------------------------------------------------------------------------
(* Serving.                                                                *)

\* A start handler of a Proxify profile makes sure that Proxify runs; the instance it
\* starts is not the one serve will stop.
ReadyForStart(h) == pc[h] = "ensure" /\ pc'[h] = "start"

Serve ==
  /\ phase \notin Ended
  /\ \/ \E h \in Handlers :
          \/ ControlAccepts /\ Arrive(h)
          \/ HandlerStep(h)
     \/ Terminal
  /\ \/ UNCHANGED <<record, runs>>
     \/ /\ ~(record = "ours" /\ runs) /\ \E h \in Handlers : ReadyForStart(h)
        /\ record' = "other" /\ UNCHANGED runs
  /\ UNCHANGED <<phase, noted, mine, page>>

\* handleLiveEvents runs until the browser goes away.
OpenPage ==
  /\ Pages /\ WebAccepts /\ ~page
  /\ page' = TRUE
  /\ UNCHANGED <<controlVars, phase, noted, proxifyVars>>

ClosePage ==
  /\ page
  /\ page' = FALSE
  /\ UNCHANGED <<controlVars, phase, noted, proxifyVars>>

\* Other terminals stop the managed Proxify or start one of their own, and one may die.
\* Overlapping starts both get through (ProxifyProcess), so that an instance may run
\* on although proxify.json does not name it any more.
OtherProxify ==
  /\ Terminals
  /\ record' \in {record, "none", "other"}
  /\ runs' \in {runs, FALSE}
  /\ UNCHANGED <<controlVars, phase, noted, mine, page>>

WebBreaks ==
  /\ Errors
  /\ phase = "serving"
  /\ phase' = "failed"
  /\ UNCHANGED <<controlVars, noted, proxifyVars, page>>

-----------------------------------------------------------------------------
(* Shutdown.                                                               *)

Signal ==
  /\ phase = "serving"
  /\ phase' = "peek"
  /\ UNCHANGED <<controlVars, noted, proxifyVars, page>>

\* stopActiveSessionForServe reads the active session; an error ends serve at once ...
PeekActive ==
  /\ phase = "peek"
  /\ \/ /\ noted' = open
        /\ phase' = IF open = None THEN "drainControl" ELSE "archive"
     \/ Errors /\ phase' = "failed" /\ UNCHANGED noted
  /\ UNCHANGED <<controlVars, proxifyVars, page>>

\* Mutant: the error of the stop is printed and the shutdown goes on.
ArchiveActiveOrNot ==
  /\ phase = "archive"
  /\ \/ open # None /\ Store!Close(open, "completed")
     \/ (open = None \/ Errors) /\ UNCHANGED <<open, outcome>>
  /\ phase' = "drainControl"
  /\ UNCHANGED <<status, commands, asked, handlerVars, startedBy, noted, proxifyVars, page>>

\* ... and stops what is active now; an error ends serve at once.
ArchiveActive ==
  /\ phase = "archive"
  /\ \/ /\ open # None
        /\ Store!Close(open, "completed")
        /\ phase' = "drainControl"
     \/ /\ open = None \/ Errors
        /\ phase' = "failed"
        /\ UNCHANGED <<open, outcome>>
  /\ UNCHANGED <<status, commands, asked, handlerVars, startedBy, noted, proxifyVars, page>>

\* controlServer.Shutdown waits for the handlers, at most 5 s; its error is ignored.
DrainControl ==
  /\ phase = "drainControl"
  /\ phase' = "drainWeb"
  /\ UNCHANGED <<controlVars, noted, proxifyVars, page>>

\* Mutant: the Web server is waited for without a deadline.
DrainWebForever ==
  /\ phase = "drainWeb"
  /\ ~page
  /\ phase' = "stopProxify"
  /\ UNCHANGED <<controlVars, noted, proxifyVars, page>>

\* server.Shutdown waits for the open requests for the rest of the 5 s; its
\* error ends serve.  Shutdown does not cancel the context of a request.
DrainWeb ==
  /\ phase = "drainWeb"
  /\ phase' = IF page THEN "failed" ELSE "stopProxify"
  /\ UNCHANGED <<controlVars, noted, proxifyVars, page>>

\* stopServeStartedProxify returns nil without stopping anything when proxify.json is
\* absent or names another instance than the one serve has noted.  An instance that
\* fails to end within 5 s, or a state file that cannot be read or removed, is an error.
StopProxify ==
  /\ phase = "stopProxify"
  /\ \/ /\ mine \in {"none", "other"} \/ record # mine
        /\ phase' = "exited" /\ UNCHANGED <<record, runs>>
     \/ /\ mine # "none" /\ record = mine
        /\ runs' = (runs /\ mine # "ours") /\ record' = "none"
        /\ phase' = "exited"
     \/ /\ mine # "none" /\ Errors
        /\ runs' \in {runs, runs /\ ~(mine = "ours" /\ record = "ours")} /\ UNCHANGED record
        /\ phase' = "failed"
  /\ UNCHANGED <<controlVars, noted, mine, page>>

Shutdown ==
  \/ PeekActive \/ ArchiveActive \/ DrainControl \/ DrainWeb \/ StopProxify

Next ==
  \/ EnsureProxify \/ ReadBack \/ Setup
  \/ Serve \/ OpenPage \/ ClosePage \/ OtherProxify \/ WebBreaks
  \/ Signal \/ Shutdown

Spec == Init /\ [][Next]_vars

\* serveCommand's own steps end.  The waits for the servers and for Proxify have a
\* deadline; the archiving stop waits for the store's lock without one, and returns
\* because every call on the store does (EveryCallReturns of SessionStore).
FairSpec == Spec /\ WF_vars(Shutdown)

-----------------------------------------------------------------------------
ServeStopsProxifyNow ==
  /\ phase = "stopProxify" /\ phase' # phase
  /\ runs /\ ~runs'

\* serve never stops its Proxify before the session it found active is over: a
\* failed archiving leaves the proxy and the raw data alone (serve.go:184-194, 309).
ArchivedBeforeProxifyStops ==
  [][ServeStopsProxifyNow => noted = None \/ outcome[noted] \in Over]_vars

\* A signalled serve ends, also while handlers and event streams are open.
SignalEnds == phase = "peek" ~> phase \in Ended

\* cli/README.md:260: the Proxify serve started is stopped when serve exits.
ExitStopsProxify == phase \in Ended => ~runs

-----------------------------------------------------------------------------
(* The inductive invariant behind the safety properties.                   *)

\* The session the shutdown found active was opened, and is over once the archiving
\* has succeeded: it was the one that was archived, or somebody had ended it before.
NotedInv ==
  noted # None =>
    /\ outcome[noted] # "new"
    /\ phase \in {"drainControl", "drainWeb", "stopProxify", "exited"} => outcome[noted] \in Over

ServeInv == TypeOK /\ ControlInv /\ NotedInv
=============================================================================
