-------------------------------- MODULE Phone --------------------------------
(***************************************************************************)
(* One phone as the client of the control server: the activity             *)
(* (MainActivity.kt), the quick-settings tile (CaptureTileService.kt) and  *)
(* the VPN service (HttpCaptureVpnService.kt) with its bootstrap thread    *)
(* and tun2proxy.  They share the settings that survive the process (the   *)
(* captureId of the active capture, VPN-only mode), the flags of VpnState, *)
(* and the intents and broadcasts between them.                            *)
(*                                                                         *)
(* A call of the phone is a job.  It is served by the handler of the same  *)
(* name in ControlServer, which goes on when the phone has given up.       *)
(***************************************************************************)
EXTENDS ControlServer, Sequences

CONSTANTS MaxBoots,  \* VPN starts
          MaxFaults, \* timeouts, repeated requests, deaths of tun2proxy or of the
                     \* app, system stops, impatient taps, steps of other terminals,
                     \* starts that fail with their session active
          MaxQueue   \* intents that wait for the VPN service

ASSUME PhoneAssumption == {MaxBoots, MaxFaults, MaxQueue} \subseteq Nat

VARIABLES
  active,   \* saved activeCaptureId
  vpnOnly,  \* saved vpnOnlyMode
  job,      \* calls under way
  asking,   \* the system asks for the VPN permission, for a capture or VPN-only
  fallback, \* the activity offers VPN-only mode
  shown,    \* runningState of the activity
  intents,  \* to the VPN service
  news,     \* broadcasts to the activity
  running,  \* VpnState.running
  boot,     \* the bootstrap thread; "connect" is starting = true
  live,     \* tun2proxy runs of the service
  ending,   \* those that were told to stop and have not ended
  boots, faults,
  trouble   \* history: what went wrong that the app does not handle

settings == <<active, vpnOnly>>
activityVars == <<asking, fallback, shown>>
serviceVars == <<running, boot, live, ending, boots>>
phoneVars == <<settings, job, activityVars, intents, news, serviceVars, faults, trouble>>
vars == <<controlVars, phoneVars>>

Idle == [ok |-> TRUE, id |-> None, status |-> "idle"]

Jobs == [kind : {"start", "stop", "confirm", "abandon", "resume", "tileStart", "tileStop", "tileConfirm"},
         step : {"status", "seen", "send", "wait", "done"},
         id : Sessions \cup {None}, answer : Answers \cup {Idle, None}]

\* None is no call and no answer.
ASSUME CallAssumption == None \notin Jobs \cup {Idle}

Up == [running |-> TRUE, error |-> FALSE]
Down(error) == [running |-> FALSE, error |-> error]

TypeOK ==
  /\ ControlTypeOK
  /\ active \in Sessions \cup {None} /\ vpnOnly \in BOOLEAN
  /\ job \in [Handlers -> Jobs \cup {None}]
  /\ \A h \in Handlers : job[h] # None /\ pc[h] # "idle" => job[h].step \in {"wait", "done"}
  /\ asking \in {"no", "capture", "vpnOnly"} /\ fallback \in BOOLEAN /\ shown \in BOOLEAN
  /\ intents \in Seq({"start", "stop"})
  /\ news \in Seq({Up, Down(FALSE), Down(TRUE)})
  /\ running \in BOOLEAN /\ boot \in {"none", "connect", "up", "closed", "detached"}
  /\ live \in 0..MaxBoots /\ ending \in 0..MaxBoots
  /\ boots \in 0..MaxBoots /\ faults \in 0..MaxFaults
  /\ trouble \in BOOLEAN

Init ==
  /\ ControlInit
  /\ active = None /\ vpnOnly = FALSE
  /\ job = [h \in Handlers |-> None]
  /\ asking = "no" /\ fallback = FALSE /\ shown = FALSE
  /\ intents = <<>> /\ news = <<>>
  /\ running = FALSE /\ boot = "none" /\ live = 0 /\ ending = 0
  /\ boots = 0 /\ faults = 0 /\ trouble = FALSE

\* Nothing is under way on the phone or for it.
Settled ==
  /\ \A h \in Handlers : job[h] = None /\ pc[h] = "idle"
  /\ intents = <<>> /\ news = <<>> /\ asking = "no"
  /\ boot = "none" /\ ending = 0

Fault ==
  /\ faults < MaxFaults
  /\ faults' = faults + 1
  /\ trouble' = TRUE

Well == UNCHANGED <<faults, trouble>>

\* The user does something; a patient one waits until all is settled.
Tap ==
  /\ Len(intents) < MaxQueue
  /\ IF Settled THEN Well ELSE Fault

Begin(h, kind, step, id) ==
  /\ job[h] = None /\ pc[h] = "idle"
  /\ job' = [job EXCEPT ![h] = [kind |-> kind, step |-> step, id |-> id, answer |-> None]]
End(h) == job' = [job EXCEPT ![h] = None]
Ask(intent) == intents' = Append(intents, intent)
Save(id, only) == active' = id /\ vpnOnly' = only

-----------------------------------------------------------------------------
(* The calls.                                                              *)

WireKind(kind) ==
  CASE kind \in {"start", "tileStart"} -> "start"
    [] kind \in {"stop", "tileStop"} -> "stop"
    [] kind \in {"confirm", "tileConfirm"} -> "confirm"
    [] kind = "abandon" -> "abandon"

\* ControlClient.post and captureCommand: a new commandId for every call.
Send(h) ==
  /\ job[h] # None /\ job[h].step = "send"
  /\ \E c \in Commands :
       /\ asked[c] = None
       /\ LET kind == WireKind(job[h].kind)
          IN  Receive(h, [command |-> c, kind |-> kind,
                          want |-> IF kind = "start" THEN None ELSE job[h].id])
  /\ job' = [job EXCEPT ![h].step = "wait"]
  /\ UNCHANGED <<settings, activityVars, intents, news, serviceVars>> /\ Well

\* handleStatus reads the session file without the store's lock.
Status(h) ==
  /\ job[h] # None /\ job[h].step = "status"
  /\ job' = [job EXCEPT ![h].step = "seen",
                        ![h].answer = IF open = None THEN Idle ELSE OK(open, status[open])]
  /\ UNCHANGED <<controlVars, settings, activityVars, intents, news, serviceVars>> /\ Well

\* The answer to a start is an error although the session is active.
StartLost(h) == pc[h] = "start" /\ open' # open /\ ~res'[h].ok

\* The server works; its answer reaches the job that waits for it.
Serve(h) ==
  /\ HandlerStep(h)
  /\ job' = IF job[h] # None /\ job[h].step = "wait" /\ pc[h] = "reply"
            THEN [job EXCEPT ![h].step = "done", ![h].answer = res[h]] ELSE job
  /\ UNCHANGED <<settings, activityVars, intents, news, serviceVars>>
  /\ IF StartLost(h) THEN Fault ELSE Well

\* The network, the 8 s read timeout, or the end of the activity's scope: the job
\* fails, whether or not the server has seen it.
GiveUp(h) ==
  /\ Fault
  /\ job[h] # None
  /\ \/ job[h].step = "status" /\ job' = [job EXCEPT ![h].step = "seen"]
     \/ job[h].step \in {"send", "wait"} /\ job' = [job EXCEPT ![h].step = "done"]
  /\ UNCHANGED <<controlVars, settings, activityVars, intents, news, serviceVars>>

\* A request is delivered once more.
Duplicate(h) ==
  /\ job[h] = None
  /\ \E c \in Commands : asked[c] # None /\ Receive(h, asked[c])
  /\ faults < MaxFaults /\ faults' = faults + 1
  /\ UNCHANGED <<settings, job, activityVars, intents, news, serviceVars, trouble>>

\* Another terminal, as in ControlServer.
OtherTerminal ==
  /\ Terminal
  /\ Fault
  /\ UNCHANGED <<settings, job, activityVars, intents, news, serviceVars>>

-----------------------------------------------------------------------------
(* The activity.                                                           *)

TapStart(h) ==
  /\ ~shown /\ asking = "no"
  /\ Begin(h, "start", "send", None)
  /\ Tap /\ UNCHANGED <<controlVars, settings, activityVars, intents, news, serviceVars>>

\* stopVpn: the VPN is stopped at once, the computer is told if it knows of a capture.
TapStop(h) ==
  /\ shown
  /\ Ask("stop")
  /\ IF vpnOnly \/ active = None
     THEN vpnOnly' = FALSE /\ UNCHANGED <<active, job>>
     ELSE Begin(h, "stop", "send", active) /\ UNCHANGED settings
  /\ Tap /\ UNCHANGED <<controlVars, activityVars, news, serviceVars>>

\* startVpn, directly or after the system has asked the user.
StartVpn(purpose) ==
  \/ Ask("start") /\ asking' = "no"
  \/ asking' = purpose /\ UNCHANGED intents

TapVpnOnly ==
  /\ fallback /\ ~shown /\ asking = "no"
  /\ Save(None, TRUE)
  /\ fallback' = FALSE
  /\ StartVpn("vpnOnly")
  /\ Tap /\ UNCHANGED <<controlVars, job, shown, news, serviceVars>>

Granted ==
  /\ asking # "no"
  /\ asking' = "no" /\ Ask("start")
  /\ UNCHANGED <<controlVars, settings, job, fallback, shown, news, serviceVars>> /\ Well

\* abandonDesktopCapture.
Abandon(h, only) ==
  IF active = None \/ only THEN UNCHANGED job ELSE Begin(h, "abandon", "send", active)

\* Mutant: the capture is not abandoned when the user refuses the permission.
DeniedQuietly(h) ==
  /\ asking # "no"
  /\ asking' = "no"
  /\ vpnOnly' = IF asking = "vpnOnly" THEN FALSE ELSE vpnOnly
  /\ UNCHANGED <<controlVars, active, job, fallback, shown, intents, news, serviceVars>> /\ Well

\* handleVpnPermissionDenied.
Denied(h) ==
  /\ asking # "no"
  /\ asking' = "no"
  /\ IF asking = "vpnOnly" THEN vpnOnly' = FALSE /\ UNCHANGED job
     ELSE Abandon(h, vpnOnly) /\ UNCHANGED vpnOnly
  /\ UNCHANGED <<controlVars, active, fallback, shown, intents, news, serviceVars>> /\ Well

\* stateReceiver: confirm when the VPN runs, abandon after an error.
Notice(h) ==
  /\ news # <<>>
  /\ LET n == Head(news)
     IN  /\ shown' = n.running
         /\ IF n.running
            THEN /\ IF active = None \/ vpnOnly THEN UNCHANGED job
                    ELSE Begin(h, "confirm", "send", active)
                 /\ UNCHANGED vpnOnly
            ELSE IF n.error THEN vpnOnly' = FALSE /\ Abandon(h, FALSE)
            ELSE UNCHANGED <<vpnOnly, job>>
  /\ news' = Tail(news)
  /\ UNCHANGED <<controlVars, active, asking, fallback, intents, serviceVars>> /\ Well

\* No activity is there to receive the broadcast.
Unnoticed ==
  /\ Fault
  /\ news # <<>>
  /\ news' = Tail(news)
  /\ UNCHANGED <<controlVars, settings, job, activityVars, intents, serviceVars>>

\* onResume and refreshDesktopStatus.
OpenApp(h) ==
  /\ shown' = running
  /\ IF active = None \/ vpnOnly THEN UNCHANGED job ELSE Begin(h, "resume", "status", active)
  /\ Tap /\ UNCHANGED <<controlVars, settings, asking, fallback, intents, news, serviceVars>>

Resumed(h) ==
  /\ job[h] # None /\ job[h].kind = "resume" /\ job[h].step = "seen"
  /\ LET seen == job[h].answer
     IN  /\ active' = IF seen = Idle /\ ~shown THEN None ELSE active
         /\ job' = [job EXCEPT ![h] =
              IF seen # None /\ seen.id = job[h].id /\ seen.status = "starting" /\ shown
                 /\ active # None /\ ~vpnOnly
              THEN [job[h] EXCEPT !.kind = "confirm", !.step = "send", !.id = active, !.answer = None]
              ELSE None]
  /\ UNCHANGED <<controlVars, vpnOnly, activityVars, intents, news, serviceVars>> /\ Well

\* An answer, or none, after a call of the activity.
Answered(h) ==
  /\ job[h] # None /\ job[h].step = "done"
  /\ job[h].kind \in {"start", "stop", "confirm", "abandon"}
  /\ LET ok == job[h].answer # None /\ job[h].answer.ok
         kind == job[h].kind
     IN  CASE kind = "start" /\ ok ->
                /\ Save(job[h].answer.id, FALSE)
                /\ fallback' = FALSE
                /\ StartVpn("capture") /\ Well
           [] kind = "start" /\ ~ok ->
                fallback' = TRUE /\ UNCHANGED <<settings, asking, intents>> /\ Well
           [] kind \in {"stop", "abandon"} /\ ok ->
                Save(None, FALSE) /\ UNCHANGED <<asking, fallback, intents>> /\ Well
           [] OTHER ->
                /\ trouble' = IF ok THEN trouble ELSE TRUE
                /\ UNCHANGED <<settings, asking, fallback, intents, faults>>
  /\ End(h)
  /\ UNCHANGED <<controlVars, shown, news, serviceVars>>

-----------------------------------------------------------------------------
(* The tile.                                                               *)

TapTile(h) ==
  /\ IF running
     THEN IF vpnOnly \/ active = None
          THEN Ask("stop") /\ vpnOnly' = FALSE /\ UNCHANGED <<active, job>>
          ELSE Begin(h, "tileStop", "status", active) /\ UNCHANGED <<settings, intents>>
     ELSE Begin(h, "tileStart", "status", active) /\ UNCHANGED <<settings, intents>>
  /\ Tap /\ UNCHANGED <<controlVars, activityVars, news, serviceVars>>

\* Mutant: the tile takes any session of the computer for its own.
TileStartAny(h) ==
  /\ job[h] # None /\ job[h].kind = "tileStart" /\ job[h].step = "seen"
  /\ LET seen == job[h].answer
     IN  \/ /\ seen = Idle
            /\ active' = None
            /\ job' = [job EXCEPT ![h].step = "send", ![h].answer = None]
         \/ /\ seen \notin {Idle, None}
            /\ job' = [job EXCEPT ![h].step = "done"] /\ UNCHANGED active
         \/ /\ seen = None
            /\ End(h) /\ UNCHANGED active
  /\ UNCHANGED <<controlVars, vpnOnly, activityVars, intents, news, serviceVars>> /\ Well

\* startOrAttachDesktopCapture: start when the computer is idle, attach to the
\* capture the phone knows, refuse any other.
TileStart(h) ==
  /\ job[h] # None /\ job[h].kind = "tileStart" /\ job[h].step = "seen"
  /\ LET seen == job[h].answer
     IN  \/ /\ seen = Idle
            /\ active' = None
            /\ job' = [job EXCEPT ![h].step = "send", ![h].answer = None]
         \/ /\ seen \notin {Idle, None} /\ seen.id = job[h].id
            /\ job' = [job EXCEPT ![h].step = "done"] /\ UNCHANGED active
         \/ /\ seen = None
            /\ End(h) /\ UNCHANGED active
         \/ /\ seen \notin {Idle, None} /\ seen.id # job[h].id
            /\ End(h) /\ UNCHANGED active
  /\ UNCHANGED <<controlVars, vpnOnly, activityVars, intents, news, serviceVars>> /\ Well

\* The VPN is asked for and the capture confirmed at once.
TileStarted(h) ==
  /\ job[h] # None /\ job[h].kind = "tileStart" /\ job[h].step = "done"
  /\ LET a == job[h].answer
     IN  IF a # None /\ a.ok
         THEN /\ Save(a.id, FALSE) /\ Ask("start")
              /\ job' = [job EXCEPT ![h] =
                   IF a.status = "starting"
                   THEN [kind |-> "tileConfirm", step |-> "send", id |-> a.id, answer |-> None]
                   ELSE None]
         ELSE End(h) /\ UNCHANGED <<settings, intents>>
  /\ UNCHANGED <<controlVars, activityVars, news, serviceVars>> /\ Well

TileConfirmed(h) ==
  /\ job[h] # None /\ job[h].kind = "tileConfirm" /\ job[h].step = "done"
  /\ End(h)
  /\ trouble' = IF job[h].answer # None /\ job[h].answer.ok THEN trouble ELSE TRUE
  /\ UNCHANGED <<controlVars, settings, activityVars, intents, news, serviceVars, faults>>

\* stopFromTile, once the computer's state is known or is not: the VPN stops in
\* any case, the capture only when it is the phone's.
TileStop(h) ==
  /\ job[h] # None /\ job[h].kind = "tileStop" /\ job[h].step = "seen"
  /\ LET seen == job[h].answer
     IN  \/ seen = Idle /\ Save(None, FALSE) /\ End(h) /\ Ask("stop")
         \/ /\ seen \notin {Idle, None} /\ seen.id = job[h].id
            /\ job' = [job EXCEPT ![h].step = "send", ![h].answer = None]
            /\ Ask("stop") /\ UNCHANGED settings
         \/ /\ seen \notin {Idle, None} /\ seen.id # job[h].id
            /\ End(h) /\ intents' = intents \o <<"stop", "stop">> /\ UNCHANGED settings
         \/ seen = None /\ End(h) /\ Ask("stop") /\ UNCHANGED settings
  /\ UNCHANGED <<controlVars, activityVars, news, serviceVars>> /\ Well

\* Mutant: a capture that was stopped stays the active one.
TileStoppedKeeps(h) ==
  /\ job[h] # None /\ job[h].kind = "tileStop" /\ job[h].step = "done"
  /\ LET ok == job[h].answer # None /\ job[h].answer.ok
     IN  IF ok THEN UNCHANGED <<settings, intents, trouble>>
         ELSE Ask("stop") /\ trouble' = TRUE /\ UNCHANGED settings
  /\ End(h)
  /\ UNCHANGED <<controlVars, activityVars, news, serviceVars, faults>>

TileStopped(h) ==
  /\ job[h] # None /\ job[h].kind = "tileStop" /\ job[h].step = "done"
  /\ LET ok == job[h].answer # None /\ job[h].answer.ok
     IN  IF ok THEN Save(None, FALSE) /\ UNCHANGED <<intents, trouble>>
         ELSE Ask("stop") /\ trouble' = TRUE /\ UNCHANGED settings
  /\ End(h)
  /\ UNCHANGED <<controlVars, activityVars, news, serviceVars, faults>>

-----------------------------------------------------------------------------
(* The VPN service.                                                        *)

\* A start while the VPN starts or runs is ignored.  One that would overlap the last
\* steps of a bootstrap thread that was stopped comes after them here.  The service
\* does not order the two: it tests only `starting` and `running`, so a start between
\* a stop and the end of the stopped thread runs a second thread beside the first,
\* and each may then take the other one's vpnInterface.  That window is left out.
OnStart ==
  /\ intents # <<>> /\ Head(intents) = "start"
  /\ running \/ boot \in {"none", "connect"}
  /\ intents' = Tail(intents)
  /\ IF ~running /\ boot = "none"
     THEN boots < MaxBoots /\ boots' = boots + 1 /\ boot' = "connect"
     ELSE UNCHANGED <<boots, boot>>
  /\ UNCHANGED <<controlVars, settings, job, activityVars, news, running, live, ending>> /\ Well

\* stopCapture.  It does not reach a bootstrap thread that is still connecting.
StopCapture ==
  /\ live' = 0 /\ ending' = ending + live
  /\ boot' = IF boot = "up" THEN "closed" ELSE boot
  /\ running' = FALSE
  /\ news' = Append(news, Down(FALSE))

OnStop ==
  /\ intents # <<>> /\ Head(intents) = "stop"
  /\ intents' = Tail(intents)
  /\ StopCapture
  /\ UNCHANGED <<controlVars, settings, job, activityVars, boots>> /\ Well

\* The proxy cannot be reached, or the VPN not be established.
BootFails ==
  /\ boot = "connect"
  /\ boot' = "none" /\ running' = FALSE
  /\ news' = Append(news, Down(TRUE))
  /\ UNCHANGED <<controlVars, settings, job, activityVars, intents, live, ending, boots>> /\ Well

Establish ==
  /\ boot = "connect"
  /\ boot' = "up" /\ running' = TRUE
  /\ news' = Append(news, Up)
  /\ UNCHANGED <<controlVars, settings, job, activityVars, intents, live, ending, boots>> /\ Well

Detach ==
  /\ boot = "up"
  /\ boot' = "detached"
  /\ UNCHANGED <<controlVars, settings, job, activityVars, intents, news, running, live, ending, boots>>
  /\ Well

RunTunnel ==
  /\ boot = "detached"
  /\ boot' = "none" /\ live' = live + 1
  /\ UNCHANGED <<controlVars, settings, job, activityVars, intents, news, running, ending, boots>> /\ Well

\* Tun2proxy.run returns in its thread, which then clears VpnState, whichever run
\* the state is about.
WorkerEnds(error) ==
  IF running THEN running' = FALSE /\ news' = Append(news, Down(error))
  ELSE UNCHANGED <<running, news>>

TunnelEnds ==
  /\ ending > 0 /\ ending' = ending - 1
  /\ \E error \in BOOLEAN : WorkerEnds(error)
  /\ UNCHANGED <<controlVars, settings, job, activityVars, intents, live, boot, boots>> /\ Well

\* It fails by itself: an error the app handles like a VPN that did not start.
TunnelFails ==
  /\ live > 0 /\ live' = live - 1
  /\ faults < MaxFaults /\ faults' = faults + 1
  /\ WorkerEnds(TRUE)
  /\ UNCHANGED <<controlVars, settings, job, activityVars, intents, ending, boot, boots, trouble>>

\* The stop button of the notification.
TapNotification ==
  /\ running /\ Len(intents) < MaxQueue
  /\ Ask("stop")
  /\ trouble' = TRUE
  /\ UNCHANGED <<controlVars, settings, job, activityVars, news, serviceVars, faults>>

\* The system revokes the VPN or destroys the service.
SystemStop ==
  /\ Fault
  /\ running
  /\ StopCapture
  /\ UNCHANGED <<controlVars, settings, job, activityVars, intents, boots>>

\* The process of the app ends, killed or by the null vpnInterface that a stop left
\* to the bootstrap thread.  The settings stay.
AppDies ==
  /\ \/ Fault
     \/ boot = "closed" /\ trouble' = TRUE /\ UNCHANGED faults
  /\ job' = [h \in Handlers |-> None]
  /\ asking' = "no" /\ fallback' = FALSE /\ shown' = FALSE
  /\ intents' = <<>> /\ news' = <<>>
  /\ running' = FALSE /\ boot' = "none" /\ live' = 0 /\ ending' = 0
  /\ UNCHANGED <<controlVars, settings, boots>>

Service ==
  \/ OnStart \/ OnStop \/ BootFails \/ Establish \/ Detach \/ RunTunnel
  \/ TunnelEnds \/ TunnelFails \/ SystemStop \/ AppDies

Activity(h) ==
  \/ TapStart(h) \/ TapStop(h) \/ Denied(h) \/ Notice(h) \/ OpenApp(h) \/ Resumed(h) \/ Answered(h)

Tile(h) ==
  \/ TapTile(h) \/ TileStart(h) \/ TileStarted(h) \/ TileConfirmed(h) \/ TileStop(h) \/ TileStopped(h)

Call(h) == Send(h) \/ Status(h) \/ Serve(h) \/ GiveUp(h) \/ Duplicate(h)

Next ==
  \/ \E h \in Handlers : Call(h) \/ Activity(h) \/ Tile(h)
  \/ TapVpnOnly \/ Granted \/ Unnoticed \/ TapNotification
  \/ Service \/ OtherTerminal

Spec == Init /\ [][Next]_vars

-----------------------------------------------------------------------------
\* The phone follows, confirms and abandons only sessions that it started itself,
\* whatever answers were lost and whatever sessions other terminals run
\* (USAGE.md:81: the tile takes over no session it does not know).
ActsOnOwnSessions ==
  /\ active # None => startedBy[active] # None
  /\ \A s \in Sessions : outcome[s] = "abandoned" => startedBy[s] # None

\* When all is settled, phone and computer agree: a running VPN records the active
\* capture or is VPN-only, and without a VPN no capture is open.  So it is after
\* every refusal, denied permission and failure of the VPN the app handles; not
\* after lost answers, impatient users, a start that fails on the computer with its
\* session active, and stops the app does not hear of
\* (README.md:133, cli/README.md:269).
InStep ==
  ~trouble /\ Settled =>
    /\ shown = running
    /\ running <=> live > 0
    /\ IF running /\ ~vpnOnly THEN active # None /\ open = active /\ status[active] = "recording"
       ELSE open = None /\ active = None

-----------------------------------------------------------------------------
(* The inductive invariant behind ActsOnOwnSessions and the properties of  *)
(* ControlServer.                                                          *)

\* The phone has started the session, and the start was answered.
Own(s) == s \in Sessions /\ startedBy[s] # None /\ commands[startedBy[s]] # None

\* What call j of the phone, served by handler h, is about, and how far it is.
JobInv(h, j) ==
  /\ j.id # None => Own(j.id)
  /\ j.kind \notin {"start", "tileStart"} => j.id # None
  /\ j.kind = "resume" => j.step \in {"status", "seen"}
  /\ j.step \in {"status", "send", "wait"} => j.answer = None
  /\ j.step = "wait" /\ pc[h] # "idle" => req[h].kind = WireKind(j.kind)
  /\ j.step = "done" /\ j.answer # None =>
       /\ pc[h] = "idle" /\ j.answer \in Answers
       /\ j.kind \in {"start", "tileStart"} /\ j.answer.ok => Own(j.answer.id)

\* Only the phone's own sessions are named in its requests.
OwnInv ==
  /\ active # None => Own(active)
  /\ \A h \in Handlers : \A j \in {job[h]} \ {None} : JobInv(h, j)
  /\ \A c \in Commands : asked[c] # None /\ asked[c].kind = "abandon" => startedBy[asked[c].want] # None
  /\ ActsOnOwnSessions

\* Every tunnel was booted.
BootInv ==
  /\ live + ending <= boots
  /\ boot # "none" => live + ending < boots

PhoneInv == TypeOK /\ ControlInv /\ OwnInv /\ BootInv

-----------------------------------------------------------------------------
(* The inductive invariant behind InStep: what is still going to happen    *)
(* before all is settled, as long as nothing went wrong.                   *)

Starters == {"start", "tileStart"}
Confirmers == {"confirm", "tileConfirm"}
Closers == {"stop", "abandon", "tileStop"}

UnderWay(kinds) == \E h \in Handlers : job[h] # None /\ job[h].kind \in kinds

\* A command that was asked for is answered, or a handler is at it.
AnsweredInv == \A c \in Commands : asked[c] # None /\ commands[c] = None => Busy(c) # {}

\* The phone waits for every request that is served, unless it was answered before;
\* a call that is over has had its answer.
Served(h, j) ==
  /\ pc[h] # "idle" =>
       IF commands[req[h].command] # None THEN pc[h] = "cache" ELSE j # None /\ j.step = "wait"
  /\ j # None /\ j.step \in {"seen", "done"} => j.answer # None

\* The server has carried out call j, which h serves.
Accepted(h, j) ==
  \/ j.step = "wait" /\ pc[h] = "reply" /\ res[h].ok
  \/ j.step = "done" /\ j.answer.ok

\* A call is about the open session, if there is one, and what it was told is still so.
CallTrue(h, j) ==
  /\ open # None /\ j.kind \notin Starters => j.id = open
  /\ j.kind \in Closers /\ Accepted(h, j) => open = None
  /\ j.kind \in Confirmers /\ Accepted(h, j) /\ open # None => status[open] = "recording"
  /\ j.step = "seen" => IF j.answer = Idle THEN open = None ELSE j.answer.id = j.id

CallsInv == \A h \in Handlers : Served(h, job[h]) /\ (job[h] # None => CallTrue(h, job[h]))

\* The activity shows what the last broadcast says.
Told == IF news = <<>> THEN shown <=> running ELSE news[Len(news)].running <=> running

FailureTold == \E i \in 1..Len(news) : news[i] = Down(TRUE)

NoVpn == ~running /\ live = 0 /\ ending = 0 /\ news = <<>>

\* The session that start call j has opened so far.
Started(h, j) ==
  IF pc[h] = "markStarting" \/ (j.step = "wait" /\ pc[h] = "reply" /\ res[h].ok) THEN res[h].id
  ELSE IF j.step = "done" /\ j.answer.ok THEN j.answer.id
  ELSE None

\* The computer is asked to start a capture, and nothing else is under way.
Calling ==
  /\ NoVpn /\ asking = "no" /\ intents = <<>> /\ boot = "none" /\ active = None
  /\ \E h \in Handlers :
       /\ job[h] # None /\ job[h].kind \in Starters
       /\ \A g \in Handlers \ {h} : job[g] = None
       /\ open = Started(h, job[h])
       /\ job[h].step = "seen" => job[h].answer = Idle

\* The phone follows the open capture, unless it is in VPN-only mode.
Follows == IF vpnOnly THEN active = None /\ open = None ELSE active # None /\ open = active

\* The capture was confirmed or is going to be: the activity confirms when it hears
\* that the VPN runs.
Confirmed == vpnOnly \/ status[active] = "recording" \/ UnderWay(Confirmers) \/ news # <<>>

\* The VPN is on its way, from the question of the system to the running tunnel.
Booting ==
  /\ \A h \in Handlers : job[h] # None => job[h].kind \in Confirmers
  /\ Follows
  /\ \/ /\ NoVpn
        /\ \/ asking = (IF vpnOnly THEN "vpnOnly" ELSE "capture") /\ intents = <<>> /\ boot = "none"
           \/ asking = "no" /\ intents = <<"start">> /\ boot = "none"
           \/ asking = "no" /\ intents = <<>> /\ boot = "connect"
     \/ /\ asking = "no" /\ intents = <<>> /\ boot \in {"up", "detached"}
        /\ running /\ live = 0 /\ ending = 0 /\ news \in {<<>>, <<Up>>} /\ Confirmed

\* The VPN is about to be stopped.
Stopping ==
  \/ intents # <<>>
  \/ \E h \in Handlers : job[h] # None /\ job[h].kind = "tileStop" /\ job[h].step \in {"status", "seen"}

\* The VPN runs, for the open capture or until it is stopped.
Runs ==
  /\ live = 1 /\ ending = 0 /\ news \in Seq({Up})
  /\ Stopping \/ (~UnderWay(Closers) /\ Follows /\ Confirmed)

\* It does not, and a capture that is open is going to be closed.
Stopped == live = 0 /\ (open # None => UnderWay(Closers) \/ FailureTold)

Booted ==
  /\ ~UnderWay(Starters) /\ asking = "no" /\ boot = "none" /\ intents \in Seq({"stop"})
  /\ open \in {None, active}
  /\ open = None /\ active # None => UnderWay(Closers)
  /\ open # None /\ intents # <<>> => UnderWay(Closers)
  /\ IF running THEN Runs ELSE Stopped

Calm == CallsInv /\ Told /\ (Calling \/ Booting \/ Booted)

InStepInv == PhoneInv /\ (~Overlap => AnsweredInv /\ (~trouble => Calm))
=============================================================================
