----------------------------- MODULE PhoneProofs -----------------------------
(***************************************************************************)
(* Proofs about Phone for any number of calls at a time, VPN starts and    *)
(* faults: the phone names, follows and abandons only sessions it started, *)
(* and so every answer of the control server (ControlServerProofs) stays   *)
(* true for it; and phone and computer agree whenever all is settled.      *)
(***************************************************************************)
EXTENDS Phone, ControlServerProofs

\* The bounds are numbers.
LEMMA Bounds == MaxBoots \in Nat /\ MaxFaults \in Nat /\ MaxQueue \in Nat
BY PhoneAssumption

-----------------------------------------------------------------------------
(* The calls and the sessions they name.                                   *)

\* What the steps of the phone keep of its calls and the session it follows.
CallInv ==
  /\ job \in [Handlers -> Jobs \cup {None}]
  /\ \A h \in Handlers : job[h] # None /\ pc[h] # "idle" => job[h].step \in {"wait", "done"}
  /\ active \in Sessions \cup {None}
  /\ active # None => Own(active)
  /\ \A h \in Handlers : \A j \in {job[h]} \ {None} : JobInv(h, j)

\* A call that is under way is a call.
LEMMA JobFields ==
  ASSUME NEW j \in Jobs
  PROVE  /\ j.kind \in {"start", "stop", "confirm", "abandon", "resume", "tileStart", "tileStop", "tileConfirm"}
         /\ j.step \in {"status", "seen", "send", "wait", "done"}
         /\ j.id \in Sessions \cup {None}
         /\ j.answer \in Answers \cup {Idle, None}
BY DEF Jobs

\* A step of the phone that leaves the server alone and replaces one call.
LEMMA ReplaceCall ==
  ASSUME CallInv, UNCHANGED controlVars, NEW h \in Handlers, NEW x \in Jobs \cup {None},
         job' = [job EXCEPT ![h] = x],
         x # None => JobInv(h, x) /\ (pc[h] # "idle" => x.step \in {"wait", "done"}),
         NEW a \in Sessions \cup {None}, active' = a, a # None => Own(a)
  PROVE  CallInv'
<1>1. \A s : Own(s) => Own(s)'
  BY DEF Own, controlVars
<1>2. \A g \in Handlers : \A j \in Jobs : JobInv(g, j) => JobInv(g, j)'
  BY DEF JobInv, Own, controlVars, handlerVars
<1>3. ASSUME NEW g \in Handlers, NEW j \in {job'[g]} \ {None} PROVE JobInv(g, j)'
  <2>1. CASE g = h
    BY <1>2, <1>3, <2>1, CallAssumption DEF CallInv
  <2>2. CASE g # h
    <3>1. j = job[g] /\ j \in Jobs
      BY <1>3, <2>2 DEF CallInv
    <3>2. QED
      BY <1>2, <1>3, <3>1 DEF CallInv
  <2>3. QED
    BY <2>1, <2>2
<1>4. job' \in [Handlers -> Jobs \cup {None}]
  BY DEF CallInv
<1>5. \A g \in Handlers : job'[g] # None /\ pc'[g] # "idle" => job'[g].step \in {"wait", "done"}
  BY DEF CallInv, controlVars, handlerVars
<1>6. active' # None => Own(active)'
  BY DEF Own, controlVars
<1>7. QED
  BY <1>3, <1>4, <1>5, <1>6 DEF CallInv

\* One that replaces none.
LEMMA KeepCalls ==
  ASSUME CallInv, UNCHANGED <<controlVars, job>>,
         NEW a \in Sessions \cup {None}, active' = a, a # None => Own(a)
  PROVE  CallInv'
<1>1. \A g \in Handlers : \A j \in Jobs : JobInv(g, j) => JobInv(g, j)'
  BY DEF JobInv, Own, controlVars, handlerVars
<1>2. \A g \in Handlers : \A j \in {job'[g]} \ {None} : JobInv(g, j)'
  BY <1>1 DEF CallInv
<1>3. active' # None => Own(active)'
  BY DEF Own, controlVars
<1>4. QED
  BY <1>2, <1>3 DEF CallInv, controlVars, handlerVars

\* A new call names the session it is about, which is one of the phone.
LEMMA BeginCall ==
  ASSUME CallInv, UNCHANGED controlVars, NEW h \in Handlers, NEW id \in Sessions \cup {None},
         NEW kind \in {"start", "stop", "confirm", "abandon", "resume", "tileStart", "tileStop"},
         NEW step \in {"status", "send"},
         Begin(h, kind, step, id),
         id # None => Own(id),
         kind \notin {"start", "tileStart"} => id # None,
         kind = "resume" => step = "status",
         UNCHANGED active
  PROVE  CallInv'
<1>1. PICK x : x = [kind |-> kind, step |-> step, id |-> id, answer |-> None]
  OBVIOUS
<1>2. x \in Jobs /\ x.kind = kind /\ x.step = step /\ x.id = id /\ x.answer = None
  BY <1>1 DEF Jobs
<1>3. job' = [job EXCEPT ![h] = x] /\ pc[h] = "idle"
  BY <1>1 DEF Begin
<1>4. JobInv(h, x)
  BY <1>2 DEF JobInv
<1>5. active \in Sessions \cup {None} /\ (active # None => Own(active))
  BY DEF CallInv
<1>6. QED
  BY <1>2, <1>3, <1>4, <1>5, ReplaceCall

-----------------------------------------------------------------------------
(* What the activity and the tile do with their calls.                     *)

\* The steps of the phone at which the server does nothing.
LEMMA PhoneCalls ==
  ASSUME ControlInv, CallInv, NEW h \in Handlers,
         Activity(h) \/ Tile(h) \/ Status(h) \/ GiveUp(h)
  PROVE  CallInv'
<1> USE Nothing, CallAssumption
<1>1. \A j \in Jobs : job[h] = j => JobInv(h, j)
  BY DEF CallInv
<1>2. active \in Sessions \cup {None} /\ (active # None => Own(active))
  BY DEF CallInv
<1>3. job[h] # None => job[h] \in Jobs /\ job[h].id \in Sessions \cup {None}
  BY JobFields DEF CallInv
<1>4. ASSUME UNCHANGED <<controlVars, active>>, UNCHANGED job \/ End(h) PROVE CallInv'
  BY <1>2, <1>4, KeepCalls, ReplaceCall DEF End
<1>5. ASSUME UNCHANGED <<controlVars, active>>, active # None,
             NEW kind \in {"stop", "confirm", "abandon", "resume", "tileStart", "tileStop"},
             NEW step \in {"status", "send"}, kind = "resume" => step = "status",
             Begin(h, kind, step, active)
      PROVE  CallInv'
  BY <1>2, <1>5, BeginCall
<1>6. CASE TapStart(h)
  BY <1>6, BeginCall DEF TapStart, settings
<1>7. CASE TapStop(h) \/ Denied(h) \/ Notice(h)
  BY <1>4, <1>5, <1>7 DEF TapStop, Denied, Notice, Abandon, settings
<1>8. CASE OpenApp(h)
  BY <1>4, <1>5, <1>8 DEF OpenApp, settings
<1>9. CASE TapTile(h)
  <2>1. CASE Begin(h, "tileStart", "status", active) /\ UNCHANGED <<controlVars, active>>
    BY <1>2, <2>1, BeginCall
  <2>2. CASE Begin(h, "tileStop", "status", active) /\ active # None /\ UNCHANGED <<controlVars, active>>
    BY <1>5, <2>2
  <2>3. CASE UNCHANGED <<controlVars, job, active>>
    BY <1>4, <2>3
  <2>4. QED
    BY <1>9, <2>1, <2>2, <2>3 DEF TapTile, settings
<1>10. CASE Resumed(h)
  <2>1. /\ job[h] \in Jobs /\ UNCHANGED controlVars
        /\ active' = None \/ active' = active
        /\ job[h].step = "seen" /\ pc[h] = "idle"
    BY <1>3, <1>10 DEF Resumed, CallInv
  <2>2. CASE job' = [job EXCEPT ![h] = None]
    BY <1>2, <2>1, <2>2, ReplaceCall
  <2>3. CASE /\ active # None
             /\ job' = [job EXCEPT ![h] =
                  [job[h] EXCEPT !.kind = "confirm", !.step = "send", !.id = active, !.answer = None]]
    <3>1. PICK x : x = [job[h] EXCEPT !.kind = "confirm", !.step = "send", !.id = active, !.answer = None]
      OBVIOUS
    <3>2. x \in Jobs /\ x.kind = "confirm" /\ x.step = "send" /\ x.id = active /\ x.answer = None
      BY <1>2, <2>1, <3>1 DEF Jobs
    <3>3. JobInv(h, x)
      BY <1>2, <2>3, <3>2 DEF JobInv
    <3>4. QED
      BY <1>2, <2>1, <2>3, <3>1, <3>2, <3>3, ReplaceCall
  <2>4. QED
    BY <1>10, <2>2, <2>3 DEF Resumed
<1>11. CASE Answered(h)
  <2>1. job[h] \in Jobs /\ UNCHANGED controlVars /\ End(h)
    BY <1>3, <1>11 DEF Answered
  <2>2. CASE UNCHANGED active \/ active' = None
    BY <1>2, <2>1, <2>2, ReplaceCall DEF End
  <2>3. CASE job[h].kind = "start" /\ job[h].answer # None /\ job[h].answer.ok /\ active' = job[h].answer.id
    <3>1. Own(job[h].answer.id) /\ job[h].answer.id \in Sessions
      BY <1>1, <1>11, <2>1, <2>3 DEF Answered, JobInv, Own
    <3>2. QED
      BY <2>1, <2>3, <3>1, ReplaceCall DEF End
  <2>4. QED
    BY <1>11, <2>2, <2>3 DEF Answered, Save, settings
<1>12. CASE TileStart(h)
  <2>1. /\ job[h] \in Jobs /\ UNCHANGED controlVars /\ pc[h] = "idle"
        /\ active' = None \/ active' = active
        /\ job[h].kind = "tileStart" /\ job[h].step = "seen"
    BY <1>3, <1>12 DEF TileStart, CallInv
  <2>2. CASE job' = [job EXCEPT ![h].step = "send", ![h].answer = None]
    <3>1. PICK x : x = [job[h] EXCEPT !.step = "send", !.answer = None]
      OBVIOUS
    <3>2. /\ x \in Jobs /\ x.kind = "tileStart" /\ x.step = "send" /\ x.id = job[h].id /\ x.answer = None
      BY <2>1, <3>1 DEF Jobs
    <3>3. JobInv(h, x)
      BY <1>1, <2>1, <3>2 DEF JobInv
    <3>4. job' = [job EXCEPT ![h] = x]
      BY <2>2, <3>1
    <3>5. QED
      BY <1>2, <2>1, <3>2, <3>3, <3>4, ReplaceCall
  <2>3. CASE /\ job[h].answer \notin {Idle, None} /\ job[h].answer.id = job[h].id
             /\ job' = [job EXCEPT ![h].step = "done"]
    <3>1. PICK x : x = [job[h] EXCEPT !.step = "done"]
      OBVIOUS
    <3>2. /\ x \in Jobs /\ x.kind = "tileStart" /\ x.step = "done" /\ x.id = job[h].id
          /\ x.answer = job[h].answer
      BY <2>1, <3>1 DEF Jobs
    <3>3. x.answer \in Answers
      BY <2>1, <2>3, <3>2, JobFields
    <3>4. x.answer.ok => x.answer.id \in Sessions
      BY <3>3, AnswerFields
    <3>5. JobInv(h, x)
      BY <1>1, <2>1, <2>3, <3>2, <3>3, <3>4 DEF JobInv
    <3>6. job' = [job EXCEPT ![h] = x]
      BY <2>3, <3>1
    <3>7. QED
      BY <1>2, <2>1, <3>2, <3>5, <3>6, ReplaceCall
  <2>4. CASE End(h)
    BY <1>2, <2>1, <2>4, ReplaceCall DEF End
  <2>5. QED
    BY <1>12, <2>2, <2>3, <2>4 DEF TileStart
<1>13. CASE TileStarted(h)
  <2>1. /\ job[h] \in Jobs /\ UNCHANGED controlVars
        /\ job[h].kind = "tileStart" /\ job[h].step = "done"
    BY <1>3, <1>13 DEF TileStarted
  <2>2. CASE End(h) /\ UNCHANGED active
    BY <1>2, <2>1, <2>2, ReplaceCall DEF End
  <2>3. CASE job[h].answer # None /\ job[h].answer.ok
    <3>1. Own(job[h].answer.id) /\ job[h].answer.id \in Sessions /\ pc[h] = "idle"
      BY <1>1, <2>1, <2>3 DEF JobInv, Own
    <3>2. active' = job[h].answer.id
      BY <1>13, <2>3 DEF TileStarted, Save
    <3>3. CASE job' = [job EXCEPT ![h] = None]
      BY <2>1, <3>1, <3>2, <3>3, ReplaceCall
    <3>4. CASE job' = [job EXCEPT ![h] =
                 [kind |-> "tileConfirm", step |-> "send", id |-> job[h].answer.id, answer |-> None]]
      <4>1. PICK x : x = [kind |-> "tileConfirm", step |-> "send", id |-> job[h].answer.id, answer |-> None]
        OBVIOUS
      <4>2. /\ x \in Jobs /\ x.kind = "tileConfirm" /\ x.step = "send" /\ x.id = job[h].answer.id
            /\ x.answer = None
        BY <3>1, <4>1 DEF Jobs
      <4>3. JobInv(h, x)
        BY <3>1, <4>2 DEF JobInv
      <4>4. QED
        BY <2>1, <3>1, <3>2, <3>4, <4>1, <4>2, <4>3, ReplaceCall
    <3>5. QED
      BY <1>13, <2>3, <3>3, <3>4 DEF TileStarted
  <2>4. QED
    BY <1>13, <2>2, <2>3 DEF TileStarted, settings
<1>14. CASE TileConfirmed(h)
  BY <1>4, <1>14 DEF TileConfirmed, settings
<1>15. CASE TileStop(h)
  <2>1. /\ job[h] \in Jobs /\ UNCHANGED controlVars /\ pc[h] = "idle"
        /\ active' = None \/ active' = active
        /\ job[h].kind = "tileStop" /\ job[h].step = "seen"
    BY <1>3, <1>15 DEF TileStop, CallInv, Save, settings
  <2>2. CASE job' = [job EXCEPT ![h].step = "send", ![h].answer = None]
    <3>1. PICK x : x = [job[h] EXCEPT !.step = "send", !.answer = None]
      OBVIOUS
    <3>2. /\ x \in Jobs /\ x.kind = "tileStop" /\ x.step = "send" /\ x.id = job[h].id /\ x.answer = None
      BY <2>1, <3>1 DEF Jobs
    <3>3. JobInv(h, x)
      BY <1>1, <2>1, <3>2 DEF JobInv
    <3>4. job' = [job EXCEPT ![h] = x]
      BY <2>2, <3>1
    <3>5. QED
      BY <1>2, <2>1, <3>2, <3>3, <3>4, ReplaceCall
  <2>3. CASE End(h)
    BY <1>2, <2>1, <2>3, ReplaceCall DEF End
  <2>4. QED
    BY <1>15, <2>2, <2>3 DEF TileStop
<1>16. CASE TileStopped(h)
  <2>1. /\ UNCHANGED controlVars /\ End(h)
        /\ active' = None \/ active' = active
    BY <1>16 DEF TileStopped, Save, settings
  <2>2. QED
    BY <1>2, <2>1, ReplaceCall DEF End
<1>17. CASE Status(h)
  <2>1. /\ job[h] \in Jobs /\ job[h].step = "status" /\ pc[h] = "idle"
        /\ UNCHANGED <<controlVars, active>>
    BY <1>3, <1>17 DEF Status, CallInv, settings
  <2>2. PICK x : x = [job[h] EXCEPT !.step = "seen",
                                    !.answer = IF open = None THEN Idle ELSE OK(open, status[open])]
    OBVIOUS
  <2>3. (IF open = None THEN Idle ELSE OK(open, status[open])) \in Answers \cup {Idle}
    BY MadeAnswers DEF ControlInv, ControlTypeOK, Store!LifecycleTypeOK
  <2>4. x \in Jobs /\ x.kind = job[h].kind /\ x.step = "seen" /\ x.id = job[h].id
    BY <2>1, <2>2, <2>3 DEF Jobs
  <2>5. JobInv(h, x)
    BY <1>1, <2>1, <2>4 DEF JobInv
  <2>6. job' = [job EXCEPT ![h] = x]
    BY <1>17, <2>2 DEF Status
  <2>7. QED
    BY <1>2, <2>1, <2>4, <2>5, <2>6, ReplaceCall
<1>18. CASE GiveUp(h)
  <2>1. /\ job[h] \in Jobs /\ UNCHANGED <<controlVars, active>>
    BY <1>3, <1>18 DEF GiveUp, settings
  <2>2. PICK step \in {"seen", "done"} :
          /\ job' = [job EXCEPT ![h].step = step]
          /\ \/ step = "seen" /\ job[h].step = "status"
             \/ step = "done" /\ job[h].step \in {"send", "wait"}
    BY <1>18 DEF GiveUp
  <2>3. PICK x : x = [job[h] EXCEPT !.step = step]
    OBVIOUS
  <2>4. /\ x \in Jobs /\ x.kind = job[h].kind /\ x.step = step /\ x.id = job[h].id
        /\ x.answer = job[h].answer
    BY <2>1, <2>3 DEF Jobs
  <2>5. JobInv(h, x) /\ (pc[h] # "idle" => x.step \in {"wait", "done"})
    BY <1>1, <2>1, <2>2, <2>4 DEF JobInv, CallInv
  <2>6. job' = [job EXCEPT ![h] = x]
    BY <2>2, <2>3
  <2>7. QED
    BY <1>2, <2>1, <2>4, <2>5, <2>6, ReplaceCall
<1>19. QED
  BY <1>6, <1>7, <1>8, <1>9, <1>10, <1>11, <1>12, <1>13, <1>14, <1>15, <1>16, <1>17, <1>18
     DEF Activity, Tile

-----------------------------------------------------------------------------
(* What the server does for the phone.                                     *)

\* The phone asks for what its call is about, and names only sessions it has started.
LEMMA SentRequest ==
  ASSUME ControlInv, CallInv, NEW h \in Handlers, Send(h)
  PROVE  \E r \in Requests :
           /\ Proper(r) /\ Receive(h, r)
           /\ r.kind = WireKind(job[h].kind)
           /\ r.kind # "start" => Own(r.want)
<1> USE Nothing, CallAssumption
<1>1. job[h] \in Jobs /\ JobInv(h, job[h]) /\ job[h].step = "send"
  BY DEF Send, CallInv
<1>2. PICK c \in Commands :
        Receive(h, [command |-> c, kind |-> WireKind(job[h].kind),
                    want |-> IF WireKind(job[h].kind) = "start" THEN None ELSE job[h].id])
  BY DEF Send
<1>3. PICK r : r = [command |-> c, kind |-> WireKind(job[h].kind),
                    want |-> IF WireKind(job[h].kind) = "start" THEN None ELSE job[h].id]
  OBVIOUS
<1>4. /\ WireKind(job[h].kind) \in {"start", "confirm", "stop", "abandon"}
      /\ WireKind(job[h].kind) # "start" => Own(job[h].id) /\ job[h].id \in Sessions
  BY <1>1, JobFields DEF JobInv, WireKind, Own
<1>5. /\ r \in Requests /\ r.kind = WireKind(job[h].kind)
      /\ r.kind # "start" => Own(r.want) /\ r.want \in Sessions
      /\ r.kind = "start" => r.want = None
  BY <1>3, <1>4 DEF Requests
<1>6. Proper(r)
  BY <1>5 DEF Proper, MayConfirm, Own, ControlInv, OpenInv
<1>7. QED
  BY <1>2, <1>3, <1>5, <1>6

\* A request that is repeated was asked before.
LEMMA RepeatedRequest ==
  ASSUME ControlInv, NEW h \in Handlers, Duplicate(h)
  PROVE  \E r \in Requests :
           /\ Proper(r) /\ Receive(h, r)
           /\ \E c \in Commands : asked[c] = r
<1>1. PICK c \in Commands : asked[c] # None /\ Receive(h, asked[c])
  BY DEF Duplicate
<1>2. asked[c] \in Requests
  BY <1>1 DEF ControlInv, ControlTypeOK
<1>3. Proper(asked[c])
  BY <1>1 DEF ControlInv, AskedInv
<1>4. QED
  BY <1>1, <1>2, <1>3

\* The phone is one of the clients the control server is made for.
LEMMA PhoneServerStep ==
  ASSUME ControlInv, CallInv, [Next]_vars
  PROVE  ServerStep
<1>1. ASSUME NEW h \in Handlers, Send(h) \/ Duplicate(h) PROVE Arrive(h)
  BY <1>1, SentRequest, RepeatedRequest DEF Arrive
<1>2. ASSUME NEW h \in Handlers, Serve(h) PROVE HandlerStep(h)
  BY <1>2 DEF Serve
<1>3. OtherTerminal => Elsewhere
  BY DEF OtherTerminal, Terminal, Elsewhere
<1>4. ASSUME NEW h \in Handlers, Activity(h) \/ Tile(h) \/ Status(h) \/ GiveUp(h)
      PROVE  UNCHANGED controlVars
  BY <1>4 DEF Activity, TapStart, TapStop, Denied, Notice, OpenApp, Resumed, Answered,
     Tile, TapTile, TileStart, TileStarted, TileConfirmed, TileStop, TileStopped, Status, GiveUp
<1>5. ASSUME TapVpnOnly \/ Granted \/ Unnoticed \/ TapNotification \/ Service \/ UNCHANGED vars
      PROVE  UNCHANGED controlVars
  BY <1>5 DEF TapVpnOnly, Granted, Unnoticed, TapNotification, Service, OnStart, OnStop, BootFails,
     Establish, Detach, RunTunnel, TunnelEnds, TunnelFails, SystemStop, AppDies, vars
<1>6. QED
  BY <1>1, <1>2, <1>3, <1>4, <1>5 DEF Next, Call, ServerStep

\* What the phone has started stays its own.
LEMMA OwnStays ==
  ASSUME ControlInv, ServerStep, NEW s, Own(s)
  PROVE  Own(s)'
<1>1. s \in Sessions /\ startedBy[s] \in Commands /\ outcome[s] # "new"
  BY DEF Own, ControlInv, ControlTypeOK, OpenInv
<1>2. QED
  BY <1>1, History DEF Own, ControlInv

\* A call goes on while the handler that serves it does nothing.
LEMMA CallStays ==
  ASSUME ControlInv, ServerStep, NEW g \in Handlers, NEW j \in Jobs, JobInv(g, j),
         pc'[g] = pc[g], req'[g] = req[g]
  PROVE  JobInv(g, j)'
BY OwnStays DEF JobInv

\* The steps of the server keep what is known of the calls.
LEMMA ServedCalls ==
  ASSUME ControlInv, CallInv, ServerStep, NEW h \in Handlers, Serve(h) \/ Send(h) \/ Duplicate(h)
  PROVE  CallInv'
<1> USE Nothing, CallAssumption
<1>1. Arrive(h) \/ HandlerStep(h)
  BY SentRequest, RepeatedRequest DEF Serve, Arrive
<1>2. \A g \in Handlers \ {h} : pc'[g] = pc[g] /\ req'[g] = req[g]
  BY <1>1, OneHandler DEF ControlInv
<1>3. UNCHANGED active
  BY DEF Serve, Send, Duplicate, settings
<1>4. active' \in Sessions \cup {None} /\ (active' # None => Own(active)')
  BY <1>3, OwnStays DEF CallInv
<1>5. ASSUME NEW x \in Jobs \cup {None}, job' = [job EXCEPT ![h] = x],
             x # None => /\ JobInv(h, x)'
                         /\ pc'[h] # "idle" => x.step \in {"wait", "done"}
      PROVE  CallInv'
  <2>1. ASSUME NEW g \in Handlers, NEW j \in {job'[g]} \ {None} PROVE JobInv(g, j)'
    <3>1. CASE g = h
      BY <1>5, <2>1, <3>1 DEF CallInv
    <3>2. CASE g # h
      <4>1. j = job[g] /\ j \in Jobs /\ JobInv(g, j)
        BY <1>5, <2>1, <3>2 DEF CallInv
      <4>2. QED
        BY <1>2, <3>2, <4>1, CallStays
    <3>3. QED
      BY <3>1, <3>2
  <2>2. \A g \in Handlers : job'[g] # None /\ pc'[g] # "idle" => job'[g].step \in {"wait", "done"}
    BY <1>2, <1>5 DEF CallInv
  <2>3. job' \in [Handlers -> Jobs \cup {None}]
    BY <1>5 DEF CallInv
  <2>4. active' # None => Own(active)'
    BY <1>4
  <2>5. QED
    BY <1>4, <2>1, <2>2, <2>3, <2>4 DEF CallInv
<1>6. job[h] # None => job[h] \in Jobs /\ JobInv(h, job[h])
  BY DEF CallInv
<1>7. CASE Send(h)
  <2>1. PICK r \in Requests : Receive(h, r) /\ r.kind = WireKind(job[h].kind)
    BY <1>7, SentRequest
  <2>2. pc'[h] = "cache" /\ req'[h] = r
    BY <2>1 DEF Receive, ControlInv, ControlTypeOK
  <2>3. job[h] \in Jobs /\ JobInv(h, job[h]) /\ job[h].step = "send"
    BY <1>6, <1>7 DEF Send
  <2>4. PICK x : x = [job[h] EXCEPT !.step = "wait"]
    OBVIOUS
  <2>5. /\ x \in Jobs /\ x.kind = job[h].kind /\ x.step = "wait" /\ x.id = job[h].id
        /\ x.answer = job[h].answer
    BY <2>3, <2>4 DEF Jobs
  <2>6. x.id # None => Own(x.id)'
    BY <2>3, <2>5, OwnStays DEF JobInv
  <2>7. JobInv(h, x)'
    BY <2>1, <2>2, <2>3, <2>5, <2>6 DEF JobInv
  <2>8. job' = [job EXCEPT ![h] = x]
    BY <1>7, <2>4 DEF Send
  <2>9. QED
    BY <1>5, <2>5, <2>7, <2>8
<1>8. CASE Duplicate(h)
  <2>1. job[h] = None /\ job' = job
    BY <1>8 DEF Duplicate
  <2>2. job' = [job EXCEPT ![h] = None]
    BY <2>1 DEF CallInv
  <2>3. QED
    BY <1>5, <2>2
<1>9. CASE Serve(h)
  <2>1. HandlerStep(h) /\ pc[h] # "idle"
    BY <1>9, HandlerMoves DEF Serve, ControlInv
  <2>2. CASE job[h] = None
    <3>1. job' = [job EXCEPT ![h] = None]
      BY <1>9, <2>2 DEF Serve, CallInv
    <3>2. QED
      BY <1>5, <3>1
  <2>3. CASE job[h] # None /\ job[h].step = "wait" /\ pc[h] = "reply"
    <3>1. PICK x : x = [job[h] EXCEPT !.step = "done", !.answer = res[h]]
      OBVIOUS
    <3>2. res[h] \in Answers
      BY <2>3 DEF ControlInv, ControlTypeOK
    <3>3. x \in Jobs /\ x.kind = job[h].kind /\ x.step = "done" /\ x.id = job[h].id /\ x.answer = res[h]
      BY <1>6, <2>3, <3>1, <3>2 DEF Jobs
    <3>4. Reply(h) /\ pc'[h] = "idle"
      BY <2>1, <2>3 DEF HandlerStep, CheckCache, Ensure, DoStart, MarkStarting, Confirm, PeekStop, DoStop,
         DoAbandon, Reply, Finish, ControlInv, ControlTypeOK
    <3>5. ASSUME x.kind \in {"start", "tileStart"}, x.answer.ok PROVE Own(x.answer.id)'
      <4>1. req[h].kind = "start"
        BY <1>6, <2>1, <2>3, <3>3, <3>5 DEF JobInv, WireKind
      <4>2. /\ res[h].id \in Sessions /\ startedBy[res[h].id] = req[h].command
            /\ req[h].command \in Commands
        BY <2>1, <2>3, <3>3, <3>5, <4>1, WorkingRequest, RequestFields DEF ControlInv, StartInv
      <4>3. commands'[req[h].command] = res[h] /\ UNCHANGED startedBy
        BY <3>4, <4>2 DEF Reply, ControlInv, ControlTypeOK
      <4>4. QED
        BY <3>2, <3>3, <4>2, <4>3 DEF Own
    <3>6. x.id # None => Own(x.id)'
      BY <1>6, <2>3, <3>3, OwnStays DEF JobInv
    <3>7. JobInv(h, x)'
      BY <1>6, <2>3, <3>2, <3>3, <3>4, <3>5, <3>6 DEF JobInv
    <3>8. job' = [job EXCEPT ![h] = x]
      BY <1>9, <2>3, <3>1 DEF Serve
    <3>9. QED
      BY <1>5, <3>3, <3>7, <3>8
  <2>4. CASE job[h] # None /\ ~(job[h].step = "wait" /\ pc[h] = "reply")
    <3>1. job' = job /\ job[h] \in Jobs
      BY <1>6, <1>9, <2>4 DEF Serve
    <3>2. PICK x : x = job[h]
      OBVIOUS
    <3>3. x \in Jobs /\ x.step \in {"wait", "done"} /\ job' = [job EXCEPT ![h] = x]
      BY <2>1, <2>4, <3>1, <3>2 DEF CallInv
    <3>4. pc'[h] # "idle" => req'[h] = req[h]
      BY <2>1, HandlerMoves DEF ControlInv
    <3>5. x.id # None => Own(x.id)'
      BY <1>6, <2>4, <3>2, OwnStays DEF JobInv
    <3>6. x.step = "done" => x.answer = None
      BY <1>6, <2>1, <2>4, <3>2 DEF JobInv
    <3>7. JobInv(h, x)'
      BY <1>6, <2>1, <2>4, <3>2, <3>3, <3>4, <3>5, <3>6 DEF JobInv
    <3>8. QED
      BY <1>5, <3>3, <3>7
  <2>5. QED
    BY <2>2, <2>3, <2>4
<1>10. QED
  BY <1>7, <1>8, <1>9

\* Every step of the phone keeps what is known of its calls.
LEMMA CallStep ==
  ASSUME ControlInv, CallInv, ServerStep, [Next]_vars
  PROVE  CallInv'
<1> USE Nothing, CallAssumption
<1>1. ASSUME UNCHANGED <<controlVars, job>>, UNCHANGED active \/ active' = None PROVE CallInv'
  <2>1. active \in Sessions \cup {None} /\ (active # None => Own(active))
    BY DEF CallInv
  <2>2. QED
    BY <1>1, <2>1, KeepCalls
<1>2. CASE TapVpnOnly \/ Granted \/ Unnoticed \/ TapNotification \/ UNCHANGED vars
  BY <1>1, <1>2 DEF TapVpnOnly, Granted, Unnoticed, TapNotification, Save, settings, vars, phoneVars
<1>3. CASE Service /\ ~AppDies
  BY <1>1, <1>3 DEF Service, OnStart, OnStop, BootFails, Establish, Detach, RunTunnel, TunnelEnds,
     TunnelFails, SystemStop, settings
<1>4. CASE AppDies
  <2>1. job' = [g \in Handlers |-> None] /\ UNCHANGED <<controlVars, active>>
    BY <1>4 DEF AppDies, settings
  <2>2. active' # None => Own(active)'
    BY <2>1 DEF CallInv, Own, controlVars
  <2>3. QED
    BY <2>1, <2>2 DEF CallInv
<1>5. CASE OtherTerminal
  <2>1. UNCHANGED <<pc, req, job, active>>
    BY <1>5 DEF OtherTerminal, Terminal, handlerVars, settings
  <2>2. \A g \in Handlers : \A j \in {job'[g]} \ {None} : JobInv(g, j)'
    BY <2>1, CallStays DEF CallInv
  <2>3. active' # None => Own(active)'
    BY <2>1, OwnStays DEF CallInv
  <2>4. QED
    BY <2>1, <2>2, <2>3 DEF CallInv
<1>6. QED
  BY <1>2, <1>3, <1>4, <1>5, PhoneCalls, ServedCalls DEF Next, Call, Service

-----------------------------------------------------------------------------
(* Only its own sessions.                                                  *)

\* Only sessions of the phone are to be abandoned.
AbandonInv ==
  \A c \in Commands : asked[c] # None /\ asked[c].kind = "abandon" => startedBy[asked[c].want] # None

\* Nothing else is asked for.
LEMMA AbandonStep ==
  ASSUME ControlInv, CallInv, AbandonInv, ServerStep, [Next]_vars
  PROVE  AbandonInv'
<1> USE Nothing
<1>1. ASSUME NEW s \in Sessions, startedBy[s] # None PROVE startedBy'[s] # None
  BY <1>1, History DEF ControlInv, OpenInv
<1>2. ASSUME NEW r \in Requests, r.kind = "abandon", startedBy[r.want] # None PROVE startedBy'[r.want] # None
  BY <1>1, <1>2, RequestFields
<1>3. ASSUME UNCHANGED asked PROVE AbandonInv'
  <2>1. \A c \in Commands : asked[c] # None => asked[c] \in Requests
    BY DEF ControlInv, ControlTypeOK
  <2>2. QED
    BY <1>2, <1>3, <2>1 DEF AbandonInv
<1>4. ASSUME NEW h \in Handlers, NEW r \in Requests, Receive(h, r),
             r.kind = "abandon" => startedBy[r.want] # None
      PROVE  AbandonInv'
  <2>1. asked' = [asked EXCEPT ![r.command] = r] /\ r.command \in Commands
    BY <1>4, RequestFields DEF Receive
  <2>2. \A c \in Commands : asked'[c] = r \/ asked'[c] = asked[c]
    BY <2>1 DEF ControlInv, ControlTypeOK
  <2>3. \A c \in Commands : asked[c] # None => asked[c] \in Requests
    BY DEF ControlInv, ControlTypeOK
  <2>4. QED
    BY <1>2, <1>4, <2>2, <2>3 DEF AbandonInv
<1>5. ASSUME NEW h \in Handlers, Send(h) PROVE AbandonInv'
  BY <1>4, <1>5, SentRequest DEF Own
<1>6. ASSUME NEW h \in Handlers, Duplicate(h) PROVE AbandonInv'
  BY <1>4, <1>6, RepeatedRequest DEF AbandonInv
<1>7. ASSUME NEW h \in Handlers, Serve(h) PROVE UNCHANGED asked
  BY <1>7, HandlerMoves DEF Serve, ControlInv
<1>8. ASSUME NEW h \in Handlers, Activity(h) \/ Tile(h) \/ Status(h) \/ GiveUp(h)
      PROVE  UNCHANGED asked
  BY <1>8 DEF Activity, TapStart, TapStop, Denied, Notice, OpenApp, Resumed, Answered,
     Tile, TapTile, TileStart, TileStarted, TileConfirmed, TileStop, TileStopped, Status, GiveUp, controlVars
<1>9. ASSUME TapVpnOnly \/ Granted \/ Unnoticed \/ TapNotification \/ Service \/ OtherTerminal \/ UNCHANGED vars
      PROVE  UNCHANGED asked
  BY <1>9 DEF TapVpnOnly, Granted, Unnoticed, TapNotification, Service, OnStart, OnStop, BootFails,
     Establish, Detach, RunTunnel, TunnelEnds, TunnelFails, SystemStop, AppDies, OtherTerminal, Terminal,
     vars, controlVars
<1>10. QED
  BY <1>3, <1>5, <1>6, <1>7, <1>8, <1>9 DEF Next, Call

\* What is abandoned was to be abandoned.
LEMMA OwnStep ==
  ASSUME ControlInv, CallInv, AbandonInv, ActsOnOwnSessions, ServerStep, CallInv'
  PROVE  ActsOnOwnSessions'
<1> USE Nothing
<1>1. active' # None => startedBy'[active'] # None
  BY DEF CallInv, Own
<1>2. ASSUME NEW s \in Sessions, outcome'[s] = "abandoned" PROVE startedBy'[s] # None
  <2>1. CASE outcome[s] = "abandoned"
    BY <2>1, History DEF ActsOnOwnSessions, ControlInv
  <2>2. CASE outcome[s] # "abandoned"
    <3>1. /\ Store!Close(s, "abandoned") /\ UNCHANGED startedBy
          /\ \E h \in Handlers : pc[h] = "abandon" /\ req[h].want = s
      <4>1. ~ \E t \in Sessions : Store!Open(t)
        BY <1>2, <2>2 DEF Store!Open, ControlInv, ControlTypeOK, Store!LifecycleTypeOK
      <4>2. PICK t \in Sessions, how \in Over :
              /\ Store!Close(t, how) /\ UNCHANGED startedBy
              /\ how = "abandoned" => \E h \in Handlers : pc[h] = "abandon" /\ req[h].want = t
        BY <1>2, <2>2, <4>1, StoreStep DEF ControlInv
      <4>3. t = s /\ how = "abandoned"
        BY <1>2, <2>2, <4>2 DEF Store!Close, ControlInv, ControlTypeOK, Store!LifecycleTypeOK
      <4>4. QED
        BY <4>2, <4>3
    <3>2. PICK h \in Handlers : pc[h] = "abandon" /\ req[h].want = s
      BY <3>1
    <3>3. req[h] \in Requests /\ req[h].kind = "abandon" /\ req[h].command \in Commands
      BY <3>2, WorkingRequest, WorkingKind, RequestFields DEF ControlInv
    <3>4. asked[req[h].command] = req[h]
      BY <3>3 DEF ControlInv, AskedInv
    <3>5. QED
      BY <3>1, <3>2, <3>3, <3>4 DEF AbandonInv
  <2>3. QED
    BY <2>1, <2>2
<1>3. QED
  BY <1>1, <1>2 DEF ActsOnOwnSessions

-----------------------------------------------------------------------------
(* Settings, intents, broadcasts and the VPN.                              *)

\* The rest of the state of the phone: what the user sees, ...
ScreenOK ==
  /\ vpnOnly \in BOOLEAN /\ fallback \in BOOLEAN /\ shown \in BOOLEAN /\ trouble \in BOOLEAN
  /\ asking \in {"no", "capture", "vpnOnly"}
  /\ intents \in Seq({"start", "stop"})
  /\ faults \in 0..MaxFaults

\* ... and what the service does.
ServiceOK ==
  /\ news \in Seq({Up, Down(FALSE), Down(TRUE)})
  /\ running \in BOOLEAN /\ boot \in {"none", "connect", "up", "closed", "detached"}
  /\ live \in 0..MaxBoots /\ ending \in 0..MaxBoots /\ boots \in 0..MaxBoots
  /\ BootInv

\* A broadcast tells whether the VPN runs.
LEMMA NewsFields ==
  ASSUME NEW n \in {Up, Down(FALSE), Down(TRUE)}
  PROVE  n.running \in BOOLEAN
<1>1. Up.running = TRUE
  BY DEF Up
<1>2. \A error : Down(error).running = FALSE
  BY DEF Down
<1>3. QED
  BY <1>1, <1>2

\* What a queue is after a step.
LEMMA Queues ==
  ASSUME NEW S, NEW q \in Seq(S), NEW x \in S
  PROVE  /\ <<>> \in Seq(S)
         /\ Append(q, x) \in Seq(S)
         /\ q \o <<x, x>> \in Seq(S)
         /\ q # <<>> => Tail(q) \in Seq(S) /\ Head(q) \in S
OBVIOUS

\* Everything that happens to the screen keeps its types.
LEMMA ScreenStep ==
  ASSUME ScreenOK, ServiceOK, [Next]_vars
  PROVE  ScreenOK'
<1> USE Bounds
<1>1. ASSUME \/ UNCHANGED intents \/ intents' = <<>>
             \/ Ask("start") \/ Ask("stop") \/ intents' = intents \o <<"stop", "stop">>
             \/ intents # <<>> /\ intents' = Tail(intents)
      PROVE  intents' \in Seq({"start", "stop"})
  BY <1>1, Queues DEF Ask, ScreenOK
<1>2. ASSUME Well \/ Tap \/ Fault
      PROVE  faults' \in 0..MaxFaults /\ trouble' \in BOOLEAN
  <2>1. Well \/ Fault
    BY <1>2 DEF Tap
  <2>2. faults' \in 0..MaxFaults
    BY <2>1 DEF Well, Fault, ScreenOK
  <2>3. trouble' \in BOOLEAN
    BY <2>1 DEF Well, Fault, ScreenOK
  <2>4. QED
    BY <2>2, <2>3
<1>3. news # <<>> => Head(news).running \in BOOLEAN
  <2>1. PICK N : N = {Up, Down(FALSE), Down(TRUE)}
    OBVIOUS
  <2>2. news \in Seq(N)
    BY <2>1 DEF ServiceOK
  <2>3. news # <<>> => Head(news) \in N
    BY <2>2
  <2>4. QED
    BY <2>1, <2>3, NewsFields
<1>4. ASSUME NEW h \in Handlers, Call(h) PROVE ScreenOK'
  <2>1. UNCHANGED <<vpnOnly, fallback, shown, asking, intents>>
    BY <1>4 DEF Call, Send, Status, Serve, GiveUp, Duplicate, settings, activityVars
  <2>2. faults' \in 0..MaxFaults /\ trouble' \in BOOLEAN
    BY <1>2, <1>4 DEF Call, Send, Status, Serve, GiveUp, Duplicate, ScreenOK
  <2>3. QED
    BY <2>1, <2>2 DEF ScreenOK
<1>5. ASSUME NEW h \in Handlers, Activity(h) PROVE ScreenOK'
  <2>1. CASE TapStart(h) \/ OpenApp(h)
    BY <1>2, <2>1 DEF TapStart, OpenApp, settings, activityVars, ScreenOK, ServiceOK
  <2>2. CASE TapStop(h)
    <3>1. intents' \in Seq({"start", "stop"}) /\ UNCHANGED <<fallback, shown, asking>> /\ vpnOnly' \in BOOLEAN
      BY <1>1, <2>2 DEF TapStop, activityVars, settings, ScreenOK
    <3>2. Tap
      BY <2>2 DEF TapStop
    <3>3. QED
      BY <1>2, <3>1, <3>2 DEF ScreenOK
  <2>3. CASE Denied(h)
    BY <1>2, <2>3 DEF Denied, ScreenOK
  <2>4. CASE Notice(h)
    <3>1. /\ shown' \in BOOLEAN /\ vpnOnly' \in BOOLEAN /\ UNCHANGED <<asking, fallback, intents>>
      BY <1>3, <2>4 DEF Notice, ScreenOK
    <3>2. Well
      BY <2>4 DEF Notice
    <3>3. QED
      BY <1>2, <3>1, <3>2 DEF ScreenOK
  <2>5. CASE Resumed(h)
    BY <1>2, <2>5 DEF Resumed, activityVars, ScreenOK
  <2>6. CASE Answered(h)
    <3>1. /\ UNCHANGED shown /\ vpnOnly' \in BOOLEAN /\ fallback' \in BOOLEAN
          /\ asking' \in {"no", "capture", "vpnOnly"}
          /\ UNCHANGED intents \/ Ask("start")
          /\ UNCHANGED faults /\ trouble' \in BOOLEAN
      BY <2>6 DEF Answered, Save, StartVpn, Well, settings, ScreenOK
    <3>2. QED
      BY <1>1, <3>1 DEF ScreenOK
  <2>7. QED
    BY <1>5, <2>1, <2>2, <2>3, <2>4, <2>5, <2>6 DEF Activity
<1>6. ASSUME NEW h \in Handlers, Tile(h) PROVE ScreenOK'
  <2>1. UNCHANGED activityVars
    BY <1>6 DEF Tile, TapTile, TileStart, TileStarted, TileConfirmed, TileStop, TileStopped
  <2>2. vpnOnly' \in BOOLEAN
    BY <1>6 DEF Tile, TapTile, TileStart, TileStarted, TileConfirmed, TileStop, TileStopped, Save, settings,
       ScreenOK
  <2>3. Well \/ Tap \/ (UNCHANGED faults /\ trouble' \in BOOLEAN)
    <3>1. CASE TapTile(h) \/ TileStart(h) \/ TileStarted(h) \/ TileStop(h)
      <4>1. (TapTile(h) => Tap) /\ (TileStart(h) => Well)
        BY DEF TapTile, TileStart
      <4>2. (TileStarted(h) => Well) /\ (TileStop(h) => Well)
        BY DEF TileStarted, TileStop
      <4>3. QED
        BY <3>1, <4>1, <4>2
    <3>2. CASE TileConfirmed(h) \/ TileStopped(h)
      <4>1. UNCHANGED faults /\ (trouble' = trouble \/ trouble' = TRUE)
        BY <3>2 DEF TileConfirmed, TileStopped
      <4>2. QED
        BY <4>1 DEF ScreenOK
    <3>3. QED
      BY <1>6, <3>1, <3>2 DEF Tile
  <2>4. UNCHANGED intents \/ Ask("start") \/ Ask("stop") \/ intents' = intents \o <<"stop", "stop">>
    BY <1>6 DEF Tile, TapTile, TileStart, TileStarted, TileConfirmed, TileStop, TileStopped
  <2>5. QED
    BY <1>1, <1>2, <2>1, <2>2, <2>3, <2>4 DEF activityVars, ScreenOK
<1>7. CASE TapVpnOnly \/ Granted
  <2>1. /\ vpnOnly' \in BOOLEAN /\ fallback' \in BOOLEAN /\ UNCHANGED shown
        /\ asking' \in {"no", "capture", "vpnOnly"}
        /\ UNCHANGED intents \/ Ask("start")
        /\ Well \/ Tap
    BY <1>7 DEF TapVpnOnly, Granted, Save, StartVpn, settings, ScreenOK
  <2>2. QED
    BY <1>1, <1>2, <2>1 DEF ScreenOK
<1>8. CASE Unnoticed \/ TapNotification \/ OtherTerminal
  <2>1. UNCHANGED <<vpnOnly, asking, fallback, shown>>
    BY <1>8 DEF Unnoticed, TapNotification, OtherTerminal, settings, activityVars
  <2>2. UNCHANGED intents \/ Ask("stop")
    BY <1>8 DEF Unnoticed, TapNotification, OtherTerminal
  <2>3. Fault \/ (trouble' = TRUE /\ UNCHANGED faults)
    BY <1>8 DEF Unnoticed, TapNotification, OtherTerminal
  <2>4. faults' \in 0..MaxFaults /\ trouble' \in BOOLEAN
    BY <1>2, <2>3 DEF ScreenOK
  <2>5. QED
    BY <1>1, <2>1, <2>2, <2>4 DEF ScreenOK
<1>9. CASE Service
  <2>1. CASE AppDies
    <3>1. faults' \in 0..MaxFaults /\ trouble' \in BOOLEAN
      BY <1>2, <2>1 DEF AppDies, ScreenOK
    <3>2. QED
      BY <1>1, <2>1, <3>1 DEF AppDies, settings, ScreenOK
  <2>2. CASE ~AppDies
    <3>1. UNCHANGED <<vpnOnly, asking, fallback, shown>>
      BY <1>9, <2>2 DEF Service, OnStart, OnStop, BootFails, Establish, Detach, RunTunnel, TunnelEnds,
         TunnelFails, SystemStop, settings, activityVars
    <3>2. UNCHANGED intents \/ (intents # <<>> /\ intents' = Tail(intents))
      BY <1>9, <2>2 DEF Service, OnStart, OnStop, BootFails, Establish, Detach, RunTunnel, TunnelEnds,
         TunnelFails, SystemStop
    <3>3. Well \/ Fault \/ TunnelFails
      BY <1>9, <2>2 DEF Service, OnStart, OnStop, BootFails, Establish, Detach, RunTunnel, TunnelEnds,
         SystemStop
    <3>4. faults' \in 0..MaxFaults /\ trouble' \in BOOLEAN
      <4>1. CASE TunnelFails
        <5>1. faults' \in 0..MaxFaults
          BY <4>1 DEF TunnelFails, ScreenOK
        <5>2. QED
          BY <4>1, <5>1 DEF TunnelFails, ScreenOK
      <4>2. QED
        BY <1>2, <3>3, <4>1
    <3>5. QED
      BY <1>1, <3>1, <3>2, <3>4 DEF ScreenOK
  <2>3. QED
    BY <2>1, <2>2
<1>10. CASE UNCHANGED vars
  BY <1>10 DEF vars, phoneVars, settings, activityVars, ScreenOK
<1>11. QED
  BY <1>4, <1>5, <1>6, <1>7, <1>8, <1>9, <1>10 DEF Next

\* The numbers of tunnels stay within bounds when no more than were booted go on.
LEMMA Tunnels ==
  ASSUME NEW l \in Nat, NEW e \in Nat, NEW b \in 0..MaxBoots, NEW s,
         l + e <= b, s # "none" => l + e < b,
         live' = l, ending' = e, boots' = b, boot' = s
  PROVE  live' \in 0..MaxBoots /\ ending' \in 0..MaxBoots /\ boots' \in 0..MaxBoots /\ BootInv'
BY Bounds DEF BootInv

\* Every tunnel, and every bootstrap thread, comes from a VPN start of its own.
LEMMA ServiceStep ==
  ASSUME ServiceOK, [Next]_vars
  PROVE  ServiceOK'
<1> USE Bounds
<1>1. ASSUME \/ UNCHANGED news \/ news' = <<>>
             \/ \E n \in {Up, Down(FALSE), Down(TRUE)} : news' = Append(news, n)
             \/ news # <<>> /\ news' = Tail(news)
      PROVE  news' \in Seq({Up, Down(FALSE), Down(TRUE)})
  <2>1. Up \in {Up, Down(FALSE), Down(TRUE)}
    OBVIOUS
  <2>2. QED
    BY <1>1, <2>1, Queues DEF ServiceOK
<1>2. ASSUME UNCHANGED <<running, boot, live, ending, boots>>, UNCHANGED news \/ (news # <<>> /\ news' = Tail(news))
      PROVE  ServiceOK'
  BY <1>1, <1>2 DEF ServiceOK, BootInv
<1>3. ASSUME NEW h \in Handlers, Call(h) \/ Activity(h) \/ Tile(h) PROVE ServiceOK'
  <2>1. UNCHANGED serviceVars /\ (UNCHANGED news \/ (news # <<>> /\ news' = Tail(news)))
    BY <1>3 DEF Call, Send, Status, Serve, GiveUp, Duplicate,
       Activity, TapStart, TapStop, Denied, Notice, OpenApp, Resumed, Answered,
       Tile, TapTile, TileStart, TileStarted, TileConfirmed, TileStop, TileStopped
  <2>2. QED
    BY <1>2, <2>1 DEF serviceVars
<1>4. CASE TapVpnOnly \/ Granted \/ Unnoticed \/ TapNotification \/ OtherTerminal \/ UNCHANGED vars
  <2>1. UNCHANGED serviceVars /\ (UNCHANGED news \/ (news # <<>> /\ news' = Tail(news)))
    BY <1>4 DEF TapVpnOnly, Granted, Unnoticed, TapNotification, OtherTerminal, vars, phoneVars
  <2>2. QED
    BY <1>2, <2>1 DEF serviceVars
<1>5. CASE Service
  <2>1. news' \in Seq({Up, Down(FALSE), Down(TRUE)})
    <3>1. \A error \in BOOLEAN : Down(error) \in {Up, Down(FALSE), Down(TRUE)}
      OBVIOUS
    <3>2. CASE OnStart \/ OnStop \/ SystemStop \/ AppDies
      BY <1>1, <3>1, <3>2 DEF OnStart, OnStop, SystemStop, AppDies, StopCapture
    <3>3. CASE BootFails \/ Establish \/ Detach \/ RunTunnel
      BY <1>1, <3>1, <3>3 DEF BootFails, Establish, Detach, RunTunnel
    <3>4. CASE TunnelEnds \/ TunnelFails
      BY <1>1, <3>1, <3>4 DEF TunnelEnds, TunnelFails, WorkerEnds
    <3>5. QED
      BY <1>5, <3>2, <3>3, <3>4 DEF Service
  <2>2. running' \in BOOLEAN /\ boot' \in {"none", "connect", "up", "closed", "detached"}
    BY <1>5 DEF Service, OnStart, OnStop, BootFails, Establish, Detach, RunTunnel, TunnelEnds, TunnelFails,
       SystemStop, AppDies, StopCapture, WorkerEnds, ServiceOK
  <2>3. live' \in 0..MaxBoots /\ ending' \in 0..MaxBoots /\ boots' \in 0..MaxBoots /\ BootInv'
    <3>1. PICK l, e, b, s : l = live /\ e = ending /\ b = boots /\ s = boot
      OBVIOUS
    <3>2. l \in Nat /\ e \in Nat /\ b \in 0..MaxBoots /\ l + e <= b /\ (s # "none" => l + e < b)
      BY <3>1 DEF ServiceOK, BootInv
    <3>3. CASE OnStart
      <4>1. live' = l /\ ending' = e
        BY <3>1, <3>3 DEF OnStart
      <4>2. CASE boots' = b /\ boot' = s
        BY <3>2, <4>1, <4>2, Tunnels
      <4>3. CASE b < MaxBoots /\ boots' = b + 1 /\ boot' = "connect"
        BY <3>2, <4>1, <4>3, Tunnels
      <4>4. QED
        BY <3>1, <3>3, <4>2, <4>3 DEF OnStart
    <3>4. CASE OnStop \/ SystemStop
      <4>1. live' = 0 /\ ending' = e + l /\ boots' = b /\ boot' = IF s = "up" THEN "closed" ELSE s
        BY <3>1, <3>4 DEF OnStop, SystemStop, StopCapture
      <4>2. QED
        BY <3>2, <4>1, Tunnels
    <3>5. CASE BootFails \/ Establish \/ Detach
      <4>1. live' = l /\ ending' = e /\ boots' = b /\ s # "none"
        BY <3>1, <3>5 DEF BootFails, Establish, Detach
      <4>2. PICK t : boot' = t
        OBVIOUS
      <4>3. QED
        BY <3>2, <4>1, <4>2, Tunnels
    <3>6. CASE RunTunnel
      <4>1. live' = l + 1 /\ ending' = e /\ boots' = b /\ boot' = "none" /\ s # "none"
        BY <3>1, <3>6 DEF RunTunnel
      <4>2. QED
        BY <3>2, <4>1, Tunnels
    <3>7. CASE TunnelEnds
      <4>1. live' = l /\ e > 0 /\ ending' = e - 1 /\ boots' = b /\ boot' = s
        BY <3>1, <3>7 DEF TunnelEnds
      <4>2. QED
        BY <3>2, <4>1, Tunnels
    <3>8. CASE TunnelFails
      <4>1. l > 0 /\ live' = l - 1 /\ ending' = e /\ boots' = b /\ boot' = s
        BY <3>1, <3>8 DEF TunnelFails
      <4>2. QED
        BY <3>2, <4>1, Tunnels
    <3>9. CASE AppDies
      <4>1. live' = 0 /\ ending' = 0 /\ boots' = b /\ boot' = "none"
        BY <3>1, <3>9 DEF AppDies
      <4>2. QED
        BY <3>2, <4>1, Tunnels
    <3>10. QED
      BY <1>5, <3>3, <3>4, <3>5, <3>6, <3>7, <3>8, <3>9 DEF Service
  <2>4. QED
    BY <2>1, <2>2, <2>3 DEF ServiceOK
<1>6. QED
  BY <1>3, <1>4, <1>5 DEF Next

-----------------------------------------------------------------------------
(* The invariant and what follows.                                         *)

\* The parts the lemmas above are about make up the invariant.
LEMMA PhoneParts ==
  PhoneInv <=> ControlInv /\ CallInv /\ AbandonInv /\ ActsOnOwnSessions /\ ScreenOK /\ ServiceOK
BY DEF PhoneInv, TypeOK, OwnInv, CallInv, AbandonInv, ScreenOK, ServiceOK, ControlInv

\* The phone starts with nothing under way.
LEMMA PhoneStart == Init => PhoneInv
<1> SUFFICES ASSUME Init PROVE PhoneInv
  OBVIOUS
<1> USE Nothing, CallAssumption, Bounds
<1>1. ControlInv
  BY ControlStart DEF Init
<1>2. CallInv
  BY DEF Init, CallInv
<1>3. AbandonInv /\ ActsOnOwnSessions
  BY DEF Init, ControlInit, Store!Init, AbandonInv, ActsOnOwnSessions
<1>4. ScreenOK
  <2>1. intents = <<>> /\ <<>> \in Seq({"start", "stop"})
    BY DEF Init
  <2>2. faults \in 0..MaxFaults
    BY DEF Init
  <2>3. QED
    BY <2>1, <2>2 DEF Init, ScreenOK
<1>5. ServiceOK
  <2>1. news = <<>> /\ <<>> \in Seq({Up, Down(FALSE), Down(TRUE)})
    BY DEF Init
  <2>2. live = 0 /\ ending = 0 /\ boots = 0 /\ 0 \in 0..MaxBoots /\ BootInv
    BY DEF Init, BootInv
  <2>3. QED
    BY <2>1, <2>2 DEF Init, ServiceOK
<1>6. QED
  BY <1>1, <1>2, <1>3, <1>4, <1>5, PhoneParts

\* Every step keeps the invariant, and is one of the control server's.
LEMMA PhoneStep ==
  ASSUME PhoneInv, [Next]_vars
  PROVE  PhoneInv' /\ ServerStep
<1>1. ControlInv /\ CallInv /\ AbandonInv /\ ActsOnOwnSessions /\ ScreenOK /\ ServiceOK
  BY PhoneParts
<1>2. ServerStep
  BY <1>1, PhoneServerStep
<1>3. ControlInv' /\ CallInv'
  BY <1>1, <1>2, ControlStep, CallStep
<1>4. AbandonInv' /\ ActsOnOwnSessions'
  BY <1>1, <1>2, <1>3, AbandonStep, OwnStep
<1>5. ScreenOK' /\ ServiceOK'
  BY <1>1, ScreenStep, ServiceStep
<1>6. PhoneInv'
  BY <1>3, <1>4, <1>5 DEF PhoneInv, TypeOK, OwnInv, CallInv, AbandonInv, ScreenOK, ServiceOK, ControlInv
<1>7. QED
  BY <1>2, <1>6

\* The types, the control server's invariant, the sessions the phone's calls are
\* about, the VPN starts behind every tunnel.
THEOREM PhoneInvHolds == Spec => []PhoneInv
<1>1. PhoneInv /\ [Next]_vars => PhoneInv'
  BY PhoneStep
<1>2. QED
  BY <1>1, PhoneStart, PTL DEF Spec

\* Whatever answers are lost and whatever other terminals do, the phone follows and
\* abandons only sessions it has started.
THEOREM OwnSessions == Spec => []ActsOnOwnSessions
<1>1. PhoneInv => ActsOnOwnSessions
  BY DEF PhoneInv, OwnInv
<1>2. QED
  BY <1>1, PhoneInvHolds, PTL

\* What the phone is told stays true.
THEOREM PhoneAnswersTrue == Spec => []AnswersAreTrue
<1>1. PhoneInv => AnswersAreTrue
  BY AnswersFollow DEF PhoneInv
<1>2. QED
  BY <1>1, PhoneInvHolds, PTL

\* As long as a request is not repeated before its answer, every command is carried
\* out at most once, ...
THEOREM PhoneStartsOnce ==
  ASSUME ~Overlap
  PROVE  Spec => []StartsOnce
<1>1. PhoneInv => StartsOnce
  BY DEF PhoneInv, ControlInv, RetryInv
<1>2. QED
  BY <1>1, PhoneInvHolds, PTL

\* ... what the phone has confirmed stays confirmed, ...
THEOREM PhoneConfirms ==
  ASSUME ~Overlap
  PROVE  Spec => []ConfirmSticks
<1>1. PhoneInv => ConfirmSticks
  BY ConfirmFollows DEF PhoneInv
<1>2. QED
  BY <1>1, PhoneInvHolds, PTL

\* ... and no answer is replaced by another.
THEOREM PhoneAnswersStay ==
  ASSUME ~Overlap
  PROVE  Spec => AnswerStable
<1>1. PhoneInv /\ [Next]_vars
        => [\A c \in Commands : commands[c] # None => commands'[c] = commands[c]]_controlVars
  BY PhoneStep, AnswerStays DEF PhoneInv
<1>2. QED
  BY <1>1, PhoneInvHolds, PTL DEF Spec, AnswerStable

-----------------------------------------------------------------------------
(* Phone and computer in step.                                             *)

\* A command that was asked for stays with its handler until it is answered.
LEMMA AnsweredStep ==
  ASSUME ControlInv, AnsweredInv, ServerStep
  PROVE  AnsweredInv'
<1> USE Nothing
<1> SUFFICES ASSUME NEW c \in Commands, asked'[c] # None, commands'[c] = None
             PROVE  \E g \in Handlers : pc'[g] # "idle" /\ req'[g].command = c
  BY DEF AnsweredInv, Busy
<1>1. commands[c] = None
  BY History DEF ControlInv
<1>2. asked[c] # None => \E g \in Handlers : pc[g] # "idle" /\ req[g].command = c
  BY <1>1 DEF AnsweredInv, Busy
<1>3. CASE \E h \in Handlers : Arrive(h)
  <2>1. PICK h \in Handlers : Arrive(h)
    BY <1>3
  <2>2. PICK r \in Requests : Receive(h, r)
    BY <2>1 DEF Arrive
  <2>3. /\ pc[h] = "idle" /\ pc'[h] = "cache" /\ req'[h] = r
        /\ asked' = [asked EXCEPT ![r.command] = r]
    BY <2>2 DEF Receive, ControlInv, ControlTypeOK
  <2>4. CASE c = r.command
    BY <2>3, <2>4
  <2>5. CASE c # r.command
    <3>1. asked[c] # None
      BY <2>3, <2>5 DEF ControlInv, ControlTypeOK
    <3>2. PICK g \in Handlers : pc[g] # "idle" /\ req[g].command = c
      BY <1>2, <3>1
    <3>3. pc'[g] = pc[g] /\ req'[g] = req[g]
      BY <2>1, <2>3, <3>2, OneHandler DEF ControlInv
    <3>4. QED
      BY <3>2, <3>3
  <2>6. QED
    BY <2>4, <2>5
<1>4. CASE \E h \in Handlers : HandlerStep(h)
  <2>1. PICK h \in Handlers : HandlerStep(h)
    BY <1>4
  <2>2. UNCHANGED asked /\ pc[h] # "idle" /\ (pc'[h] # "idle" => req'[h] = req[h])
    BY <2>1, HandlerMoves DEF ControlInv
  <2>3. PICK g \in Handlers : pc[g] # "idle" /\ req[g].command = c
    BY <1>2, <2>2
  <2>4. CASE g # h
    BY <2>1, <2>3, <2>4, OneHandler DEF ControlInv
  <2>5. CASE g = h /\ pc'[h] # "idle"
    BY <2>2, <2>3, <2>5
  <2>6. CASE g = h /\ pc'[h] = "idle"
    <3>1. CASE Reply(h)
      <4>1. res[h] # None
        BY <3>1 DEF Reply, ControlInv, ControlTypeOK
      <4>2. commands' = [commands EXCEPT ![c] = res[h]]
        BY <2>3, <2>6, <3>1 DEF Reply
      <4>3. QED
        BY <4>1, <4>2 DEF ControlInv, ControlTypeOK
    <3>2. CASE CheckCache(h)
      <4>1. commands[req[h].command] = None
        BY <1>1, <2>3, <2>6
      <4>2. GoTo(h, FirstStep(req[h].kind))
        BY <3>2, <4>1 DEF CheckCache
      <4>3. req[h].kind \in {"start", "confirm", "stop", "abandon"}
        BY <2>2, WorkingRequest, RequestFields DEF ControlInv
      <4>4. FirstStep(req[h].kind) # "idle"
        BY <4>3 DEF FirstStep
      <4>5. QED
        BY <2>6, <4>2, <4>4 DEF GoTo, ControlInv, ControlTypeOK
    <3>3. CASE ~Reply(h) /\ ~CheckCache(h)
      BY <2>1, <2>6, <3>3 DEF HandlerStep, Ensure, DoStart, MarkStarting, Confirm, PeekStop, DoStop,
         DoAbandon, GoTo, Settle, ControlInv, ControlTypeOK
    <3>4. QED
      BY <3>1, <3>2, <3>3
  <2>7. QED
    BY <2>4, <2>5, <2>6
<1>5. CASE Elsewhere \/ UNCHANGED controlVars
  <2>1. UNCHANGED <<asked, pc, req>>
    BY <1>5 DEF Elsewhere, controlVars, handlerVars
  <2>2. QED
    BY <1>2, <2>1
<1>6. QED
  BY <1>3, <1>4, <1>5 DEF ServerStep

\* What a call asks the server for.
LEMMA WireKinds ==
  ASSUME NEW j \in Jobs, j.kind # "resume"
  PROVE  /\ WireKind(j.kind) = "start" => j.kind \in Starters
         /\ WireKind(j.kind) = "confirm" => j.kind \in Confirmers
         /\ WireKind(j.kind) \in {"stop", "abandon"} => j.kind \in Closers
BY JobFields DEF WireKind, Starters, Confirmers, Closers

\* No broadcast is another.
LEMMA NewsDiffer ==
  /\ Up.running = TRUE /\ Down(FALSE).running = FALSE /\ Down(TRUE).running = FALSE
  /\ Up.error = FALSE /\ Down(FALSE).error = FALSE /\ Down(TRUE).error = TRUE
BY DEF Up, Down

\* What another handler serves is not disturbed.
LEMMA OthersServed ==
  ASSUME ControlInv, ~Overlap, NEW h \in Handlers, Arrive(h) \/ HandlerStep(h),
         NEW g \in Handlers \ {h}, NEW j, Served(g, j)
  PROVE  Served(g, j)'
<1>1. pc'[g] = pc[g] /\ req'[g] = req[g]
  BY OneHandler DEF ControlInv
<1>2. ASSUME pc[g] # "idle"
      PROVE  commands'[req[g].command] = commands[req[g].command]
  <2>1. req[g].command \in Commands
    BY <1>2, WorkingRequest, RequestFields DEF ControlInv
  <2>2. CASE Reply(h)
    <3>1. pc[h] # "idle" /\ commands' = [commands EXCEPT ![req[h].command] = res[h]]
      BY <2>2 DEF Reply
    <3>2. req[h].command # req[g].command
      BY <1>2, <3>1 DEF ControlInv, RetryInv
    <3>3. QED
      BY <2>1, <3>1, <3>2 DEF ControlInv, ControlTypeOK
  <2>3. CASE ~Reply(h)
    BY <2>3, HandlerMoves DEF Arrive, Receive, ControlInv
  <2>4. QED
    BY <2>2, <2>3
<1>3. QED
  BY <1>1, <1>2 DEF Served

\* What a call of the phone is told by the handler that serves it, and what the
\* handler does for it.
LEMMA ServeEffect ==
  ASSUME ControlInv, CallInv, NEW h \in Handlers, Serve(h), Served(h, job[h])
  PROVE  /\ job \in [Handlers -> Jobs \cup {None}]
         /\ \A g \in Handlers \ {h} : job'[g] = job[g]
         /\ job[h] = None => job'[h] = None /\ UNCHANGED <<open, status>>
         /\ Served(h, job[h])'
<1> USE Nothing, CallAssumption
<1>1. HandlerStep(h) /\ pc[h] # "idle" /\ job \in [Handlers -> Jobs \cup {None}]
  BY HandlerMoves DEF Serve, ControlInv, CallInv
<1>2. \A g \in Handlers \ {h} : job'[g] = job[g]
  BY <1>1 DEF Serve
<1>3. ASSUME job[h] = None PROVE job'[h] = None /\ UNCHANGED <<open, status>>
  <2>1. job'[h] = None
    BY <1>1, <1>3 DEF Serve
  <2>2. pc[h] = "cache" /\ commands[req[h].command] # None
    BY <1>1, <1>3 DEF Served
  <2>3. CheckCache(h)
    BY <1>1, <2>2 DEF HandlerStep, Ensure, DoStart, MarkStarting, Confirm, PeekStop, DoStop, DoAbandon, Reply
  <2>4. QED
    BY <2>1, <2>3 DEF CheckCache, storeVars
<1>4. Served(h, job[h])'
  <2>1. CASE job[h] # None /\ job[h].step = "wait" /\ pc[h] = "reply"
    <3>1. Reply(h) /\ res[h] # None
      BY <1>1, <2>1 DEF HandlerStep, CheckCache, Ensure, DoStart, MarkStarting, Confirm, PeekStop, DoStop,
         DoAbandon, ControlInv, ControlTypeOK
    <3>2. pc'[h] = "idle"
      BY <1>1, <3>1, HandlerMoves DEF ControlInv
    <3>3. job' = [job EXCEPT ![h].step = "done", ![h].answer = res[h]]
      BY <2>1 DEF Serve
    <3>4. job'[h] = [job[h] EXCEPT !.step = "done", !.answer = res[h]] /\ job[h] \in Jobs
      BY <1>1, <2>1, <3>3
    <3>5. job'[h].answer = res[h]
      BY <3>4 DEF Jobs
    <3>6. QED
      BY <3>1, <3>2, <3>5 DEF Served
  <2>2. CASE ~(job[h] # None /\ job[h].step = "wait" /\ pc[h] = "reply")
    <3>1. job'[h] = job[h]
      BY <2>2 DEF Serve
    <3>2. CASE pc'[h] = "idle"
      BY <3>1, <3>2 DEF Served
    <3>3. CASE pc'[h] # "idle"
      <4>1. req'[h] = req[h] /\ UNCHANGED commands
        BY <1>1, <3>3, HandlerMoves DEF ControlInv
      <4>2. commands[req[h].command] = None
        BY <1>1, <3>3, HandlerMoves DEF Served, ControlInv
      <4>3. QED
        BY <1>1, <3>1, <4>1, <4>2 DEF Served
    <3>4. QED
      BY <3>2, <3>3
  <2>3. QED
    BY <2>1, <2>2
<1>5. QED
  BY <1>1, <1>2, <1>3, <1>4

\* A handler that works for a call works for what the call is about.
LEMMA ServesItsCall ==
  ASSUME ControlInv, CallInv, NEW h \in Handlers, job[h] # None, pc[h] # "idle", Served(h, job[h])
  PROVE  /\ job[h] \in Jobs /\ job[h].step = "wait" /\ job[h].kind # "resume"
         /\ req[h].kind = WireKind(job[h].kind)
         /\ pc[h] \in {"ensure", "start", "markStarting"} => job[h].kind \in Starters
         /\ pc[h] = "confirm" => job[h].kind \in Confirmers
         /\ pc[h] \in {"peek", "stop", "abandon"} => job[h].kind \in Closers
<1>1. job[h] \in Jobs /\ JobInv(h, job[h]) /\ job[h].step \in {"wait", "done"}
  BY DEF CallInv
<1>2. job[h].step = "wait"
  BY <1>1 DEF JobInv, Served
<1>3. job[h].kind # "resume" /\ req[h].kind = WireKind(job[h].kind)
  BY <1>1, <1>2 DEF JobInv
<1>4. QED
  BY <1>1, <1>2, <1>3, WireKinds, WorkingKind DEF ControlInv

\* What the handler does to the call: it goes on to its answer, and keeps what it is about.
LEMMA ServeJob ==
  ASSUME ControlInv, CallInv, NEW h \in Handlers, Serve(h), Served(h, job[h]), job[h] # None
  PROVE  /\ job[h] \in Jobs /\ job'[h] \in Jobs
         /\ job'[h].kind = job[h].kind /\ job'[h].id = job[h].id
         /\ job[h].step = "wait" /\ pc[h] # "idle"
         /\ IF pc[h] = "reply"
            THEN /\ Reply(h) /\ job'[h].step = "done" /\ job'[h].answer = res[h] /\ pc'[h] = "idle"
                 /\ UNCHANGED <<open, status>>
            ELSE job'[h] = job[h]
<1> USE Nothing, CallAssumption
<1>1. HandlerStep(h) /\ pc[h] # "idle"
  BY HandlerMoves DEF Serve, ControlInv
<1>2. job[h] \in Jobs /\ job[h].step = "wait"
  BY <1>1, ServesItsCall
<1>3. CASE pc[h] = "reply"
  <2>1. Reply(h) /\ res[h] \in Answers
    BY <1>1, <1>3 DEF HandlerStep, CheckCache, Ensure, DoStart, MarkStarting, Confirm, PeekStop, DoStop,
       DoAbandon, ControlInv, ControlTypeOK
  <2>2. pc'[h] = "idle" /\ UNCHANGED <<open, status>>
    BY <2>1 DEF Reply, Finish, storeVars, ControlInv, ControlTypeOK
  <2>3. job' = [job EXCEPT ![h].step = "done", ![h].answer = res[h]]
    BY <1>2, <1>3 DEF Serve
  <2>4. job'[h] = [job[h] EXCEPT !.step = "done", !.answer = res[h]]
    BY <1>2, <2>3 DEF CallInv
  <2>5. /\ job'[h] \in Jobs /\ job'[h].kind = job[h].kind /\ job'[h].id = job[h].id
        /\ job'[h].step = "done" /\ job'[h].answer = res[h]
    BY <1>2, <2>1, <2>4 DEF Jobs
  <2>6. QED
    BY <1>1, <1>2, <1>3, <2>1, <2>2, <2>5
<1>4. CASE pc[h] # "reply"
  BY <1>1, <1>2, <1>4 DEF Serve
<1>5. QED
  BY <1>3, <1>4

\* What a handler does in the store for the call of a phone.
LEMMA StoreEffect ==
  ASSUME ControlInv, CallInv, NEW h \in Handlers, Serve(h), Served(h, job[h]), job[h] # None
  PROVE  \/ UNCHANGED <<open, status>>
         \/ job[h].kind \in Starters
         \/ /\ job[h].kind \in Confirmers /\ UNCHANGED open /\ open # None
            /\ status' = [status EXCEPT ![open] = "recording"]
         \/ job[h].kind \in Closers /\ open' = None /\ UNCHANGED status
<1> USE Nothing
<1>1. HandlerStep(h) /\ pc[h] # "idle"
  BY HandlerMoves DEF Serve, ControlInv
<1>2. CASE CheckCache(h) \/ Ensure(h) \/ PeekStop(h) \/ Reply(h)
  BY <1>2 DEF CheckCache, Ensure, PeekStop, Reply, storeVars
<1>3. CASE DoStart(h) \/ MarkStarting(h)
  BY <1>1, <1>3, ServesItsCall DEF DoStart, MarkStarting
<1>4. CASE Confirm(h)
  <2>1. req[h].want # None
    BY <1>1, <1>4, WorkingRequest, WorkingKind, RequestFields DEF Confirm, ControlInv
  <2>2. job[h].kind \in Confirmers
    BY <1>1, <1>4, ServesItsCall DEF Confirm
  <2>3. QED
    BY <1>4, <2>1, <2>2 DEF Confirm
<1>5. CASE DoStop(h) \/ DoAbandon(h)
  BY <1>1, <1>5, ServesItsCall DEF DoStop, DoAbandon, Store!Close
<1>6. QED
  BY <1>1, <1>2, <1>3, <1>4, <1>5 DEF HandlerStep

\* A call that the server has carried out is true of the store.
LEMMA AcceptedCall ==
  ASSUME ControlInv, CallInv, NEW h \in Handlers, Serve(h), Served(h, job[h]), job[h] # None,
         CallTrue(h, job[h]), job[h].kind \notin Starters
  PROVE  CallTrue(h, job[h])'
<1> USE Nothing
<1>1. HandlerStep(h) /\ pc[h] # "idle"
  BY HandlerMoves DEF Serve, ControlInv
<1>2. /\ job[h] \in Jobs /\ job'[h] \in Jobs /\ job'[h].kind = job[h].kind /\ job'[h].id = job[h].id
      /\ job[h].step = "wait" /\ job'[h].step \in {"wait", "done"}
  BY ServeJob
<1>3. open' = open \/ open' = None
  BY StoreEffect
<1>4. CASE pc[h] = "reply"
  <2>1. /\ job'[h].step = "done" /\ job'[h].answer = res[h] /\ UNCHANGED <<open, status>>
    BY <1>4, ServeJob
  <2>2. Accepted(h, job[h])' => Accepted(h, job[h])
    BY <1>2, <1>4, <2>1 DEF Accepted
  <2>3. QED
    BY <1>2, <2>1, <2>2 DEF CallTrue
<1>5. CASE pc[h] # "reply" /\ pc'[h] = "reply" /\ res'[h].ok
  <2>1. CASE Confirm(h)
    <3>1. CASE open = req[h].want /\ status' = [status EXCEPT ![open] = "recording"]
      <4>1. req[h].want \in Sessions /\ UNCHANGED open
        BY <1>1, <2>1, WorkingRequest, WorkingKind, RequestFields DEF Confirm, ControlInv
      <4>2. status'[open] = "recording"
        BY <3>1, <4>1 DEF ControlInv, ControlTypeOK
      <4>3. job[h].kind \in Confirmers
        BY <1>1, <2>1, ServesItsCall DEF Confirm
      <4>4. QED
        BY <1>2, <4>1, <4>2, <4>3 DEF CallTrue, Confirmers, Closers
    <3>2. CASE Settle(h, Conflict)
      BY <1>5, <3>2, MadeAnswers DEF Settle, ControlInv, ControlTypeOK
    <3>3. QED
      BY <2>1, <3>1, <3>2 DEF Confirm
  <2>2. CASE DoStop(h) \/ DoAbandon(h)
    <3>1. CASE open' = None
      BY <1>2, <3>1 DEF CallTrue
    <3>2. CASE Settle(h, Conflict)
      BY <1>5, <3>2, MadeAnswers DEF Settle, ControlInv, ControlTypeOK
    <3>3. QED
      BY <2>2, <3>1, <3>2 DEF DoStop, DoAbandon, Store!Close
  <2>3. CASE Ensure(h) \/ DoStart(h) \/ MarkStarting(h)
    BY <1>1, <2>3, ServesItsCall DEF Ensure, DoStart, MarkStarting
  <2>4. CASE CheckCache(h)
    <3>1. FirstStep(req[h].kind) # "reply"
      BY <1>1, WorkingRequest, RequestFields DEF FirstStep, ControlInv
    <3>2. QED
      BY <1>5, <2>4, <3>1 DEF CheckCache, GoTo, Finish, ControlInv, ControlTypeOK
  <2>5. CASE PeekStop(h)
    BY <1>5, <2>5, MadeAnswers DEF PeekStop, GoTo, Settle, ControlInv, ControlTypeOK
  <2>6. CASE Reply(h)
    BY <1>5, <2>6 DEF Reply
  <2>7. QED
    BY <1>1, <2>1, <2>2, <2>3, <2>4, <2>5, <2>6 DEF HandlerStep
<1>6. CASE pc[h] # "reply" /\ ~(pc'[h] = "reply" /\ res'[h].ok)
  <2>1. job'[h] = job[h] /\ ~Accepted(h, job[h])'
    BY <1>2, <1>6, ServeJob DEF Accepted
  <2>2. QED
    BY <1>2, <1>3, <2>1 DEF CallTrue
<1>7. QED
  BY <1>4, <1>5, <1>6

\* The session of a start is the one its handler opens.
LEMMA StartedSession ==
  ASSUME ControlInv, CallInv, NEW h \in Handlers, Serve(h), Served(h, job[h]), job[h] # None,
         ~StartLost(h), job[h].kind \in Starters, open = Started(h, job[h])
  PROVE  open' = Started(h, job[h])'
<1> USE Nothing
<1>1. HandlerStep(h) /\ pc[h] # "idle"
  BY HandlerMoves DEF Serve, ControlInv
<1>2. /\ job[h] \in Jobs /\ job'[h] \in Jobs /\ job[h].step = "wait"
      /\ job'[h].step \in {"wait", "done"} /\ (pc[h] # "reply" => job'[h] = job[h])
  BY ServeJob
<1>3. pc[h] \notin {"confirm", "peek", "stop", "abandon"}
  BY <1>1, ServesItsCall DEF Starters, Confirmers, Closers
<1>4. CASE CheckCache(h)
  <2>1. FirstStep(req[h].kind) \notin {"reply", "markStarting"}
    BY <1>1, WorkingRequest, RequestFields DEF FirstStep, ControlInv
  <2>2. pc[h] = "cache" /\ pc'[h] \notin {"reply", "markStarting"} /\ UNCHANGED open
    BY <1>4, <2>1 DEF CheckCache, GoTo, Finish, storeVars, ControlInv, ControlTypeOK
  <2>3. QED
    BY <1>2, <2>2 DEF Started
<1>5. CASE Ensure(h)
  <2>1. pc[h] = "ensure" /\ UNCHANGED open
    BY <1>5 DEF Ensure, storeVars
  <2>2. pc'[h] = "start" \/ (pc'[h] = "reply" /\ ~res'[h].ok)
    BY <1>5, MadeAnswers DEF Ensure, GoTo, Settle, ControlInv, ControlTypeOK
  <2>3. QED
    BY <1>2, <2>1, <2>2 DEF Started
<1>6. CASE DoStart(h)
  <2>1. CASE Settle(h, Conflict)
    <3>1. pc[h] = "start" /\ pc'[h] = "reply" /\ ~res'[h].ok
      BY <1>6, <2>1, MadeAnswers DEF DoStart, Settle, ControlInv, ControlTypeOK
    <3>2. UNCHANGED open
      BY <3>1 DEF StartLost
    <3>3. QED
      BY <1>2, <3>1, <3>2 DEF Started
  <2>2. CASE \E s \in Sessions : /\ Store!Open(s) /\ res' = [res EXCEPT ![h] = OK(s, "starting")]
                                 /\ pc' = [pc EXCEPT ![h] = "markStarting"]
    <3>1. PICK s \in Sessions : /\ Store!Open(s) /\ res' = [res EXCEPT ![h] = OK(s, "starting")]
                                /\ pc' = [pc EXCEPT ![h] = "markStarting"]
      BY <2>2
    <3>2. open' = s /\ res'[h] = OK(s, "starting") /\ pc'[h] = "markStarting"
      BY <3>1 DEF Store!Open, ControlInv, ControlTypeOK
    <3>3. res'[h].id = s
      BY <3>2, MadeAnswers
    <3>4. QED
      BY <3>2, <3>3 DEF Started
  <2>3. QED
    BY <1>6, <2>1, <2>2 DEF DoStart
<1>7. CASE MarkStarting(h)
  <2>1. pc[h] = "markStarting" /\ pc'[h] = "reply" /\ UNCHANGED <<res, open>>
    BY <1>7 DEF MarkStarting, GoTo, ControlInv, ControlTypeOK
  <2>2. res[h].ok
    <3>1. /\ res[h] \in Answers /\ req[h].kind = "start" /\ res[h].status = "starting"
      BY <2>1, WorkingKind DEF ControlInv, ControlTypeOK, StartInv
    <3>2. QED
      BY <3>1, AnswerFields
  <2>3. job'[h] = job[h]
    BY <1>2, <2>1
  <2>4. QED
    BY <1>2, <2>1, <2>2, <2>3 DEF Started
<1>8. CASE Reply(h)
  <2>1. /\ pc[h] = "reply" /\ pc'[h] = "idle" /\ job'[h].step = "done" /\ job'[h].answer = res[h]
        /\ UNCHANGED open
    BY <1>8, ServeJob DEF Reply
  <2>2. QED
    BY <1>2, <2>1 DEF Started
<1>9. QED
  BY <1>1, <1>3, <1>4, <1>5, <1>6, <1>7, <1>8 DEF HandlerStep, Confirm, PeekStop, DoStop, DoAbandon

\* What is true of a call stays true while other calls are served: only a start
\* opens a session, and it has the phone for itself.
LEMMA CallTrueStays ==
  ASSUME ControlInv, NEW g \in Handlers, NEW j, CallTrue(g, j),
         pc'[g] = pc[g], res'[g] = res[g],
         \/ UNCHANGED <<open, status>>
         \/ UNCHANGED open /\ open # None /\ status' = [status EXCEPT ![open] = "recording"]
         \/ open' = None
  PROVE  CallTrue(g, j)'
<1>1. open # None => open \in Sessions
  BY DEF ControlInv, ControlTypeOK, Store!LifecycleTypeOK
<1>2. open' # None => open' = open /\ (status[open] = "recording" => status'[open] = "recording")
  BY <1>1 DEF ControlInv, ControlTypeOK
<1>3. Accepted(g, j)' <=> Accepted(g, j)
  BY DEF Accepted
<1>4. QED
  BY <1>2, <1>3 DEF CallTrue

\* The calls while the server works for one of them.
LEMMA CallsServe ==
  ASSUME ControlInv, CallInv, ~Overlap, CallsInv, NEW h \in Handlers, Serve(h),
         job[h] # None /\ job[h].kind \in Starters => \A g \in Handlers \ {h} : job[g] = None
  PROVE  CallsInv'
<1> USE Nothing
<1>1. HandlerStep(h) /\ Served(h, job[h]) /\ (job[h] # None => CallTrue(h, job[h]))
  BY DEF Serve, CallsInv
<1>2. /\ \A g \in Handlers \ {h} : job'[g] = job[g]
      /\ job[h] = None => job'[h] = None /\ UNCHANGED <<open, status>>
      /\ Served(h, job[h])'
  BY <1>1, ServeEffect
<1>3. ASSUME NEW g \in Handlers \ {h} PROVE Served(g, job[g])'
  <2>1. Served(g, job[g]) /\ job'[g] = job[g]
    BY <1>2 DEF CallsInv
  <2>2. PICK j : j = job[g]
    OBVIOUS
  <2>3. Served(g, j)'
    BY <1>1, <2>1, <2>2, OthersServed
  <2>4. QED
    BY <2>1, <2>2, <2>3 DEF Served
<1>4. ASSUME NEW g \in Handlers \ {h}, job'[g] # None PROVE CallTrue(g, job[g])'
  <2>1. job'[g] = job[g] /\ job[g] # None /\ CallTrue(g, job[g])
    BY <1>2, <1>4 DEF CallsInv
  <2>2. PICK j : j = job[g]
    OBVIOUS
  <2>3. pc'[g] = pc[g] /\ res'[g] = res[g]
    BY <1>1, OneHandler DEF ControlInv
  <2>4. \/ UNCHANGED <<open, status>>
        \/ UNCHANGED open /\ open # None /\ status' = [status EXCEPT ![open] = "recording"]
        \/ open' = None
    BY <1>1, <1>2, <2>1, StoreEffect
  <2>5. CallTrue(g, j)'
    BY <2>1, <2>2, <2>3, <2>4, CallTrueStays
  <2>6. QED
    BY <2>1, <2>2, <2>5 DEF CallTrue, Accepted
<1>5. ASSUME job'[h] # None PROVE CallTrue(h, job[h])'
  <2>1. CASE job[h].kind \in Starters
    <3>1. job'[h].kind = job[h].kind /\ job'[h].step # "seen"
      <4>1. job[h] # None
        BY <1>2, <1>5
      <4>2. QED
        BY <1>1, <4>1, ServeJob
    <3>2. QED
      BY <2>1, <3>1 DEF CallTrue, Starters, Confirmers, Closers
  <2>2. CASE job[h].kind \notin Starters
    BY <1>1, <1>2, <1>5, <2>2, AcceptedCall
  <2>3. QED
    BY <2>1, <2>2
<1>6. QED
  BY <1>2, <1>3, <1>4, <1>5 DEF CallsInv

\* One call is replaced, which the server does not work for.
LEMMA CallsReplace ==
  ASSUME ControlInv, CallInv, CallsInv, UNCHANGED controlVars, NEW h \in Handlers, NEW x,
         job' = [job EXCEPT ![h] = x], pc[h] = "idle",
         x # None => CallTrue(h, x) /\ (x.step \in {"seen", "done"} => x.answer # None)
  PROVE  CallsInv'
<1>1. job'[h] = x /\ \A g \in Handlers \ {h} : job'[g] = job[g]
  BY DEF CallInv
<1>2. \A g \in Handlers : \A j : Served(g, j) => Served(g, j)'
  BY DEF Served, controlVars, handlerVars
<1>3. \A g \in Handlers : \A j : CallTrue(g, j) => CallTrue(g, j)'
  BY DEF CallTrue, Accepted, controlVars, handlerVars, storeVars
<1>4. Served(h, x) /\ (x # None => CallTrue(h, x))
  BY DEF Served
<1>5. ASSUME NEW g \in Handlers, NEW j, job'[g] = j PROVE Served(g, j)' /\ (j # None => CallTrue(g, j)')
  <2>1. Served(g, j) /\ (j # None => CallTrue(g, j))
    BY <1>1, <1>4, <1>5 DEF CallsInv
  <2>2. QED
    BY <1>2, <1>3, <2>1
<1>6. QED
  BY <1>5 DEF CallsInv

\* None is.
LEMMA CallsKeep ==
  ASSUME CallsInv, UNCHANGED <<controlVars, job>>
  PROVE  CallsInv'
<1>1. \A g \in Handlers : \A j : Served(g, j) => Served(g, j)'
  BY DEF Served, controlVars, handlerVars
<1>2. \A g \in Handlers : \A j : CallTrue(g, j) => CallTrue(g, j)'
  BY DEF CallTrue, Accepted, controlVars, handlerVars, storeVars
<1>3. QED
  BY <1>1, <1>2 DEF CallsInv

\* A request is sent, or comes once more.
LEMMA CallsArrive ==
  ASSUME ControlInv, CallInv, ~Overlap, AnsweredInv, CallsInv, NEW h \in Handlers, Send(h) \/ Duplicate(h)
  PROVE  CallsInv' /\ UNCHANGED <<open, status>>
<1> USE Nothing, CallAssumption
<1>1. PICK r \in Requests : Receive(h, r) /\ (Duplicate(h) => \E c \in Commands : asked[c] = r)
  BY SentRequest, RepeatedRequest
<1>2. Arrive(h)
  BY SentRequest, RepeatedRequest DEF Arrive
<1>3. /\ pc[h] = "idle" /\ pc'[h] = "cache" /\ req'[h] = r /\ UNCHANGED <<open, status, commands, res>>
      /\ \A g \in Handlers \ {h} : pc'[g] = pc[g]
  BY <1>1 DEF Receive, storeVars, ControlInv, ControlTypeOK
<1>4. ASSUME NEW g \in Handlers, NEW j, CallTrue(g, j), g # h \/ ~Accepted(h, j)' PROVE CallTrue(g, j)'
  BY <1>3, <1>4 DEF CallTrue, Accepted
<1>5. CASE Duplicate(h)
  <2>1. UNCHANGED job /\ job[h] = None
    BY <1>5 DEF Duplicate
  <2>2. PICK c \in Commands : asked[c] = r
    BY <1>1, <1>5
  <2>3. c = r.command /\ asked[r.command] = r /\ r.command \in Commands
    BY <2>2, RequestFields DEF ControlInv, AskedInv
  <2>4. Busy(r.command) = {}
    BY <1>1 DEF Receive
  <2>5. commands[r.command] # None
    BY <2>3, <2>4 DEF AnsweredInv
  <2>6. Served(h, job[h])'
    BY <1>3, <2>1, <2>5 DEF Served
  <2>7. ASSUME NEW g \in Handlers \ {h} PROVE Served(g, job[g])' /\ (job'[g] # None => CallTrue(g, job[g])')
    <3>1. PICK j : j = job[g]
      OBVIOUS
    <3>2. Served(g, j) /\ (j # None => CallTrue(g, j))
      BY <3>1 DEF CallsInv
    <3>3. Served(g, j)' /\ (j # None => CallTrue(g, j)')
      BY <1>2, <1>4, <3>2, OthersServed
    <3>4. job' = job
      BY <2>1
    <3>5. QED
      BY <3>1, <3>3, <3>4 DEF Served, CallTrue, Accepted
  <2>8. QED
    BY <1>3, <2>1, <2>6, <2>7 DEF CallsInv
<1>6. CASE Send(h)
  <2>1. job[h] \in Jobs /\ job[h].step = "send" /\ job' = [job EXCEPT ![h].step = "wait"]
    BY <1>6 DEF Send, CallInv
  <2>2. job'[h] = [job[h] EXCEPT !.step = "wait"] /\ \A g \in Handlers \ {h} : job'[g] = job[g]
    BY <2>1 DEF CallInv
  <2>3. /\ job'[h] \in Jobs /\ job'[h].step = "wait" /\ job'[h].kind = job[h].kind /\ job'[h].id = job[h].id
    BY <2>1, <2>2 DEF Jobs
  <2>4. Served(h, job[h])' /\ CallTrue(h, job[h])'
    BY <1>3, <2>1, <2>3 DEF Served, CallTrue, Accepted, CallsInv
  <2>5. ASSUME NEW g \in Handlers \ {h} PROVE Served(g, job[g])' /\ (job'[g] # None => CallTrue(g, job[g])')
    <3>1. PICK j : j = job[g]
      OBVIOUS
    <3>2. Served(g, j) /\ (j # None => CallTrue(g, j))
      BY <3>1 DEF CallsInv
    <3>3. Served(g, j)' /\ (j # None => CallTrue(g, j)')
      BY <1>2, <1>4, <3>2, OthersServed
    <3>4. QED
      BY <2>2, <3>1, <3>3 DEF Served, CallTrue, Accepted
  <2>6. QED
    BY <1>3, <2>4, <2>5 DEF CallsInv
<1>7. QED
  BY <1>5, <1>6

\* The phone hears of the open session.
LEMMA CallsStatus ==
  ASSUME ControlInv, CallInv, CallsInv, NEW h \in Handlers, Status(h),
         job[h].kind \in Starters => open = None
  PROVE  CallsInv'
<1> USE Nothing, CallAssumption
<1>1. job[h] \in Jobs /\ job[h].step = "status" /\ pc[h] = "idle" /\ UNCHANGED controlVars
  BY DEF Status, CallInv
<1>2. PICK x : x = [job[h] EXCEPT !.step = "seen",
                                  !.answer = IF open = None THEN Idle ELSE OK(open, status[open])]
  OBVIOUS
<1>3. /\ x.step = "seen" /\ x.kind = job[h].kind /\ x.id = job[h].id
      /\ x.answer = IF open = None THEN Idle ELSE OK(open, status[open])
  BY <1>1, <1>2 DEF Jobs
<1>4. open # None => /\ OK(open, status[open]).id = open
                     /\ OK(open, status[open]) # Idle /\ OK(open, status[open]) # None
  <2>1. open # None => OK(open, status[open]) \in Answers /\ OK(open, status[open]).status = status[open]
                       /\ OK(open, status[open]).id = open /\ status[open] \in {"starting", "recording"}
    BY MadeAnswers DEF ControlInv, ControlTypeOK, Store!LifecycleTypeOK
  <2>2. Idle.status = "idle"
    BY DEF Idle
  <2>3. QED
    BY <2>1, <2>2
<1>5. Idle # None
  OBVIOUS
<1>6. CallTrue(h, x)
  BY <1>1, <1>3, <1>4 DEF CallTrue, CallsInv, Accepted, Starters
<1>7. job' = [job EXCEPT ![h] = x]
  BY <1>2 DEF Status
<1>8. QED
  BY <1>1, <1>3, <1>4, <1>5, <1>6, <1>7, CallsReplace

-----------------------------------------------------------------------------
(* The stages of a capture: what the steps of the calls leave of them.     *)

\* The calls go on, each with what it is about.
SameCalls ==
  \A g \in Handlers :
    /\ job'[g] = None <=> job[g] = None
    /\ job[g] # None =>
         /\ job'[g].kind = job[g].kind
         /\ job[g].kind = "tileStop" /\ job[g].step \in {"status", "seen"} => job'[g].step \in {"status", "seen"}

\* So the same kinds are under way.
LEMMA SameUnderWay ==
  ASSUME SameCalls, NEW kinds
  PROVE  UnderWay(kinds)' <=> UnderWay(kinds)
BY DEF SameCalls, UnderWay

\* A VPN that is coming or has come stays so, while a session is confirmed or closed
\* by a call.
LEMMA CallStages ==
  ASSUME ControlInv, SameCalls, UNCHANGED <<settings, activityVars, intents, news, serviceVars>>,
         \/ UNCHANGED <<open, status>>
         \/ UNCHANGED open /\ open # None /\ status' = [status EXCEPT ![open] = "recording"]
         \/ open' = None /\ UNCHANGED status /\ UnderWay(Closers)
  PROVE  (Booting => Booting') /\ (Booted => Booted')
<1>1. UNCHANGED <<active, vpnOnly, asking, shown, intents, news, running, boot, live, ending>>
  BY DEF settings, activityVars, serviceVars
<1>2. /\ UnderWay(Starters)' <=> UnderWay(Starters)
      /\ UnderWay(Confirmers)' <=> UnderWay(Confirmers)
      /\ UnderWay(Closers)' <=> UnderWay(Closers)
  BY SameUnderWay
<1>3. open' = open \/ (open' = None /\ UnderWay(Closers))
  OBVIOUS
<1>4. open = active /\ active # None /\ status[active] = "recording" => status'[active] = "recording"
  BY DEF ControlInv, ControlTypeOK, Store!LifecycleTypeOK
<1>5. Follows /\ ~UnderWay(Closers) => Follows'
  BY <1>1, <1>3 DEF Follows
<1>6. Follows /\ Confirmed => Confirmed'
  BY <1>1, <1>2, <1>4 DEF Confirmed, Follows
<1>7. Stopping => Stopping'
  BY <1>1 DEF Stopping, SameCalls
<1>8. Booting => Booting'
  <2> SUFFICES ASSUME Booting PROVE Booting'
    OBVIOUS
  <2>1. \A h \in Handlers : job'[h] # None => job'[h].kind \in Confirmers
    BY DEF Booting, SameCalls
  <2>2. ~UnderWay(Closers) /\ Follows
    BY DEF Booting, UnderWay, Closers, Confirmers
  <2>3. Follows'
    BY <1>5, <2>2
  <2>4. Confirmed => Confirmed'
    BY <1>6, <2>2
  <2>5. NoVpn => NoVpn'
    BY <1>1 DEF NoVpn
  <2>6. QED
    BY <1>1, <2>1, <2>3, <2>4, <2>5 DEF Booting
<1>9. Booted => Booted'
  <2> SUFFICES ASSUME Booted PROVE Booted'
    OBVIOUS
  <2>1. /\ ~UnderWay(Starters)' /\ asking' = "no" /\ boot' = "none" /\ intents' \in Seq({"stop"})
    BY <1>1, <1>2 DEF Booted
  <2>2. /\ open' \in {None, active'}
        /\ open' = None /\ active' # None => UnderWay(Closers)'
        /\ open' # None /\ intents' # <<>> => UnderWay(Closers)'
    BY <1>1, <1>2, <1>3 DEF Booted
  <2>3. Runs => Runs'
    BY <1>1, <1>2, <1>5, <1>6, <1>7 DEF Runs
  <2>4. Stopped => Stopped'
    <3>1. FailureTold' <=> FailureTold
      BY <1>1 DEF FailureTold
    <3>2. QED
      BY <1>1, <1>2, <1>3, <3>1 DEF Stopped
  <2>5. QED
    BY <1>1, <2>1, <2>2, <2>3, <2>4 DEF Booted
<1>10. QED
  BY <1>8, <1>9

\* A start goes on: its handler keeps the stage, ...
LEMMA CallingServe ==
  ASSUME ControlInv, CallInv, CallsInv, Calling, NEW h \in Handlers, Serve(h), ~StartLost(h)
  PROVE  Calling'
<1> USE Nothing, CallAssumption
<1>1. UNCHANGED <<active, vpnOnly, asking, shown, intents, news, running, boot, live, ending>>
  BY DEF Serve, settings, activityVars, serviceVars
<1>2. PICK g \in Handlers :
        /\ job[g] # None /\ job[g].kind \in Starters
        /\ \A f \in Handlers \ {g} : job[f] = None
        /\ open = Started(g, job[g])
        /\ job[g].step = "seen" => job[g].answer = Idle
  BY DEF Calling
<1>3. Served(h, job[h]) /\ HandlerStep(h)
  BY DEF CallsInv, Serve
<1>4. \A f \in Handlers \ {h} : job'[f] = job[f] /\ pc'[f] = pc[f] /\ res'[f] = res[f]
  BY <1>3, ServeEffect, OneHandler DEF ControlInv
<1>5. CASE h = g
  <2>1. /\ job'[g] # None /\ job'[g].kind = job[g].kind /\ job'[g].step # "seen"
    BY <1>2, <1>3, <1>5, ServeJob
  <2>2. open' = Started(g, job[g])'
    BY <1>2, <1>3, <1>5, StartedSession
  <2>3. \A f \in Handlers \ {g} : job'[f] = None
    BY <1>2, <1>4, <1>5
  <2>4. QED
    BY <1>1, <1>2, <2>1, <2>2, <2>3 DEF Calling, NoVpn
<1>6. CASE h # g
  <2>1. job'[h] = None /\ UNCHANGED <<open, status>>
    BY <1>2, <1>3, <1>6, ServeEffect
  <2>2. job'[g] = job[g] /\ pc'[g] = pc[g] /\ res'[g] = res[g]
    BY <1>4, <1>6
  <2>3. open' = Started(g, job[g])'
    BY <1>2, <2>1, <2>2 DEF Started
  <2>4. \A f \in Handlers \ {g} : job'[f] = None
    BY <1>2, <1>4, <1>6, <2>1
  <2>5. QED
    BY <1>1, <1>2, <2>2, <2>3, <2>4 DEF Calling, NoVpn
<1>7. QED
  BY <1>5, <1>6

\* ... and so do the steps of the call itself.
LEMMA CallingCall ==
  ASSUME ControlInv, CallInv, Calling, NEW h \in Handlers, Send(h) \/ Status(h) \/ Duplicate(h)
  PROVE  Calling'
<1> USE Nothing, CallAssumption
<1>1. UNCHANGED <<active, vpnOnly, asking, shown, intents, news, running, boot, live, ending>>
  BY DEF Send, Status, Duplicate, settings, activityVars, serviceVars
<1>2. PICK g \in Handlers :
        /\ job[g] # None /\ job[g].kind \in Starters
        /\ \A f \in Handlers \ {g} : job[f] = None
        /\ open = Started(g, job[g])
        /\ job[g].step = "seen" => job[g].answer = Idle
  BY DEF Calling
<1>3. UNCHANGED <<open, res>> /\ \A f \in Handlers \ {h} : pc'[f] = pc[f]
  BY DEF Send, Status, Duplicate, Receive, controlVars, storeVars, handlerVars, ControlInv, ControlTypeOK
<1>4. CASE Duplicate(h)
  <2>1. UNCHANGED job /\ h # g
    BY <1>2, <1>4 DEF Duplicate
  <2>2. open' = Started(g, job[g])'
    BY <1>2, <1>3, <2>1 DEF Started
  <2>3. QED
    BY <1>1, <1>2, <2>1, <2>2 DEF Calling, NoVpn
<1>5. CASE Send(h) \/ Status(h)
  <2>1. h = g /\ job[g] \in Jobs /\ job[g].step \in {"send", "status"}
    BY <1>2, <1>5 DEF Send, Status, CallInv
  <2>2. pc[g] = "idle" /\ pc'[g] \in {"idle", "cache"}
    BY <1>5, <2>1 DEF Send, Status, Receive, controlVars, handlerVars, CallInv, ControlInv, ControlTypeOK
  <2>3. open = None
    BY <1>2, <2>1, <2>2 DEF Started
  <2>4. /\ job'[g] # None /\ job'[g].kind = job[g].kind /\ \A f \in Handlers \ {g} : job'[f] = None
        /\ \/ job'[g].step = "wait"
           \/ job'[g].step = "seen" /\ job'[g].answer = Idle
    <3>1. CASE Send(h)
      <4>1. job' = [job EXCEPT ![g].step = "wait"]
        BY <2>1, <3>1 DEF Send
      <4>2. job'[g] = [job[g] EXCEPT !.step = "wait"] /\ \A f \in Handlers \ {g} : job'[f] = None
        BY <1>2, <4>1 DEF CallInv
      <4>3. job'[g] \in Jobs /\ job'[g].kind = job[g].kind /\ job'[g].step = "wait"
        BY <2>1, <4>2 DEF Jobs
      <4>4. QED
        BY <4>2, <4>3
    <3>2. CASE Status(h)
      <4>1. job' = [job EXCEPT ![g].step = "seen", ![g].answer = Idle]
        BY <2>1, <2>3, <3>2 DEF Status
      <4>2. /\ job'[g] = [job[g] EXCEPT !.step = "seen", !.answer = Idle]
            /\ \A f \in Handlers \ {g} : job'[f] = None
        BY <1>2, <4>1 DEF CallInv
      <4>3. job'[g] \in Jobs /\ job'[g].kind = job[g].kind /\ job'[g].step = "seen" /\ job'[g].answer = Idle
        BY <2>1, <4>2 DEF Jobs
      <4>4. QED
        BY <4>2, <4>3
    <3>3. QED
      BY <1>5, <3>1, <3>2
  <2>5. open' = Started(g, job[g])'
    BY <1>3, <2>2, <2>3, <2>4 DEF Started
  <2>6. QED
    BY <1>1, <1>2, <2>4, <2>5 DEF Calling, NoVpn
<1>6. QED
  BY <1>4, <1>5

\* Calm stays while calls are sent and served.
LEMMA CalmCall ==
  ASSUME ControlInv, CallInv, ~Overlap, AnsweredInv, Calm, ~trouble', NEW h \in Handlers,
         Send(h) \/ Status(h) \/ Serve(h) \/ Duplicate(h)
  PROVE  Calm'
<1> USE Nothing, CallAssumption
<1>1. CallsInv /\ Told /\ (Calling \/ Booting \/ Booted)
  BY DEF Calm
<1>2. UNCHANGED <<settings, activityVars, intents, news, serviceVars>>
  BY DEF Send, Status, Serve, Duplicate
<1>3. Told'
  BY <1>1, <1>2 DEF Told, activityVars, serviceVars
<1>4. ~Calling => ~UnderWay(Starters)
  BY <1>1 DEF Booting, Booted, UnderWay, Starters, Confirmers
<1>5. CASE Serve(h)
  <2>1. job[h] # None /\ job[h].kind \in Starters => \A g \in Handlers \ {h} : job[g] = None
    BY <1>4 DEF Calling, UnderWay
  <2>2. CallsInv'
    BY <1>1, <1>5, <2>1, CallsServe
  <2>3. Served(h, job[h]) /\ HandlerStep(h)
    BY <1>1, <1>5 DEF CallsInv, Serve
  <2>4. /\ \A g \in Handlers \ {h} : job'[g] = job[g]
        /\ job[h] = None => job'[h] = None /\ UNCHANGED <<open, status>>
        /\ job[h] # None => job'[h] # None /\ job'[h].kind = job[h].kind /\ job[h].step = "wait"
    BY <1>5, <2>3, ServeEffect, ServeJob
  <2>5. SameCalls
    BY <2>4 DEF SameCalls
  <2>6. CASE Calling
    <3>1. ~StartLost(h)
      BY <1>5 DEF Serve, Fault
    <3>2. QED
      BY <1>1, <1>3, <1>5, <2>2, <2>6, <3>1, CallingServe DEF Calm
  <2>7. CASE ~Calling
    <3>1. \/ UNCHANGED <<open, status>>
          \/ UNCHANGED open /\ open # None /\ status' = [status EXCEPT ![open] = "recording"]
          \/ open' = None /\ UNCHANGED status /\ UnderWay(Closers)
      BY <1>4, <1>5, <2>3, <2>4, <2>7, StoreEffect DEF UnderWay
    <3>2. QED
      BY <1>1, <1>2, <1>3, <2>2, <2>5, <2>7, <3>1, CallStages DEF Calm
  <2>8. QED
    BY <2>6, <2>7
<1>6. CASE Send(h) \/ Status(h) \/ Duplicate(h)
  <2>1. CASE Calling
    <3>1. Status(h) => open = None
      <4>1. SUFFICES ASSUME Status(h) PROVE open = None
        OBVIOUS
      <4>2. job[h] # None /\ job[h].step = "status" /\ pc[h] = "idle"
        BY <4>1 DEF Status, CallInv
      <4>3. open = Started(h, job[h])
        BY <2>1, <4>2 DEF Calling
      <4>4. QED
        BY <4>2, <4>3 DEF Started
    <3>2. CallsInv'
      BY <1>1, <1>6, <3>1, CallsArrive, CallsStatus
    <3>3. QED
      BY <1>3, <1>6, <2>1, <3>2, CallingCall DEF Calm
  <2>2. CASE ~Calling
    <3>1. Status(h) => job[h].kind \notin Starters
      BY <1>4, <2>2 DEF UnderWay, Status
    <3>2. CallsInv'
      BY <1>1, <1>6, <3>1, CallsArrive, CallsStatus
    <3>3. UNCHANGED <<open, status>>
      BY <1>6 DEF Send, Status, Duplicate, Receive, controlVars, storeVars
    <3>4. SameCalls
      <4>1. CASE Duplicate(h)
        BY <4>1 DEF Duplicate, SameCalls
      <4>2. CASE Send(h)
        <5>1. job[h] \in Jobs /\ job[h].step = "send" /\ job' = [job EXCEPT ![h].step = "wait"]
          BY <4>2 DEF Send, CallInv
        <5>2. job'[h] = [job[h] EXCEPT !.step = "wait"] /\ \A f \in Handlers \ {h} : job'[f] = job[f]
          BY <5>1 DEF CallInv
        <5>3. job'[h] \in Jobs /\ job'[h].kind = job[h].kind
          BY <5>1, <5>2 DEF Jobs
        <5>4. QED
          BY <5>1, <5>2, <5>3 DEF SameCalls
      <4>3. CASE Status(h)
        <5>1. PICK a \in Answers \cup {Idle} : job' = [job EXCEPT ![h].step = "seen", ![h].answer = a]
          <6>1. (IF open = None THEN Idle ELSE OK(open, status[open])) \in Answers \cup {Idle}
            BY MadeAnswers DEF ControlInv, ControlTypeOK, Store!LifecycleTypeOK
          <6>2. QED
            BY <4>3, <6>1 DEF Status
        <5>2. job[h] \in Jobs
          BY <4>3 DEF Status, CallInv
        <5>3. job'[h] = [job[h] EXCEPT !.step = "seen", !.answer = a] /\ \A f \in Handlers \ {h} : job'[f] = job[f]
          BY <5>1, <5>2 DEF CallInv
        <5>4. job'[h] \in Jobs /\ job'[h].kind = job[h].kind /\ job'[h].step = "seen"
          BY <5>2, <5>3 DEF Jobs
        <5>5. QED
          BY <5>2, <5>3, <5>4 DEF SameCalls
      <4>4. QED
        BY <1>6, <4>1, <4>2, <4>3
    <3>5. QED
      BY <1>1, <1>2, <1>3, <2>2, <3>2, <3>3, <3>4, CallStages DEF Calm
  <2>3. QED
    BY <2>1, <2>2
<1>7. QED
  BY <1>5, <1>6

-----------------------------------------------------------------------------
(* The broadcasts.                                                         *)

\* What is told when a broadcast was heard, ...
LEMMA NewsHeard ==
  ASSUME ServiceOK, news # <<>>, news' = Tail(news)
  PROVE  /\ Head(news) \in {Up, Down(FALSE), Down(TRUE)}
         /\ FailureTold => Head(news) = Down(TRUE) \/ FailureTold'
         /\ news \in Seq({Up}) => Head(news) = Up /\ news' \in Seq({Up})
         /\ news' = <<>> => news[Len(news)] = Head(news)
         /\ news' # <<>> => news'[Len(news')] = news[Len(news)]
<1>1. PICK N : N = {Up, Down(FALSE), Down(TRUE)}
  OBVIOUS
<1>2. news \in Seq(N)
  BY <1>1 DEF ServiceOK
<1>3. /\ Len(news) \in Nat \ {0} /\ Len(news') = Len(news) - 1 /\ Head(news) = news[1] /\ Head(news) \in N
      /\ \A i \in 1..Len(news') : news'[i] = news[i + 1]
  BY <1>2
<1>4. FailureTold => Head(news) = Down(TRUE) \/ FailureTold'
  <2> SUFFICES ASSUME NEW i \in 1..Len(news), news[i] = Down(TRUE), Head(news) # Down(TRUE)
               PROVE  FailureTold'
    BY DEF FailureTold
  <2>1. i # 1
    BY <1>3
  <2>2. PICK k : k = i - 1
    OBVIOUS
  <2>3. k \in 1..Len(news') /\ k + 1 = i
    BY <1>3, <2>1, <2>2
  <2>4. news'[k] = Down(TRUE)
    BY <1>3, <2>3
  <2>5. QED
    BY <2>3, <2>4 DEF FailureTold
<1>5. news \in Seq({Up}) => Head(news) = Up /\ news' \in Seq({Up})
  <2>1. PICK u : u = Up
    OBVIOUS
  <2>2. news \in Seq({u}) => Head(news) = u /\ news' \in Seq({u})
    OBVIOUS
  <2>3. QED
    BY <2>1, <2>2
<1>6. news' = <<>> => news[Len(news)] = Head(news)
  BY <1>3
<1>7. news' # <<>> => news'[Len(news')] = news[Len(news)]
  <2>1. news' \in Seq(N)
    BY <1>2
  <2>2. news' # <<>> => Len(news') \in 1..Len(news')
    BY <2>1
  <2>3. QED
    BY <1>3, <2>2
<1>8. QED
  BY <1>1, <1>3, <1>4, <1>5, <1>6, <1>7

\* ... and when one is sent.
LEMMA NewsSent ==
  ASSUME ServiceOK, NEW n \in {Up, Down(FALSE), Down(TRUE)}, news' = Append(news, n)
  PROVE  /\ news' # <<>> /\ news'[Len(news')] = n
         /\ FailureTold => FailureTold'
         /\ n = Down(TRUE) => FailureTold'
<1>1. PICK N : N = {Up, Down(FALSE), Down(TRUE)}
  OBVIOUS
<1>2. news \in Seq(N) /\ n \in N
  BY <1>1 DEF ServiceOK
<1>3. /\ Len(news) \in Nat /\ Len(news') = Len(news) + 1 /\ news'[Len(news) + 1] = n /\ news' # <<>>
      /\ \A i \in 1..Len(news) : news'[i] = news[i] /\ i \in 1..Len(news')
  BY <1>2
<1>4. Len(news) + 1 \in 1..Len(news')
  BY <1>3
<1>5. QED
  BY <1>3, <1>4 DEF FailureTold

\* The activity that hears the last broadcast knows as much as the broadcast, ...
LEMMA ToldHeard ==
  ASSUME ServiceOK, Told, news # <<>>, news' = Tail(news), shown' = Head(news).running, UNCHANGED running
  PROVE  Told'
<1>1. news[Len(news)].running <=> running
  BY DEF Told
<1>2. CASE news' = <<>>
  <2>1. news[Len(news)] = Head(news)
    BY <1>2, NewsHeard
  <2>2. QED
    BY <1>1, <1>2, <2>1 DEF Told
<1>3. CASE news' # <<>>
  <2>1. news'[Len(news')] = news[Len(news)]
    BY <1>3, NewsHeard
  <2>2. QED
    BY <1>1, <1>3, <2>1 DEF Told
<1>4. QED
  BY <1>2, <1>3

\* ... one that is sent says how the VPN is, ...
LEMMA ToldSent ==
  ASSUME ServiceOK, NEW n \in {Up, Down(FALSE), Down(TRUE)}, news' = Append(news, n),
         n.running <=> running'
  PROVE  Told'
BY NewsSent DEF Told

\* ... and nothing else changes what it is told.
LEMMA ToldStays ==
  ASSUME Told, UNCHANGED <<shown, running, news>>
  PROVE  Told'
BY DEF Told

-----------------------------------------------------------------------------
(* What the user does once all is settled.                                 *)

\* When all is settled the VPN has been booted and not stopped since, or stopped.
LEMMA SettledStage ==
  ASSUME ControlInv, CallInv, ScreenOK, ServiceOK, Calm, Settled
  PROVE  /\ Booted /\ CallsInv /\ (shown <=> running)
         /\ \A kinds : ~UnderWay(kinds)
         /\ open = active
         /\ \A h \in Handlers : job[h] = None /\ pc[h] = "idle"
         /\ intents = <<>> /\ news = <<>> /\ asking = "no" /\ boot = "none" /\ ending = 0
         /\ running => live = 1 /\ Follows /\ (vpnOnly \/ status[active] = "recording")
         /\ ~running => live = 0 /\ active = None
<1>1. \A h \in Handlers : job[h] = None /\ pc[h] = "idle"
  BY DEF Settled
<1>2. intents = <<>> /\ news = <<>> /\ asking = "no" /\ boot = "none" /\ ending = 0
  BY DEF Settled
<1>3. ~Calling
  BY <1>1 DEF Calling
<1>4. ~Booting
  BY <1>2 DEF Booting
<1>5. Booted /\ CallsInv /\ Told
  BY <1>3, <1>4 DEF Calm
<1>6. shown <=> running
  BY <1>2, <1>5 DEF Told
<1>7. \A kinds : ~UnderWay(kinds)
  BY <1>1 DEF UnderWay
<1>8. ~FailureTold /\ ~Stopping
  BY <1>1, <1>2 DEF FailureTold, Stopping
<1>9. running => live = 1 /\ Follows /\ Confirmed
  BY <1>5, <1>8 DEF Booted, Runs
<1>10. ~running => live = 0 /\ open = None
  BY <1>5, <1>7, <1>8 DEF Booted, Stopped
<1>11. open = active
  BY <1>5, <1>7 DEF Booted
<1>12. Confirmed => vpnOnly \/ status[active] = "recording"
  BY <1>2, <1>7 DEF Confirmed
<1>13. QED
  BY <1>1, <1>2, <1>5, <1>6, <1>7, <1>9, <1>10, <1>11, <1>12

\* The calls after a new one, ...
LEMMA CallsBegin ==
  ASSUME ControlInv, CallInv, CallsInv, UNCHANGED controlVars, NEW h \in Handlers,
         NEW id \in Sessions \cup {None}, NEW step \in {"status", "send"},
         NEW kind \in {"start", "stop", "confirm", "abandon", "resume", "tileStart", "tileStop"},
         Begin(h, kind, step, id),
         open # None /\ kind \notin Starters => id = open
  PROVE  /\ CallsInv' /\ job[h] = None /\ pc[h] = "idle"
         /\ job'[h] # None /\ job'[h].kind = kind /\ job'[h].step = step
         /\ \A g \in Handlers \ {h} : job'[g] = job[g]
         /\ \A kinds : UnderWay(kinds)' <=> UnderWay(kinds) \/ kind \in kinds
<1> USE Nothing, CallAssumption
<1>1. PICK x : x = [kind |-> kind, step |-> step, id |-> id, answer |-> None]
  OBVIOUS
<1>2. x \in Jobs /\ x.kind = kind /\ x.step = step /\ x.id = id /\ x.answer = None
  BY <1>1 DEF Jobs
<1>3. job' = [job EXCEPT ![h] = x] /\ pc[h] = "idle" /\ job[h] = None
  BY <1>1 DEF Begin
<1>4. x # None /\ job'[h] = x /\ \A g \in Handlers \ {h} : job'[g] = job[g]
  BY <1>2, <1>3 DEF CallInv
<1>5. CallTrue(h, x)
  BY <1>2 DEF CallTrue, Accepted
<1>6. CallsInv'
  BY <1>2, <1>3, <1>5, CallsReplace
<1>7. \A kinds : UnderWay(kinds)' <=> UnderWay(kinds) \/ kind \in kinds
  BY <1>2, <1>3, <1>4 DEF UnderWay
<1>8. QED
  BY <1>2, <1>3, <1>4, <1>6, <1>7

\* ... and when one has come to its end.
LEMMA CallsEnd ==
  ASSUME ControlInv, CallInv, CallsInv, UNCHANGED controlVars, NEW h \in Handlers, job[h] # None,
         pc[h] = "idle", End(h)
  PROVE  /\ CallsInv' /\ job'[h] = None
         /\ \A g \in Handlers \ {h} : job'[g] = job[g]
         /\ \A kinds : /\ UnderWay(kinds)' => UnderWay(kinds)
                       /\ UnderWay(kinds) => UnderWay(kinds)' \/ job[h].kind \in kinds
<1>1. job' = [job EXCEPT ![h] = None]
  BY DEF End
<1>2. job'[h] = None /\ \A g \in Handlers \ {h} : job'[g] = job[g]
  BY <1>1 DEF CallInv
<1>3. CallsInv'
  BY <1>1, CallsReplace
<1>4. QED
  BY <1>2, <1>3 DEF UnderWay

\* A patient user starts, stops and looks when all is settled.
LEMMA CalmTap ==
  ASSUME ControlInv, CallInv, ScreenOK, ServiceOK, Calm, ~trouble', NEW h,
         \/ h \in Handlers /\ (TapStart(h) \/ TapStop(h) \/ OpenApp(h) \/ TapTile(h))
         \/ TapVpnOnly
  PROVE  Calm'
<1> USE Nothing, CallAssumption
<1>1. Settled
  <2>1. Tap
    BY DEF TapStart, TapStop, OpenApp, TapTile, TapVpnOnly
  <2>2. QED
    BY <2>1 DEF Tap, Fault
<1>2. /\ Booted /\ CallsInv /\ (shown <=> running)
      /\ \A kinds : ~UnderWay(kinds)
      /\ open = active
      /\ \A g \in Handlers : job[g] = None /\ pc[g] = "idle"
      /\ intents = <<>> /\ news = <<>> /\ asking = "no" /\ boot = "none" /\ ending = 0
      /\ running => live = 1 /\ Follows /\ (vpnOnly \/ status[active] = "recording")
      /\ ~running => live = 0 /\ active = None
  BY <1>1, SettledStage
<1>3. /\ UNCHANGED <<controlVars, open, status>>
      /\ UNCHANGED <<news, running, live, ending, boot>>
  BY DEF TapStart, TapStop, OpenApp, TapTile, TapVpnOnly, controlVars, storeVars, serviceVars
<1>4. active \in Sessions \cup {None}
  BY DEF CallInv
<1>5. Told'
  <2>1. UNCHANGED shown \/ shown' = running
    BY DEF TapStart, TapStop, OpenApp, TapTile, TapVpnOnly, activityVars
  <2>2. shown' <=> running'
    BY <1>2, <1>3, <2>1
  <2>3. QED
    BY <1>2, <1>3, <2>2 DEF Told
<1>6. ASSUME h \in Handlers, ~running, NEW kind \in {"start", "tileStart"}, NEW step \in {"status", "send"},
             NEW id \in Sessions \cup {None}, Begin(h, kind, step, id),
             UNCHANGED <<active, asking, intents>>
      PROVE  Calm'
  <2>1. kind \in Starters
    BY DEF Starters
  <2>2. /\ CallsInv' /\ job'[h] # None /\ job'[h].kind = kind /\ job'[h].step = step
        /\ \A g \in Handlers \ {h} : job'[g] = job[g]
    BY <1>2, <1>3, <1>6, <2>1, CallsBegin
  <2>3. pc'[h] = "idle"
    <3>1. pc[h] = "idle"
      BY <1>2, <1>6
    <3>2. QED
      BY <1>3, <3>1 DEF controlVars, handlerVars
  <2>4. open' = Started(h, job[h])'
    BY <1>2, <1>3, <1>6, <2>2, <2>3 DEF Started
  <2>5. Calling'
    BY <1>2, <1>3, <1>6, <2>1, <2>2, <2>4 DEF Calling, NoVpn
  <2>6. QED
    BY <1>5, <2>2, <2>5 DEF Calm
<1>7. ASSUME running, active = None, intents' = Append(intents, "stop"), UNCHANGED <<active, job, asking>>
      PROVE  Calm'
  <2>1. CallsInv'
    BY <1>2, <1>3, <1>7, CallsKeep
  <2>2. ~UnderWay(Starters)'
    BY <1>2, <1>7 DEF UnderWay
  <2>3. intents' = <<"stop">> /\ intents' \in Seq({"stop"}) /\ intents' # <<>>
    BY <1>2, <1>7
  <2>4. Runs'
    BY <1>2, <1>3, <1>7, <2>3 DEF Runs, Stopping
  <2>5. Booted'
    BY <1>2, <1>3, <1>7, <2>2, <2>3, <2>4 DEF Booted
  <2>6. QED
    BY <1>5, <2>1, <2>5 DEF Calm
<1>8. ASSUME h \in Handlers, running, active # None, NEW kind \in {"stop", "tileStop"}, NEW step \in {"status", "send"},
             Begin(h, kind, step, active), UNCHANGED <<active, asking>>,
             intents' = Append(intents, "stop") \/ (UNCHANGED intents /\ kind = "tileStop" /\ step = "status")
      PROVE  Calm'
  <2>1. kind \in Closers /\ kind \notin Starters
    BY DEF Closers, Starters
  <2>2. /\ CallsInv' /\ job'[h] # None /\ job'[h].kind = kind /\ job'[h].step = step
        /\ UnderWay(Closers)' /\ ~UnderWay(Starters)'
    BY <1>2, <1>3, <1>4, <1>8, <2>1, CallsBegin
  <2>3. intents' \in Seq({"stop"})
    <3>1. CASE intents' = Append(intents, "stop")
      BY <1>2, <3>1
    <3>2. CASE UNCHANGED intents
      BY <1>2, <3>2
    <3>3. QED
      BY <1>8, <3>1, <3>2
  <2>4. intents' # <<>> \/ (kind = "tileStop" /\ step = "status")
    BY <1>2, <1>8
  <2>5. Runs'
    BY <1>2, <1>3, <1>8, <2>2, <2>4 DEF Runs, Stopping
  <2>6. Booted'
    BY <1>2, <1>3, <1>8, <2>2, <2>3, <2>5 DEF Booted
  <2>7. QED
    BY <1>5, <2>2, <2>6 DEF Calm
<1>9. CASE h \in Handlers /\ TapStart(h)
  BY <1>2, <1>6, <1>9 DEF TapStart, settings, activityVars
<1>10. CASE h \in Handlers /\ TapStop(h)
  <2>1. running /\ Ask("stop") /\ UNCHANGED <<active, asking>>
    BY <1>2, <1>10 DEF TapStop, settings, activityVars
  <2>2. CASE active = None
    BY <1>7, <1>10, <2>1, <2>2 DEF TapStop, Ask
  <2>3. CASE active # None
    <3>1. ~vpnOnly
      BY <1>2, <2>1, <2>3 DEF Follows
    <3>2. Begin(h, "stop", "send", active)
      BY <1>10, <2>3, <3>1 DEF TapStop
    <3>3. QED
      BY <1>8, <1>10, <2>1, <2>3, <3>2 DEF Ask
  <2>4. QED
    BY <2>2, <2>3
<1>11. CASE h \in Handlers /\ OpenApp(h)
  <2>1. UNCHANGED <<active, vpnOnly, asking, intents>>
    BY <1>11 DEF OpenApp, settings
  <2>2. CallsInv' /\ ~UnderWay(Starters)' /\ ~UnderWay(Closers)'
    <3>1. CASE UNCHANGED job
      BY <1>2, <1>3, <3>1, CallsKeep DEF UnderWay
    <3>2. CASE Begin(h, "resume", "status", active)
      <4>1. "resume" \notin Starters /\ "resume" \notin Closers
        BY DEF Starters, Closers
      <4>2. QED
        BY <1>2, <1>3, <1>4, <1>11, <3>2, <4>1, CallsBegin
    <3>3. QED
      BY <1>11, <3>1, <3>2 DEF OpenApp
  <2>3. CASE running
    <3>1. Follows' /\ Confirmed'
      BY <1>2, <1>3, <2>1, <2>3 DEF Follows, Confirmed
    <3>2. Runs'
      BY <1>2, <1>3, <2>2, <2>3, <3>1 DEF Runs
    <3>3. Booted'
      BY <1>2, <1>3, <2>1, <2>2, <2>3, <3>1, <3>2 DEF Booted, Follows
    <3>4. QED
      BY <1>5, <2>2, <3>3 DEF Calm
  <2>4. CASE ~running
    <3>1. Booted'
      BY <1>2, <1>3, <2>1, <2>2, <2>4 DEF Booted, Stopped
    <3>2. QED
      BY <1>5, <2>2, <3>1 DEF Calm
  <2>5. QED
    BY <2>3, <2>4
<1>12. CASE h \in Handlers /\ TapTile(h)
  <2>1. UNCHANGED <<active, asking>>
    BY <1>12 DEF TapTile, settings, activityVars
  <2>2. CASE ~running
    BY <1>4, <1>6, <1>12, <2>1, <2>2 DEF TapTile
  <2>3. CASE running /\ active = None
    BY <1>7, <1>12, <2>1, <2>3 DEF TapTile, Ask
  <2>4. CASE running /\ active # None
    <3>1. ~vpnOnly
      BY <1>2, <2>4 DEF Follows
    <3>2. Begin(h, "tileStop", "status", active) /\ UNCHANGED intents
      BY <1>12, <2>4, <3>1 DEF TapTile
    <3>3. QED
      BY <1>8, <1>12, <2>1, <2>4, <3>2
  <2>5. QED
    BY <2>2, <2>3, <2>4
<1>13. CASE TapVpnOnly
  <2>1. ~running /\ active' = None /\ vpnOnly' = TRUE /\ UNCHANGED job
    BY <1>2, <1>13 DEF TapVpnOnly, Save
  <2>2. CallsInv' /\ \A g \in Handlers : job'[g] = None
    BY <1>2, <1>3, <2>1, CallsKeep
  <2>3. Follows' /\ NoVpn'
    BY <1>2, <1>3, <2>1 DEF Follows, NoVpn
  <2>4. \/ asking' = "vpnOnly" /\ intents' = <<>>
        \/ asking' = "no" /\ intents' = <<"start">>
    BY <1>2, <1>13 DEF TapVpnOnly, StartVpn, Ask
  <2>5. Booting'
    BY <1>2, <1>3, <2>1, <2>2, <2>3, <2>4 DEF Booting
  <2>6. QED
    BY <1>5, <2>2, <2>5 DEF Calm
<1>14. QED
  BY <1>9, <1>10, <1>11, <1>12, <1>13

-----------------------------------------------------------------------------
(* What the phone does with the answers.                                   *)

\* The stage a call belongs to.
LEMMA StageOfCall ==
  ASSUME CallInv, Calm, NEW h \in Handlers, job[h] # None
  PROVE  /\ job[h] \in Jobs /\ JobInv(h, job[h]) /\ CallTrue(h, job[h])
         /\ job[h].step \in {"seen", "done"} => pc[h] = "idle" /\ job[h].answer # None
         /\ job[h].kind \in Starters =>
              /\ NoVpn /\ asking = "no" /\ intents = <<>> /\ boot = "none" /\ active = None
              /\ \A g \in Handlers \ {h} : job[g] = None
              /\ open = Started(h, job[h])
              /\ job[h].step = "seen" => job[h].answer = Idle
         /\ job[h].kind \in Confirmers => Booting \/ Booted
         /\ job[h].kind \in Closers \cup {"resume"} => Booted
<1> USE DEF Starters, Confirmers, Closers
<1>1. job[h] \in Jobs /\ JobInv(h, job[h]) /\ CallTrue(h, job[h]) /\ Served(h, job[h])
  BY DEF CallInv, Calm, CallsInv
<1>2. job[h].step \in {"seen", "done"} => pc[h] = "idle" /\ job[h].answer # None
  BY <1>1 DEF Served, CallInv, JobInv
<1>3. CASE Calling
  BY <1>1, <1>2, <1>3 DEF Calling
<1>4. CASE Booting
  BY <1>1, <1>2, <1>4 DEF Booting
<1>5. CASE Booted
  BY <1>1, <1>2, <1>5 DEF Booted, UnderWay
<1>6. QED
  BY <1>3, <1>4, <1>5 DEF Calm

\* A call that follows the VPN is over, and nothing else changes.
LEMMA CalmConfirmed ==
  ASSUME ControlInv, CallInv, Calm, NEW h \in Handlers, job[h] # None, pc[h] = "idle", End(h),
         job[h].kind \in Confirmers \cup {"resume"},
         job[h].kind \in Confirmers /\ open # None => status[open] = "recording",
         UNCHANGED <<controlVars, active, vpnOnly, asking, shown, intents, news, running, boot, live, ending>>
  PROVE  Calm'
<1> USE DEF Starters, Confirmers, Closers
<1>1. /\ CallsInv' /\ \A g \in Handlers \ {h} : job'[g] = job[g]
      /\ job'[h] = None
      /\ \A kinds : /\ UnderWay(kinds)' => UnderWay(kinds)
                    /\ UnderWay(kinds) => UnderWay(kinds)' \/ job[h].kind \in kinds
  BY CallsEnd DEF Calm
<1>2. UNCHANGED <<open, status>>
  BY DEF controlVars, storeVars
<1>3. Told'
  BY ToldStays DEF Calm
<1>4. Follows => Follows'
  BY <1>2 DEF Follows
<1>5. Follows /\ Confirmed => Confirmed'
  BY <1>1, <1>2 DEF Follows, Confirmed
<1>6. (UnderWay(Closers)' <=> UnderWay(Closers)) /\ (UnderWay(Starters)' <=> UnderWay(Starters))
  BY <1>1
<1>7. CASE Booting
  <2>1. Follows' /\ (Confirmed => Confirmed') /\ (NoVpn => NoVpn')
    BY <1>4, <1>5, <1>7 DEF Booting, NoVpn
  <2>2. \A g \in Handlers : job'[g] # None => job'[g].kind \in Confirmers
    BY <1>1, <1>7 DEF Booting
  <2>3. Booting'
    BY <1>7, <2>1, <2>2 DEF Booting
  <2>4. QED
    BY <1>1, <1>3, <2>3 DEF Calm
<1>8. CASE Booted
  <2>1. Stopping => Stopping'
    BY <1>1 DEF Stopping
  <2>2. Runs => Runs'
    BY <1>4, <1>5, <1>6, <2>1 DEF Runs
  <2>3. Stopped => Stopped'
    BY <1>2, <1>6 DEF Stopped, FailureTold
  <2>4. Booted'
    BY <1>2, <1>6, <1>8, <2>2, <2>3 DEF Booted
  <2>5. QED
    BY <1>1, <1>3, <2>4 DEF Calm
<1>9. QED
  BY <1>7, <1>8, StageOfCall

\* A call that was to close the capture has done so.
LEMMA CalmClosed ==
  ASSUME ControlInv, CallInv, Calm, NEW h \in Handlers, job[h] # None, pc[h] = "idle", End(h),
         job[h].kind \in Closers, open = None, active' = None,
         job[h].kind = "tileStop" => job[h].step \notin {"status", "seen"} \/ intents' # <<>>,
         UNCHANGED <<controlVars, asking, shown, news, running, boot, live, ending>>,
         UNCHANGED intents \/ intents' = Append(intents, "stop")
  PROVE  Calm'
<1> USE DEF Starters, Confirmers, Closers
<1>1. /\ CallsInv' /\ \A g \in Handlers \ {h} : job'[g] = job[g]
      /\ job'[h] = None
      /\ \A kinds : /\ UnderWay(kinds)' => UnderWay(kinds)
                    /\ UnderWay(kinds) => UnderWay(kinds)' \/ job[h].kind \in kinds
  BY CallsEnd DEF Calm
<1>2. UNCHANGED <<open, status>>
  BY DEF controlVars, storeVars
<1>3. Told'
  BY ToldStays DEF Calm
<1>4. Booted
  BY StageOfCall
<1>5. UnderWay(Closers) /\ ~UnderWay(Starters)'
  BY <1>1, <1>4 DEF UnderWay, Booted
<1>6. intents' \in Seq({"stop"})
  <2>1. intents \in Seq({"stop"})
    BY <1>4 DEF Booted
  <2>2. QED
    BY <2>1, Queues
<1>7. intents # <<>> => intents' # <<>>
  <2>1. intents \in Seq({"stop"})
    BY <1>4 DEF Booted
  <2>2. QED
    BY <2>1
<1>8. Stopping => Stopping'
  BY <1>1, <1>7 DEF Stopping
<1>9. Runs => Runs'
  BY <1>5, <1>8 DEF Runs
<1>10. Stopped => Stopped'
  BY <1>2 DEF Stopped
<1>11. Booted'
  BY <1>2, <1>4, <1>5, <1>6, <1>9, <1>10 DEF Booted
<1>12. QED
  BY <1>1, <1>3, <1>11 DEF Calm

\* A start that was answered leads to the VPN, or to nothing.
LEMMA CalmStarted ==
  ASSUME ControlInv, CallInv, Calm, NEW h \in Handlers, job[h] # None,
         job[h].kind \in Starters, job[h].step = "done",
         UNCHANGED <<controlVars, shown, news, running, boot, live, ending>>
  PROVE  /\ job[h].answer.ok => open = job[h].answer.id /\ open # None
         /\ ~job[h].answer.ok => open = None
         /\ /\ End(h) /\ ~job[h].answer.ok /\ UNCHANGED <<active, asking, intents>>
            => Calm'
         /\ /\ job[h].answer.ok /\ active' = job[h].answer.id /\ ~vpnOnly'
            /\ CallsInv' /\ \A g \in Handlers : job'[g] # None => job'[g].kind \in Confirmers
            /\ \/ asking' = "capture" /\ UNCHANGED intents
               \/ UNCHANGED asking /\ Ask("start")
               \/ asking' = "no" /\ Ask("start")
            => Calm'
<1> USE Nothing, CallAssumption
<1>1. /\ NoVpn /\ asking = "no" /\ intents = <<>> /\ boot = "none" /\ active = None
      /\ \A g \in Handlers \ {h} : job[g] = None
      /\ open = Started(h, job[h]) /\ pc[h] = "idle" /\ job[h].answer # None
      /\ JobInv(h, job[h])
  BY StageOfCall
<1>2. job[h].answer \in Answers
  BY <1>1 DEF JobInv
<1>3. /\ job[h].answer.ok => open = job[h].answer.id /\ open # None
      /\ ~job[h].answer.ok => open = None
  BY <1>1, <1>2, AnswerFields DEF Started
<1>4. UNCHANGED <<open, status>>
  BY DEF controlVars, storeVars
<1>5. Told' /\ NoVpn'
  BY <1>1, ToldStays DEF Calm, NoVpn
<1>6. ASSUME End(h), ~job[h].answer.ok, UNCHANGED <<active, asking, intents>>
      PROVE  Calm'
  <2>1. CallsInv' /\ \A g \in Handlers : job'[g] = None
    <3>1. CallsInv' /\ job'[h] = None /\ \A g \in Handlers \ {h} : job'[g] = job[g]
      BY <1>1, <1>6, CallsEnd DEF Calm
    <3>2. QED
      BY <1>1, <3>1
  <2>2. intents' \in Seq({"stop"})
    BY <1>1, <1>6
  <2>3. Stopped' /\ ~running'
    BY <1>3, <1>4, <1>5, <1>6 DEF Stopped, NoVpn
  <2>4. Booted'
    BY <1>1, <1>3, <1>4, <1>6, <2>1, <2>2, <2>3 DEF Booted, UnderWay
  <2>5. QED
    BY <1>5, <2>1, <2>4 DEF Calm
<1>7. ASSUME job[h].answer.ok, active' = job[h].answer.id, ~vpnOnly',
             CallsInv', \A g \in Handlers : job'[g] # None => job'[g].kind \in Confirmers,
             \/ asking' = "capture" /\ UNCHANGED intents
             \/ UNCHANGED asking /\ Ask("start")
             \/ asking' = "no" /\ Ask("start")
      PROVE  Calm'
  <2>1. Follows'
    BY <1>3, <1>4, <1>7 DEF Follows
  <2>2. \/ asking' = "capture" /\ intents' = <<>>
        \/ asking' = "no" /\ intents' = <<"start">>
    BY <1>1, <1>7 DEF Ask
  <2>3. Booting'
    BY <1>1, <1>5, <1>7, <2>1, <2>2 DEF Booting
  <2>4. QED
    BY <1>5, <1>7, <2>3 DEF Calm
<1>8. QED
  BY <1>3, <1>6, <1>7

\* The activity gets an answer.
LEMMA CalmAnswered ==
  ASSUME ControlInv, CallInv, Calm, ~trouble', NEW h \in Handlers, Answered(h)
  PROVE  Calm'
<1> USE Nothing, CallAssumption
<1>1. /\ job[h] # None /\ job[h].step = "done" /\ End(h)
      /\ job[h].kind \in {"start", "stop", "confirm", "abandon"}
      /\ UNCHANGED <<controlVars, shown, news, running, boot, live, ending>>
  BY DEF Answered, serviceVars
<1>2. pc[h] = "idle" /\ job[h].answer # None /\ CallTrue(h, job[h]) /\ CallsInv
  BY <1>1, StageOfCall DEF Calm
<1>3. CASE job[h].kind = "start"
  <2>1. job[h].kind \in Starters
    BY <1>3 DEF Starters
  <2>2. CASE job[h].answer.ok
    <3>1. /\ active' = job[h].answer.id /\ vpnOnly' = FALSE
          /\ (asking' = "capture" /\ UNCHANGED intents) \/ (asking' = "no" /\ Ask("start"))
      BY <1>2, <1>3, <2>2 DEF Answered, Save, StartVpn
    <3>2. CallsInv' /\ \A g \in Handlers : job'[g] = None
      <4>1. CallsInv' /\ job'[h] = None /\ \A g \in Handlers \ {h} : job'[g] = job[g]
        BY <1>1, <1>2, CallsEnd
      <4>2. QED
        BY <1>1, <2>1, <4>1, StageOfCall
    <3>3. QED
      BY <1>1, <2>1, <2>2, <3>1, <3>2, CalmStarted
  <2>3. CASE ~job[h].answer.ok
    <3>1. UNCHANGED <<active, asking, intents>>
      BY <1>3, <2>3 DEF Answered, settings
    <3>2. QED
      BY <1>1, <2>1, <2>3, <3>1, CalmStarted
  <2>4. QED
    BY <2>2, <2>3
<1>4. CASE job[h].kind \in {"stop", "abandon"}
  <2>1. job[h].answer.ok /\ active' = None /\ UNCHANGED <<asking, intents>>
    BY <1>2, <1>4 DEF Answered, Save
  <2>2. job[h].kind \in Closers
    BY <1>4 DEF Closers
  <2>3. open = None
    BY <1>1, <1>2, <2>1, <2>2 DEF CallTrue, Accepted
  <2>4. QED
    BY <1>1, <1>2, <1>4, <2>1, <2>2, <2>3, CalmClosed
<1>5. CASE job[h].kind = "confirm"
  <2>1. job[h].answer.ok /\ UNCHANGED <<active, vpnOnly, asking, intents>>
    BY <1>2, <1>5 DEF Answered, settings
  <2>2. job[h].kind \in Confirmers
    BY <1>5 DEF Confirmers
  <2>3. open # None => status[open] = "recording"
    BY <1>1, <1>2, <2>1, <2>2 DEF CallTrue, Accepted
  <2>4. QED
    BY <1>1, <1>2, <2>1, <2>2, <2>3, CalmConfirmed
<1>6. QED
  BY <1>1, <1>3, <1>4, <1>5

\* The activity has seen the computer's state.
LEMMA CalmResumed ==
  ASSUME ControlInv, CallInv, Calm, NEW h \in Handlers, Resumed(h)
  PROVE  Calm'
<1> USE Nothing, CallAssumption
<1>1. /\ job[h] # None /\ job[h].kind = "resume" /\ job[h].step = "seen"
      /\ UNCHANGED <<controlVars, vpnOnly, asking, shown, intents, news, running, boot, live, ending>>
  BY DEF Resumed, serviceVars, activityVars
<1>2. /\ job[h] \in Jobs /\ job[h].id # None /\ CallTrue(h, job[h]) /\ Booted
      /\ pc[h] = "idle" /\ job[h].answer # None
  BY <1>1, StageOfCall DEF JobInv
<1>3. Told' /\ UNCHANGED <<open, status>>
  BY <1>1, ToldStays DEF Calm, controlVars, storeVars
<1>4. active \in Sessions \cup {None}
  BY DEF CallInv
<1>5. ASSUME \A g \in Handlers \ {h} : job'[g] = job[g],
             job'[h] = None \/ job'[h].kind \in {"resume", "confirm"}
      PROVE  /\ UnderWay(Closers)' <=> UnderWay(Closers)
             /\ UnderWay(Starters)' <=> UnderWay(Starters)
             /\ Stopping => Stopping'
             /\ FailureTold' <=> FailureTold
  BY <1>1, <1>5 DEF UnderWay, Closers, Starters, Stopping, FailureTold
<1>6. CASE job[h].answer = Idle /\ ~shown /\ active # None
  <2>1. active' = None /\ job' = [job EXCEPT ![h] = None]
    <3>1. Idle.id = None
      BY DEF Idle
    <3>2. QED
      BY <1>2, <1>6, <3>1 DEF Resumed
  <2>2. open = None
    BY <1>1, <1>2, <1>6 DEF CallTrue
  <2>3. CallsInv' /\ job'[h] = None /\ \A g \in Handlers \ {h} : job'[g] = job[g]
    BY <1>1, <1>2, <2>1, CallsEnd DEF End, Calm
  <2>4. Runs => Runs'
    <3>1. ~Follows
      BY <1>6, <2>2 DEF Follows
    <3>2. QED
      BY <1>1, <1>5, <2>3, <3>1 DEF Runs
  <2>5. Booted'
    BY <1>1, <1>2, <1>3, <1>5, <2>1, <2>2, <2>3, <2>4 DEF Booted, Stopped
  <2>6. QED
    BY <1>3, <2>3, <2>5 DEF Calm
<1>7. CASE UNCHANGED active /\ job' = [job EXCEPT ![h] = None]
  BY <1>1, <1>2, <1>7, CalmConfirmed DEF End, Confirmers
<1>8. CASE /\ UNCHANGED active
           /\ job' = [job EXCEPT ![h] =
                [job[h] EXCEPT !.kind = "confirm", !.step = "send", !.id = active, !.answer = None]]
  <2>1. PICK x : x = [job[h] EXCEPT !.kind = "confirm", !.step = "send", !.id = active, !.answer = None]
    OBVIOUS
  <2>2. x \in Jobs /\ x.kind = "confirm" /\ x.step = "send" /\ x.id = active
    BY <1>2, <1>4, <2>1 DEF Jobs
  <2>3. CallTrue(h, x)
    BY <1>2, <2>2 DEF CallTrue, Accepted, Booted, Closers
  <2>4. CallsInv' /\ job'[h] = x /\ \A g \in Handlers \ {h} : job'[g] = job[g]
    <3>1. job' = [job EXCEPT ![h] = x]
      BY <1>8, <2>1
    <3>2. CallsInv'
      BY <1>1, <1>2, <2>2, <2>3, <3>1, CallsReplace DEF Calm
    <3>3. QED
      BY <3>1, <3>2 DEF CallInv
  <2>5. x # None /\ x.kind \in {"resume", "confirm"}
    BY <2>2
  <2>6. Follows => Follows'
    BY <1>1, <1>3, <1>8 DEF Follows
  <2>7. Confirmed'
    BY <2>2, <2>4, <2>5 DEF Confirmed, UnderWay, Confirmers
  <2>8. Runs => Runs'
    BY <1>1, <1>5, <2>4, <2>5, <2>6, <2>7 DEF Runs
  <2>9. Stopped => Stopped'
    BY <1>1, <1>3, <1>5, <2>4, <2>5 DEF Stopped
  <2>10. Booted'
    BY <1>1, <1>2, <1>3, <1>5, <1>8, <2>4, <2>5, <2>8, <2>9 DEF Booted
  <2>11. QED
    BY <1>3, <2>4, <2>10 DEF Calm
<1>9. QED
  <2>1. active' = None \/ UNCHANGED active
    BY DEF Resumed
  <2>2. (job[h].answer = Idle /\ ~shown) \/ UNCHANGED active
    BY DEF Resumed
  <2>3. job' = [job EXCEPT ![h] = None]
        \/ /\ job[h].answer.status = "starting"
           /\ job' = [job EXCEPT ![h] =
                [job[h] EXCEPT !.kind = "confirm", !.step = "send", !.id = active, !.answer = None]]
    BY DEF Resumed
  <2>4. Idle.status # "starting"
    BY DEF Idle
  <2>5. CASE job[h].answer = Idle /\ ~shown
    <3>1. job' = [job EXCEPT ![h] = None]
      BY <2>3, <2>4, <2>5
    <3>2. QED
      BY <1>6, <1>7, <2>1, <2>5, <3>1
  <2>6. QED
    BY <1>7, <1>8, <2>2, <2>3, <2>5

\* The user refuses the permission.
LEMMA CalmDenied ==
  ASSUME ControlInv, CallInv, ScreenOK, Calm, NEW h \in Handlers, Denied(h)
  PROVE  Calm'
<1> USE Nothing, CallAssumption
<1>1. /\ asking # "no" /\ asking' = "no"
      /\ UNCHANGED <<controlVars, active, shown, intents, news, running, boot, live, ending>>
  BY DEF Denied, serviceVars
<1>2. Told' /\ UNCHANGED <<open, status>> /\ CallsInv
  BY <1>1, ToldStays DEF Calm, controlVars, storeVars
<1>3. Booting
  BY <1>1 DEF Calm, Calling, Booted
<1>4. /\ NoVpn /\ Follows /\ intents = <<>> /\ boot = "none"
      /\ asking = IF vpnOnly THEN "vpnOnly" ELSE "capture"
      /\ ~UnderWay(Starters) /\ ~UnderWay(Closers)
  BY <1>1, <1>3 DEF Booting, UnderWay, Starters, Closers, Confirmers
<1>5. active \in Sessions \cup {None}
  BY DEF CallInv
<1>6. intents' \in Seq({"stop"})
  BY <1>1, <1>4
<1>7. CASE vpnOnly
  <2>1. UNCHANGED job /\ open = None /\ active = None
    BY <1>4, <1>7 DEF Denied, Follows
  <2>2. CallsInv' /\ ~UnderWay(Starters)'
    BY <1>1, <1>2, <1>4, <2>1, CallsKeep DEF UnderWay
  <2>3. Booted'
    BY <1>1, <1>2, <1>4, <1>6, <2>1, <2>2 DEF Booted, Stopped, NoVpn
  <2>4. QED
    BY <1>2, <2>2, <2>3 DEF Calm
<1>8. CASE ~vpnOnly
  <2>1. active # None /\ open = active
    BY <1>4, <1>8 DEF Follows
  <2>2. Begin(h, "abandon", "send", active)
    BY <1>4, <1>8, <2>1 DEF Denied, Abandon
  <2>3. "abandon" \in Closers /\ "abandon" \notin Starters
    BY DEF Closers, Starters
  <2>4. CallsInv' /\ UnderWay(Closers)' /\ ~UnderWay(Starters)'
    BY <1>1, <1>2, <1>4, <1>5, <2>1, <2>2, <2>3, CallsBegin
  <2>5. Booted'
    BY <1>1, <1>2, <1>4, <1>6, <2>1, <2>4 DEF Booted, Stopped, NoVpn
  <2>6. QED
    BY <1>2, <2>4, <2>5 DEF Calm
<1>9. QED
  BY <1>7, <1>8

\* The activity hears a broadcast: it confirms the capture of a VPN that runs, and
\* abandons that of one that failed.
LEMMA CalmNotice ==
  ASSUME ControlInv, CallInv, ServiceOK, Calm, NEW h \in Handlers, Notice(h)
  PROVE  Calm'
<1> USE Nothing, CallAssumption
<1>1. /\ news # <<>> /\ news' = Tail(news) /\ shown' = Head(news).running
      /\ UNCHANGED <<controlVars, active, asking, intents, running, boot, live, ending>>
  BY DEF Notice, serviceVars
<1>2. /\ Head(news) \in {Up, Down(FALSE), Down(TRUE)}
      /\ FailureTold => Head(news) = Down(TRUE) \/ FailureTold'
      /\ news \in Seq({Up}) => Head(news) = Up /\ news' \in Seq({Up})
  BY <1>1, NewsHeard
<1>3. Told' /\ UNCHANGED <<open, status>> /\ CallsInv
  BY <1>1, ToldHeard DEF Calm, controlVars, storeVars
<1>4. active \in Sessions \cup {None}
  BY DEF CallInv
<1>5. /\ "confirm" \in Confirmers /\ "confirm" \notin Closers /\ "confirm" \notin Starters
      /\ "abandon" \in Closers /\ "abandon" \notin Starters
  BY DEF Confirmers, Closers, Starters
<1>6. (Booting \/ Booted) /\ (open # None => open = active)
  BY <1>1 DEF Calm, Calling, NoVpn, Booting, Booted, Follows
<1>7. ASSUME Begin(h, "confirm", "send", active) \/ UNCHANGED job
      PROVE  /\ CallsInv'
             /\ UnderWay(Closers)' <=> UnderWay(Closers)
             /\ UnderWay(Starters)' <=> UnderWay(Starters)
             /\ Stopping => Stopping'
             /\ \A g \in Handlers : job'[g] # None => job'[g].kind = "confirm" \/ job'[g] = job[g]
  <2>1. CASE UNCHANGED job
    <3>1. CallsInv'
      BY <1>1, <1>3, <2>1, CallsKeep
    <3>2. QED
      BY <1>1, <2>1, <3>1 DEF UnderWay, Stopping
  <2>2. CASE Begin(h, "confirm", "send", active)
    <3>1. /\ CallsInv' /\ job[h] = None /\ job'[h].kind = "confirm"
          /\ \A g \in Handlers \ {h} : job'[g] = job[g]
          /\ \A kinds : UnderWay(kinds)' <=> UnderWay(kinds) \/ "confirm" \in kinds
      BY <1>1, <1>3, <1>4, <1>6, <2>2, CallsBegin
    <3>2. QED
      BY <1>1, <1>5, <3>1 DEF Stopping
  <2>3. QED
    BY <1>7, <2>1, <2>2
<1>8. CASE Head(news) = Up
  <2>1. UNCHANGED vpnOnly /\ (Begin(h, "confirm", "send", active) \/ UNCHANGED job)
    BY <1>8, NewsDiffer DEF Notice
  <2>2. Follows => Follows' /\ Confirmed'
    <3>1. CASE active = None \/ vpnOnly
      BY <1>1, <1>3, <2>1, <3>1 DEF Follows, Confirmed
    <3>2. CASE active # None /\ ~vpnOnly
      <4>1. Begin(h, "confirm", "send", active)
        BY <1>8, <3>2, NewsDiffer DEF Notice
      <4>2. UnderWay(Confirmers)'
        BY <1>1, <1>3, <1>4, <1>5, <1>6, <4>1, CallsBegin
      <4>3. QED
        BY <1>1, <1>3, <2>1, <4>2 DEF Follows, Confirmed
    <3>3. QED
      BY <3>1, <3>2
  <2>3. CASE Booting
    <3>1. news = <<Up>> /\ running /\ live = 0 /\ ending = 0 /\ boot \in {"up", "detached"}
          /\ asking = "no" /\ intents = <<>> /\ Follows
      BY <1>1, <2>3 DEF Booting, NoVpn
    <3>2. news' = <<>>
      BY <1>1, <3>1
    <3>3. \A g \in Handlers : job'[g] # None => job'[g].kind \in Confirmers
      BY <1>5, <1>7, <2>1, <2>3 DEF Booting
    <3>4. Booting'
      BY <1>1, <2>2, <3>1, <3>2, <3>3 DEF Booting
    <3>5. QED
      BY <1>3, <1>7, <2>1, <3>4 DEF Calm
  <2>4. CASE Booted
    <3>1. Runs => Runs'
      BY <1>1, <1>2, <1>7, <2>1, <2>2 DEF Runs
    <3>2. Stopped => Stopped'
      <4>1. FailureTold => FailureTold'
        <5>1. Up # Down(TRUE)
          BY NewsDiffer
        <5>2. QED
          BY <1>2, <1>8, <5>1
      <4>2. QED
        BY <1>1, <1>3, <1>7, <2>1, <4>1 DEF Stopped
    <3>3. Booted'
      BY <1>1, <1>3, <1>7, <2>1, <2>4, <3>1, <3>2 DEF Booted
    <3>4. QED
      BY <1>3, <1>7, <2>1, <3>3 DEF Calm
  <2>5. QED
    BY <1>6, <2>3, <2>4
<1>9. CASE Head(news) # Up
  <2>1. news \notin Seq({Up})
    BY <1>2, <1>9
  <2>2. news \notin {<<>>, <<Up>>}
    <3>1. news = <<Up>> => Head(news) = Up
      OBVIOUS
    <3>2. QED
      BY <1>1, <1>9, <3>1
  <2>3. Booted /\ ~running /\ Stopped
    BY <1>1, <1>6, <2>1, <2>2 DEF Booting, Booted, Runs, NoVpn
  <2>4. CASE Head(news) = Down(FALSE)
    <3>1. UNCHANGED <<vpnOnly, job>>
      BY <2>4, NewsDiffer DEF Notice
    <3>2. FailureTold => FailureTold'
      <4>1. Down(FALSE) # Down(TRUE)
        BY NewsDiffer
      <4>2. QED
        BY <1>2, <2>4, <4>1
    <3>3. Stopped'
      BY <1>1, <1>3, <1>7, <2>3, <3>1, <3>2 DEF Stopped
    <3>4. Booted'
      BY <1>1, <1>3, <1>7, <2>3, <3>1, <3>3 DEF Booted
    <3>5. QED
      BY <1>3, <1>7, <3>1, <3>4 DEF Calm
  <2>5. CASE Head(news) = Down(TRUE)
    <3>1. Abandon(h, FALSE)
      BY <2>5, NewsDiffer DEF Notice
    <3>2. CASE active = None
      <4>1. UNCHANGED job /\ open = None
        BY <1>6, <3>1, <3>2 DEF Abandon
      <4>2. Booted'
        BY <1>1, <1>3, <1>7, <2>3, <3>2, <4>1 DEF Booted, Stopped
      <4>3. QED
        BY <1>3, <1>7, <4>1, <4>2 DEF Calm
    <3>3. CASE active # None
      <4>1. Begin(h, "abandon", "send", active)
        BY <3>1, <3>3 DEF Abandon
      <4>2. /\ CallsInv' /\ UnderWay(Closers)' /\ (UnderWay(Starters)' <=> UnderWay(Starters))
        BY <1>1, <1>3, <1>4, <1>5, <1>6, <4>1, CallsBegin
      <4>3. Booted'
        BY <1>1, <1>3, <2>3, <4>2 DEF Booted, Stopped
      <4>4. QED
        BY <1>3, <4>2, <4>3 DEF Calm
    <3>4. QED
      BY <3>2, <3>3
  <2>6. QED
    BY <1>2, <1>9, <2>4, <2>5
<1>10. QED
  BY <1>8, <1>9

\* The tile starts and confirms.
LEMMA CalmTileStart ==
  ASSUME ControlInv, CallInv, Calm, ~trouble', NEW h \in Handlers,
         TileStart(h) \/ TileStarted(h) \/ TileConfirmed(h)
  PROVE  Calm'
<1> USE Nothing, CallAssumption
<1>1. /\ job[h] # None /\ job[h].step \in {"seen", "done"}
      /\ UNCHANGED <<controlVars, asking, shown, news, running, boot, live, ending>>
  BY DEF TileStart, TileStarted, TileConfirmed, activityVars, serviceVars
<1>2. /\ job[h] \in Jobs /\ JobInv(h, job[h]) /\ CallTrue(h, job[h]) /\ CallsInv
      /\ pc[h] = "idle" /\ job[h].answer # None
  BY <1>1, StageOfCall DEF Calm
<1>3. Told' /\ UNCHANGED <<open, status>>
  BY <1>1, ToldStays DEF Calm, controlVars, storeVars
<1>4. "tileStart" \in Starters /\ "tileConfirm" \in Confirmers /\ "tileConfirm" \notin Closers
  BY DEF Starters, Confirmers, Closers
<1>5. CASE TileStart(h)
  <2>1. /\ job[h].kind = "tileStart" /\ job[h].step = "seen" /\ UNCHANGED <<vpnOnly, intents>>
    BY <1>5 DEF TileStart
  <2>2. /\ NoVpn /\ asking = "no" /\ intents = <<>> /\ boot = "none" /\ active = None
        /\ \A g \in Handlers \ {h} : job[g] = None
        /\ open = Started(h, job[h]) /\ job[h].answer = Idle
    BY <1>1, <1>4, <2>1, StageOfCall
  <2>3. open = None
    BY <1>2, <2>1, <2>2 DEF Started
  <2>4. active' = None /\ job' = [job EXCEPT ![h].step = "send", ![h].answer = None]
    BY <1>2, <1>5, <2>2 DEF TileStart
  <2>5. PICK x : x = [job[h] EXCEPT !.step = "send", !.answer = None]
    OBVIOUS
  <2>6. x \in Jobs /\ x.kind = "tileStart" /\ x.step = "send"
    BY <1>2, <2>1, <2>5 DEF Jobs
  <2>7. job' = [job EXCEPT ![h] = x]
    BY <2>4, <2>5
  <2>8. job'[h] = x /\ \A g \in Handlers \ {h} : job'[g] = None
    BY <2>2, <2>7 DEF CallInv
  <2>9. CallTrue(h, x)
    BY <1>4, <2>3, <2>6 DEF CallTrue, Accepted, Closers, Confirmers
  <2>10. CallsInv'
    BY <1>1, <1>2, <2>6, <2>7, <2>9, CallsReplace
  <2>11. open' = Started(h, job[h])'
    BY <1>1, <1>2, <1>3, <2>3, <2>6, <2>8 DEF Started, controlVars, handlerVars
  <2>12. Calling'
    BY <1>1, <1>4, <2>1, <2>2, <2>4, <2>6, <2>8, <2>11 DEF Calling, NoVpn
  <2>13. QED
    BY <1>3, <2>10, <2>12 DEF Calm
<1>6. CASE TileStarted(h)
  <2>1. job[h].kind = "tileStart" /\ job[h].step = "done" /\ job[h].kind \in Starters
    BY <1>4, <1>6 DEF TileStarted
  <2>2. CASE ~job[h].answer.ok
    <3>1. End(h) /\ UNCHANGED <<active, intents>>
      BY <1>6, <2>2 DEF TileStarted, settings
    <3>2. QED
      BY <1>1, <2>1, <2>2, <3>1, CalmStarted
  <2>3. CASE job[h].answer.ok
    <3>1. active' = job[h].answer.id /\ vpnOnly' = FALSE /\ Ask("start")
      BY <1>2, <1>6, <2>3 DEF TileStarted, Save
    <3>2. open = job[h].answer.id /\ open # None /\ open \in Sessions
      <4>1. open = job[h].answer.id /\ open # None
        BY <1>1, <2>1, <2>3, CalmStarted
      <4>2. QED
        BY <4>1 DEF ControlInv, ControlTypeOK, Store!LifecycleTypeOK
    <3>3. \A g \in Handlers \ {h} : job[g] = None
      BY <1>1, <2>1, StageOfCall
    <3>4. CallsInv' /\ \A g \in Handlers : job'[g] # None => job'[g].kind \in Confirmers
      <4>1. CASE job' = [job EXCEPT ![h] = None]
        <5>1. CallsInv' /\ job'[h] = None /\ \A g \in Handlers \ {h} : job'[g] = job[g]
          BY <1>1, <1>2, <4>1, CallsEnd DEF End
        <5>2. QED
          BY <3>3, <5>1
      <4>2. CASE job' = [job EXCEPT ![h] =
                   [kind |-> "tileConfirm", step |-> "send", id |-> job[h].answer.id, answer |-> None]]
        <5>1. PICK x : x = [kind |-> "tileConfirm", step |-> "send", id |-> job[h].answer.id, answer |-> None]
          OBVIOUS
        <5>2. x.kind = "tileConfirm" /\ x.step = "send" /\ x.id = open
          BY <3>2, <5>1
        <5>3. CallTrue(h, x)
          BY <1>4, <5>2 DEF CallTrue, Accepted
        <5>4. job' = [job EXCEPT ![h] = x]
          BY <4>2, <5>1
        <5>5. CallsInv'
          BY <1>1, <1>2, <5>2, <5>3, <5>4, CallsReplace
        <5>6. job'[h] = x /\ \A g \in Handlers \ {h} : job'[g] = None
          BY <3>3, <5>4 DEF CallInv
        <5>7. QED
          BY <1>4, <5>2, <5>5, <5>6
      <4>3. QED
        BY <1>2, <1>6, <2>3, <4>1, <4>2 DEF TileStarted
    <3>5. QED
      BY <1>1, <2>1, <2>3, <3>1, <3>4, CalmStarted
  <2>4. QED
    BY <2>2, <2>3
<1>7. CASE TileConfirmed(h)
  <2>1. /\ job[h].kind \in Confirmers /\ job[h].step = "done" /\ End(h) /\ job[h].answer.ok
        /\ UNCHANGED <<active, vpnOnly, intents>>
    BY <1>2, <1>4, <1>7 DEF TileConfirmed, settings
  <2>2. open # None => status[open] = "recording"
    BY <1>2, <2>1 DEF CallTrue, Accepted
  <2>3. QED
    BY <1>1, <1>2, <2>1, <2>2, CalmConfirmed
<1>8. QED
  BY <1>5, <1>6, <1>7

\* The tile stops.
LEMMA CalmTileStop ==
  ASSUME ControlInv, CallInv, Calm, ~trouble', NEW h \in Handlers, TileStop(h) \/ TileStopped(h)
  PROVE  Calm'
<1> USE Nothing, CallAssumption
<1>1. /\ job[h] # None /\ job[h].kind = "tileStop"
      /\ UNCHANGED <<controlVars, asking, shown, news, running, boot, live, ending>>
  BY DEF TileStop, TileStopped, activityVars, serviceVars
<1>2. job[h].kind \in Closers /\ job[h].kind \notin Starters
  BY <1>1 DEF Closers, Starters
<1>3. /\ job[h] \in Jobs /\ JobInv(h, job[h]) /\ CallTrue(h, job[h]) /\ CallsInv /\ Booted
      /\ job[h].step \in {"seen", "done"} => pc[h] = "idle" /\ job[h].answer # None
  BY <1>1, <1>2, StageOfCall DEF Calm
<1>4. Told' /\ UNCHANGED <<open, status>>
  BY <1>1, ToldStays DEF Calm, controlVars, storeVars
<1>5. CASE TileStop(h)
  <2>1. job[h].step = "seen"
    BY <1>5 DEF TileStop
  <2>2. CASE job[h].answer = Idle
    <3>1. open = None
      BY <1>3, <2>1, <2>2 DEF CallTrue
    <3>2. Idle.id # job[h].id
      BY <1>1, <1>3 DEF Idle, JobInv
    <3>3. active' = None /\ End(h) /\ Ask("stop")
      BY <1>3, <1>5, <2>2, <3>2 DEF TileStop, Save
    <3>4. intents' = Append(intents, "stop") /\ intents \in Seq({"stop"})
      BY <1>3, <3>3 DEF Ask, Booted
    <3>5. intents' # <<>>
      BY <3>4
    <3>6. QED
      BY <1>1, <1>2, <1>3, <2>1, <3>1, <3>3, <3>4, <3>5, CalmClosed
  <2>3. CASE job[h].answer # Idle
    <3>1. job[h].answer.id = job[h].id
      BY <1>3, <2>1, <2>3 DEF CallTrue
    <3>2. /\ job' = [job EXCEPT ![h].step = "send", ![h].answer = None]
          /\ Ask("stop") /\ UNCHANGED <<active, vpnOnly>>
      BY <1>3, <1>5, <2>3, <3>1 DEF TileStop, settings
    <3>3. PICK x : x = [job[h] EXCEPT !.step = "send", !.answer = None]
      OBVIOUS
    <3>4. x \in Jobs /\ x.kind = "tileStop" /\ x.step = "send" /\ x.id = job[h].id
      BY <1>1, <1>3, <3>3 DEF Jobs
    <3>5. job' = [job EXCEPT ![h] = x]
      BY <3>2, <3>3
    <3>6. job'[h] = x /\ \A g \in Handlers \ {h} : job'[g] = job[g]
      BY <3>5 DEF CallInv
    <3>7. CallTrue(h, x)
      BY <1>1, <1>3, <3>4 DEF CallTrue, Accepted
    <3>8. CallsInv'
      BY <1>1, <1>3, <2>1, <3>4, <3>5, <3>7, CallsReplace
    <3>9. UnderWay(Closers)' /\ (UnderWay(Starters)' <=> UnderWay(Starters))
      BY <1>1, <1>2, <3>4, <3>6 DEF UnderWay
    <3>10. intents' \in Seq({"stop"}) /\ intents' # <<>>
      <4>1. intents' = Append(intents, "stop") /\ intents \in Seq({"stop"})
        BY <1>3, <3>2 DEF Ask, Booted
      <4>2. QED
        BY <4>1
    <3>11. Stopping'
      BY <3>10 DEF Stopping
    <3>12. Booted'
      BY <1>1, <1>3, <1>4, <3>2, <3>9, <3>10, <3>11 DEF Booted, Runs, Stopped
    <3>13. QED
      BY <1>4, <3>8, <3>12 DEF Calm
  <2>4. QED
    BY <2>2, <2>3
<1>6. CASE TileStopped(h)
  <2>1. job[h].step = "done" /\ End(h)
    BY <1>6 DEF TileStopped
  <2>2. job[h].answer.ok /\ active' = None /\ UNCHANGED intents
    BY <1>3, <1>6, <2>1 DEF TileStopped, Save
  <2>3. open = None
    BY <1>2, <1>3, <2>1, <2>2 DEF CallTrue, Accepted
  <2>4. QED
    BY <1>1, <1>2, <1>3, <2>1, <2>2, <2>3, CalmClosed
<1>7. QED
  BY <1>5, <1>6

-----------------------------------------------------------------------------
(* The VPN comes and goes.                                                 *)

\* The steps of the service, and the permission.
LEMMA CalmService ==
  ASSUME ControlInv, CallInv, ScreenOK, ServiceOK, Calm, ~trouble', Granted \/ Service
  PROVE  Calm'
<1> USE Nothing, CallAssumption
<1>1. /\ UNCHANGED <<controlVars, active, vpnOnly, job, shown>>
      /\ ~SystemStop /\ ~AppDies
  BY DEF Granted, Service, OnStart, OnStop, BootFails, Establish, Detach, RunTunnel, TunnelEnds,
     TunnelFails, SystemStop, AppDies, settings, activityVars, Fault
<1>2. UNCHANGED <<open, status>> /\ CallsInv'
  BY <1>1, CallsKeep DEF Calm, controlVars, storeVars
<1>3. \A kinds : UnderWay(kinds)' <=> UnderWay(kinds)
  BY <1>1 DEF UnderWay
<1>4. Follows' <=> Follows
  BY <1>1, <1>2 DEF Follows
<1>5. Told /\ (Calling \/ Booting \/ Booted)
  BY DEF Calm
<1>6. CASE Granted
  <2>1. /\ asking # "no" /\ asking' = "no" /\ Ask("start")
        /\ UNCHANGED <<news, running, boot, live, ending>>
    BY <1>6 DEF Granted, serviceVars
  <2>2. Booting /\ NoVpn /\ intents = <<>> /\ boot = "none"
    BY <1>5, <2>1 DEF Calling, Booting, Booted
  <2>3. intents' = <<"start">> /\ NoVpn'
    BY <2>1, <2>2 DEF Ask, NoVpn
  <2>4. Booting'
    BY <1>1, <1>4, <2>1, <2>2, <2>3 DEF Booting
  <2>5. Told'
    BY <1>1, <1>5, <2>1, ToldStays
  <2>6. QED
    BY <1>2, <2>4, <2>5 DEF Calm
<1>7. CASE OnStart
  <2>1. /\ intents # <<>> /\ Head(intents) = "start" /\ intents' = Tail(intents)
        /\ ~running /\ boot = "none" => boot' = "connect"
        /\ UNCHANGED <<asking, news, running, live, ending>>
    BY <1>7 DEF OnStart, activityVars
  <2>2. intents \notin Seq({"stop"})
    BY <2>1
  <2>3. Booting /\ NoVpn /\ asking = "no" /\ intents = <<"start">> /\ boot = "none"
    BY <1>5, <2>1, <2>2 DEF Calling, Booting, Booted
  <2>4. NoVpn' /\ boot' = "connect" /\ intents' = <<>>
    BY <2>1, <2>3 DEF NoVpn
  <2>5. Booting'
    BY <1>1, <1>4, <2>1, <2>3, <2>4 DEF Booting
  <2>6. Told'
    BY <1>1, <1>5, <2>1, ToldStays
  <2>7. QED
    BY <1>2, <2>5, <2>6 DEF Calm
<1>8. CASE OnStop
  <2>1. /\ intents # <<>> /\ Head(intents) = "stop" /\ intents' = Tail(intents)
        /\ live' = 0 /\ boot' = IF boot = "up" THEN "closed" ELSE boot
        /\ running' = FALSE /\ news' = Append(news, Down(FALSE)) /\ UNCHANGED asking
    BY <1>8 DEF OnStop, StopCapture, activityVars
  <2>2. Booted
    <3>1. intents # <<"start">>
      BY <2>1
    <3>2. QED
      BY <1>5, <2>1, <3>1 DEF Calling, Booting, NoVpn
  <2>3. intents' \in Seq({"stop"})
    <3>1. intents \in Seq({"stop"})
      BY <2>2 DEF Booted
    <3>2. QED
      BY <2>1, <3>1
  <2>4. Told'
    BY <2>1, NewsDiffer, ToldSent
  <2>5. open # None => UnderWay(Closers)'
    BY <1>3, <2>1, <2>2 DEF Booted
  <2>6. Stopped'
    BY <1>2, <2>1, <2>5 DEF Stopped
  <2>7. Booted'
    BY <1>1, <1>2, <1>3, <2>1, <2>2, <2>3, <2>5, <2>6 DEF Booted
  <2>8. QED
    BY <1>2, <2>4, <2>7 DEF Calm
<1>9. CASE BootFails
  <2>1. /\ boot = "connect" /\ boot' = "none" /\ running' = FALSE /\ news' = Append(news, Down(TRUE))
        /\ UNCHANGED <<asking, intents, live, ending>>
    BY <1>9 DEF BootFails, activityVars
  <2>2. /\ Booting /\ NoVpn /\ Follows /\ asking = "no" /\ intents = <<>>
    BY <1>5, <2>1 DEF Calling, Booting, Booted
  <2>3. ~UnderWay(Starters)'
    <3>1. ~UnderWay(Starters)
      BY <2>2 DEF Booting, UnderWay, Starters, Confirmers
    <3>2. QED
      BY <1>3, <3>1
  <2>4. Told' /\ FailureTold'
    BY <2>1, NewsDiffer, NewsSent, ToldSent
  <2>5. intents' \in Seq({"stop"})
    BY <2>1, <2>2
  <2>6. Stopped'
    BY <2>1, <2>2, <2>4 DEF Stopped, NoVpn
  <2>7. Booted'
    BY <1>1, <1>2, <2>1, <2>2, <2>3, <2>5, <2>6 DEF Booted, Follows
  <2>8. QED
    BY <1>2, <2>4, <2>7 DEF Calm
<1>10. CASE Establish
  <2>1. /\ boot = "connect" /\ boot' = "up" /\ running' = TRUE /\ news' = Append(news, Up)
        /\ UNCHANGED <<asking, intents, live, ending>>
    BY <1>10 DEF Establish, activityVars
  <2>2. /\ Booting /\ NoVpn /\ Follows /\ asking = "no" /\ intents = <<>>
    BY <1>5, <2>1 DEF Calling, Booting, Booted
  <2>3. news' = <<Up>> /\ news' # <<>>
    BY <2>1, <2>2 DEF NoVpn
  <2>4. Told'
    BY <2>1, NewsDiffer, ToldSent
  <2>5. Confirmed'
    BY <2>3 DEF Confirmed
  <2>6. Booting'
    BY <1>1, <1>4, <2>1, <2>2, <2>3, <2>5 DEF Booting, NoVpn
  <2>7. QED
    BY <1>2, <2>4, <2>6 DEF Calm
<1>11. CASE Detach \/ RunTunnel
  <2>1. /\ boot \in {"up", "detached"} /\ boot' \in {"detached", "none"}
        /\ boot' = "none" => live' = live + 1
        /\ boot' = "detached" => UNCHANGED live
        /\ UNCHANGED <<asking, intents, news, running, ending>>
    BY <1>11 DEF Detach, RunTunnel, activityVars
  <2>2. /\ Booting /\ running /\ live = 0 /\ ending = 0 /\ news \in {<<>>, <<Up>>} /\ Confirmed
        /\ Follows /\ asking = "no" /\ intents = <<>>
    BY <1>5, <2>1 DEF Calling, Booting, Booted
  <2>3. Told'
    BY <1>1, <1>5, <2>1, ToldStays
  <2>4. Confirmed'
    BY <1>1, <1>2, <1>3, <2>1, <2>2 DEF Confirmed
  <2>5. CASE boot' = "detached"
    <3>1. Booting'
      BY <1>1, <1>4, <2>1, <2>2, <2>4, <2>5 DEF Booting
    <3>2. QED
      BY <1>2, <2>3, <3>1 DEF Calm
  <2>6. CASE boot' = "none"
    <3>1. ~UnderWay(Starters)' /\ ~UnderWay(Closers)'
      <4>1. ~UnderWay(Starters) /\ ~UnderWay(Closers)
        BY <2>2 DEF Booting, UnderWay, Starters, Closers, Confirmers
      <4>2. QED
        BY <1>3, <4>1
    <3>2. live' = 1 /\ ending' = 0
      BY <2>1, <2>2, <2>6
    <3>3. news' \in Seq({Up}) /\ intents' \in Seq({"stop"})
      <4>1. PICK u : u = Up
        OBVIOUS
      <4>2. news' = <<>> \/ news' = <<u>>
        BY <2>1, <2>2, <4>1
      <4>3. <<>> \in Seq({u}) /\ <<u>> \in Seq({u})
        <5>1. u \in {u}
          OBVIOUS
        <5> HIDE <4>1
        <5>2. \A S : u \in S => <<u>> \in Seq(S)
          OBVIOUS
        <5>3. \A S : <<>> \in Seq(S)
          OBVIOUS
        <5>4. QED
          BY <5>1, <5>2, <5>3
      <4>6. news' \in Seq({u})
        BY <4>2, <4>3
      <4>4. intents' \in Seq({"stop"})
        BY <2>1, <2>2
      <4>5. QED
        BY <4>1, <4>4, <4>6
    <3>4. Runs'
      BY <1>4, <2>2, <2>4, <3>1, <3>2, <3>3 DEF Runs
    <3>5. Booted'
      BY <1>1, <1>2, <2>1, <2>2, <2>6, <3>1, <3>3, <3>4 DEF Booted, Follows
    <3>6. QED
      BY <1>2, <2>3, <3>5 DEF Calm
  <2>7. QED
    BY <2>1, <2>5, <2>6
<1>12. CASE TunnelEnds
  <2>1. /\ ending > 0 /\ UNCHANGED <<asking, intents, live, boot>>
        /\ ~running => UNCHANGED <<running, news>>
    BY <1>12 DEF TunnelEnds, WorkerEnds, activityVars
  <2>2. Booted /\ ~running /\ Stopped
    BY <1>5, <2>1 DEF Calling, Booting, Booted, Runs, NoVpn
  <2>3. Told'
    BY <1>1, <1>5, <2>1, <2>2, ToldStays
  <2>4. Stopped'
    BY <1>2, <1>3, <2>1, <2>2 DEF Stopped, FailureTold
  <2>5. Booted'
    BY <1>1, <1>2, <1>3, <2>1, <2>2, <2>4 DEF Booted
  <2>6. QED
    BY <1>2, <2>3, <2>5 DEF Calm
<1>13. CASE TunnelFails
  <2>1. /\ live > 0 /\ live' = live - 1 /\ UNCHANGED <<asking, intents, ending, boot>>
        /\ running => running' = FALSE /\ news' = Append(news, Down(TRUE))
    BY <1>13 DEF TunnelFails, WorkerEnds, activityVars
  <2>2. Booted /\ running /\ live = 1
    BY <1>5, <2>1 DEF Calling, Booting, Booted, Runs, Stopped, NoVpn
  <2>3. Told' /\ FailureTold'
    BY <2>1, <2>2, NewsDiffer, NewsSent, ToldSent
  <2>4. live' = 0
    BY <2>1, <2>2
  <2>5. Stopped'
    BY <2>3, <2>4 DEF Stopped
  <2>6. Booted'
    BY <1>1, <1>2, <1>3, <2>1, <2>2, <2>5 DEF Booted
  <2>7. QED
    BY <1>2, <2>3, <2>6 DEF Calm
<1>14. QED
  BY <1>1, <1>6, <1>7, <1>8, <1>9, <1>10, <1>11, <1>12, <1>13 DEF Service

-----------------------------------------------------------------------------
(* The invariant behind InStep, and what follows.                          *)

\* Every step that leaves no trouble leaves a stage for a stage.
LEMMA CalmStep ==
  ASSUME PhoneInv, ~Overlap, AnsweredInv, Calm, [Next]_vars, ~trouble'
  PROVE  Calm'
<1>1. ControlInv /\ CallInv /\ ScreenOK /\ ServiceOK
  BY PhoneParts
<1>2. ASSUME NEW h \in Handlers, Call(h)
      PROVE  Calm'
  <2>1. ~GiveUp(h)
    BY DEF GiveUp, Fault
  <2>2. QED
    BY <1>1, <1>2, <2>1, CalmCall DEF Call
<1>3. ASSUME NEW h \in Handlers, Activity(h)
      PROVE  Calm'
  <2>1. CASE TapStart(h) \/ TapStop(h) \/ OpenApp(h)
    BY <1>1, <2>1, CalmTap
  <2>2. CASE Denied(h)
    BY <1>1, <2>2, CalmDenied
  <2>3. CASE Notice(h)
    BY <1>1, <2>3, CalmNotice
  <2>4. CASE Resumed(h)
    BY <1>1, <2>4, CalmResumed
  <2>5. CASE Answered(h)
    BY <1>1, <2>5, CalmAnswered
  <2>6. QED
    BY <1>3, <2>1, <2>2, <2>3, <2>4, <2>5 DEF Activity
<1>4. ASSUME NEW h \in Handlers, Tile(h)
      PROVE  Calm'
  <2>1. CASE TapTile(h)
    BY <1>1, <2>1, CalmTap
  <2>2. CASE TileStart(h) \/ TileStarted(h) \/ TileConfirmed(h)
    BY <1>1, <2>2, CalmTileStart
  <2>3. CASE TileStop(h) \/ TileStopped(h)
    BY <1>1, <2>3, CalmTileStop
  <2>4. QED
    BY <1>4, <2>1, <2>2, <2>3 DEF Tile
<1>5. CASE TapVpnOnly
  BY <1>1, <1>5, CalmTap
<1>6. CASE Granted \/ Service
  BY <1>1, <1>6, CalmService
<1>7. ~Unnoticed /\ ~TapNotification /\ ~OtherTerminal
  BY DEF Unnoticed, TapNotification, OtherTerminal, Fault
<1>8. CASE UNCHANGED vars
  BY <1>8 DEF vars, phoneVars, settings, activityVars, serviceVars, controlVars, handlerVars,
     storeVars, Calm, CallsInv, Told, Calling, Booting, Booted, Served, CallTrue, Accepted, NoVpn,
     Started, Follows, Confirmed, UnderWay, Runs, Stopped, Stopping, FailureTold
<1>9. QED
  BY <1>2, <1>3, <1>4, <1>5, <1>6, <1>7, <1>8 DEF Next

\* Trouble is not forgotten.
LEMMA TroubleStays ==
  ASSUME [Next]_vars, trouble
  PROVE  trouble'
<1>1. CASE \E h \in Handlers : Call(h)
  BY <1>1 DEF Call, Send, Status, Serve, GiveUp, Duplicate, Fault, Well
<1>2. CASE \E h \in Handlers : Activity(h)
  BY <1>2 DEF Activity, TapStart, TapStop, Denied, Notice, OpenApp, Resumed, Answered, Tap, Fault, Well
<1>3. CASE \E h \in Handlers : Tile(h)
  BY <1>3 DEF Tile, TapTile, TileStart, TileStarted, TileConfirmed, TileStop, TileStopped, Tap, Fault, Well
<1>4. CASE TapVpnOnly \/ Granted \/ Unnoticed \/ TapNotification \/ OtherTerminal
  BY <1>4 DEF TapVpnOnly, Granted, Unnoticed, TapNotification, OtherTerminal, Tap, Fault, Well
<1>5. CASE Service
  BY <1>5 DEF Service, OnStart, OnStop, BootFails, Establish, Detach, RunTunnel, TunnelEnds,
     TunnelFails, SystemStop, AppDies, Fault, Well
<1>6. CASE UNCHANGED vars
  BY <1>6 DEF vars, phoneVars
<1>7. QED
  BY <1>1, <1>2, <1>3, <1>4, <1>5, <1>6 DEF Next

\* Before the first tap the VPN is stopped and no capture is open.
LEMMA InStepStart == Init => InStepInv
<1> SUFFICES ASSUME Init PROVE InStepInv
  OBVIOUS
<1>1. PhoneInv
  BY PhoneStart
<1>2. AnsweredInv
  BY DEF Init, ControlInit, AnsweredInv
<1>3. \A h \in Handlers : job[h] = None /\ pc[h] = "idle"
  BY DEF Init, ControlInit
<1>4. CallsInv /\ \A kinds : ~UnderWay(kinds)
  BY <1>3 DEF CallsInv, Served, UnderWay
<1>5. open = None
  BY DEF Init, ControlInit, Store!Init
<1>6. Told
  BY DEF Init, Told
<1>7. intents \in Seq({"stop"})
  BY DEF Init
<1>8. Booted
  BY <1>4, <1>5, <1>7 DEF Init, Booted, Stopped
<1>9. QED
  BY <1>1, <1>2, <1>4, <1>6, <1>8 DEF InStepInv, Calm

\* The stages follow each other as long as nothing goes wrong that the app does not
\* handle.
THEOREM InStepInvHolds == Spec => []InStepInv
<1>1. InStepInv /\ [Next]_vars => InStepInv'
  <2> SUFFICES ASSUME InStepInv, [Next]_vars PROVE InStepInv'
    OBVIOUS
  <2>1. PhoneInv' /\ ServerStep
    BY PhoneStep DEF InStepInv
  <2>2. ASSUME ~Overlap
        PROVE  AnsweredInv'
    BY <2>1, <2>2, AnsweredStep DEF InStepInv, PhoneInv
  <2>3. ASSUME ~Overlap, ~trouble'
        PROVE  Calm'
    <3>1. ~trouble
      BY <2>3, TroubleStays
    <3>2. QED
      BY <2>3, <3>1, CalmStep DEF InStepInv
  <2>4. QED
    BY <2>1, <2>2, <2>3 DEF InStepInv
<1>2. QED
  BY <1>1, InStepStart, PTL DEF Spec

\* As long as a request is not repeated before its answer, phone and computer agree
\* whenever all is settled and nothing went wrong that the app does not handle.
THEOREM PhoneInStep ==
  ASSUME ~Overlap
  PROVE  Spec => []InStep
<1>1. InStepInv => InStep
  <2> SUFFICES ASSUME InStepInv, ~trouble, Settled
               PROVE  /\ shown = running
                      /\ running <=> live > 0
                      /\ IF running /\ ~vpnOnly
                         THEN active # None /\ open = active /\ status[active] = "recording"
                         ELSE open = None /\ active = None
    BY DEF InStep
  <2>1. ControlInv /\ CallInv /\ ScreenOK /\ ServiceOK /\ Calm
    BY PhoneParts DEF InStepInv
  <2>2. /\ open = active /\ (shown <=> running)
        /\ running => live = 1 /\ Follows /\ (vpnOnly \/ status[active] = "recording")
        /\ ~running => live = 0 /\ active = None
    BY <2>1, SettledStage
  <2>3. shown = running
    BY <2>1, <2>2 DEF ScreenOK, ServiceOK
  <2>4. running <=> live > 0
    BY <2>2
  <2>5. CASE running /\ ~vpnOnly
    BY <2>2, <2>3, <2>4, <2>5 DEF Follows
  <2>6. CASE ~running \/ vpnOnly
    BY <2>2, <2>3, <2>4, <2>6 DEF Follows
  <2>7. QED
    BY <2>5, <2>6
<1>2. QED
  BY <1>1, InStepInvHolds, PTL
=============================================================================
