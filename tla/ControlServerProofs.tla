------------------------- MODULE ControlServerProofs -------------------------
(***************************************************************************)
(* Proofs about ControlServer for any number of handlers, commandIds and   *)
(* sessions.  The lemmas speak of ServerStep, which the steps of every     *)
(* module that extends ControlServer are.                                  *)
(***************************************************************************)
EXTENDS ControlServer, TLAPS

\* Somebody else opens a session in the store, or completes one.
Elsewhere ==
  /\ \E s \in Sessions :
       \/ Store!Open(s) /\ status' = [status EXCEPT ![s] = "recording"]
       \/ Store!Close(s, "completed") /\ UNCHANGED status
  /\ UNCHANGED <<commands, asked, handlerVars, startedBy>>

\* What may happen to the variables of the control server.
ServerStep ==
  \/ \E h \in Handlers : Arrive(h) \/ HandlerStep(h)
  \/ Elsewhere
  \/ UNCHANGED controlVars

\* The answer a to request r was given, or is about to be.
HasAnswer(r, a) ==
  \/ \E c \in Commands : asked[c] = r /\ commands[c] = a
  \/ \E h \in Handlers : pc[h] = "reply" /\ req[h] = r /\ res[h] = a

\* None is nothing else.
LEMMA Nothing ==
  /\ None \notin Sessions /\ None \notin Commands /\ None \notin Handlers
  /\ None \notin Requests /\ None \notin Answers
  /\ None \notin {"starting", "recording", "completed", "abandoned"}
BY ControlAssumption, NothingAssumption DEF Over

\* A request carries a commandId, and a session unless it is a start.
LEMMA RequestFields ==
  ASSUME NEW r \in Requests
  PROVE  /\ r.command \in Commands
         /\ r.kind \in {"start", "confirm", "stop", "abandon"}
         /\ r.kind = "start" => r.want = None
         /\ r.kind # "start" => r.want \in Sessions
BY DEF Requests

\* An answer that says something of a session names it.
LEMMA AnswerFields ==
  ASSUME NEW a \in Answers
  PROVE  /\ a.ok \in BOOLEAN
         /\ a.ok => a.id \in Sessions
         /\ a.status \in {"starting", "recording"} \cup Over => a.id \in Sessions /\ a.ok
<1>1. CASE a = Conflict
  BY <1>1, Nothing DEF Conflict, Over
<1>2. CASE \E s \in Sessions, st \in {"starting", "recording"} \cup Over : a = OK(s, st)
  BY <1>2 DEF OK
<1>3. QED
  BY <1>1, <1>2 DEF Answers

\* The answers the handlers make.
LEMMA MadeAnswers ==
  /\ Conflict \in Answers /\ Conflict.ok = FALSE /\ Conflict.status = None
  /\ \A s \in Sessions, st \in {"starting", "recording", "completed", "abandoned"} :
       /\ OK(s, st) \in Answers
       /\ OK(s, st).id = s /\ OK(s, st).ok = TRUE /\ OK(s, st).status = st
<1>1. Conflict \in Answers /\ Conflict.status = None
  BY DEF Answers, Conflict
<1>2. Conflict.ok = FALSE
  BY DEF Conflict
<1>3. ASSUME NEW s \in Sessions, NEW st \in {"starting", "recording", "completed", "abandoned"}
      PROVE  OK(s, st) \in Answers
  BY DEF Answers, Over
<1>4. ASSUME NEW s \in Sessions, NEW st \in {"starting", "recording", "completed", "abandoned"}
      PROVE  OK(s, st).id = s /\ OK(s, st).ok = TRUE /\ OK(s, st).status = st
  BY DEF OK
<1>5. QED
  BY <1>1, <1>2, <1>3, <1>4

\* The request of a handler that works is a request; so is every request that was asked.
LEMMA WorkingRequest ==
  ASSUME ControlTypeOK, NEW h \in Handlers, pc[h] # "idle"
  PROVE  req[h] \in Requests
BY DEF ControlTypeOK

\* A handler is where its request leads.
LEMMA WorkingKind ==
  ASSUME AskedInv, NEW h \in Handlers
  PROVE  /\ pc[h] \in {"ensure", "start", "markStarting"} => req[h].kind = "start"
         /\ pc[h] = "confirm" => req[h].kind = "confirm"
         /\ pc[h] \in {"peek", "stop"} => req[h].kind = "stop"
         /\ pc[h] = "abandon" => req[h].kind = "abandon"
BY DEF AskedInv, StepKind

-----------------------------------------------------------------------------
(* Types.                                                                  *)

\* Every handler step keeps the types.
LEMMA TypeStep ==
  ASSUME ControlTypeOK, AskedInv, ServerStep
  PROVE  ControlTypeOK'
<1> USE Nothing
<1>1. ASSUME NEW h \in Handlers, Arrive(h) PROVE ControlTypeOK'
  <2>1. PICK r \in Requests : Receive(h, r)
    BY <1>1 DEF Arrive
  <2>2. r.command \in Commands
    BY RequestFields
  <2>3. QED
    BY <2>1, <2>2 DEF Receive, ControlTypeOK, storeVars, Store!LifecycleTypeOK, Steps
<1>2. ASSUME NEW h \in Handlers, HandlerStep(h) PROVE ControlTypeOK'
  <2>1. req[h] \in Requests
    BY <1>2, WorkingRequest DEF HandlerStep, CheckCache, Ensure, DoStart, MarkStarting, Confirm, PeekStop,
       DoStop, DoAbandon, Reply
  <2>2. req[h].command \in Commands /\ req[h].kind \in {"start", "confirm", "stop", "abandon"}
    BY <2>1, RequestFields
  <2>3. CASE CheckCache(h) \/ Ensure(h) \/ PeekStop(h)
    <3>1. FirstStep(req[h].kind) \in {"ensure", "confirm", "peek", "abandon"}
      BY <2>2 DEF FirstStep
    <3>2. QED
      BY <2>1, <2>3, <3>1, MadeAnswers DEF CheckCache, Ensure, PeekStop, GoTo, Settle, Finish,
         ControlTypeOK, storeVars, Store!LifecycleTypeOK, Steps
  <2>4. CASE DoStart(h)
    <3>1. PICK a \in Answers, k \in {"markStarting", "reply"} :
            pc' = [pc EXCEPT ![h] = k] /\ res' = [res EXCEPT ![h] = a] /\ UNCHANGED req
      BY <2>4, MadeAnswers DEF DoStart, Settle
    <3>2. /\ Store!LifecycleTypeOK' /\ status' \in [Sessions -> {"starting", "recording"}]
          /\ startedBy' \in [Sessions -> Commands \cup {None}]
          /\ pc[h] = "start" /\ UNCHANGED <<commands, asked>>
      BY <2>2, <2>4 DEF DoStart, storeVars, ControlTypeOK, Store!LifecycleTypeOK, Store!Open
    <3>3. QED
      BY <3>1, <3>2 DEF ControlTypeOK, Steps
  <2>5. CASE MarkStarting(h)
    BY <2>5 DEF MarkStarting, GoTo, ControlTypeOK, Store!LifecycleTypeOK, Steps
  <2>6. CASE Confirm(h) \/ DoStop(h) \/ DoAbandon(h)
    <3>1. req[h].want \in Sessions
      BY <2>1, <2>6, RequestFields, WorkingKind DEF Confirm, DoStop, DoAbandon
    <3>2. PICK a \in Answers : Settle(h, a)
      BY <2>6, <3>1, MadeAnswers DEF Confirm, DoStop, DoAbandon
    <3>3. /\ Store!LifecycleTypeOK' /\ status' \in [Sessions -> {"starting", "recording"}]
          /\ pc[h] \in {"confirm", "stop", "abandon"} /\ UNCHANGED <<commands, asked, startedBy>>
      BY <2>6 DEF Confirm, DoStop, DoAbandon, ControlTypeOK, Store!LifecycleTypeOK, Store!Close, Store!Final
    <3>4. QED
      BY <3>2, <3>3 DEF Settle, ControlTypeOK, Steps
  <2>7. CASE Reply(h)
    BY <2>2, <2>7 DEF Reply, Finish, ControlTypeOK, storeVars, Store!LifecycleTypeOK, Steps
  <2>8. QED
    BY <1>2, <2>3, <2>4, <2>5, <2>6, <2>7 DEF HandlerStep
<1>3. ASSUME Elsewhere PROVE ControlTypeOK'
  BY <1>3 DEF Elsewhere, handlerVars, ControlTypeOK, Store!LifecycleTypeOK, Store!Open, Store!Close,
     Store!Final
<1>4. ASSUME UNCHANGED controlVars PROVE ControlTypeOK'
  BY <1>4 DEF controlVars, storeVars, handlerVars, ControlTypeOK, Store!LifecycleTypeOK
<1>5. QED
  BY <1>1, <1>2, <1>3, <1>4 DEF ServerStep

-----------------------------------------------------------------------------
(* The store and the history.                                              *)

\* What a step does to the store: nothing, or it opens a new session, or it ends the
\* open one.
LEMMA StoreStep ==
  ASSUME ControlTypeOK, AskedInv, ServerStep
  PROVE  \/ UNCHANGED <<open, outcome, startedBy>>
         \/ \E s \in Sessions :
              /\ Store!Open(s) /\ status' = [status EXCEPT ![s] = "recording"]
              /\ \/ UNCHANGED startedBy
                 \/ \E h \in Handlers : /\ pc[h] = "start"
                                        /\ startedBy' = [startedBy EXCEPT ![s] = req[h].command]
         \/ \E s \in Sessions, how \in Over :
              /\ Store!Close(s, how) /\ UNCHANGED <<status, startedBy>>
              /\ how = "abandoned" => \E h \in Handlers : pc[h] = "abandon" /\ req[h].want = s
<1>1. ASSUME NEW h \in Handlers, Arrive(h)
      PROVE  UNCHANGED <<open, outcome, startedBy>>
  BY <1>1 DEF Arrive, Receive, storeVars
<1>2. ASSUME NEW h \in Handlers, DoStart(h), ~ UNCHANGED <<open, outcome, startedBy>>
      PROVE  /\ pc[h] = "start"
             /\ \E s \in Sessions :
                  /\ Store!Open(s) /\ status' = [status EXCEPT ![s] = "recording"]
                  /\ startedBy' = [startedBy EXCEPT ![s] = req[h].command]
  BY <1>2 DEF DoStart, storeVars
<1>3. ASSUME NEW h \in Handlers, DoStop(h) \/ DoAbandon(h), ~ UNCHANGED <<open, outcome, startedBy>>
      PROVE  \E s \in Sessions, how \in Over :
               /\ Store!Close(s, how) /\ UNCHANGED <<status, startedBy>>
               /\ how = "abandoned" => pc[h] = "abandon" /\ req[h].want = s
  <2>1. CASE DoStop(h)
    BY <1>3, <2>1 DEF DoStop, Over, ControlTypeOK, Store!LifecycleTypeOK
  <2>2. CASE DoAbandon(h)
    <3>1. req[h].want \in Sessions
      BY <2>2, WorkingRequest, WorkingKind, RequestFields DEF DoAbandon
    <3>2. QED
      BY <1>3, <2>2, <3>1 DEF DoAbandon, Over
  <2>3. QED
    BY <1>3, <2>1, <2>2
<1>4. ASSUME NEW h \in Handlers,
             CheckCache(h) \/ Ensure(h) \/ MarkStarting(h) \/ Confirm(h) \/ PeekStop(h) \/ Reply(h)
      PROVE  UNCHANGED <<open, outcome, startedBy>>
  BY <1>4 DEF CheckCache, Ensure, MarkStarting, Confirm, PeekStop, Reply, storeVars
<1>5. ASSUME Elsewhere
      PROVE  \E s \in Sessions :
               \/ Store!Open(s) /\ status' = [status EXCEPT ![s] = "recording"] /\ UNCHANGED startedBy
               \/ Store!Close(s, "completed") /\ UNCHANGED <<status, startedBy>>
  BY <1>5 DEF Elsewhere
<1>6. ASSUME UNCHANGED controlVars PROVE UNCHANGED <<open, outcome, startedBy>>
  BY <1>6 DEF controlVars, storeVars
<1>7. QED
  BY <1>1, <1>2, <1>3, <1>4, <1>5, <1>6 DEF ServerStep, HandlerStep, Over

\* The store opens new sessions and ends the open one.
LEMMA OpenStep ==
  ASSUME ControlTypeOK, AskedInv, OpenInv, ServerStep
  PROVE  OpenInv'
<1> USE Nothing DEF OpenInv, ControlTypeOK, Store!LifecycleTypeOK, Store!Open, Store!Close, Over
<1>1. CASE UNCHANGED <<open, outcome, startedBy>>
  BY <1>1
<1>2. CASE \E s \in Sessions :
             Store!Open(s) /\ (UNCHANGED startedBy \/ \E c : startedBy' = [startedBy EXCEPT ![s] = c])
  BY <1>2
<1>3. CASE \E s \in Sessions, how \in Over : Store!Close(s, how) /\ UNCHANGED startedBy
  BY <1>3
<1>4. QED
  BY <1>1, <1>2, <1>3, StoreStep

\* What stays: an end, an opening, who opened a session, that a command was answered.
LEMMA History ==
  ASSUME ControlTypeOK, AskedInv, OpenInv, ServerStep
  PROVE  /\ \A s \in Sessions :
              /\ outcome[s] \in Over => outcome'[s] = outcome[s]
              /\ outcome[s] # "new" => outcome'[s] # "new" /\ startedBy'[s] = startedBy[s]
              /\ outcome[s] = "open" => outcome'[s] \in {"open"} \cup Over
         /\ \A c \in Commands : commands[c] # None => commands'[c] # None
<1>1. ASSUME NEW s \in Sessions
      PROVE  /\ outcome[s] \in Over => outcome'[s] = outcome[s]
             /\ outcome[s] # "new" => outcome'[s] # "new" /\ startedBy'[s] = startedBy[s]
             /\ outcome[s] = "open" => outcome'[s] \in {"open"} \cup Over
  <2> USE Nothing DEF OpenInv, ControlTypeOK, Store!LifecycleTypeOK, Store!Open, Store!Close, Over
  <2>1. CASE UNCHANGED <<open, outcome, startedBy>>
    BY <2>1
  <2>2. CASE \E t \in Sessions :
               Store!Open(t) /\ (UNCHANGED startedBy \/ \E c : startedBy' = [startedBy EXCEPT ![t] = c])
    BY <2>2
  <2>3. CASE \E t \in Sessions, how \in Over : Store!Close(t, how) /\ UNCHANGED startedBy
    BY <2>3
  <2>4. QED
    BY <2>1, <2>2, <2>3, StoreStep
<1>2. ASSUME NEW c \in Commands, commands[c] # None PROVE commands'[c] # None
  <2>1. ASSUME NEW h \in Handlers, Reply(h) PROVE commands'[c] # None
    BY <1>2, <2>1, Nothing DEF Reply, ControlTypeOK
  <2>2. CASE UNCHANGED commands
    BY <1>2, <2>2
  <2>3. QED
    BY <2>1, <2>2 DEF ServerStep, Arrive, Receive, HandlerStep, CheckCache, Ensure, DoStart, MarkStarting,
       Confirm, PeekStop, DoStop, DoAbandon, Elsewhere, controlVars
<1>3. QED
  BY <1>1, <1>2

\* What a request names stays nameable.
LEMMA ProperStays ==
  ASSUME ControlTypeOK, AskedInv, OpenInv, ServerStep, NEW r \in Requests, Proper(r)
  PROVE  Proper(r)'
<1>1. r.kind = "confirm" => r.want \in Sessions
  BY RequestFields
<1>2. ASSUME r.want \in Sessions
      PROVE  outcome[r.want] # "new" /\ outcome'[r.want] # "new" /\ startedBy'[r.want] = startedBy[r.want]
  BY <1>2, History DEF Proper
<1>3. ASSUME r.kind = "confirm" PROVE MayConfirm(r.want)'
  <2>1. startedBy'[r.want] = startedBy[r.want]
    BY <1>1, <1>2, <1>3
  <2>2. startedBy[r.want] \in Commands \cup {None}
    BY <1>1, <1>3 DEF ControlTypeOK
  <2>3. startedBy[r.want] # None => commands[startedBy[r.want]] # None
    BY <1>3 DEF Proper, MayConfirm
  <2>4. QED
    BY <2>1, <2>2, <2>3, History DEF MayConfirm
<1>4. QED
  BY <1>2, <1>3 DEF Proper

-----------------------------------------------------------------------------
(* The requests.                                                           *)

\* Handlers carry what was asked; what was asked is never replaced.
LEMMA AskedStep ==
  ASSUME ControlTypeOK, AskedInv, OpenInv, ServerStep
  PROVE  AskedInv'
<1> USE Nothing
<1>0. \A c \in Commands : \A r \in {asked[c]} \ {None} : r.command = c /\ Proper(r)'
  BY ProperStays DEF AskedInv, ControlTypeOK
<1>1. ASSUME NEW h \in Handlers, Arrive(h) PROVE AskedInv'
  <2>1. PICK r \in Requests : Proper(r) /\ Receive(h, r)
    BY <1>1 DEF Arrive
  <2>2. r.command \in Commands /\ Proper(r)'
    BY <2>1, ProperStays, RequestFields
  <2>3. /\ asked' = [asked EXCEPT ![r.command] = r] /\ asked[r.command] \in {None, r}
        /\ req' = [req EXCEPT ![h] = r] /\ pc' = [pc EXCEPT ![h] = "cache"] /\ UNCHANGED commands
    BY <2>1 DEF Receive
  <2>4. \A c \in Commands :
          /\ \A t \in {asked'[c]} \ {None} : t.command = c /\ Proper(t)'
          /\ commands'[c] # None => asked'[c] # None
    <3>1. ASSUME NEW c \in Commands, NEW t \in {asked'[c]} \ {None}
          PROVE  t.command = c /\ Proper(t)'
      BY <1>0, <2>2, <2>3, <3>1 DEF ControlTypeOK
    <3>2. \A c \in Commands : commands'[c] # None => asked'[c] # None
      BY <2>2, <2>3 DEF AskedInv, ControlTypeOK
    <3>3. QED
      BY <3>1, <3>2
  <2>5. ASSUME NEW g \in Handlers
        PROVE  /\ req'[g] # None => asked'[req'[g].command] = req'[g]
               /\ pc'[g] \in DOMAIN StepKind => req'[g].kind = StepKind[pc'[g]]
    <3>1. CASE g = h
      BY <2>2, <2>3, <3>1 DEF ControlTypeOK, StepKind
    <3>2. CASE g # h
      <4>1. req'[g] = req[g] /\ pc'[g] = pc[g]
        BY <2>3, <3>2 DEF ControlTypeOK
      <4>2. req[g] # None => req[g].command \in Commands
        BY RequestFields DEF ControlTypeOK
      <4>3. QED
        BY <2>2, <2>3, <4>1, <4>2 DEF AskedInv, ControlTypeOK
    <3>3. QED
      BY <3>1, <3>2
  <2>6. QED
    BY <2>4, <2>5 DEF AskedInv
<1>2. ASSUME UNCHANGED asked,
             \A c \in Commands : commands'[c] # None => asked[c] # None,
             NEW h \in Handlers,
             \/ UNCHANGED <<pc, req>>
             \/ /\ pc' = [pc EXCEPT ![h] = "idle"] /\ req' = [req EXCEPT ![h] = None]
             \/ /\ UNCHANGED req
                /\ \E step : /\ pc' = [pc EXCEPT ![h] = step]
                             /\ step \in DOMAIN StepKind => req[h].kind = StepKind[step]
      PROVE  AskedInv'
  <2>1. \A c \in Commands :
          /\ \A t \in {asked'[c]} \ {None} : t.command = c /\ Proper(t)'
          /\ commands'[c] # None => asked'[c] # None
    BY <1>0, <1>2 DEF AskedInv
  <2>2. ASSUME NEW g \in Handlers
        PROVE  /\ req'[g] # None => asked'[req'[g].command] = req'[g]
               /\ pc'[g] \in DOMAIN StepKind => req'[g].kind = StepKind[pc'[g]]
    BY <1>2 DEF AskedInv, ControlTypeOK, StepKind
  <2>3. QED
    BY <2>1, <2>2 DEF AskedInv
<1>3. ASSUME NEW h \in Handlers, HandlerStep(h) PROVE AskedInv'
  <2>1. req[h] \in Requests
    BY <1>3, WorkingRequest DEF HandlerStep, CheckCache, Ensure, DoStart, MarkStarting, Confirm, PeekStop,
       DoStop, DoAbandon, Reply
  <2>2. req[h].kind \in {"start", "confirm", "stop", "abandon"} /\ req[h].command \in Commands
    BY <2>1, RequestFields
  <2>3. \A c \in Commands : commands'[c] # None => asked[c] # None
    <3>1. asked[req[h].command] = req[h]
      BY <2>1 DEF AskedInv
    <3>2. CASE UNCHANGED commands
      BY <3>2 DEF AskedInv
    <3>3. CASE Reply(h)
      BY <2>1, <2>2, <3>1, <3>3 DEF Reply, AskedInv, ControlTypeOK
    <3>4. QED
      BY <1>3, <3>2, <3>3 DEF HandlerStep, CheckCache, Ensure, DoStart, MarkStarting, Confirm, PeekStop,
         DoStop, DoAbandon
  <2>4. FirstStep(req[h].kind) \in DOMAIN StepKind => req[h].kind = StepKind[FirstStep(req[h].kind)]
    BY <2>2 DEF FirstStep, StepKind
  <2>5. "reply" \notin DOMAIN StepKind
    BY DEF StepKind
  <2>6. CASE CheckCache(h)
    BY <1>2, <2>3, <2>4, <2>6 DEF CheckCache, Finish, GoTo
  <2>7. CASE Ensure(h)
    <3>1. req[h].kind = StepKind["start"]
      BY <2>7, WorkingKind DEF Ensure, StepKind
    <3>2. QED
      BY <1>2, <2>3, <2>5, <2>7, <3>1 DEF Ensure, Settle, GoTo
  <2>8. CASE DoStart(h)
    <3>1. req[h].kind = StepKind["markStarting"]
      BY <2>8, WorkingKind DEF DoStart, StepKind
    <3>2. /\ \E step \in {"markStarting", "reply"} : pc' = [pc EXCEPT ![h] = step]
          /\ UNCHANGED <<req, asked>>
      BY <2>8 DEF DoStart, Settle
    <3>3. QED
      BY <1>2, <2>3, <2>5, <2>8, <3>1, <3>2
  <2>9. CASE PeekStop(h)
    <3>1. req[h].kind = StepKind["stop"]
      BY <2>9, WorkingKind DEF PeekStop, StepKind
    <3>2. QED
      BY <1>2, <2>3, <2>5, <2>9, <3>1 DEF PeekStop, Settle, GoTo
  <2>10. CASE MarkStarting(h) \/ Confirm(h) \/ DoStop(h) \/ DoAbandon(h)
    BY <1>2, <2>3, <2>5, <2>10 DEF MarkStarting, Confirm, DoStop, DoAbandon, Settle, GoTo
  <2>11. CASE Reply(h)
    BY <1>2, <2>3, <2>11 DEF Reply, Finish
  <2>12. QED
    BY <1>3, <2>6, <2>7, <2>8, <2>9, <2>10, <2>11 DEF HandlerStep
<1>4. ASSUME Elsewhere \/ UNCHANGED controlVars PROVE AskedInv'
  <2>1. UNCHANGED <<commands, asked, pc, req>>
    BY <1>4 DEF Elsewhere, controlVars, handlerVars
  <2>2. \A c \in Commands :
          /\ \A t \in {asked'[c]} \ {None} : t.command = c /\ Proper(t)'
          /\ commands'[c] # None => asked'[c] # None
    BY <1>0, <2>1 DEF AskedInv
  <2>3. QED
    BY <2>1, <2>2 DEF AskedInv
<1>5. QED
  BY <1>1, <1>3, <1>4 DEF ServerStep

-----------------------------------------------------------------------------
(* The answers.                                                            *)

\* What is true of a session stays true.
LEMMA TrueStays ==
  ASSUME ControlTypeOK, AskedInv, OpenInv, ServerStep, NEW a \in Answers, IsTrue(a)
  PROVE  IsTrue(a)'
<1>1. a.status \in {"starting", "recording"} \cup Over => a.id \in Sessions
  BY AnswerFields
<1>2. QED
  BY <1>1, History DEF IsTrue, Over

\* The answers that steps add.
LEMMA NewAnswer ==
  ASSUME ControlTypeOK, ServerStep, NEW a \in Answers
  PROVE  /\ \A c \in Commands : commands'[c] = a /\ commands[c] # a => \E h \in Handlers : res[h] = a
         /\ \A h \in Handlers : res'[h] = a /\ res[h] # a =>
              \/ a = Conflict
              \/ DoStart(h) /\ \E s \in Sessions : Store!Open(s) /\ a = OK(s, "starting")
                                                   /\ startedBy' = [startedBy EXCEPT ![s] = req[h].command]
                                                   /\ pc'[h] = "markStarting"
              \/ Confirm(h) /\ open = req[h].want /\ a = OK(open, "recording")
              \/ DoStop(h) /\ open # None /\ Store!Close(open, "completed") /\ a = OK(req[h].want, "completed")
              \/ DoAbandon(h) /\ Store!Close(req[h].want, "abandoned") /\ open = req[h].want
                 /\ a = OK(req[h].want, "abandoned")
<1> USE Nothing
<1>1. ASSUME NEW g \in Handlers, HandlerStep(g), ~Reply(g), ~CheckCache(g)
      PROVE  /\ UNCHANGED commands
             /\ \A h \in Handlers : res'[h] = a /\ res[h] # a =>
                  \/ a = Conflict
                  \/ DoStart(h) /\ \E s \in Sessions : Store!Open(s) /\ a = OK(s, "starting")
                                                       /\ startedBy' = [startedBy EXCEPT ![s] = req[h].command]
                                                       /\ pc'[h] = "markStarting"
                  \/ Confirm(h) /\ open = req[h].want /\ a = OK(open, "recording")
                  \/ DoStop(h) /\ open # None /\ Store!Close(open, "completed")
                     /\ a = OK(req[h].want, "completed")
                  \/ DoAbandon(h) /\ Store!Close(req[h].want, "abandoned") /\ open = req[h].want
                     /\ a = OK(req[h].want, "abandoned")
  <2>1. CASE Ensure(g) \/ PeekStop(g) \/ MarkStarting(g)
    BY <2>1 DEF Ensure, PeekStop, MarkStarting, GoTo, Settle, ControlTypeOK
  <2>2. CASE DoStart(g)
    BY <2>2 DEF DoStart, Settle, ControlTypeOK
  <2>3. CASE Confirm(g)
    BY <2>3 DEF Confirm, Settle, ControlTypeOK
  <2>4. CASE DoStop(g)
    BY <2>4 DEF DoStop, Settle, ControlTypeOK
  <2>5. CASE DoAbandon(g)
    BY <2>5 DEF DoAbandon, Settle, ControlTypeOK, Store!Close
  <2>6. QED
    BY <1>1, <2>1, <2>2, <2>3, <2>4, <2>5 DEF HandlerStep
<1>2. ASSUME NEW g \in Handlers, CheckCache(g) \/ Reply(g) \/ Arrive(g)
      PROVE  /\ \A c \in Commands : commands'[c] = a /\ commands[c] # a => \E h \in Handlers : res[h] = a
             /\ \A h \in Handlers : res'[h] = a => res[h] = a
  <2>1. CASE CheckCache(g) \/ Arrive(g)
    BY <2>1 DEF CheckCache, Arrive, Receive, Finish, GoTo, ControlTypeOK
  <2>2. CASE Reply(g)
    BY <2>2 DEF Reply, Finish, ControlTypeOK
  <2>3. QED
    BY <1>2, <2>1, <2>2
<1>3. ASSUME Elsewhere \/ UNCHANGED controlVars PROVE UNCHANGED <<commands, res>>
  BY <1>3 DEF Elsewhere, controlVars, handlerVars
<1>4. QED
  BY <1>1, <1>2, <1>3 DEF ServerStep

\* An answer is true when it is settled: the stop that a handler has carried out
\* has ended the session it was asked for, or that session was over before.
LEMMA AnswerStep ==
  ASSUME ControlTypeOK, AskedInv, OpenInv, AnswerInv, ServerStep, ControlTypeOK'
  PROVE  AnswerInv'
<1> SUFFICES ASSUME NEW a \in Answers,
                    (\E c \in Commands : commands'[c] = a) \/ (\E h \in Handlers : res'[h] = a)
             PROVE  IsTrue(a)'
  <2>1. \A c \in Commands : \A a \in {commands'[c]} \ {None} : a \in Answers /\ commands'[c] = a
    BY DEF ControlTypeOK
  <2>2. \A h \in Handlers : \A a \in {res'[h]} \ {None} : a \in Answers /\ res'[h] = a
    BY DEF ControlTypeOK
  <2>3. QED
    BY <2>1, <2>2 DEF AnswerInv
<1>1. CASE (\E c \in Commands : commands[c] = a) \/ (\E h \in Handlers : res[h] = a)
  <2>1. IsTrue(a)
    BY <1>1, Nothing DEF AnswerInv
  <2>2. QED
    BY <2>1, TrueStays
<1>2. CASE \E h \in Handlers : res'[h] = a /\ res[h] # a
  <2>1. PICK h \in Handlers : res'[h] = a /\ res[h] # a
    BY <1>2
  <2>2. CASE a = Conflict
    BY <2>2, MadeAnswers, Nothing DEF IsTrue
  <2>3. CASE \E s \in Sessions : Store!Open(s) /\ a = OK(s, "starting")
    BY <2>3, MadeAnswers DEF IsTrue, Store!Open, ControlTypeOK, Store!LifecycleTypeOK
  <2>4. CASE Confirm(h) /\ open = req[h].want /\ a = OK(open, "recording")
    <3>1. req[h].want \in Sessions /\ outcome[open] = "open" /\ UNCHANGED outcome
      BY <2>4, WorkingRequest, WorkingKind, RequestFields DEF Confirm, OpenInv
    <3>2. QED
      BY <2>4, <3>1, MadeAnswers DEF IsTrue
  <2>5. CASE DoStop(h) /\ Store!Close(open, "completed") /\ open # None /\ a = OK(req[h].want, "completed")
    <3>1. req[h] \in Requests /\ req[h].want \in Sessions /\ req[h].command \in Commands
      BY <2>5, WorkingRequest, WorkingKind, RequestFields DEF DoStop
    <3>2. outcome[req[h].want] # "new"
      BY <3>1, Nothing DEF AskedInv, Proper
    <3>3. outcome'[req[h].want] \in Over
      BY <2>5, <3>1, <3>2 DEF OpenInv, ControlTypeOK, Store!LifecycleTypeOK, Store!Close, Over
    <3>4. QED
      BY <2>5, <3>1, <3>3, MadeAnswers DEF IsTrue
  <2>6. CASE DoAbandon(h) /\ Store!Close(req[h].want, "abandoned") /\ a = OK(req[h].want, "abandoned")
    <3>1. req[h].want \in Sessions
      BY <2>6, WorkingRequest, WorkingKind, RequestFields DEF DoAbandon
    <3>2. QED
      BY <2>6, <3>1, MadeAnswers DEF IsTrue, Over, Store!Close, ControlTypeOK, Store!LifecycleTypeOK
  <2>7. QED
    BY <2>1, <2>2, <2>3, <2>4, <2>5, <2>6, NewAnswer
<1>3. QED
  BY <1>1, <1>2, NewAnswer

-----------------------------------------------------------------------------
(* Retries.                                                                *)

\* A step of one handler leaves the others alone.
LEMMA OneHandler ==
  ASSUME ControlTypeOK, NEW h \in Handlers, Arrive(h) \/ HandlerStep(h)
  PROVE  \A g \in Handlers \ {h} : pc'[g] = pc[g] /\ req'[g] = req[g] /\ res'[g] = res[g]
<1>1. CASE Arrive(h)
  BY <1>1 DEF Arrive, Receive, ControlTypeOK
<1>2. CASE HandlerStep(h)
  BY <1>2 DEF HandlerStep, CheckCache, Ensure, DoStart, MarkStarting, Confirm, PeekStop, DoStop, DoAbandon,
     Reply, Finish, Settle, GoTo, ControlTypeOK
<1>3. QED
  BY <1>1, <1>2

\* How a handler goes on.
LEMMA HandlerMoves ==
  ASSUME ControlTypeOK, NEW h \in Handlers, HandlerStep(h)
  PROVE  /\ pc[h] # "idle"
         /\ pc'[h] # "idle" => req'[h] = req[h]
         /\ pc'[h] \in {"markStarting", "reply"} /\ pc[h] # "markStarting" => res[h] = None
         /\ pc[h] = "cache" /\ pc'[h] # "idle" => commands[req[h].command] = None /\ UNCHANGED commands
         /\ pc[h] # "cache" => pc'[h] # "cache"
         /\ pc[h] \in {"markStarting", "reply"} => pc'[h] = "reply" \/ Reply(h)
         /\ ~Reply(h) => UNCHANGED commands
         /\ Reply(h) => pc[h] = "reply" /\ pc'[h] = "idle"
         /\ UNCHANGED asked
<1> USE DEF ControlTypeOK
<1>1. CASE CheckCache(h)
  <2>1. pc[h] = "cache" /\ FirstStep(req[h].kind) \notin {"cache", "markStarting", "reply"}
    <3>1. req[h] \in Requests
      BY <1>1, WorkingRequest DEF CheckCache
    <3>2. QED
      BY <1>1, <3>1, RequestFields DEF CheckCache, FirstStep
  <2>2. QED
    BY <1>1, <2>1 DEF CheckCache, Finish, GoTo, Reply
<1>2. CASE Ensure(h) \/ DoStart(h) \/ MarkStarting(h) \/ PeekStop(h)
  BY <1>2 DEF Ensure, DoStart, MarkStarting, PeekStop, Settle, GoTo, Reply
<1>3. CASE Confirm(h) \/ DoStop(h) \/ DoAbandon(h)
  BY <1>3 DEF Confirm, DoStop, DoAbandon, Settle, Reply
<1>4. CASE Reply(h)
  BY <1>4 DEF Reply, Finish
<1>5. QED
  BY <1>1, <1>2, <1>3, <1>4 DEF HandlerStep

\* A start handler answers with the session it has opened, which nobody else opens.
LEMMA StartStep ==
  ASSUME ControlTypeOK, AskedInv, OpenInv, StartInv, ServerStep
  PROVE  StartInv'
<1> USE Nothing
<1>1. ASSUME NEW h \in Handlers, req[h] \in Requests,
             res[h].id \in Sessions, startedBy[res[h].id] = req[h].command
      PROVE  startedBy'[res[h].id] = req[h].command
  <2>1. startedBy[res[h].id] # None
    BY <1>1, RequestFields
  <2>2. QED
    BY <1>1, <2>1, History DEF OpenInv
<1>2. ASSUME NEW h \in Handlers, pc'[h] = pc[h], req'[h] = req[h], res'[h] = res[h],
             pc[h] \in {"markStarting", "reply"}, req[h].kind = "start", pc[h] = "reply" => res[h].ok
      PROVE  /\ res[h].id \in Sessions /\ startedBy'[res[h].id] = req[h].command
             /\ res[h].status = "starting"
  BY <1>1, <1>2, WorkingRequest DEF StartInv
<1>3. ASSUME NEW h \in Handlers, Arrive(h) \/ HandlerStep(h) PROVE StartInv'
  <2>1. ASSUME NEW g \in Handlers, g # h,
               pc'[g] \in {"markStarting", "reply"}, req'[g].kind = "start", pc'[g] = "reply" => res'[g].ok
        PROVE  /\ res'[g].id \in Sessions /\ startedBy'[res'[g].id] = req'[g].command
               /\ res'[g].status = "starting"
    BY <1>2, <1>3, <2>1, OneHandler
  <2>2. ASSUME pc'[h] \in {"markStarting", "reply"}, req'[h].kind = "start", pc'[h] = "reply" => res'[h].ok
        PROVE  /\ res'[h].id \in Sessions /\ startedBy'[res'[h].id] = req'[h].command
               /\ res'[h].status = "starting"
    <3>1. HandlerStep(h)
      BY <1>3, <2>2 DEF Arrive, Receive, ControlTypeOK
    <3>2. CASE MarkStarting(h)
      <4>1. pc[h] = "markStarting" /\ res'[h] = res[h] /\ req'[h] = req[h]
        BY <3>2 DEF MarkStarting, GoTo
      <4>2. /\ res[h].id \in Sessions /\ startedBy[res[h].id] = req[h].command
            /\ res[h].status = "starting"
        BY <2>2, <4>1 DEF StartInv
      <4>3. QED
        BY <1>1, <4>1, <4>2, WorkingRequest
    <3>3. CASE DoStart(h)
      <4>1. /\ pc' = [pc EXCEPT ![h] = "reply"] /\ res' = [res EXCEPT ![h] = Conflict] /\ UNCHANGED req
            \/ \E s \in Sessions : /\ Store!Open(s) /\ res' = [res EXCEPT ![h] = OK(s, "starting")]
                                   /\ startedBy' = [startedBy EXCEPT ![s] = req[h].command]
                                   /\ UNCHANGED req
        BY <3>3 DEF DoStart, Settle
      <4>2. QED
        BY <2>2, <4>1, MadeAnswers DEF Store!Open, ControlTypeOK
    <3>4. CASE Ensure(h)
      BY <2>2, <3>4, MadeAnswers DEF Ensure, Settle, GoTo, ControlTypeOK
    <3>5. CASE PeekStop(h) \/ Confirm(h) \/ DoStop(h) \/ DoAbandon(h)
      BY <2>2, <3>5, WorkingKind DEF PeekStop, Confirm, DoStop, DoAbandon, Settle, GoTo
    <3>6. CASE CheckCache(h) \/ Reply(h)
      <4>1. FirstStep(req[h].kind) \notin {"markStarting", "reply"} \/ Reply(h)
        <5>1. req[h] \in Requests
          BY <3>6, WorkingRequest DEF CheckCache, Reply
        <5>2. QED
          BY <3>6, <5>1, RequestFields DEF CheckCache, FirstStep
      <4>2. QED
        BY <2>2, <3>6, <4>1 DEF CheckCache, Reply, Finish, GoTo, ControlTypeOK
    <3>7. QED
      BY <3>1, <3>2, <3>3, <3>4, <3>5, <3>6 DEF HandlerStep
  <2>3. QED
    BY <2>1, <2>2 DEF StartInv
<1>4. ASSUME Elsewhere \/ UNCHANGED controlVars PROVE StartInv'
  <2>1. UNCHANGED <<pc, req, res>>
    BY <1>4 DEF Elsewhere, controlVars, handlerVars
  <2>2. QED
    BY <1>2, <2>1 DEF StartInv
<1>5. QED
  BY <1>3, <1>4 DEF ServerStep

\* A commandId has one handler, which goes on only while it has no answer.
LEMMA OneCarrier ==
  ASSUME ControlTypeOK, AskedInv, RetryInv, ~Overlap, ServerStep
  PROVE  /\ \A g, h \in Handlers :
              pc'[g] # "idle" /\ pc'[h] # "idle" /\ req'[g].command = req'[h].command => g = h
         /\ \A h \in Handlers : pc'[h] \notin {"idle", "cache"} => commands'[req'[h].command] = None
<1> USE Nothing
<1>1. ASSUME NEW h \in Handlers, Arrive(h)
      PROVE  /\ \A f, g \in Handlers :
                  pc'[f] # "idle" /\ pc'[g] # "idle" /\ req'[f].command = req'[g].command => f = g
             /\ \A g \in Handlers : pc'[g] \notin {"idle", "cache"} => commands'[req'[g].command] = None
  <2>1. PICK r \in Requests : Receive(h, r)
    BY <1>1 DEF Arrive
  <2>2. /\ \A g \in Handlers : pc[g] # "idle" => req[g].command # r.command
        /\ pc'[h] = "cache" /\ req'[h] = r /\ UNCHANGED commands
    BY <2>1 DEF Receive, Busy, ControlTypeOK
  <2>3. QED
    BY <1>1, <2>2, OneHandler DEF RetryInv
<1>2. ASSUME NEW h \in Handlers, HandlerStep(h)
      PROVE  /\ \A f, g \in Handlers :
                  pc'[f] # "idle" /\ pc'[g] # "idle" /\ req'[f].command = req'[g].command => f = g
             /\ \A g \in Handlers : pc'[g] \notin {"idle", "cache"} => commands'[req'[g].command] = None
  <2>1. \A g \in Handlers : pc'[g] # "idle" => pc[g] # "idle" /\ req'[g] = req[g]
    BY <1>2, OneHandler, HandlerMoves
  <2>2. \A f, g \in Handlers :
          pc'[f] # "idle" /\ pc'[g] # "idle" /\ req'[f].command = req'[g].command => f = g
    BY <2>1 DEF RetryInv
  <2>3. ASSUME NEW g \in Handlers, pc'[g] \notin {"idle", "cache"}
        PROVE  commands'[req'[g].command] = None
    <3>1. CASE g = h
      <4>1. UNCHANGED commands /\ req'[g] = req[g]
        BY <1>2, <2>3, <3>1, HandlerMoves
      <4>2. commands[req[g].command] = None
        BY <1>2, <2>3, <3>1, HandlerMoves DEF RetryInv
      <4>3. QED
        BY <4>1, <4>2
    <3>2. CASE g # h /\ UNCHANGED commands
      BY <1>2, <2>3, <3>2, OneHandler DEF RetryInv
    <3>3. CASE g # h /\ Reply(h)
      <4>1. pc[g] # "idle" /\ pc[h] # "idle" /\ req'[g] = req[g] /\ pc'[g] = pc[g]
        BY <1>2, <2>3, <3>3, OneHandler, HandlerMoves
      <4>2. req[g].command # req[h].command /\ commands[req[g].command] = None
        BY <2>3, <3>3, <4>1 DEF RetryInv
      <4>3. req[h].command \in Commands /\ req[g].command \in Commands
        BY <4>1, WorkingRequest, RequestFields
      <4>4. commands' = [commands EXCEPT ![req[h].command] = res[h]]
        BY <3>3 DEF Reply
      <4>5. QED
        BY <4>1, <4>2, <4>3, <4>4 DEF ControlTypeOK
    <3>4. QED
      BY <1>2, <3>1, <3>2, <3>3, HandlerMoves
  <2>4. QED
    BY <2>2, <2>3
<1>3. ASSUME Elsewhere \/ UNCHANGED controlVars PROVE UNCHANGED <<pc, req, commands>>
  BY <1>3 DEF Elsewhere, controlVars, handlerVars
<1>4. QED
  BY <1>1, <1>2, <1>3 DEF ServerStep, RetryInv

\* The start of a session is answered or is being answered, so that a command opens
\* one session at most.
LEMMA OneStart ==
  ASSUME ControlTypeOK, AskedInv, OpenInv, RetryInv, ServerStep
  PROVE  /\ \A s \in Sessions : startedBy'[s] # None =>
              \/ commands'[startedBy'[s]] # None
              \/ \E h \in Handlers :
                   pc'[h] \in {"markStarting", "reply"} /\ req'[h].command = startedBy'[s]
         /\ StartsOnce'
<1> USE Nothing
<1>1. ASSUME NEW c \in Commands,
             \/ commands[c] # None
             \/ \E h \in Handlers : pc[h] \in {"markStarting", "reply"} /\ req[h].command = c
      PROVE  \/ commands'[c] # None
             \/ \E h \in Handlers : pc'[h] \in {"markStarting", "reply"} /\ req'[h].command = c
  <2>1. CASE commands[c] # None
    BY <2>1, History
  <2>2. ASSUME NEW h \in Handlers, pc[h] \in {"markStarting", "reply"}, req[h].command = c
        PROVE  \/ commands'[c] # None
               \/ pc'[h] \in {"markStarting", "reply"} /\ req'[h].command = c
    <3>1. CASE HandlerStep(h) /\ ~Reply(h)
      BY <2>2, <3>1, HandlerMoves
    <3>2. CASE Reply(h)
      BY <1>1, <2>2, <3>2 DEF Reply, ControlTypeOK
    <3>3. CASE \E g \in Handlers : g # h /\ (Arrive(g) \/ HandlerStep(g))
      BY <2>2, <3>3, OneHandler
    <3>4. CASE UNCHANGED <<pc, req>>
      BY <2>2, <3>4
    <3>5. ~Arrive(h)
      BY <2>2 DEF Arrive, Receive
    <3>6. QED
      BY <3>1, <3>2, <3>3, <3>4, <3>5 DEF ServerStep, Elsewhere, controlVars, handlerVars
  <2>3. QED
    BY <1>1, <2>1, <2>2
<1>2. CASE UNCHANGED startedBy
  <2>1. \A s \in Sessions : startedBy[s] # None => startedBy[s] \in Commands
    BY DEF ControlTypeOK
  <2>2. QED
    BY <1>1, <1>2, <2>1 DEF RetryInv, StartsOnce
<1>3. ASSUME ~ UNCHANGED startedBy
      PROVE  \E h \in Handlers, s \in Sessions :
               /\ DoStart(h) /\ pc'[h] \in {"markStarting", "reply"}
               /\ startedBy' = [startedBy EXCEPT ![s] = req[h].command]
  BY <1>3 DEF ServerStep, Arrive, Receive, HandlerStep, CheckCache, Ensure, DoStart, MarkStarting, Confirm,
     PeekStop, DoStop, DoAbandon, Reply, Elsewhere, controlVars, Settle, ControlTypeOK
<1>4. ASSUME NEW h \in Handlers, NEW s \in Sessions, DoStart(h),
             pc'[h] \in {"markStarting", "reply"},
             startedBy' = [startedBy EXCEPT ![s] = req[h].command]
      PROVE  /\ \A t \in Sessions : startedBy'[t] # None =>
                  \/ commands'[startedBy'[t]] # None
                  \/ \E g \in Handlers :
                       pc'[g] \in {"markStarting", "reply"} /\ req'[g].command = startedBy'[t]
             /\ StartsOnce'
  <2>1. pc[h] = "start" /\ req'[h] = req[h]
    BY <1>4 DEF DoStart, Settle
  <2>2. req[h].command \in Commands
    BY <2>1, WorkingRequest, RequestFields
  <2>3. /\ startedBy'[s] = req[h].command
        /\ \A t \in Sessions : t # s => startedBy'[t] = startedBy[t]
        /\ \A t \in Sessions : startedBy[t] \in Commands \cup {None}
    BY <1>4 DEF ControlTypeOK
  <2>4. \A t \in Sessions : startedBy[t] # req[h].command
    BY <2>1, <2>2 DEF RetryInv
  <2>5. StartsOnce'
    BY <2>2, <2>3, <2>4 DEF RetryInv, StartsOnce
  <2>6. ASSUME NEW t \in Sessions, startedBy'[t] # None
        PROVE  \/ commands'[startedBy'[t]] # None
               \/ \E g \in Handlers :
                    pc'[g] \in {"markStarting", "reply"} /\ req'[g].command = startedBy'[t]
    <3>1. CASE t = s
      BY <1>4, <2>1, <2>3, <3>1
    <3>2. CASE t # s
      <4>1. startedBy'[t] = startedBy[t] /\ startedBy[t] \in Commands
        BY <2>3, <2>6, <3>2
      <4>2. QED
        BY <1>1, <2>6, <4>1 DEF RetryInv
    <3>3. QED
      BY <3>1, <3>2
  <2>7. QED
    BY <2>5, <2>6
<1>5. QED
  BY <1>2, <1>3, <1>4

-----------------------------------------------------------------------------
(* Confirmations.                                                          *)

\* The answers that are new in a step are those that a handler has just settled.
LEMMA NewlyAnswered ==
  ASSUME ControlTypeOK, AskedInv, ServerStep, NEW r \in Requests, NEW a \in Answers,
         HasAnswer(r, a)', ~HasAnswer(r, a)
  PROVE  \E h \in Handlers : /\ HandlerStep(h) /\ ~Reply(h) /\ ~CheckCache(h)
                             /\ req[h] = r /\ res'[h] = a /\ pc'[h] = "reply" /\ pc[h] # "reply"
<1> USE Nothing
<1>1. ASSUME NEW h \in Handlers, pc'[h] = "reply", req'[h] = r, res'[h] = a,
             ~(pc[h] = "reply" /\ req[h] = r /\ res[h] = a)
      PROVE  \E g \in Handlers : /\ HandlerStep(g) /\ ~Reply(g) /\ ~CheckCache(g)
                                 /\ req[g] = r /\ res'[g] = a /\ pc'[g] = "reply" /\ pc[g] # "reply"
  <2>1. HandlerStep(h)
    <3>1. ~Arrive(h)
      BY <1>1 DEF Arrive, Receive, ControlTypeOK
    <3>2. ~ \E g \in Handlers : g # h /\ (Arrive(g) \/ HandlerStep(g))
      BY <1>1, OneHandler
    <3>3. QED
      BY <1>1, <3>1, <3>2 DEF ServerStep, Elsewhere, controlVars, handlerVars
  <2>2. ~Reply(h) /\ req'[h] = req[h]
    BY <1>1, <2>1, HandlerMoves
  <2>3. pc[h] # "reply"
    BY <1>1, <2>1, <2>2 DEF HandlerStep, CheckCache, Ensure, DoStart, MarkStarting, Confirm, PeekStop,
       DoStop, DoAbandon
  <2>4. ~CheckCache(h)
    <3>1. ASSUME CheckCache(h) PROVE FALSE
      <4>1. req[h] \in Requests
        BY <3>1, WorkingRequest DEF CheckCache
      <4>2. FirstStep(req[h].kind) # "reply"
        BY <4>1, RequestFields DEF FirstStep
      <4>3. QED
        BY <1>1, <3>1, <4>2 DEF CheckCache, Finish, GoTo, ControlTypeOK
    <3>2. QED
      BY <3>1
  <2>5. QED
    BY <1>1, <2>1, <2>2, <2>3, <2>4
<1>2. ASSUME NEW c \in Commands, asked'[c] = r, commands'[c] = a PROVE HasAnswer(r, a)
  <2>1. CASE UNCHANGED <<asked, commands>>
    BY <1>2, <2>1 DEF HasAnswer
  <2>2. ASSUME NEW h \in Handlers, Reply(h) PROVE HasAnswer(r, a)
    <3>1. req[h] \in Requests /\ asked[req[h].command] = req[h] /\ req[h].command \in Commands
      BY <2>2, WorkingRequest, RequestFields DEF Reply, AskedInv
    <3>2. QED
      BY <1>2, <2>2, <3>1 DEF Reply, HasAnswer, ControlTypeOK
  <2>3. ASSUME NEW h \in Handlers, Arrive(h) PROVE HasAnswer(r, a)
    <3>1. asked'[c] = asked[c] \/ asked[c] = None
      BY <2>3 DEF Arrive, Receive, ControlTypeOK
    <3>2. commands[c] = a /\ asked[c] # None
      BY <1>2, <2>3 DEF Arrive, Receive, AskedInv
    <3>3. QED
      BY <1>2, <3>1, <3>2 DEF HasAnswer
  <2>4. QED
    BY <2>1, <2>2, <2>3 DEF ServerStep, HandlerStep, CheckCache, Ensure, DoStart, MarkStarting, Confirm,
       PeekStop, DoStop, DoAbandon, Elsewhere, controlVars
<1>3. QED
  BY <1>1, <1>2 DEF HasAnswer

\* The session of a request that is being carried out, or was, may be named.
LEMMA AnsweredIsProper ==
  ASSUME ControlTypeOK, AskedInv, NEW r \in Requests, NEW a \in Answers, HasAnswer(r, a)
  PROVE  Proper(r)
<1>1. \A h \in Handlers : req[h] = r => asked[r.command] = r /\ r.command \in Commands
  BY RequestFields, Nothing DEF AskedInv
<1>2. \E c \in Commands : asked[c] = r
  BY <1>1 DEF HasAnswer
<1>3. QED
  BY <1>2, Nothing DEF AskedInv

\* No session goes back to "starting" once its confirmation was answered: the handler
\* that would mark it has not answered its start, but a confirmation comes after that.
LEMMA StickStep ==
  ASSUME ControlTypeOK, AskedInv, OpenInv, StartInv, RetryInv, StickInv, ServerStep,
         ControlTypeOK', AskedInv'
  PROVE  StickInv'
<1> USE Nothing
<1> SUFFICES ASSUME NEW r \in Requests, NEW a \in Answers, HasAnswer(r, a)', a.status = "recording"
             PROVE  /\ r.kind = "confirm" /\ a.id = r.want
                    /\ open' = a.id => status'[open'] = "recording"
  <2>1. ASSUME NEW c \in Commands, commands'[c] # None
        PROVE  asked'[c] \in Requests /\ commands'[c] \in Answers
    BY <2>1 DEF ControlTypeOK, AskedInv
  <2>2. ASSUME NEW h \in Handlers, pc'[h] = "reply" PROVE req'[h] \in Requests /\ res'[h] \in Answers
    BY <2>2 DEF ControlTypeOK
  <2>3. ASSUME NEW c \in Commands, NEW r \in {asked'[c]}, NEW a \in {commands'[c]} \ {None}
        PROVE  Sticks(r, a)'
    BY <2>1, <2>3 DEF Sticks, HasAnswer
  <2>4. ASSUME NEW h \in Handlers, NEW r \in {req'[h]}, NEW a \in {res'[h]}, pc'[h] = "reply"
        PROVE  Sticks(r, a)'
    BY <2>2, <2>4 DEF Sticks, HasAnswer
  <2>5. QED
    BY <2>3, <2>4 DEF StickInv
<1>1. CASE ~HasAnswer(r, a)
  <2>1. PICK h \in Handlers : /\ HandlerStep(h) /\ ~Reply(h) /\ ~CheckCache(h)
                              /\ req[h] = r /\ res'[h] = a /\ pc'[h] = "reply" /\ pc[h] # "reply"
    BY <1>1, NewlyAnswered
  <2>2. CASE Confirm(h)
    <3>1. a # Conflict
      BY MadeAnswers
    <3>2. /\ open = r.want /\ a = OK(open, "recording") /\ UNCHANGED open
          /\ status' = [status EXCEPT ![open] = "recording"]
      BY <2>1, <2>2, <3>1 DEF Confirm, Settle, ControlTypeOK
    <3>3. r.kind = "confirm" /\ r.want \in Sessions
      BY <2>1, <2>2, WorkingKind, RequestFields DEF Confirm
    <3>4. QED
      BY <3>2, <3>3, MadeAnswers DEF ControlTypeOK
  <2>3. CASE MarkStarting(h)
    <3>1. pc[h] = "markStarting" /\ a = res[h]
      BY <2>1, <2>3 DEF MarkStarting, GoTo
    <3>2. req[h].kind = "start"
      BY <3>1, WorkingKind
    <3>3. a.status = "starting"
      BY <3>1, <3>2 DEF StartInv
    <3>4. QED
      BY <3>3
  <2>4. CASE Ensure(h) \/ PeekStop(h) \/ DoStart(h)
    <3>1. a = Conflict
      BY <2>1, <2>4 DEF Ensure, PeekStop, DoStart, Settle, GoTo, ControlTypeOK
    <3>2. QED
      BY <3>1, MadeAnswers
  <2>5. CASE DoStop(h) \/ DoAbandon(h)
    <3>1. req[h].want \in Sessions
      BY <2>1, <2>5, WorkingKind, RequestFields DEF DoStop, DoAbandon
    <3>2. a = Conflict \/ a = OK(req[h].want, "completed") \/ a = OK(req[h].want, "abandoned")
      BY <2>1, <2>5 DEF DoStop, DoAbandon, Settle, ControlTypeOK
    <3>3. QED
      BY <3>1, <3>2, MadeAnswers
  <2>6. QED
    BY <2>1, <2>2, <2>3, <2>4, <2>5 DEF HandlerStep
<1>2. CASE HasAnswer(r, a)
  <2>1. r.kind = "confirm" /\ a.id = r.want /\ (open = a.id => status[open] = "recording")
    <3>1. Sticks(r, a)
      BY <1>2 DEF StickInv, HasAnswer
    <3>2. QED
      BY <3>1 DEF Sticks
  <2>2. r.want \in Sessions
    BY <2>1, RequestFields
  <2>3. /\ outcome[r.want] # "new"
        /\ startedBy[r.want] # None => commands[startedBy[r.want]] # None
    BY <1>2, <2>1, <2>2, AnsweredIsProper DEF Proper, MayConfirm
  <2>4. ASSUME open' = r.want PROVE open = r.want
    BY <2>2, <2>3, <2>4, StoreStep DEF Store!Open, Store!Close
  <2>5. ASSUME open = r.want, UNCHANGED open PROVE status'[open] = "recording"
    <3>1. status[open] = "recording"
      BY <2>1, <2>5
    <3>2. ASSUME NEW h \in Handlers, MarkStarting(h) PROVE UNCHANGED status
      <4>1. pc[h] = "markStarting" /\ req[h].kind = "start"
        BY <3>2, WorkingKind DEF MarkStarting
      <4>2. startedBy[res[h].id] = req[h].command /\ req[h].command \in Commands
        BY <4>1, WorkingRequest, RequestFields DEF StartInv
      <4>3. commands[req[h].command] = None
        BY <4>1 DEF RetryInv
      <4>4. res[h].id # open
        BY <2>3, <2>5, <4>2, <4>3
      <4>5. QED
        BY <3>2, <4>4 DEF MarkStarting
    <3>3. ASSUME NEW h \in Handlers, Confirm(h) PROVE status'[open] = "recording"
      BY <2>2, <2>5, <3>1, <3>3 DEF Confirm, ControlTypeOK
    <3>4. ASSUME NEW s \in Sessions, Store!Open(s) PROVE FALSE
      BY <2>2, <2>5, <3>4 DEF Store!Open
    <3>5. CASE UNCHANGED status
      BY <3>1, <3>5
    <3>6. QED
      BY <3>2, <3>3, <3>4, <3>5 DEF ServerStep, Arrive, Receive, HandlerStep, CheckCache, Ensure, DoStart,
         PeekStop, DoStop, DoAbandon, Reply, Elsewhere, controlVars, storeVars
  <2>6. QED
    BY <2>1, <2>4, <2>5
<1>3. QED
  BY <1>1, <1>2

-----------------------------------------------------------------------------
(* The invariant of the control server, for whoever extends it.            *)

\* Nothing asked, nothing answered.
LEMMA ControlStart ==
  ASSUME ControlInit
  PROVE  ControlInv
<1> USE Nothing DEF ControlInit
<1>1. ControlTypeOK
  BY DEF ControlTypeOK, Store!Init, Store!LifecycleTypeOK, Steps
<1>2. OpenInv
  BY DEF OpenInv, Store!Init
<1>3. AskedInv /\ AnswerInv /\ StartInv
  BY DEF AskedInv, AnswerInv, StartInv, StepKind
<1>4. RetryInv /\ StickInv
  BY DEF RetryInv, StartsOnce, StickInv
<1>5. QED
  BY <1>1, <1>2, <1>3, <1>4 DEF ControlInv

\* Every step keeps it.
LEMMA ControlStep ==
  ASSUME ControlInv, ServerStep
  PROVE  ControlInv'
<1>1. ControlTypeOK /\ OpenInv /\ AskedInv /\ AnswerInv /\ StartInv
  BY DEF ControlInv
<1>2. ControlTypeOK' /\ OpenInv' /\ AskedInv' /\ StartInv'
  BY <1>1, TypeStep, OpenStep, AskedStep, StartStep
<1>3. AnswerInv'
  BY <1>1, <1>2, AnswerStep
<1>4. ASSUME ~Overlap PROVE RetryInv' /\ StickInv'
  <2>1. RetryInv /\ StickInv
    BY <1>4 DEF ControlInv
  <2>2. RetryInv'
    BY <1>1, <1>4, <2>1, OneCarrier, OneStart DEF RetryInv
  <2>3. StickInv'
    BY <1>1, <1>2, <2>1, StickStep
  <2>4. QED
    BY <2>2, <2>3
<1>5. QED
  BY <1>2, <1>3, <1>4 DEF ControlInv

\* The answers that are about to be given are answers.
LEMMA AnswersFollow ==
  ASSUME ControlInv
  PROVE  AnswersAreTrue
<1> SUFFICES ASSUME NEW a \in GivenAnswers \ {None} PROVE IsTrue(a)
  BY DEF AnswersAreTrue
<1>1. a \in Answers
  BY DEF GivenAnswers, ControlInv, ControlTypeOK
<1>2. QED
  BY <1>1 DEF GivenAnswers, ControlInv, AnswerInv

\* A confirmation that was answered holds as long as its session is open.
LEMMA ConfirmFollows ==
  ASSUME ControlInv, ~Overlap
  PROVE  ConfirmSticks
<1> SUFFICES ASSUME NEW c \in Commands, commands[c] # None, commands[c].status = "recording",
                    open = commands[c].id
             PROVE  status[open] = "recording"
  BY DEF ConfirmSticks
<1>1. commands[c] \in Answers /\ asked[c] \in Requests
  BY DEF ControlInv, ControlTypeOK, AskedInv
<1>2. Sticks(asked[c], commands[c])
  BY <1>1 DEF ControlInv, StickInv
<1>3. QED
  BY <1>2 DEF Sticks

\* An answer is written only where there is none.
LEMMA AnswerStays ==
  ASSUME ControlInv, ~Overlap, ServerStep, NEW c \in Commands, commands[c] # None
  PROVE  commands'[c] = commands[c]
<1>1. ASSUME NEW h \in Handlers, Reply(h) PROVE commands'[c] = commands[c]
  <2>1. pc[h] = "reply" /\ commands' = [commands EXCEPT ![req[h].command] = res[h]]
    BY <1>1 DEF Reply
  <2>2. commands[req[h].command] = None
    BY <2>1 DEF ControlInv, RetryInv
  <2>3. QED
    BY <2>1, <2>2 DEF ControlInv, ControlTypeOK
<1>2. CASE UNCHANGED commands
  BY <1>2
<1>3. QED
  BY <1>1, <1>2 DEF ServerStep, Arrive, Receive, HandlerStep, CheckCache, Ensure, DoStart, MarkStarting,
     Confirm, PeekStop, DoStop, DoAbandon, Elsewhere, controlVars

-----------------------------------------------------------------------------
(* The control server with any clients.                                    *)

\* A step of the control server is a step of this kind.
LEMMA ControlNextIsStep == [ControlNext]_controlVars => ServerStep
BY DEF ControlNext, ServerStep, Terminal, Elsewhere

\* Types, the open session, the requests and answers of every commandId.
THEOREM ControlInvHolds == ControlSpec => []ControlInv
<1>1. ControlInit => ControlInv
  BY ControlStart
<1>2. ControlInv /\ [ControlNext]_controlVars => ControlInv'
  BY ControlStep, ControlNextIsStep
<1>3. QED
  BY <1>1, <1>2, PTL DEF ControlSpec

\* Whatever clients, terminals and retries do, no answer is false or becomes false.
THEOREM AnswersTrue == ControlSpec => []AnswersAreTrue
<1>1. ControlInv => AnswersAreTrue
  BY AnswersFollow
<1>2. QED
  BY <1>1, ControlInvHolds, PTL

\* A client that sends a commandId again only after its answer starts one session
\* with it.
THEOREM StartsOnceHolds ==
  ASSUME ~Overlap
  PROVE  ControlSpec => []StartsOnce
<1>1. ControlInv => StartsOnce
  BY DEF ControlInv, RetryInv
<1>2. QED
  BY <1>1, ControlInvHolds, PTL

\* Under the same premise a confirmed session stays confirmed.
THEOREM ConfirmHolds ==
  ASSUME ~Overlap
  PROVE  ControlSpec => []ConfirmSticks
<1>1. ControlInv => ConfirmSticks
  BY ConfirmFollows
<1>2. QED
  BY <1>1, ControlInvHolds, PTL

\* Under the same premise an answer never changes.
THEOREM AnswersStay ==
  ASSUME ~Overlap
  PROVE  ControlSpec => AnswerStable
<1>1. ControlInv /\ [ControlNext]_controlVars
        => [\A c \in Commands : commands[c] # None => commands'[c] = commands[c]]_controlVars
  BY ControlNextIsStep, AnswerStays
<1>2. QED
  BY <1>1, ControlInvHolds, PTL DEF ControlSpec, AnswerStable

=============================================================================
