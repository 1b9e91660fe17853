---------------------------- MODULE ControlServer ----------------------------
(***************************************************************************)
(* The phone control interface of `httpcapture serve`: one goroutine per   *)
(* authenticated POST (start, vpn-started, stop, abandon), the table of    *)
(* answered commandIds that makes retries idempotent, and other terminals  *)
(* that use the same session store.  The store is the one CaptureLifecycle *)
(* specifies and SessionStore implements: each store operation is atomic   *)
(* here, the steps between two operations are not.                         *)
(***************************************************************************)
EXTENDS Naturals, FiniteSets

CONSTANTS Handlers,  \* request goroutines
          Commands,  \* commandIds
          Sessions,  \* capture ids
          None,
          Overlap,   \* a client may send a commandId again before its answer
          Terminals  \* other terminals start and end sessions

ASSUME ControlAssumption ==
  /\ None \notin Handlers \cup Commands \cup Sessions
  /\ {Overlap, Terminals} \subseteq BOOLEAN

VARIABLES
  open,      \* the active session of the store
  outcome,   \* what became of every session
  status,    \* its status in active-session.json
  commands,  \* controlApplication.commands: answer of every commandId
  asked,     \* the request that carries each commandId
  pc,        \* step of every handler
  req,       \* its request
  res,       \* the answer it is about to give
  startedBy  \* history: the command that opened each session

storeVars == <<open, outcome, status>>
handlerVars == <<pc, req, res>>
controlVars == <<storeVars, commands, asked, handlerVars, startedBy>>

Store == INSTANCE CaptureLifecycle WITH mayLose <- FALSE

Over == {"completed", "abandoned"}

\* commandId, operation and, except for a start, the captureId in the path.
Requests == [command : Commands, kind : {"start"}, want : {None}]
              \cup [command : Commands, kind : {"confirm", "stop", "abandon"}, want : Sessions]

\* A 409 carries no session, a 200 the session and its status.
Conflict == [ok |-> FALSE, id |-> None, status |-> None]
OK(s, st) == [ok |-> TRUE, id |-> s, status |-> st]
Answers == {Conflict} \cup
           {OK(s, st) : s \in Sessions, st \in {"starting", "recording"} \cup Over}

\* None is no request, no answer and no status of a session.
ASSUME NothingAssumption ==
  None \notin Requests \cup Answers \cup {"starting", "recording"} \cup Over

Steps == {"idle", "cache", "ensure", "start", "markStarting", "confirm",
          "peek", "stop", "abandon", "reply"}

ControlTypeOK ==
  /\ Store!LifecycleTypeOK
  /\ status \in [Sessions -> {"starting", "recording"}]
  /\ commands \in [Commands -> Answers \cup {None}]
  /\ asked \in [Commands -> Requests \cup {None}]
  /\ pc \in [Handlers -> Steps]
  /\ req \in [Handlers -> Requests \cup {None}]
  /\ res \in [Handlers -> Answers \cup {None}]
  /\ startedBy \in [Sessions -> Commands \cup {None}]
  /\ \A h \in Handlers :
       /\ pc[h] = "idle" <=> req[h] = None
       /\ pc[h] \in {"markStarting", "reply"} <=> res[h] # None

ControlInit ==
  /\ Store!Init
  /\ status = [s \in Sessions |-> "recording"]
  /\ commands = [c \in Commands |-> None]
  /\ asked = [c \in Commands |-> None]
  /\ pc = [h \in Handlers |-> "idle"]
  /\ req = [h \in Handlers |-> None]
  /\ res = [h \in Handlers |-> None]
  /\ startedBy = [s \in Sessions |-> None]

-----------------------------------------------------------------------------
\* Handlers in the middle of command c.
Busy(c) == {h \in Handlers : pc[h] # "idle" /\ req[h].command = c}

GoTo(h, step) == pc' = [pc EXCEPT ![h] = step] /\ UNCHANGED <<req, res>>

\* The answer is settled; rememberAndReply follows as a step of its own.
Settle(h, answer) ==
  /\ pc' = [pc EXCEPT ![h] = "reply"]
  /\ res' = [res EXCEPT ![h] = answer]
  /\ UNCHANGED req

Finish(h) ==
  /\ pc' = [pc EXCEPT ![h] = "idle"]
  /\ req' = [req EXCEPT ![h] = None]
  /\ res' = [res EXCEPT ![h] = None]

\* The phone confirms a session after its VPN runs, so after the start was
\* answered, or after it attached to a session of another terminal.
MayConfirm(s) == startedBy[s] # None => commands[startedBy[s]] # None

\* A well-formed request arrives, the first or a repetition.
Receive(h, r) ==
  /\ pc[h] = "idle"
  /\ asked[r.command] \in {None, r}
  /\ ~Overlap => Busy(r.command) = {}
  /\ asked' = [asked EXCEPT ![r.command] = r]
  /\ req' = [req EXCEPT ![h] = r]
  /\ pc' = [pc EXCEPT ![h] = "cache"]
  /\ UNCHANGED <<storeVars, commands, res, startedBy>>

\* A client can only name a session that was opened.
Proper(r) ==
  /\ r.want \in Sessions => outcome[r.want] # "new"
  /\ r.kind = "confirm" => MayConfirm(r.want)

\* Any client.
Arrive(h) == \E r \in Requests : Proper(r) /\ Receive(h, r)

FirstStep(kind) ==
  CASE kind = "start" -> "ensure"
    [] kind = "confirm" -> "confirm"
    [] kind = "stop" -> "peek"
    [] kind = "abandon" -> "abandon"

\* Mutant: the table of answers is never consulted.
CheckCacheIgnored(h) ==
  /\ pc[h] = "cache"
  /\ GoTo(h, FirstStep(req[h].kind))
  /\ UNCHANGED <<storeVars, commands, asked, startedBy>>

\* replyCachedCommand: a known commandId gets its old answer.
CheckCache(h) ==
  /\ pc[h] = "cache"
  /\ IF commands[req[h].command] # None THEN Finish(h) ELSE GoTo(h, FirstStep(req[h].kind))
  /\ UNCHANGED <<storeVars, commands, asked, startedBy>>

\* ensureProxy succeeds, or the answer is its error.
Ensure(h) ==
  /\ pc[h] = "ensure"
  /\ GoTo(h, "start") \/ Settle(h, Conflict)
  /\ UNCHANGED <<storeVars, commands, asked, startedBy>>

\* sessions.start.  A Charles start whose last write, the metadata, fails is answered
\* with the error although its session is active by then.
DoStart(h) ==
  /\ pc[h] = "start"
  /\ \/ \E s \in Sessions :
          /\ Store!Open(s)
          /\ status' = [status EXCEPT ![s] = "recording"]
          /\ startedBy' = [startedBy EXCEPT ![s] = req[h].command]
          /\ \/ /\ pc' = [pc EXCEPT ![h] = "markStarting"]
                /\ res' = [res EXCEPT ![h] = OK(s, "starting")]
                /\ UNCHANGED req
             \/ Settle(h, Conflict)
     \/ Settle(h, Conflict) /\ UNCHANGED <<storeVars, startedBy>>
  /\ UNCHANGED <<commands, asked>>

\* markActiveSessionStatus(starting); its error is ignored.
MarkStarting(h) ==
  /\ pc[h] = "markStarting"
  /\ \/ open = res[h].id /\ status' = [status EXCEPT ![open] = "starting"]
     \/ UNCHANGED status
  /\ GoTo(h, "reply")
  /\ UNCHANGED <<open, outcome, commands, asked, startedBy>>

Confirm(h) ==
  /\ pc[h] = "confirm"
  /\ \/ /\ open = req[h].want
        /\ status' = [status EXCEPT ![open] = "recording"]
        /\ Settle(h, OK(open, "recording"))
     \/ Settle(h, Conflict) /\ UNCHANGED status
  /\ UNCHANGED <<open, outcome, commands, asked, startedBy>>

\* handleStop first reads the active session without the store's lock ...
PeekStop(h) ==
  /\ pc[h] = "peek"
  /\ IF open = req[h].want THEN GoTo(h, "stop") ELSE Settle(h, Conflict)
  /\ UNCHANGED <<storeVars, commands, asked, startedBy>>

\* Mutant: an error of the stop is not reported.
DoStopIgnoresError(h) ==
  /\ pc[h] = "stop"
  /\ \/ Store!Close(open, "completed")
     \/ UNCHANGED <<open, outcome>>
  /\ Settle(h, OK(req[h].want, "completed"))
  /\ UNCHANGED <<status, commands, asked, startedBy>>

\* ... and then stops whatever is active.  A stop that fails late may have completed
\* the metadata, but active-session.json still names the session: it is open until a
\* later stop clears that file.
DoStop(h) ==
  /\ pc[h] = "stop"
  /\ \/ /\ open # None
        /\ Store!Close(open, "completed")
        /\ Settle(h, OK(req[h].want, "completed"))
     \/ Settle(h, Conflict) /\ UNCHANGED <<open, outcome>>
  /\ UNCHANGED <<status, commands, asked, startedBy>>

DoAbandon(h) ==
  /\ pc[h] = "abandon"
  /\ \/ /\ open = req[h].want
        /\ Store!Close(open, "abandoned")
        /\ Settle(h, OK(req[h].want, "abandoned"))
     \/ Settle(h, Conflict) /\ UNCHANGED <<open, outcome>>
  /\ UNCHANGED <<status, commands, asked, startedBy>>

\* Mutant: the answer is sent but not remembered.
ReplyForgets(h) ==
  /\ pc[h] = "reply"
  /\ Finish(h)
  /\ UNCHANGED <<storeVars, commands, asked, startedBy>>

\* rememberAndReply; a concurrent answer to the same commandId is overwritten.
Reply(h) ==
  /\ pc[h] = "reply"
  /\ commands' = [commands EXCEPT ![req[h].command] = res[h]]
  /\ Finish(h)
  /\ UNCHANGED <<storeVars, asked, startedBy>>

\* Another terminal starts or ends a session.
Terminal ==
  /\ Terminals
  /\ \E s \in Sessions :
       \/ Store!Open(s) /\ status' = [status EXCEPT ![s] = "recording"]
       \/ Store!Close(s, "completed") /\ UNCHANGED status
  /\ UNCHANGED <<commands, asked, handlerVars, startedBy>>

HandlerStep(h) ==
  \/ CheckCache(h) \/ Ensure(h) \/ DoStart(h) \/ MarkStarting(h)
  \/ Confirm(h) \/ PeekStop(h) \/ DoStop(h) \/ DoAbandon(h) \/ Reply(h)

ControlNext == (\E h \in Handlers : Arrive(h) \/ HandlerStep(h)) \/ Terminal

ControlSpec == ControlInit /\ [][ControlNext]_controlVars

-----------------------------------------------------------------------------
\* Every answer that was given or is about to be given.
GivenAnswers ==
  {commands[c] : c \in Commands} \cup {res[h] : h \in {g \in Handlers : pc[g] = "reply"}}

IsTrue(a) ==
  /\ a.status = "completed" => outcome[a.id] \in Over
  /\ a.status = "abandoned" => outcome[a.id] = "abandoned"
  /\ a.status \in {"starting", "recording"} => outcome[a.id] # "new"

\* What the phone is told is so and stays so: a session reported completed or
\* abandoned is over, although the stop checked the session before it took the
\* lock; a session reported started exists (control_server.go:263-285).
AnswersAreTrue == \A a \in GivenAnswers \ {None} : IsTrue(a)

\* A commandId that is sent again after its answer starts nothing again
\* (control_server_test.go:121).
StartsOnce ==
  \A s, t \in Sessions : startedBy[s] # None /\ startedBy[s] = startedBy[t] => s = t

\* A session the phone has confirmed stays "recording" until it ends: no start
\* handler marks it "starting" again, although start and mark are two separate
\* operations of the store (control_server.go:219-224).
ConfirmSticks ==
  \A c \in Commands :
    commands[c] # None /\ commands[c].status = "recording" /\ open = commands[c].id
      => status[open] = "recording"

\* The answer to a commandId never changes.
AnswerStable ==
  [][\A c \in Commands : commands[c] # None => commands'[c] = commands[c]]_controlVars

-----------------------------------------------------------------------------
(* The inductive invariant behind them.                                    *)

\* The active session is the one that is open; none is lost.
OpenInv ==
  \A s \in Sessions :
    /\ outcome[s] = "open" <=> open = s
    /\ outcome[s] \in {"new", "open"} \cup Over
    /\ startedBy[s] # None => outcome[s] # "new"

StepKind ==
  [ensure |-> "start", start |-> "start", markStarting |-> "start", confirm |-> "confirm",
   peek |-> "stop", stop |-> "stop", abandon |-> "abandon"]

\* A handler is where its request leads, and carries what its commandId asked for.
AskedInv ==
  /\ \A c \in Commands :
       /\ \A r \in {asked[c]} \ {None} : r.command = c /\ Proper(r)
       /\ commands[c] # None => asked[c] # None
  /\ \A h \in Handlers :
       /\ req[h] # None => asked[req[h].command] = req[h]
       /\ pc[h] \in DOMAIN StepKind => req[h].kind = StepKind[pc[h]]

\* Every answer is true as soon as it is settled.
AnswerInv ==
  /\ \A c \in Commands : \A a \in {commands[c]} \ {None} : IsTrue(a)
  /\ \A h \in Handlers : \A a \in {res[h]} \ {None} : IsTrue(a)

\* What a start handler is going to answer is the session it has opened.
StartInv ==
  \A h \in Handlers :
    pc[h] \in {"markStarting", "reply"} /\ req[h].kind = "start" /\ (pc[h] = "reply" => res[h].ok) =>
      /\ res[h].id \in Sessions /\ startedBy[res[h].id] = req[h].command
      /\ res[h].status = "starting"

\* With one request of a commandId at a time, a command is carried out at most once.
RetryInv ==
  /\ \A g, h \in Handlers :
       pc[g] # "idle" /\ pc[h] # "idle" /\ req[g].command = req[h].command => g = h
  /\ \A h \in Handlers : pc[h] \notin {"idle", "cache"} => commands[req[h].command] = None
  /\ \A s \in Sessions : startedBy[s] # None =>
       \/ commands[startedBy[s]] # None
       \/ \E h \in Handlers : pc[h] \in {"markStarting", "reply"} /\ req[h].command = startedBy[s]
  /\ StartsOnce

\* The answer a to request r still says what is so.
Sticks(r, a) ==
  a.status = "recording" =>
    r.kind = "confirm" /\ a.id = r.want /\ (open = a.id => status[open] = "recording")

\* A session that was confirmed has had the answer to its start, so that the start
\* handler is past its mark.
StickInv ==
  /\ \A c \in Commands : \A r \in {asked[c]}, a \in {commands[c]} \ {None} : Sticks(r, a)
  /\ \A h \in Handlers : \A r \in {req[h]}, a \in {res[h]} : pc[h] = "reply" => Sticks(r, a)

ControlInv ==
  /\ ControlTypeOK /\ OpenInv /\ AskedInv /\ AnswerInv /\ StartInv
  /\ ~Overlap => RetryInv /\ StickInv
=============================================================================
