---------------------------- MODULE TransactionLog ----------------------------
(***************************************************************************)
(* From the live file to the archives: the exchanges one Proxify instance  *)
(* forwards, the file it appends one line per exchange to, and the         *)
(* sessions whose stop copies the lines of a window of that file.  The     *)
(* window is two offsets and two times, read at different moments while    *)
(* exchanges go on.  The operations on sessions hold the session lock, so  *)
(* they come one after the other.                                          *)
(***************************************************************************)
EXTENDS Integers, Sequences, SequencesExt

CONSTANTS Exchanges,
          NoExchange,
          MaxSessions, \* sessions are numbered in the order of their start
          MaxMillis    \* the clock's last millisecond

ASSUME LogAssumption ==
  /\ NoExchange \notin Exchanges
  /\ {MaxSessions, MaxMillis} \subseteq Nat

VARIABLES
  clock,    \* in milliseconds
  exchange, \* what is known of each exchange
  half,     \* the exchange whose line is half written
  log,      \* the complete lines of the live file
  engineUp, \* the Proxify instance runs
  latest,   \* the session that was started last
  window,   \* of each session: offset and time of its start
  current,  \* the active session, or 0
  step,     \* of the session operation under way
  stopMillis, endLines, \* what a stop has read so far
  archive,  \* lines in traffic.jsonl of each session
  final,    \* sessions that are completed
  due       \* history: what each archive owes

trafficVars == <<exchange, half, log, engineUp>>
recordVars == <<latest, window, current, step, stopMillis, endLines, archive, final, due>>
logVars == <<clock, trafficVars, recordVars>>

RecordedSessions == 1..MaxSessions

LogTypeOK ==
  /\ clock \in 0..MaxMillis
  /\ exchange \in [Exchanges ->
       [stage : {"new", "forwarded", "complete", "logged"},
        began : 0..MaxMillis, phone : BOOLEAN, during : 0..MaxSessions]]
  /\ half \in Exchanges \cup {NoExchange}
  /\ log \in Seq(Exchanges) /\ engineUp \in BOOLEAN
  /\ window \in [RecordedSessions -> [from : 0..Len(log) + 1, start : 0..MaxMillis]]
  /\ latest \in 0..MaxSessions /\ current \in {0, latest}
  /\ step \in {"idle", "opening", "activating", "stopping", "extracting", "finishing"}
  /\ stopMillis \in 0..MaxMillis /\ endLines \in 0..Len(log) + 1
  /\ archive \in [RecordedSessions -> SUBSET Exchanges]
  /\ due \in [RecordedSessions -> SUBSET Exchanges]
  /\ final \in SUBSET RecordedSessions

LogInit ==
  /\ clock = 0
  /\ exchange = [e \in Exchanges |->
       [stage |-> "new", began |-> 0, phone |-> TRUE, during |-> 0]]
  /\ half = NoExchange /\ log = <<>> /\ engineUp = TRUE
  /\ window = [s \in RecordedSessions |-> [from |-> 0, start |-> 0]]
  /\ latest = 0 /\ current = 0 /\ step = "idle" /\ stopMillis = 0 /\ endLines = 0
  /\ archive = [s \in RecordedSessions |-> {}]
  /\ due = [s \in RecordedSessions |-> {}]
  /\ final = {}

Tick ==
  /\ clock < MaxMillis /\ clock' = clock + 1
  /\ UNCHANGED <<trafficVars, recordVars>>

-----------------------------------------------------------------------------
(* Exchanges.                                                              *)

\* OnRequestCallback: the time of an exchange is that of its request.
Forward(e) ==
  /\ engineUp /\ exchange[e].stage = "new"
  /\ \E phone \in BOOLEAN :
       exchange' = [exchange EXCEPT ![e] =
         [stage |-> "forwarded", began |-> clock, phone |-> phone, during |-> current]]
  /\ UNCHANGED <<clock, half, log, engineUp, recordVars>>

\* The response is over, as in BodyCapture.
CompleteExchange(e) ==
  /\ engineUp /\ exchange[e].stage = "forwarded"
  /\ exchange' = [exchange EXCEPT ![e].stage = "complete"]
  /\ UNCHANGED <<clock, half, log, engineUp, recordVars>>

\* synchronizedJSONWriter.write: one line at a time.
BeginLine(e) ==
  /\ engineUp /\ exchange[e].stage = "complete" /\ half = NoExchange
  /\ half' = e
  /\ UNCHANGED <<clock, exchange, log, engineUp, recordVars>>

EndLine ==
  /\ engineUp /\ half # NoExchange
  /\ log' = Append(log, half)
  /\ exchange' = [exchange EXCEPT ![half].stage = "logged"]
  /\ half' = NoExchange
  /\ UNCHANGED <<clock, engineUp, recordVars>>

\* Half a line stays.
EngineStops ==
  /\ engineUp /\ engineUp' = FALSE
  /\ UNCHANGED <<clock, exchange, half, log, recordVars>>

-----------------------------------------------------------------------------
(* Sessions.                                                               *)

\* The lines that begin before the end of the file, and how many they are.
Lines == IF half = NoExchange THEN log ELSE Append(log, half)
Begun == Len(Lines)

\* Mutant: a session reads the live file from its beginning.
StatAtStartZero ==
  /\ engineUp /\ current = 0 /\ step = "idle" /\ latest < MaxSessions
  /\ latest' = latest + 1
  /\ step' = "opening"
  /\ UNCHANGED <<clock, trafficVars, window, current, stopMillis, endLines, archive, final, due>>

\* proxifyRecordStart: the size of the live file, the time, the session file.
StatAtStart ==
  /\ engineUp /\ current = 0 /\ step = "idle" /\ latest < MaxSessions
  /\ latest' = latest + 1
  /\ window' = [window EXCEPT ![latest + 1].from = Begun]
  /\ step' = "opening"
  /\ UNCHANGED <<clock, trafficVars, current, stopMillis, endLines, archive, final, due>>

TimeAtStart ==
  /\ step = "opening" /\ step' = "activating"
  /\ window' = [window EXCEPT ![latest].start = clock]
  /\ UNCHANGED <<clock, trafficVars, latest, current, stopMillis, endLines, archive, final, due>>

Activate ==
  /\ step = "activating" /\ step' = "idle"
  /\ current' = latest
  /\ UNCHANGED <<clock, trafficVars, latest, window, stopMillis, endLines, archive, final, due>>

\* clientAddressMatches: sessions of the phone name its address.
Matches(e) == exchange[e].phone

\* proxifyRecordStop: the time, the size of the live file, the copy.
BeginStopping ==
  /\ step = "idle" /\ current # 0
  /\ step' = "stopping" /\ stopMillis' = clock
  /\ due' = [due EXCEPT ![current] =
       {e \in ToSet(log) : exchange[e].during = current /\ Matches(e)}]
  /\ UNCHANGED <<clock, trafficVars, latest, window, current, endLines, archive, final>>

\* A line that lacks only its newline is read as a line.
StatAtStop ==
  /\ step = "stopping" /\ step' = "extracting"
  /\ endLines' \in {Len(log), Begun}
  /\ UNCHANGED <<clock, trafficVars, latest, window, current, stopMillis, archive, final, due>>

\* Mutant: the last millisecond is left out.
InWindowOpen(e) == exchange[e].began >= window[current].start /\ exchange[e].began < stopMillis

InWindow(e) == exchange[e].began >= window[current].start /\ exchange[e].began <= stopMillis

\* extractCapturedTransactions: a temporary file that is renamed when it is whole.
Extract ==
  /\ step = "extracting"
  /\ \/ /\ archive' = [archive EXCEPT ![current] =
             {e \in ToSet(SubSeq(Lines, window[current].from + 1, endLines)) :
                InWindow(e) /\ Matches(e)}]
        /\ step' = "finishing"
        /\ UNCHANGED <<stopMillis, endLines>>
     \/ /\ step' = "idle" /\ UNCHANGED archive
        /\ stopMillis' = 0 /\ endLines' = 0
  /\ UNCHANGED <<clock, trafficVars, latest, window, current, final, due>>

\* The HAR, the metadata and the session file; a failure leaves the session active.
FinishStop ==
  /\ step = "finishing" /\ step' = "idle"
  /\ \/ current' = 0 /\ final' = final \cup {current}
     \/ UNCHANGED <<current, final>>
  /\ stopMillis' = 0 /\ endLines' = 0
  /\ UNCHANGED <<clock, trafficVars, latest, window, archive, due>>

\* abandon archives nothing.
AbandonSession ==
  /\ step = "idle" /\ current # 0
  /\ current' = 0
  /\ UNCHANGED <<clock, trafficVars, latest, window, step, stopMillis, endLines, archive, final, due>>

-----------------------------------------------------------------------------
LogNext ==
  \/ Tick \/ EndLine \/ EngineStops
  \/ \E e \in Exchanges :
       Forward(e) \/ CompleteExchange(e) \/ BeginLine(e)
  \/ StatAtStart \/ TimeAtStart \/ Activate
  \/ BeginStopping \/ StatAtStop \/ Extract \/ FinishStop \/ AbandonSession

LogSpec == LogInit /\ [][LogNext]_logVars

-----------------------------------------------------------------------------
\* A completed session has every exchange that was forwarded and logged while it
\* was active, also when its window begins or ends in the middle of a line, in the
\* millisecond of another session, or its first stop failed half way.
ArchiveIsComplete == \A s \in final : due[s] \subseteq archive[s]

\* No exchange is archived twice, none without having been forwarded after the start
\* of its session, and none of another device when the session names the phone.
ArchiveIsOwn ==
  \A s \in RecordedSessions : \A e \in archive[s] :
    /\ exchange[e].began >= window[s].start
    /\ Matches(e)
    /\ \A t \in RecordedSessions \ {s} : e \notin archive[t]

-----------------------------------------------------------------------------
\* A session is opened when active-session.json names it; one that is neither active
\* nor completed after that was abandoned.
RecordOutcome ==
  [s \in RecordedSessions |->
     IF s > latest \/ (s = latest /\ step \in {"opening", "activating"}) THEN "new"
     ELSE IF s = current THEN "open"
     ELSE IF s \in final THEN "completed"
     ELSE "abandoned"]

RecordLifecycle == INSTANCE CaptureLifecycle
  WITH Sessions <- RecordedSessions, None <- 0,
       open <- current, outcome <- RecordOutcome, mayLose <- FALSE

\* The sessions whose windows are read here live as those of the store do: one at a
\* time, each opened once and ended once, and none is lost, since no file of the
\* store is torn here (record_proxify.go:66-123, between the store's lock and unlock).
FollowsLifecycle == RecordLifecycle!Spec

-----------------------------------------------------------------------------
(* The inductive invariant behind the two.                                 *)

\* An exchange has one line, which begins once the exchange is over.
LinesInv ==
  /\ \A i \in 1..Len(log) : exchange[log[i]].stage = "logged"
  /\ \A i, j \in 1..Len(log) : log[i] = log[j] => i = j
  /\ half # NoExchange => exchange[half].stage = "complete"

\* The operation on sessions that is under way.
StepInv ==
  /\ step \in {"opening", "activating"} =>
       /\ current = 0 /\ latest # 0 /\ latest \notin final
       /\ archive[latest] = {}
  /\ step \in {"stopping", "extracting", "finishing"} => current # 0
  /\ step = "extracting" => endLines <= Begun
  /\ current \notin final /\ \A s \in final : s <= latest

\* The window of a session opens before any exchange of the session.
WindowInv ==
  /\ \A s \in RecordedSessions : window[s].from <= Begun /\ window[s].start <= clock
  /\ \A e \in Exchanges :
       /\ exchange[e].began <= clock
       /\ exchange[e].during <= latest
       /\ exchange[e].during # 0 =>
            /\ exchange[e].during = latest => step \notin {"opening", "activating"}
            /\ exchange[e].began >= window[exchange[e].during].start
            /\ \A i \in 1..Begun : Lines[i] = e => i > window[exchange[e].during].from

\* What is archived lies behind the start of its session and before the start of
\* every later one.
ArchiveInv ==
  \A s \in RecordedSessions : \A e \in archive[s] :
    /\ s <= latest
    /\ exchange[e].began >= window[s].start /\ Matches(e)
    /\ \E i \in 1..Begun :
         /\ Lines[i] = e /\ window[s].from < i
         /\ \A t \in RecordedSessions : s < t /\ t <= latest => i <= window[t].from

\* A stop that has read the time and the size has what it owes between them.
DueInv ==
  /\ step \in {"stopping", "extracting"} => \A e \in due[current] :
       /\ exchange[e].during = current /\ Matches(e) /\ exchange[e].began <= stopMillis
       /\ \E i \in 1..Len(log) : log[i] = e /\ (step = "extracting" => i <= endLines)
  /\ step = "finishing" => due[current] \subseteq archive[current]
  /\ ArchiveIsComplete

LogInv == LogTypeOK /\ LinesInv /\ StepInv /\ WindowInv /\ ArchiveInv /\ DueInv
=============================================================================
