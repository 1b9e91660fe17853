------------------------------- MODULE LiveView -------------------------------
(***************************************************************************)
(* The live viewer from the index to the screen: the rows of the SQLite    *)
(* index, as rescans leave them; the event stream of web_live.go, which    *)
(* compares the index with what it last told; and the page (webui/app.js), *)
(* which refreshes itself 120 ms after an event, keeps the boxes the user  *)
(* checks, and exports them.  Stream, refresh, clicks and export only meet *)
(* through these states: none of them waits for another.                   *)
(*                                                                         *)
(* A request is a number that no other request ever has.                   *)
(***************************************************************************)
EXTENDS Integers, Sequences, FiniteSets, FiniteSetsExt, SequencesExt

CONSTANTS
  Sessions, None,
  Batch,         \* requests in one event
  MaxChanges,    \* rescans that change the index
  MaxSteps       \* those, clicks, interruptions of the stream and failed requests of the page

ASSUME ViewAssumption ==
  /\ IsFiniteSet(Sessions) /\ Batch \in Nat \ {0}
  /\ None \notin Sessions \cup Seq(Nat) \cup (Nat \X Seq(Nat))
  /\ MaxChanges \in Nat /\ MaxSteps \in Nat

VARIABLES
  file,      \* requests in the indexed file of each session
  ids,       \* ids of their rows, None when the session is not indexed
  epoch,     \* table traffic_resets, 0 without a row
  lastId,    \* sqlite_sequence: the ids are AUTOINCREMENT
  reborn,    \* a session was removed and indexed again
  server,    \* handleLiveEvents
  queue,     \* events on their way: the sessions they reset, {} for the others
  list,      \* state.sessions
  selected,  \* state.selected
  table,     \* rows on the screen, and the last change seen by rows that were there
  late,      \* the table is of another session or older than one before it
  checked,   \* state.selectedRequestIds, with the request of the checked line
  paused, pending, busy,  \* livePaused, liveRefreshPending, liveRefreshBusy
  timers,    \* running 120 ms timers
  refresh,   \* what the running refresh waits for
  listing,   \* sessions in the answer it waits for
  loads,     \* running calls of loadRequests
  failed,    \* which of the two requests of a page failed, with no refresh since whose did not
  export,    \* the last export of the checked requests
  changes, clicks, toggles, reconnects, failures

indexVars == <<file, ids, epoch, lastId, reborn, changes>>
streamVars == <<server, queue, reconnects>>
refreshVars == <<pending, busy, timers, refresh, listing>>
userVars == <<selected, checked, paused, export, clicks, toggles>>
screenVars == <<list, table, late, loads, failed, failures>>
vars == <<indexVars, streamVars, refreshVars, userVars, screenVars>>

Rows(s) ==
  IF ids[s] = None THEN {}
  ELSE {[session |-> s, id |-> ids[s][i], request |-> file[s][i]] : i \in DOMAIN ids[s]}
AllRows == UNION {Rows(s) : s \in Sessions}
MaxId == Max({r.id : r \in AllRows} \cup {0})

\* liveRevision: nothing of a row but that it is there.
Revision == [s \in Sessions |-> IF ids[s] = None THEN None ELSE <<epoch[s], file[s]>>]

\* The stream has told the page where it stands.
Connected == server.stage \notin {"closed", "opening", "greeting"}

Closed == [stage |-> "closed", revision |-> None, lastId |-> 0, latest |-> 0,
           epochs |-> None, told |-> {}]
Opened == [stage |-> "idle", revision |-> Revision, lastId |-> MaxId, latest |-> 0,
           epochs |-> epoch, told |-> AllRows]

RowRecords == [session : Sessions, id : Nat, request : Nat]
LoadRecords ==
  [by : Nat, session : Sessions, answered : BOOLEAN, rows : SUBSET RowRecords, at : Nat]

\* No row has an id that was not given out.
IndexTypeOK ==
  /\ file \in [Sessions -> Seq(Nat)] /\ ids \in [Sessions -> {None} \cup Seq(Nat)]
  /\ epoch \in [Sessions -> Nat] /\ lastId \in Nat
  /\ \A s \in Sessions : ids[s] # None => Len(ids[s]) = Len(file[s]) /\ epoch[s] > 0
  /\ \A r \in AllRows : r.id \in 1..lastId
  /\ reborn \in BOOLEAN /\ changes \in 0..MaxChanges

StreamTypeOK ==
  /\ DOMAIN server = DOMAIN Closed /\ server.lastId \in 0..lastId
  /\ server.stage \in {"closed", "opening", "greeting", "idle", "resets", "latest", "batch"}
  /\ reconnects \in 0..MaxSteps

\* A running refresh has one request at its server, and only then is busy.
PageTypeOK ==
  /\ list \subseteq Sessions /\ listing \subseteq Sessions /\ selected \in Sessions \cup {None}
  /\ table \in [rows : SUBSET RowRecords, at : Nat]
  /\ checked \subseteq [session : Sessions, id : Nat, request : Nat, live : BOOLEAN]
  /\ loads \subseteq LoadRecords /\ IsFiniteSet(loads) /\ IsFiniteSet(checked)
  /\ refresh \in {"none", "sessions", "listed", "requests"}
  /\ failed \subseteq {"sessions", "requests"}
  /\ busy \in BOOLEAN /\ (busy <=> refresh # "none")
  /\ Cardinality({l \in loads : l.by = 0}) = IF refresh = "requests" THEN 1 ELSE 0
  /\ timers \in Nat /\ paused \in BOOLEAN /\ pending \in BOOLEAN /\ late \in BOOLEAN
  /\ clicks \in 0..MaxSteps /\ toggles \in 0..MaxSteps /\ failures \in 0..MaxSteps

TypeOK == IndexTypeOK /\ StreamTypeOK /\ PageTypeOK

\* One request in each session; the stream is open, the page shows a session.
Init ==
  /\ \E number \in [Sessions -> 1..Cardinality(Sessions)] :
       /\ IsInjective(number)
       /\ file = [s \in Sessions |-> <<number[s]>>] /\ ids = file
  /\ epoch = [s \in Sessions |-> 1] /\ lastId = Cardinality(Sessions)
  /\ reborn = FALSE /\ changes = 0
  /\ server = Opened /\ queue = <<>> /\ reconnects = 0
  /\ list = Sessions /\ selected \in Sessions
  /\ table = [rows |-> Rows(selected), at |-> 0] /\ late = FALSE /\ loads = {}
  /\ failed = {} /\ failures = 0
  /\ checked = {} /\ export = None /\ clicks = 0
  /\ paused = FALSE /\ toggles = 0
  /\ pending = FALSE /\ busy = FALSE /\ timers = 0 /\ refresh = "none" /\ listing = {}

-----------------------------------------------------------------------------
(* What a rescan leaves, whoever asked for it (see WebIndex).               *)

Act == changes + clicks + toggles + reconnects + failures < MaxSteps

Change ==
  /\ Act /\ changes < MaxChanges
  /\ changes' = changes + 1
  /\ UNCHANGED <<streamVars, refreshVars, userVars, screenVars>>

Fresh == Cardinality(Sessions) + changes + 1

\* Mutant: an id is given out again when its row is gone.
InsertReusing(s, kept, f) ==
  LET others == UNION {Rows(t) : t \in Sessions \ {s}}
      last == Max({r.id : r \in others} \cup Range(kept) \cup {0})
      new == Len(f) - Len(kept)
  IN  /\ file' = [file EXCEPT ![s] = f]
      /\ ids' = [ids EXCEPT ![s] = kept \o [i \in 1..new |-> last + i]]
      /\ lastId' = Max({lastId, last + new})

\* The file f follows the rows kept with new ones.
Insert(s, kept, f) ==
  LET new == Len(f) - Len(kept)
  IN  /\ file' = [file EXCEPT ![s] = f]
      /\ ids' = [ids EXCEPT ![s] = kept \o [i \in 1..new |-> lastId + i]]
      /\ lastId' = lastId + new

Grow(s) ==
  /\ Change
  /\ ids[s] # None
  /\ Insert(s, ids[s], Append(file[s], Fresh))
  /\ UNCHANGED <<epoch, reborn>>

\* The live file gives way to its archive, or the file was replaced or cut.
Rebuild(s) ==
  /\ Change
  /\ ids[s] # None
  /\ \E f \in {file[s], <<Fresh>>} : Insert(s, <<>>, f)
  /\ epoch' = [epoch EXCEPT ![s] = @ + 1]
  /\ UNCHANGED reborn

\* The directory went to .trash, or meta.json was being written: removeMissingSessions
\* and moveSessionToTrash, with the rows that depend on the session's.
Drop(s) ==
  /\ Change
  /\ ids[s] # None
  /\ ids' = [ids EXCEPT ![s] = None]
  /\ epoch' = [epoch EXCEPT ![s] = 0]
  /\ UNCHANGED <<file, lastId, reborn>>

IndexAgain(s) ==
  /\ Change
  /\ ids[s] = None
  /\ \E f \in {file[s], <<Fresh>>} : Insert(s, <<>>, f)
  /\ epoch' = [epoch EXCEPT ![s] = 1]
  /\ reborn' = TRUE

-----------------------------------------------------------------------------
(* handleLiveEvents: every tick rescans, then reads the index four times.   *)

\* What a step of the stream leaves alone.
StreamStep == UNCHANGED <<indexVars, refreshVars, userVars, screenVars, reconnects>>

Send(event) == queue' = Append(queue, event)

Connect ==
  /\ server.stage = "closed"
  /\ server' = [Closed EXCEPT !.stage = "opening", !.revision = Revision]
  /\ UNCHANGED queue /\ StreamStep

Open ==
  /\ server.stage = "opening"
  /\ server' = [server EXCEPT !.stage = "greeting", !.lastId = MaxId, !.told = AllRows]
  /\ UNCHANGED queue /\ StreamStep

Greet ==
  /\ server.stage = "greeting"
  /\ server' = [server EXCEPT !.stage = "idle", !.epochs = epoch]
  /\ Send({}) /\ StreamStep

\* A tick that finds nothing new only keeps the connection alive.
Tick ==
  /\ server.stage = "idle" /\ server.revision # Revision
  /\ server' = [server EXCEPT !.stage = "resets", !.revision = Revision]
  /\ UNCHANGED queue /\ StreamStep

\* Mutant: the epochs are compared after they were replaced.
ResetsForgotten == {s \in Sessions : epoch[s] # 0 /\ epoch[s] # epoch[s]}

\* The sessions whose epoch is not the one last seen, of those that have one.
Resets == {s \in Sessions : epoch[s] # 0 /\ epoch[s] # server.epochs[s]}

SendResets ==
  /\ server.stage = "resets"
  /\ server' = [server EXCEPT !.stage = "latest", !.epochs = epoch]
  /\ IF Resets = {} THEN UNCHANGED queue ELSE Send(Resets)
  /\ StreamStep

\* Rows went and none came: only a refresh; else the new rows first.
ReadLatest ==
  /\ server.stage = "latest"
  /\ IF MaxId < server.lastId
     THEN server' = [server EXCEPT !.stage = "idle", !.lastId = MaxId] /\ Send({})
     ELSE server' = [server EXCEPT !.stage = "batch", !.latest = MaxId] /\ UNCHANGED queue
  /\ StreamStep

\* liveRequestsAfter.
Items ==
  LET after == {r \in AllRows : r.id > server.lastId}
  IN  {r \in after : Cardinality({q \in after : q.id < r.id}) < Batch}

\* Mutant: one full event stands for all.
SendBatchSkipping ==
  /\ server.stage = "batch"
  /\ IF server.lastId < server.latest /\ Items # {}
     THEN server' = [server EXCEPT !.lastId = server.latest, !.told = @ \cup Items]
     ELSE server' = [server EXCEPT !.stage = "idle", !.latest = 0]
  /\ Send({}) /\ StreamStep

\* Up to the latest id in events of limited size, then "index-changed".
SendBatch ==
  /\ server.stage = "batch"
  /\ IF server.lastId < server.latest /\ Items # {}
     THEN server' = [server EXCEPT !.lastId = Max({r.id : r \in Items}), !.told = @ \cup Items]
     ELSE server' = [server EXCEPT !.stage = "idle", !.latest = 0]
  /\ Send({}) /\ StreamStep

\* The connection is lost with what was on its way; EventSource connects again.
Disconnect ==
  /\ server.stage # "closed" /\ Act
  /\ reconnects' = reconnects + 1
  /\ server' = Closed /\ queue' = <<>>
  /\ UNCHANGED <<indexVars, refreshVars, userVars, screenVars>>

Stream ==
  \/ Connect \/ Open \/ Greet \/ Tick \/ SendResets
  \/ ReadLatest \/ SendBatch \/ Disconnect

-----------------------------------------------------------------------------
(* The page: its refreshes.                                                 *)

\* scheduleLiveRefresh, with the flags as they are at the time of the call.
Schedule(isPaused, isPending) ==
  IF isPaused \/ isPending
  THEN pending' = isPending /\ UNCHANGED timers
  ELSE pending' = TRUE /\ timers' = timers + 1

\* Events are handled on a paused page too; a reset drops the boxes first.
Event ==
  /\ queue # <<>>
  /\ queue' = Tail(queue)
  /\ checked' = {c \in checked : c.session \notin Head(queue)}
  /\ Schedule(paused, pending)
  /\ UNCHANGED <<indexVars, server, reconnects, busy, refresh, listing, screenVars,
                 selected, paused, export, clicks, toggles>>

\* Mutants: a refresh that finds another one running gives up; a refresh asks for
\* nothing.
RefreshGivesUp ==
  IF paused \/ busy THEN pending' = FALSE /\ UNCHANGED <<busy, refresh>>
  ELSE pending' = FALSE /\ busy' = TRUE /\ refresh' = "sessions"
RefreshWithoutLoad ==
  IF paused THEN pending' = FALSE /\ UNCHANGED <<busy, refresh>>
  ELSE pending' = FALSE /\ busy' = TRUE /\ UNCHANGED refresh

\* refreshLiveView, when its timer has cleared the pending flag.
Refresh ==
  IF paused THEN pending' = FALSE /\ UNCHANGED <<busy, refresh>>
  ELSE IF busy THEN pending' = TRUE /\ UNCHANGED <<busy, refresh>>
  ELSE pending' = FALSE /\ busy' = TRUE /\ refresh' = "sessions"

Timer ==
  /\ timers > 0
  /\ timers' = timers - 1
  /\ Refresh
  /\ UNCHANGED <<indexVars, streamVars, userVars, screenVars, listing>>

\* The end of a refresh, its finally block.
EndRefresh ==
  /\ refresh' = "none" /\ busy' = FALSE
  /\ IF pending /\ ~paused THEN Schedule(FALSE, FALSE) ELSE UNCHANGED <<pending, timers>>

\* listSessions reads the index for loadSessions.
ListSessions ==
  /\ refresh = "sessions"
  /\ refresh' = "listed"
  /\ listing' = {s \in Sessions : ids[s] # None}
  /\ UNCHANGED <<indexVars, streamVars, userVars, screenVars, pending, busy, timers>>

Load(by, s) == [by |-> by, session |-> s, answered |-> FALSE, rows |-> {}, at |-> 0]

\* A selected session that is gone is deselected; else its requests are next.
SessionsLoaded ==
  /\ refresh = "listed"
  /\ list' = listing /\ listing' = {} /\ failed' = failed \ {"sessions"}
  /\ selected' = IF selected \in listing THEN selected ELSE None
  /\ IF selected \in listing
     THEN /\ refresh' = "requests"
          /\ loads' = loads \cup {Load(0, selected)}
          /\ UNCHANGED <<pending, busy, timers>>
     ELSE EndRefresh /\ UNCHANGED loads
  /\ UNCHANGED <<indexVars, streamVars, checked, paused, export, clicks, toggles, table, late,
                 failures>>

Fail(request) ==
  /\ Act
  /\ failures' = failures + 1 /\ failed' = failed \cup {request}

\* /api/sessions failed, at the server or on its way: the old list stays, and what is
\* selected, and nothing asks again.
SessionsFail ==
  /\ refresh = "sessions"
  /\ Fail("sessions")
  /\ IF selected # None
     THEN /\ refresh' = "requests"
          /\ loads' = loads \cup {Load(0, selected)}
          /\ UNCHANGED <<pending, busy, timers>>
     ELSE EndRefresh /\ UNCHANGED loads
  /\ UNCHANGED <<indexVars, streamVars, userVars, list, table, late, listing>>

\* listRequests reads the index for a loadRequests.
ListRequests ==
  \E l \in loads :
    /\ ~l.answered
    /\ loads' = (loads \ {l}) \cup
                {[l EXCEPT !.answered = TRUE, !.rows = Rows(l.session), !.at = changes]}
    /\ UNCHANGED <<indexVars, streamVars, refreshVars, userVars, list, table, late, failed,
                   failures>>

\* The request of a loadRequests failed: the old table stays.
RequestsFail ==
  \E l \in loads :
    /\ ~l.answered
    /\ loads' = loads \ {l}
    /\ Fail("requests")
    /\ IF l.by = 0 THEN EndRefresh ELSE UNCHANGED <<pending, busy, timers, refresh>>
    /\ UNCHANGED <<indexVars, streamVars, userVars, list, table, late, listing>>

\* The answer is shown, whatever is selected by now; without a selection
\* renderRequests throws when it has emptied the table.
RequestsLoaded ==
  \E l \in loads :
    /\ l.answered
    /\ loads' = loads \ {l}
    /\ table' = [rows |-> IF selected = None THEN {} ELSE l.rows,
                  at |-> Max({l.at, table.at})]
    /\ late' = (l.session # selected \/ l.at < table.at)
    /\ IF l.by = 0 THEN EndRefresh /\ failed' = failed \ {"requests"}
       ELSE UNCHANGED <<pending, busy, timers, refresh, failed>>
    /\ UNCHANGED <<indexVars, streamVars, userVars, list, listing, failures>>

-----------------------------------------------------------------------------
(* The page: its user.                                                      *)

\* The button; to continue schedules a refresh.
Toggle ==
  /\ Act
  /\ toggles' = toggles + 1
  /\ paused' = ~paused
  /\ IF paused THEN Schedule(FALSE, pending) ELSE UNCHANGED <<pending, timers>>
  /\ UNCHANGED <<indexVars, streamVars, busy, refresh, listing, screenVars, selected, checked,
                 export, clicks>>

Click ==
  /\ Act
  /\ clicks' = clicks + 1
  /\ UNCHANGED <<indexVars, streamVars, refreshVars, paused, toggles, list, table, late, failed,
                 failures>>

\* selectSession, also of the session that is selected.
SelectSession ==
  /\ Click
  /\ \E s \in list : selected' = s /\ loads' = loads \cup {Load(clicks', s)}
  /\ UNCHANGED <<checked, export>>

\* The box of a line: the session is the one selected now, the id that of the line.  A
\* line that was not built again since the boxes changed may add what is there, or take
\* away what is not.
CheckRow ==
  /\ Click
  /\ selected # None
  /\ \E r \in table.rows :
       LET same == {c \in checked : c.session = selected /\ c.id = r.id}
           box == [session |-> selected, id |-> r.id, request |-> r.request,
                   live |-> r \in Rows(selected)]
       IN  checked' \in {checked \ same, IF same = {} THEN checked \cup {box} ELSE checked}
  /\ UNCHANGED <<selected, loads, export>>

\* selectWebExportSessions: a session that is not indexed refuses the export.
Refused == \E c \in checked : ids[c.session] = None

\* requestTransaction looks for the session and the id together.
Found == {r \in AllRows : \E c \in checked : c.session = r.session /\ c.id = r.id}

\* exportWebSession: what is not found, or cannot be read any more, is skipped and counted.
Archive(read) ==
  [asked |-> checked, records |-> {r.request : r \in read},
   status |-> IF Cardinality(read) < Cardinality(checked) THEN "partial" ELSE "complete"]

\* handleBatchExport of the checked requests; its rescan is a step of Index before it.
Export ==
  /\ Click
  /\ checked # {}
  /\ IF Refused THEN export' = [asked |-> checked, records |-> {}, status |-> "refused"]
     ELSE \E read \in SUBSET Found : export' = Archive(read)
  /\ UNCHANGED <<selected, checked, loads>>

Index == \E s \in Sessions : Grow(s) \/ Rebuild(s) \/ Drop(s) \/ IndexAgain(s)
Fetch ==
  \/ ListSessions \/ SessionsLoaded \/ SessionsFail
  \/ ListRequests \/ RequestsLoaded \/ RequestsFail
Page == Event \/ Timer \/ Fetch
User == Toggle \/ SelectSession \/ CheckRow \/ Export

Next == Index \/ Stream \/ Page \/ User

Spec == Init /\ [][Next]_vars

-----------------------------------------------------------------------------
\* Every row up to the last id of the stream is known to the page: it was there
\* when the stream opened, or an event named it (web_live.go:75, 174-186).
EveryRowTold == \A r \in AllRows : r.id <= server.lastId => r \in server.told

\* A page that waits for nothing.
Settled ==
  /\ server.stage = "idle" /\ server.revision = Revision /\ queue = <<>>
  /\ timers = 0 /\ ~busy /\ loads = {} /\ ~paused

\* A page that waits for nothing shows the requests of the session it has selected,
\* which is one of the index (cli/README.md:245).
SettledIsFresh ==
  Settled /\ selected # None =>
    ids[selected] # None /\ {r.request : r \in table.rows} = Range(file[selected])

\* Four things spoil it, and nothing else: the button; an answer that came for another
\* session or after a newer one; a session removed and indexed again between two ticks,
\* which leaves the revision as it was; a request that failed, as no one asks again
\* (app.js:102, 209), until a later refresh does and succeeds.
FreshUnlessPaused == toggles = 0 /\ ~late /\ ~reborn /\ failed = {} => SettledIsFresh

\* The button alone: only the first of them was ever used.
ResumedIsFresh == ~late /\ ~reborn /\ failed = {} => SettledIsFresh

\* A box that was checked on a row of its session goes when the row goes and its
\* session stays: the reset event clears it (cli/README.md:249).  Not so when the
\* stream was not open all the time, or the session was removed in between.
ResetClearsBoxes ==
  Settled /\ reconnects = 0 /\ ~reborn =>
    \A c \in checked : c.live /\ ids[c.session] # None =>
      \E r \in Rows(c.session) : r.id = c.id

\* An export holds only what was checked, and all of it when it calls itself
\* complete, however stale the boxes are (cli/README.md:242-244, 249).
ExportIsTrue ==
  export # None =>
    LET asked == {c.request : c \in export.asked}
    IN  /\ export.records \subseteq asked
        /\ export.status = "complete" => export.records = asked

\* The inductive invariant behind EveryRowTold and ExportIsTrue: an id is given out
\* once, so that what an answer, a line or a box remembers of a row that is still
\* there is true of it.
UniqueIds == \A r, q \in AllRows : r.id = q.id => r = q
Remembered == table.rows \cup checked \cup UNION {l.rows : l \in loads}
MemoryIsTrue ==
  \A m \in Remembered : m.id <= lastId /\ \A r \in AllRows : r.id = m.id => r.request = m.request

ViewInv == TypeOK /\ UniqueIds /\ MemoryIsTrue /\ EveryRowTold /\ ExportIsTrue

\* The stream has told all it is going to tell, until the index changes again.
StreamQuiet == server.stage = "idle" /\ server.revision = Revision /\ queue = <<>>

\* A refresh is going to begin.
RefreshDue == timers > 0 \/ (busy /\ pending)

\* What the stream saw of a session was so once: it is behind the index, or level with it.
RevisionInv ==
  /\ queue \in Seq(SUBSET Sessions)
  /\ server.stage # "closed" => server.revision \in [Sessions -> {None} \cup (Nat \X Seq(Nat))]
  /\ server.stage # "closed" /\ ~reborn => \A s \in Sessions : ids[s] # None =>
       /\ server.revision[s] # None /\ server.revision[s][1] <= epoch[s]
       /\ server.revision[s][1] = epoch[s] => Len(server.revision[s][2]) <= Len(file[s])

\* The row of a checked box is there, or the reset that clears the box is to come.
BoxInv ==
  reconnects = 0 /\ ~reborn =>
    /\ Connected /\ server.epochs \in [Sessions -> Nat]
    /\ \A s \in Sessions : ids[s] # None =>
         /\ server.epochs[s] <= epoch[s]
         /\ server.stage # "resets" => server.revision[s][1] <= server.epochs[s]
    /\ \A c \in checked : c.live /\ ids[c.session] # None =>
         \/ \E r \in Rows(c.session) : r.id = c.id
         \/ server.epochs[c.session] < epoch[c.session]
         \/ \E i \in 1..Len(queue) : c.session \in queue[i]

\* An answer is what the index said when it had changed that often.
AnswersInv ==
  /\ table.at <= changes
  /\ \A l \in loads : l.answered =>
       l.at <= changes /\ (l.at = changes => l.rows = Rows(l.session))

\* A load whose answer will be the present rows of s.
Loading(s) == \E l \in loads : l.session = s /\ (~l.answered \/ l.at = changes)

\* With nothing to come from the stream or a timer, what the running refresh has read,
\* or the last one has shown, is what the index has, unless its request failed.
FreshInv ==
  toggles = 0 =>
    /\ ~paused /\ (pending => RefreshDue)
    /\ ~reborn /\ StreamQuiet /\ ~RefreshDue =>
         /\ refresh = "listed" => \A s \in listing : ids[s] # None
         /\ \A l \in loads : l.by = 0 /\ l.answered => l.at = changes
         /\ refresh \in {"requests", "none"} =>
              /\ "sessions" \in failed \/ \A s \in list \cup ({selected} \ {None}) : ids[s] # None
              /\ \/ selected = None \/ Loading(selected) \/ "requests" \in failed
                 \/ table.at = changes /\ (late \/ table.rows = Rows(selected))

SettlingInv == ViewInv /\ RevisionInv /\ BoxInv /\ AnswersInv /\ FreshInv

IndexedRows == [s \in Sessions |-> IF ids[s] = None THEN <<>> ELSE file[s]]

Contract == INSTANCE RequestIndex WITH Indexed <- Sessions, rows <- IndexedRows

\* The index that stream and page are shown to cope with does to its rows and epochs
\* only what the index promises (see WebIndex, which implements the same contract).
ReadsContract == Contract!Spec
=============================================================================
