# httpCapture: models, checks and proofs

`src/cli` is a Go program that records an Android phone's HTTP traffic through
Charles or a Proxify it embeds; `src/app` is the Android app that routes the
phone to it and controls it. The state that decides what is recorded, archived
and shown lies in a few small files, an SQLite index and some in-memory tables,
written by several terminals, HTTP handlers and the phone at once. These modules
model that state and everything that changes it.

## 1. Inventory

| Component (source) | State | Operations | Talks to | Hard behaviour | What makes it correct |
|---|---|---|---|---|---|
| Capture-session store (`session_manager.go`, `main.go:498-806`, `record_proxify.go:18-137`) | `active-session.json`, `meta.json` of every session, Charles' recording switch, exports, `session-operation.lock` | start, stop, abandon, markActiveSessionStatus, under one flock; unlocked reads | Charles over HTTP, the file system; called by every other part | truncate-then-write files, failure of one step of several, crash under the lock, checks made before the lock | at most one session open, each ends once, nothing completed without its archive, files agree, every call returns |
| Control server (`control_server.go`) | `commands` (answer of each commandId) | start, vpn-started, stop, abandon, status, pairing | store, `ensureProxify`, registry | handlers interleave, retries, two store operations in one handler | a retry starts nothing, an answer never changes and is true, a confirmed session stays confirmed |
| `serve` process (`serve.go`) | `serveStartedProxify`, phase | ensure Proxify, set up, serve, signal, archive, two shutdowns, stop Proxify | all servers, store, Proxify | signal against handlers, one 5 s deadline for both servers | it ends; archive before the proxy stops; no Proxify left behind |
| Device registry (`control_devices.go`) | `control-devices.json` | create, find (saves last-seen), revoke | control server, `control` command | load-change-save of the whole file without a lock, crash in the save | a revoked device stays revoked, a paired one stays paired |
| Managed Proxify (`proxy_proxify.go`, `process_linux.go`) | `proxify.json`, the process, its port | start, stop, status, ensure | `serve`, `record start` | pid reuse, dying instances, unordered operations | no foreign process signalled, the file names what runs, a session keeps its engine |
| Web index (`web_index.go`, `web_incremental.go`) | sessions, requests, cursors, reset epochs | rescan, queries, trash | reads the store's files and Proxify's live file | source moves from live file to archive, half lines, interrupted context | rows = the lines up to the cursor, rows vanish only with a new epoch, all lines get in |
| Live event stream (`web_live.go`) | per connection: known revision, epochs, last id | tick each second, emit events | index, page | each tick reads the index four times; deletes and re-creations between two ticks | no row is skipped, every reset is told |
| Page (`webui/app.js`) | pause, pending and busy flags, timers, selection, checked boxes | event, refresh, pause, select, check, export | event stream, Web API | answers that arrive late, flags that outlive their cause, ids of rows that are gone | the page ends up showing what the server has; an export is what was checked |
| Structured export (`web_export.go`) | - | export of checked requests | index | rows rebuilt or trashed under the boxes | complete, or said not to be |
| Body capture (`proxy_proxify.go:355-494`) | copy of each body | read, close, snapshot | embedded Proxify | concurrent close, read and snapshot | one payload, marked truncated unless it is whole |
| Live file and extraction (`proxy_proxify.go:100-109, 315-412`, `record_proxify.go`) | live file, window of each session (two offsets, two times) | forward, write a line, start, stop, extract | store, index | lines written while the window opens and closes, stops that fail half way | exactly the session's lines |
| Pairing (`pairing_server.go`, `control_server.go:121-149`) | one-time token, downloaded/acknowledged | show a code, download, import, acknowledge, expire | registry, phone | lost downloads and answers, several phones | one phone per code, truthful reports on both sides |
| Phone (`MainActivity.kt`, `CaptureTileService.kt`, `HttpCaptureVpnService.kt`, `ConfigStore.kt`, `ControlClient.kt`) | stored captureId and mode, VPN state, broadcasts | start, permission, confirm, stop, abandon from activity and tile; bootstrap and worker threads | control server | lost answers, deaths of app and tunnel, two user interfaces | phone and computer agree on the session; the phone touches only its own |
| Web API routing, focus rules, identity, certificates, QR codes, mitmproxy, tun2proxy | - | one-request handlers, encodings | - | - | see section 7 |

`PROJECT.json` lists under `hazards`, at its line, everything found hard to test,
with the properties that watch it, and what they leave out or why there is none.

## 2. Modules

```
CaptureLifecycle      what the store promises: one open session, one end each
  ^ implemented by                 ^ used by (INSTANCE)
SessionStore          files,     ControlServer     handlers over the abstract store
  |                   flock,       ^ extended by      ^ extended by
SessionStoreProofs    failures   ServeProcess      Phone     app, tile, VPN service
                                 life of serve               and their calls

DeviceRegistry        paired devices           ProxifyProcess   proxify.json, pids, port
  ^ extended by                                BodyCapture      one body and its copy
Pairing               codes, phones            TransactionLog   live file to archives
                                                 ^ extended, all three, by
                                               Proxify          the three side by side

RequestIndex          what the index promises its readers, commit by commit
  ^ implemented by              ^ kept to by
WebIndex  files to rows       LiveView  rows to screen and export
```

The proofs stand in modules of their own, each named after what it is about:
`SessionStoreProofs`, `ControlServerProofs`, `PhoneProofs` and `ServeProcessProofs`
(which both extend `ControlServerProofs`, as their modules extend `ControlServer`),
`PairingProofs` (registry and pairing), `ProxifyProofs` (`Proxify` and its three
parts), `WebIndexProofs` and `LiveViewProofs`. The
inductive invariants are defined at the end of the modules they are about, so that
the runs check them too.

The composition is by contract. `SessionStore` implements `CaptureLifecycle`
(checked and proved). `ControlServer` therefore treats a store operation as one
atomic step of `CaptureLifecycle` and keeps only the interleavings *between*
operations; `ServeProcess` extends it with the process around the handlers and
`Phone` with its client. `Pairing` extends `DeviceRegistry`: only a phone that
has imported the code of a device can send requests as that device. `BodyCapture`,
`TransactionLog` and `ProxifyProcess` share no variable (an exchange is complete in
`TransactionLog` when its body has given its payload in `BodyCapture`), so their
product would only multiply the states. `Proxify` is their conjunction
(`ProxifySpec`), which is what the proof is about; `MCProxifyProcess` is their sum for
TLC, each explored while the others rest. The sessions that `TransactionLog` archives
live as `CaptureLifecycle` says, too (`FollowsLifecycle`, proved).

Between index and page the contract is `RequestIndex`: a commit concerns one session
and lets its rows grow, or replaces them and raises the epoch by one, or removes both.
`WebIndex` implements it from the files (`KeepsContract`). `LiveView` contains an index
of its own, with ids and several sessions, whose steps are steps of the same contract
(`ReadsContract`): nothing the page is shown to cope with is outside of what the index
promises. It copes with less than all of it, since an index of `LiveView` begins with
one request in each session and its requests come one at a time or all anew.

* **SessionStore** has one action per step that another process, a failure or a
  crash can come before: the unlocked check, taking the flock (`Begin...`), each
  request to Charles, truncation and fill of each file, export, removal.
  `FirstStep` and `StepAfter` are the order of the code: a Proxify start writes
  `meta.json` and then `active-session.json` (`record_proxify.go:18-60`), a
  Charles start does it the other way round and undoes recording when a write
  fails (`main.go:557-586`); a stop exports, writes the metadata and then removes
  the active file. A file is `Absent`, `Torn` (truncated, half written) or its
  document. `secureWrite` truncates in place, so a reader that comes in between,
  or after a crash, sees `Torn`, which the code treats as "no session".
  `faults` is the set of failures so far; a *tearing* one (crash, failed write)
  may leave a torn file, a *plain* one (request, export, removal) may not.
  `opened` is a history variable. `archived` abstracts the exports to "complete
  on disk or not".
* **CaptureLifecycle** has `open`, `outcome` and `mayLose`. The refinement maps
  `open` to the session the file names - while `mark` rewrites the file, the
  session being marked - and `outcome` to what the metadata say of a session that
  is no longer open; a session whose file was torn is "lost", and that needs
  an earlier tearing failure. `LifecycleInv` and `EndsForGood` say what the contract
  is worth to those who rely on it.
* **ControlServer**: a handler arrives, looks the commandId up (first critical
  section), runs its store operations, stores and gives the answer (second one).
  A start may open its session and still be answered with an error
  (`main.go:581`); a stop that fails late has completed the metadata, but the
  session file still names its session, which therefore stays open.
  `Terminal` is any other user of the store. `Overlap` lets a client repeat a
  commandId before its answer. `MayConfirm` is the phone's rule that it confirms
  only a session whose start was answered.
* **ServeProcess**: `phase` follows `serveCommand` through ensure, setup, serving
  and the shutdown in its order: read the active session, archive, shut the
  control server down, shut the Web server down, stop the Proxify that serve
  started. Each error path returns at once, as the code does. `record` is what
  `proxify.json` names, `runs` whether the instance serve started runs, `mine` what
  serve noted when it read the file back; the last step stops that instance only if
  the file still names it, and otherwise ends without an error.
* **DeviceRegistry**: load, change and save of the whole list by three
  operations; truncation and fill are two steps, and two overlapping fills
  may leave the end of the longer one behind (`mixed`). Operations always overlap,
  as nothing orders them. `unseen` and `overwritten` are history: the devices whose
  pairing or revocation was reported after a process had loaded its list, and those
  over whose report such a list was then written.
* **ProxifyProcess**: instances with a pid that can be reused after death, the
  port they bind, `proxify.json`, and the six operations with their steps. The
  check of pid and start time and the signal after it are one step (the code has
  nothing between them; the remaining window cannot be closed with `kill(2)`).
  Writes and removals of `proxify.json` may fail: a start then terminates its
  instance. `races` (history) has "starts" once two starts have both found the port
  free, and "session" once a session began behind the checks of a start.
* **WebIndex**: for one Proxify session, the files as the store and Proxify write
  them and `rescan` in its steps: read the metadata, stat the source, commit the
  session row, commit the request rows. Lines are numbers, a file is how many
  complete lines it has and whether half a line follows.
* **LiveView**: rows with their `AUTOINCREMENT` ids, the loop of
  `handleLiveEvents` with its separate reads of revision, reset epochs, last id and
  rows, the events on their way, and the page: its three flags and timers, the two
  requests of a refresh (each read at the server in one step and shown in
  another, and each may fail, which ends it without a retry), the selection of
  sessions with answers that arrive in any order, the boxes of the rows and the
  structured export. `reborn`, `late`, `failed`, `toggles` and `reconnects` are
  history: they name what spoils a property.
* **Phone**: a call of the phone is a *job*, served by the handler of the same name
  in `ControlServer`; the phone can time out while the handler goes on, and the
  network can repeat a request with its commandId. `running`, `boot` and `live` are
  `VpnState`, the bootstrap thread and the runs of tun2proxy; `intents` and `news`
  are the queues to the service and to the activity. `Fault` is every timeout,
  repeated request, death, system stop, tap before the last one has settled, and
  step of another terminal; `trouble` remembers that the app met one it has no
  answer to.
* **BodyCapture**: the read of the source and the counting of what it gave are two
  steps, so a close or the snapshot of the request body comes in between; the
  payload is abstracted to how much it has and whether it is marked.
* **TransactionLog**: `exchange` is what Proxify knows of a request, `log` the
  complete lines, `half` the line being written. A start reads the size of the
  file, then the time, then becomes active; a stop reads the time, then the size,
  then copies. `due` (history) is what the archive owes: the exchanges forwarded
  and logged while the session was active.
* **Pairing**: v3 codes of `pair`, whose bundle is claimed by a compare-and-swap
  and written outside any lock, and v4 codes of `serve`, written under the lock; a
  phone asks, downloads, saves, acknowledges, and may give up at any time.

## 3. Runs

| Run | Instance | Shows |
|---|---|---|
| `SessionStore_faults` | 2 processes, 2 sessions, both engines, one failure of any kind anywhere, under fairness | `CleanInv`, `CompletedIsArchived`, `FilesAgree`, `RecordingFollowsSession`, `ImplementsLifecycle`, `HoldsBriefly`, `EveryCallReturns` hold |
| `SessionStore_toctou` | the same, no failure | **violated** `StopsOnlyWanted`: a stop ends a session that replaced the one it was asked for |
| `Phone_capture` | 2 calls at a time, 3 in all, 2 sessions, 1 VPN start, 2 faults, other terminals | `InStepInv` (with `PhoneInv`), `ActsOnOwnSessions`, `InStep`, and of the handlers `AnswersAreTrue`, `StartsOnce`, `ConfirmSticks`, `AnswerStable` hold |
| `ServeProcess_shutdown` | 1 handler, 2 commandIds, 2 sessions, terminal, pages, errors | `ServeInv`, `ArchivedBeforeProxifyStops`, `SignalEnds` hold |
| `ServeProcess_page` | 1 handler, an open page, nothing fails | **violated** `ExitStopsProxify`: an open page makes serve leave its Proxify running |
| `Pairing_codes` | 2 phones, 2 devices and a v3 code, 2 scans, 1 crash, 4 registry operations by 2 processes | `PairingInv`, `RevokedUnlessOverwritten`, `PairedUnlessOverwritten`, `OneImporter`, `ReportsAreTrue` hold |
| `DeviceRegistry_lost` | 2 overlapping processes, 2 devices | **violated** `RevokedStaysRevoked`: a request writes an old list back over a revocation |
| `ProxifyProcess_engines` | 2 overlapping processes, 2 instances, 1 spontaneous death, failing writes; bodies of 0 to 3 bytes, 2 kept, of known and unknown length; 2 exchanges, 2 sessions, 3 milliseconds | `ProxifyInv`, `NoForeignKilled`, `ReadyIsOwn`, `SessionOnCurrentEngine`, `RunningIsManaged`, `PayloadIsTrue`, `ArchiveIsComplete`, `ArchiveIsOwn` hold |
| `WebIndex_index` | 2 lines, 2 archivings, 1 interrupted rescan | `IndexInv`, `RowsMatchCursor`, `KeepsContract`, `IndexedUnlessInterrupted` hold |
| `WebIndex_interrupted` | 2 lines, 1 archiving, 1 interrupted rescan | **violated** `EventuallyIndexed`: an interrupted rescan hides lines until the file changes again |
| `LiveView_stream` | 2 sessions, 1 row per event, up to 2 changes of the index; changes, clicks, pauses, reconnects and failed requests 3 in all | `SettlingInv`, `EveryRowTold`, `FreshUnlessPaused`, `ResetClearsBoxes`, `ExportIsTrue` hold |
| `LiveView_resume` | 1 session, 4 changes and clicks | **violated** `ResumedIsFresh`: after a pause during a refresh the page is never refreshed again |

The runs of the invariants check the inductive invariant of each module with them
(`CleanInv`, `InStepInv`, `ServeInv`, `PairingInv`, `ProxifyInv`, `IndexInv`,
`SettlingInv`); it contains the type invariant, and section 5 says what it adds.

Some properties are proved (section 5) and in no run: `RowsGrowUnlessReset`, which
`KeepsContract` implies, and of the contracts between the modules `ReadsContract` and
`FollowsLifecycle`. TLC agrees with them on instances of this size.

Bounds. Two processes are enough for every race in the store, since a third
would only wait for the same flock. Two sessions give the replacement of one by
another, and a session id is never reused. One failure strikes at every step there
is, and the operations after it meet what it left; more failures and sessions are left
to the proof, which bounds nothing. In the registry two devices make a lost one
distinct from the one being written, and four calls are a pairing, a revocation and
two requests around them. Two Proxify instances are the replacement of
one by the other, with a pid reused. Two lines and two archivings give an
incremental read, a half line, and the replacement of the source by one of
another identity. In `LiveView` two changes are two batches, a rebuild, or a
session removed and indexed again, met by one click; one row per event makes every
second row a second batch. Two faults of the phone are, for instance, a lost
answer and another terminal that takes the place of the session. In
`TransactionLog` two sessions share a millisecond, a half line and the live file; a
body of three bytes crosses the limit of two in one read or in two.

Some premises name what a property does not cover.

* `ReadyIsOwn` and `SessionOnCurrentEngine` are checked with everything that may
  overlap. The first ends with the one race that breaks it ("starts" in `races`: two
  starts that have both found the port free), the second with that and a session that
  begins between the checks of a start and its Proxify. The code excludes neither.
  `RunningIsManaged` holds for operations that do not overlap (`OneAtATime`).
* `RevokedUnlessOverwritten` and `PairedUnlessOverwritten` are what remains of
  `RevokedStaysRevoked`, which `DeviceRegistry_lost` refutes, and of its counterpart
  for pairings: a report is lost only to a list that was loaded before it and
  written after it.
* `FreshUnlessPaused` and `IndexedUnlessInterrupted` are what remains of two other
  refuted properties, and the run of the former beside the refutation shows that
  the pause, or the interruption, is what it takes. The former also leaves out a
  request of the page that failed and that no later refresh has made up for
  (`failed`), and answers that came late; `ExportIsTrue` covers the latter.
* `FilesAgree` and `RecordingFollowsSession` hold while nothing has failed.
* `InStep` ends where `trouble` begins: a lost answer, an impatient tap, a start that
  fails with its session active or the stop button of the notification really leaves
  phone and computer apart (section 6).
* `ActsOnOwnSessions` is about the captureIds the phone names. A stop that names its
  own session may still end another one (`StopsOnlyWanted`, refuted).
* `ArchiveIsComplete` asks for the exchanges that were logged before the stop began;
  the code leaves out those that were still running, and a clock that goes back is
  not modelled.
* With overlapping duplicates of a commandId (`Overlap = TRUE`) only the truth of the
  answers can be expected, because lookup and store of the answer are two critical
  sections.

`CHECK_DEADLOCK FALSE` stands where the system really ends: `serve` exits, the
page has shown every change, every code has been used, the phone has no call left.

## 4. Fairness

* `SessionStore`: weak fairness of the steps of a process that runs (requests to
  Charles time out after 10 s, file operations return), strong fairness of taking
  the flock: the kernel wakes a waiter each time the holder leaves, and no waiter
  is passed over for ever. Calls and crashes have no fairness.
* `ServeProcess`: weak fairness of serve's own shutdown steps only. The waits for the
  two servers and for Proxify have a deadline (`serve.go:190-199, 251`); the stop that
  archives waits for the store's flock without one (`session_manager.go:118`) and
  returns because every call on the store does (`EveryCallReturns`). Handlers, pages
  and terminals owe nothing.
* `WebIndex`: weak fairness of a session command that has begun its writes and of
  rescans, which an open page asks for every second (`web_live.go:126-133`).

## 5. Proofs

Nothing below depends on the bounds of the runs: processes, handlers, phones,
sessions, commands, codes, exchanges and failures are sets or numbers of any size
(only the sessions of `LiveView` are a finite set). Every proof has the same layout:
an inductive invariant, one lemma per action that the action keeps it, one step per
conjunct, and the properties as corollaries. What the properties lack is always the
same thing: they speak of the end of an operation, and the invariant says what
is known in the middle of it.

**`SessionStoreProofs`**
* `IndInvHolds`. That a stop which writes "completed" has archived is known only
  from where it is. `IndInv` adds to `CompletedIsArchived` `OperationInv` (only the
  holder of the flock is inside an operation, at a step of its kind and engine, on
  a session of that engine), `HolderInv` (what the files contain at each of these
  steps: the session worked on is the active one, a pending start has a fresh id
  and no active session, at `clear` the metadata carry the final status) and
  `FilesInv` (an active session is drawn, opened and not final; only an opened
  session has final metadata). `TypeCorrect` and `ArchivedBeforeCompleted` follow.
* `CleanInvHolds` strengthens it with what holds while `faults = {}`:
  `CleanFilesInv` (at most the session under the hands of the holder is unsettled,
  and how far its two files are apart at each step) and `CleanSwitchInv` (Charles
  records exactly while `MustRecord`, which says for each step of a start or stop on
  which side of the request to Charles it is). `DocumentsAgree` and
  `SwitchFollowsSession` follow.
* `Refinement`: `Spec => CaptureLifecycle!Spec` under the mapping of section 2.
  `QuietSteps` are invisible to callers; `FillStateMaps`, `ClearStateMaps` and
  `CrashMaps` map to `Open`, `Close` and `Lose` or to a stutter; `FaultsGrow` keeps
  `mayLose` monotone, so that every loss has a tearing failure before it.
* `LifecycleHolds` and `LifecycleEnds` are about `CaptureLifecycle` itself: in each of
  its behaviours the open session is the only one neither new nor over, and a session
  keeps the end it had. Through `Refinement` both hold of the files (`NothingLost`,
  `EndedForGood`), however many processes fail in whatever way.
* `HeldBriefly`: `Left` counts the steps an operation has at most before it gives the
  lock back, six at the beginning of a Charles start. `StepIsCloser` goes through the
  steps and shows that every one of them returns or lowers the count, the failed ones
  and those that undo included; `OthersLeaveHolder` that nobody else touches the
  holder's step or its files. This is the safety half of `EveryCallReturns`: with the
  fairness of section 4 a holder leaves, and what remains for TLC is that
  a waiter then gets its turn.

**`ControlServerProofs`**, over `ControlSpec` (any clients)
* `ControlInvHolds`. `OpenInv` and `AskedInv` tie a handler to its request and the
  request to its commandId; `AnswerInv` says that an answer is true from the moment
  it is settled, because a session that is over stays over; `StartInv` that the
  answer of a start names the session it opened. `AnswersTrue` follows for every
  `Overlap`.
* `RetryInv` and `StickInv` are the part that needs `~Overlap`: only one handler at
  a time has a given commandId, so between the two critical sections nobody else
  starts for it, and a confirmed session has had the answer to its start, so its
  start handler is past its mark. `StartsOnceHolds`, `ConfirmHolds` and `AnswersStay`
  have `~Overlap` as a premise, and are false without it.

**`PhoneProofs`**: each action of the phone either leaves the handlers alone, or is
one of their steps with a request that `Proper` allows, so `ControlInv` carries over.
`OwnInv` adds that every captureId in the saved state, in a job, in a broadcast or in
a request was opened by a start of this phone (which says what the phone names, not
what a stop of the store then ends); `BootInv` counts tunnels against
starts of the service. `OwnSessions` and the four properties of the handlers, now with
the phone as their client, follow from `PhoneInvHolds`.

`InStep` speaks only of the moments in which all has come to rest, so the invariant
behind it, `InStepInv`, says in between what is still going to happen. While nothing
went wrong that the app does not handle (`~trouble`), the phone is in one of three
stages: `Calling` (the computer is asked to start a capture and nothing else is under
way), `Booting` (the VPN is on its way, from the question of the system to the running
tunnel) and `Booted` (the VPN runs, or has ended). In each of them a capture that is
open and not yet followed, confirmed or closed has a call, an intent or a broadcast
under way that brings this about: `CallsInv` says that every call is about the open
session and that what it was told is still so, `Told` that the last broadcast says how
the VPN is, `AnsweredInv` that no request is forgotten by the server. There is one
lemma per group of actions that takes a stage to a stage (`CalmCall`, `CalmTap`,
`CalmAnswered`, `CalmNotice`, `CalmService`, ...), and `SettledStage` reads `InStep`
off the last one. The steps that set `trouble` are excluded by the premise of the
property itself; a request that comes once more, a refused permission, a VPN that
fails to start and a tunnel that dies are not, and are cases of the proof.
`InStepInvHolds` has no premise; `PhoneInStep`, like `AnsweredInv` and the stages, has
`~Overlap`, under which the run checks it too.

**`ServeProcessProofs`**: `NotedInv` says that past the archiving the session that
was noted is over, and `TypeOK` that serve has not forgotten a Proxify that it started
and that runs. `ArchivedFirst` and `ServeAnswersTrue` follow from `ServeInvHolds`.

**`PairingProofs`**
* `RegistryInvHolds` for the registry alone, with all its overlaps and crashes.
  `WriteInv` says what the list being written still has: every report but those that
  came after it was loaded (`unseen`) and those already lost (`overwritten`); `NewInv`
  that a device nobody was told of is in no list but that of its creator. A crash
  leaves a file that does not parse, which no operation takes for a list. `RevokedHolds`
  and `PairedHolds` follow, without a premise.
* `PairingInvHolds` gives `OneImporterHolds` and `ReportsHold`.
  `ClaimInv`: of all phones at most one holds the bundle of a code, and none does
  while it is being written out, which is why a failed write may make the code
  available again. `AckInv`: who acknowledges has imported.

**`ProxifyProofs`**: `ProxifyInvHolds` is the conjunction of three invariants, each
proved of its own part, since no step of one part touches the variables of another.
* `ProcessInvHolds`. `NoForeign` needs only `PidInv`: an operation past its wait
  has an instance whose pid was not reused. `RaceInv` has no premise on what overlaps:
  as long as no two starts have both found the port free, whoever has not yet bound
  the port is the instance of a start that waits for it, and the file names no other
  than the one that listens; as long as no session came in between either, a session
  has no start behind its checks. `ReadyOwn` and `SessionEngine` are read off it.
  `OrderInv` says under `OneAtATime` which instances may still come to listen at each
  step, and gives `RunningManaged`.
* `BodyInvHolds`: what was counted and what the reader still has to count add up
  to what was passed on, and an end that was seen was seen after the whole body.
  `PayloadTrue` follows.
* `LogInvHolds`. `WindowInv`: an exchange forwarded during a session has its line,
  if any, behind the beginning of the session's window. `ArchiveInv`: an archived
  line lies behind the beginning of its own window and not behind that of any later
  session, so two archives share no line. `DueInv`: what a stop owes lies, with its
  time, inside the window the stop has fixed so far. `ArchiveOwn` and
  `ArchiveComplete` follow.
* `LogLifecycle`: the sessions of the log begin and end as `CaptureLifecycle` says.
  `StepInv` gives what the mapping needs: the session that is about to be activated is
  the latest and new, and the one that is being stopped is the open one.

**`WebIndexProofs`**: `RowsMatchCursor` alone does not survive a commit that reads on
from the cursor. `CursorInv` adds that the cursor never runs ahead of its file and,
on an archive, has read all of it; `WritesInv` that a command which is going to write
the archive has not yet used up its inode; `EpochInv` that there is a cursor only
under an epoch. `RowsMatch` and the action property `RowsGrow` follow from
`IndexInvHolds`, and so does `ContractKept`, the refinement `Spec => RequestIndex!Spec`:
`RemoveMissing` is `Forget`, a scan from the beginning and a lost file are `Reset`, a scan
from the cursor is `Grow` (`AddedRows`: its rows follow those that are there, because the
cursor is not behind the end of its file), everything else is a stutter.

**`LiveViewProofs`**: `UniqueIds` and `MemoryIsTrue` say that ids are never shared and
that what the page remembers of an id - in the table, in a box, in an answer that is
still on its way - is what the index says of it as long as it is there. An export that
finds as many rows as were asked for has therefore found those (`ExportTrue`, by
cardinality). For `RowsTold` a full batch ends at its largest id and one that is not
full at everything that was there (`MaxIsMember`: a bounded set of naturals has a
maximum, by well-foundedness). `ContractRead` is the refinement of `RequestIndex` by the
index of this module, for any number of sessions; it needs that a session that is not
indexed has no epoch (`EpochsGone`), or one that comes back would not begin at the
first.

The other two properties are about a page that waits for nothing. `SettlingInv` says
what is still to come before it does, in four parts on top of `ViewInv`:
* `RevisionInv`: the revision the stream last saw is, session by session, behind the
  index or level with it; with `IndexMoves` (a rescan removes a session, raises its
  epoch or lets its rows grow) every change of the index makes it differ
  (`IndexIsNews`), which fails only for a session removed and indexed again.
* `BoxInv`: a box whose row is gone has an epoch the stream has not compared yet, or
  a reset in the queue; outside the step of the resets the epochs it compared are as
  new as the revision. `BoxesCleared` follows where queue and revision are settled.
* `AnswersInv`: an answer read after the last change is what the index has.
* `FreshInv`: with nothing to come from the stream and no refresh due, the refresh that
  runs has read the sessions after the last change, and the selected session has such an
  answer on its way or on the screen - or the request of one of the two has failed
  since, which is `failed` and the reason for it in `FreshPage`. The pending flag stands
  for a timer or for the end of the running refresh (`FlagStep`): the fact the pause
  button breaks, and the reason for `toggles = 0` in `FreshPage`.

Assumptions. Placeholders differ from the values they stand beside (`None`, `Absent`,
`Torn`, `AnySession`, `NoExchange`), bounds are naturals, switches Boolean, the codes
of `pair` are no devices of the registry, a batch is not empty, a body that declares
its length keeps to it. They are named in the module that declares the constants, and
the runs evaluate them. No theorem has another hypothesis than `~Overlap` where it is
named above, and what the property itself says (`faults = {}`, `OneAtATime`, `races`,
`overwritten`, `failed`).

Only model-checked:
* `EveryCallReturns`, `SignalEnds` and `IndexedUnlessInterrupted` are liveness
  under fairness, which TLAPS does not prove; `HeldBriefly` is the part of the first
  that is no liveness.
* The refuted properties of section 6 are about the code as it is and false of it.

## 6. Findings

1. `session_manager.go:164`, `control_server.go:263`, `serve.go:296-312`: stop
   compares the session before it takes the lock and then stops whatever is active
   (abandon and mark compare under the lock).
2. `serve.go:192`: `server.Shutdown` waits for event streams, runs into the
   deadline, and the error return skips `stopServeStartedProxify`.
3. `control_devices.go:125`: saving last-seen undoes a concurrent revocation.
4. `web_index.go:322`: the fingerprint is committed before the rows, and
   `setIndexError` uses the context that has just ended.
5. `webui/app.js:914`: `liveRefreshPending` outlives a pause.

Seen while modelling, without a run of their own:

* serve: setup errors after it started Proxify leave it running (`serve.go:100-180`); a
  Proxify that a start handler restarted is not stopped at exit; when `proxify.json` is
  gone or names another instance, serve leaves its own running and ends without an error
  (`serve.go:226-237`); a phone's stop at the moment of Ctrl+C makes serve's own stop
  fail, and serve exits with its Proxify running (the docs promise that for a failed
  archive); a start between archive and `controlServer.Shutdown` leaves a session open
  (`record stop` ends it).
* Phone: the stop button of the notification goes straight to the service
  (`HttpCaptureVpnService.kt:86-94`), and the activity ignores the broadcast of a stop
  without an error (`MainActivity.kt:112-124`): the computer goes on recording until the
  app is opened or a terminal stops the session, though README.md says that a stop on
  the phone is archived. A start whose answer is lost leaves a session that the phone
  does not know and that refuses its next start; so does a Charles start whose metadata
  cannot be written (`main.go:581`). A stop while the bootstrap thread waits for the
  interface makes it dereference null.
* Page: a failed `/api/sessions` or `/requests` of a refresh only sets the status line
  (`app.js:102`, `app.js:209`); nothing asks again, and the page stays behind until the
  next event. Rows of a session removed and indexed again between two ticks leave the
  revision as it was, and no reset is sent; boxes survive a reset that falls into a
  reconnect, and `CheckRow` on the rows of a late answer makes a box of another session
  (the export then finds nothing and calls itself partial).
* Pairing: a v4 code is used up by a download that was lost; a v3 acknowledgement
  that meets the timer may be reported as expired, and closing the server may cut
  off the answer to the phone.

## 7. Not modelled

* In the modelled parts: exports, HAR and JSON layout, messages, timestamps beyond
  the order they decide; in `WebIndex` the window hashes (the archive of a session
  is replaced by a rename, so a changed prefix has another inode), oversized and
  corrupt lines; in `LiveView` filters, pages of the list, the detail pane and the
  trash button (the trash itself is `Drop`); in `TransactionLog` a clock that
  goes back, export to another directory and the HAR; in `Phone` the profiles and
  the choice of apps, and why a VPN cannot be established; in `Pairing` the layout
  and the digests of a bundle; in `ProxifyProcess` a starter that is
  killed between spawn and the first write of `proxify.json`; in `ServeProcess`
  the refresh of the QR code; in `BodyCapture` an error of the source's Close, which
  only adds a `readError` to the payload.
* In `SessionStore` one Charles: a stop talks to the address of its own `--proxy` flag
  (`main.go:594, 619`), not to the one in the session file, and the model takes them to
  be the same.
* In `Phone` the window between a stop and the end of the bootstrap thread it met: the
  service tests only `starting` and `running` (`HttpCaptureVpnService.kt:37-40`), so a
  start in that window runs a second thread beside the first, and each may take the
  other one's interface (`:96-97`). The model lets the start come after it.
* Charles, the kernel's flock, SQLite transactions, the browser's event stream
  and Proxify's file writes are modelled from how the code uses them.
* mitmproxy: the same start, stop and status as Proxify, without the check for an
  active session; a second instance of `ProxifyProcess` would show nothing new.
  Identity, certificates, QR rendering: cryptography and encodings, no shared
  state. Web API routing and focus rules: validation and SQL inside one request.
  tun2proxy: a binary behind JNI.

## 8. Plan

Every safety and action property that a passing run checks is now a theorem. What
would still say something new:

* more of the model: the parts listed in section 7 as left out, first the starter of
  Proxify that is killed before it has written `proxify.json`, and the two bootstrap
  threads of the VPN service;
* the premises: an invariant of `Phone` with overlapping repetitions of a command
  (`Overlap`), which would need `StartsOnce` replaced by what remains true there.
