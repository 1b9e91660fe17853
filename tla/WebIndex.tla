------------------------------- MODULE WebIndex -------------------------------
(***************************************************************************)
(* The SQLite index of the local viewer, for one Proxify session.  A       *)
(* rescan reads the session's meta.json, decides whether its requests come *)
(* from the live file of Proxify or from the archived traffic.jsonl, and   *)
(* brings the indexed rows up to date, incrementally when it can.  Rescans *)
(* exclude each other; they run beside the session commands that write     *)
(* the files, and the context of a rescan ends when its browser leaves.    *)
(*                                                                         *)
(* A file is its number of complete lines and whether a half line follows; *)
(* line i of the session is the number i in every file that holds it.      *)
(***************************************************************************)
EXTENDS Naturals, Integers, Sequences, SequencesExt

CONSTANTS None, Absent, Torn,
          MaxLines,      \* transactions Proxify records in the session
          MaxArchives,   \* times traffic.jsonl is written
          MaxInterrupts  \* rescans whose context ends, or serve processes that end

\* Rows of traffic_cursors: the live file is 0, an archive its inode.
Cursors == [file : 0..MaxArchives, lines : 0..MaxLines]

ASSUME IndexAssumption ==
  /\ MaxLines \in Nat /\ MaxArchives \in Nat /\ MaxInterrupts \in Nat
  /\ None \notin Cursors

VARIABLES
  lines, half,  \* Proxify's live file since the start of the session
  archive,      \* lines of traffic.jsonl, or Absent
  archives,     \* how often it was written; its inode
  meta,         \* status in meta.json, Absent or Torn
  active,       \* status in active-session.json, Absent or Torn
  writes,       \* writes the running session command still has to do
  known,        \* the session has a row in table sessions
  stamp,        \* mtime and size saved in it, None without a file
  cursor,       \* row of traffic_cursors: file and complete lines read
  rows,         \* rows of table requests, in order of their ids
  epoch,        \* row of traffic_resets, 0 when there is none
  pc, scan,     \* the running rescan and what it has read
  interrupts

fileVars == <<lines, half, archive, archives, meta, active, writes>>
dbVars == <<known, stamp, cursor, rows, epoch>>
vars == <<fileVars, dbVars, pc, scan, interrupts>>

Statuses == {"recording", "starting", "completed", "abandoned"}

\* What os.Stat tells of a file.
Live == [file |-> 0, size |-> 2 * lines + (IF half THEN 1 ELSE 0)]
Archived == [file |-> archives, size |-> 2 * archive]
Infos == [file : 0..MaxArchives, size : 0..2 * MaxLines + 1]

\* What setIndexError saves.
ErrorStamp == [file |-> -1, size |-> -1]

NoScan == [status |-> None, info |-> None, previous |-> None, exists |-> FALSE, changed |-> FALSE]

TypeOK ==
  /\ lines \in 0..MaxLines /\ half \in BOOLEAN
  /\ archive \in 0..MaxLines \cup {Absent} /\ archives \in 0..MaxArchives
  /\ meta \in Statuses \cup {Absent, Torn}
  /\ active \in {"recording", "starting", Absent, Torn}
  /\ stamp \in Infos \cup {None, ErrorStamp}
  /\ known \in BOOLEAN /\ cursor \in Cursors \cup {None}
  /\ rows \in Seq(1..MaxLines)
  /\ epoch \in Nat
  /\ scan \in [status : Statuses \cup {None}, info : Infos \cup {None},
               previous : Infos \cup {None, ErrorStamp}, exists : BOOLEAN, changed : BOOLEAN]
  /\ ~known => stamp = None /\ cursor = None /\ rows = <<>> /\ epoch = 0
  /\ pc \in {"idle", "stat", "upsert", "update", "remove"}
  /\ interrupts \in 0..MaxInterrupts

Init ==
  /\ lines = 0 /\ half = FALSE /\ archive = Absent /\ archives = 0
  /\ meta = Absent /\ active = Absent /\ writes = <<>>
  /\ known = FALSE /\ stamp = None /\ cursor = None /\ rows = <<>> /\ epoch = 0
  /\ pc = "idle" /\ scan = NoScan
  /\ interrupts = 0

-----------------------------------------------------------------------------
(* The session commands, as SessionStore orders their writes, and Proxify.  *)

Rewrite(f, s) == <<[file |-> f, value |-> Torn], [file |-> f, value |-> s]>>

Final(status) == Rewrite("meta", status) \o <<[file |-> "active", value |-> Absent]>>

\* start, from a terminal or from the phone, whose handler then marks the session
\* "starting"; the phone's confirm; stop, which may fail after the archive;
\* abandon, which archives nothing.
Command ==
  /\ writes = <<>>
  /\ \/ /\ meta = Absent
        /\ LET start == Rewrite("meta", "recording") \o Rewrite("active", "recording")
               mark == Rewrite("active", "starting") \o Rewrite("meta", "starting")
           IN  writes' \in {start, start \o mark}
     \/ active = "starting"
        /\ writes' = Rewrite("active", "recording") \o Rewrite("meta", "recording")
     \/ active # Absent /\ archives < MaxArchives
        /\ LET archived == <<[file |-> "archive", value |-> lines]>>
           IN  writes' \in {archived, archived \o Final("completed")}
     \/ active # Absent /\ writes' = Final("abandoned")
  /\ UNCHANGED <<lines, half, archive, archives, meta, active, dbVars, pc, scan, interrupts>>

Write ==
  /\ writes # <<>>
  /\ writes' = Tail(writes)
  /\ LET w == Head(writes)
     IN  /\ meta' = IF w.file = "meta" THEN w.value ELSE meta
         /\ active' = IF w.file = "active" THEN w.value ELSE active
         /\ archive' = IF w.file = "archive" THEN w.value ELSE archive
         /\ archives' = IF w.file = "archive" THEN archives + 1 ELSE archives
  /\ UNCHANGED <<lines, half, dbVars, pc, scan, interrupts>>

\* Proxify appends a transaction; a reader may see half of it.
Append1 ==
  /\ active # Absent /\ lines < MaxLines
  /\ half' = ~half
  /\ lines' = IF half THEN lines + 1 ELSE lines
  /\ UNCHANGED <<archive, archives, meta, active, writes, dbVars, pc, scan, interrupts>>

-----------------------------------------------------------------------------
(* rescan, for this session.                                               *)

\* A directory without a readable meta.json is not seen.
ReadMeta ==
  /\ pc = "idle"
  /\ IF meta \in Statuses
     THEN pc' = "stat" /\ scan' = [NoScan EXCEPT !.status = meta]
     ELSE pc' = "remove" /\ UNCHANGED scan
  /\ UNCHANGED <<fileVars, dbVars, interrupts>>

\* sessionTrafficSource: the live file while meta.json and active-session.json
\* both say that this session is recording.
SourceInfo(status) ==
  IF status = "recording" /\ active = "recording" THEN Live
  ELSE IF archive = Absent THEN None ELSE Archived

\* trafficChanged.
Changed(info) ==
  \/ ~known \/ stamp # info
  \/ info # None /\ (cursor = None \/ cursor.file # info.file)

Stat ==
  /\ pc = "stat"
  /\ LET info == SourceInfo(scan.status)
     IN  scan' = [scan EXCEPT !.info = info, !.previous = stamp, !.exists = known,
                              !.changed = Changed(info)]
  /\ pc' = "upsert"
  /\ UNCHANGED <<fileVars, dbVars, interrupts>>

\* upsertSession commits the new mtime and size before the rows are read.
Upsert ==
  /\ pc = "upsert"
  /\ known' = TRUE
  /\ stamp' = scan.info
  /\ pc' = IF scan.changed THEN "update" ELSE "idle"
  /\ UNCHANGED <<fileVars, cursor, rows, epoch, scan, interrupts>>

SizeOf(s) == IF s = None THEN 0 ELSE s.size

\* updateTraffic reads on from the cursor only in a longer file of the same identity.
Incremental ==
  /\ scan.info # None /\ scan.exists
  /\ scan.info.size > SizeOf(scan.previous)
  /\ cursor # None /\ cursor.file = scan.info.file

\* Complete lines of the file now, and whether it is still the one of Stat.
LinesNow(file) == IF file = 0 THEN lines ELSE archive
SameFile(info) == info.file = 0 \/ info.file = archives

Numbers(from, to) == [i \in 1..(to - from + 1) |-> from + i - 1]

\* Mutant: the rows of a replaced file are kept when it is read anew.
ScanTrafficKeepsRows(from, reset) ==
  LET upto == LinesNow(scan.info.file)
  IN  /\ rows' = rows \o Numbers(from + 1, upto)
      /\ cursor' = [file |-> scan.info.file, lines |-> upto]
      /\ epoch' = IF reset THEN epoch + 1 ELSE epoch

\* Mutant: an unfinished last line counts as a line.
ScanTrafficEager(from, reset) ==
  LET upto == LinesNow(scan.info.file) + (IF scan.info.file = 0 /\ half THEN 1 ELSE 0)
  IN  /\ rows' = (IF reset THEN <<>> ELSE rows) \o Numbers(from + 1, upto)
      /\ cursor' = [file |-> scan.info.file, lines |-> upto]
      /\ epoch' = IF reset THEN epoch + 1 ELSE epoch

\* scanTraffic: one transaction.  A half line at the end stays unread.
ScanTraffic(from, reset) ==
  LET upto == LinesNow(scan.info.file)
  IN  /\ rows' = (IF reset THEN <<>> ELSE rows) \o Numbers(from + 1, upto)
      /\ cursor' = [file |-> scan.info.file, lines |-> upto]
      /\ epoch' = IF reset THEN epoch + 1 ELSE epoch

\* Mutant: rows that go with their file are not counted.
ClearTrafficQuietly ==
  /\ rows' = <<>> /\ cursor' = None /\ UNCHANGED epoch

ClearTraffic ==
  /\ rows' = <<>> /\ cursor' = None /\ epoch' = epoch + 1

\* A file that was replaced since Stat is an error: setIndexError forgets the
\* stamp, so that the next rescan tries again.
Update ==
  /\ pc = "update"
  /\ IF scan.info = None THEN ClearTraffic /\ UNCHANGED stamp
     ELSE IF ~SameFile(scan.info) THEN stamp' = ErrorStamp /\ UNCHANGED <<cursor, rows, epoch>>
     ELSE /\ IF Incremental THEN ScanTraffic(cursor.lines, FALSE) ELSE ScanTraffic(0, TRUE)
          /\ UNCHANGED stamp
  /\ pc' = "idle"
  /\ UNCHANGED <<fileVars, known, scan, interrupts>>

\* Mutant: the rows go, the counter of rebuilds stays.
RemoveMissingKeepsEpoch ==
  /\ pc = "remove"
  /\ known' = FALSE /\ stamp' = None /\ cursor' = None /\ rows' = <<>>
  /\ pc' = "idle"
  /\ UNCHANGED <<epoch, fileVars, scan, interrupts>>

\* removeMissingSessions, with everything that depends on the session's row.
RemoveMissing ==
  /\ pc = "remove"
  /\ known' = FALSE /\ stamp' = None /\ cursor' = None /\ rows' = <<>> /\ epoch' = 0
  /\ pc' = "idle"
  /\ UNCHANGED <<fileVars, scan, interrupts>>

\* The context of the rescan ends, and with it setIndexError; or serve dies.
Interrupt ==
  /\ pc # "idle"
  /\ interrupts < MaxInterrupts
  /\ interrupts' = interrupts + 1
  /\ pc' = "idle"
  /\ UNCHANGED <<fileVars, dbVars, scan>>

Rescan == ReadMeta \/ Stat \/ Upsert \/ Update \/ RemoveMissing

Next == Command \/ Write \/ Append1 \/ Rescan \/ Interrupt

Spec == Init /\ [][Next]_vars

\* A session command that has begun its writes ends them, and an open page
\* rescans every second (web_live.go:126-133).
FairSpec == Spec /\ WF_vars(Write) /\ WF_vars(Rescan)

-----------------------------------------------------------------------------
\* The rows are the lines up to the cursor, each once and in order, whatever was
\* interrupted and however often the source changed between live file and archive.
RowsMatchCursor ==
  rows = IF cursor = None THEN <<>> ELSE Numbers(1, cursor.lines)

\* A page that sees no new reset epoch may go on with the rows it has: they stay,
\* and new ones only follow them (web_live.go:51, cli/README.md:249).
RowsGrowUnlessReset == [][epoch' = epoch => IsPrefix(rows, rows')]_vars

Contract == INSTANCE RequestIndex
  WITH Indexed <- {"session"},
       rows <- [s \in {"session"} |-> rows], epoch <- [s \in {"session"} |-> epoch]

\* Every commit of a rescan does to the rows and the epoch what the readers of the
\* index count on, whatever was interrupted: it adds rows, rebuilds them and raises
\* the epoch by one, or removes the session with both (web_incremental.go:74-153,
\* web_live.go:155).
KeepsContract == Contract!Spec

-----------------------------------------------------------------------------
(* The inductive invariant behind the two.                                 *)

\* A session command writes whole documents, the archive first and at most once.
FileWrites ==
  [file : {"meta"}, value : Statuses \cup {Torn}]
    \cup [file : {"active"}, value : {"recording", "starting", Absent, Torn}]
    \cup [file : {"archive"}, value : 0..MaxLines]

WritesInv ==
  /\ writes \in Seq(FileWrites)
  /\ \A i \in 1..Len(writes) : writes[i].file = "archive" => i = 1 /\ archives < MaxArchives

\* The cursor never lies behind the end of its file, and an archive that is still
\* the one that was read was read to its end.
CursorInv ==
  /\ archives = 0 => archive = Absent
  /\ archives > 0 => archive \in 0..MaxLines
  /\ cursor # None =>
       /\ cursor.file <= archives
       /\ cursor.file = 0 => cursor.lines <= lines
       /\ cursor.file = archives /\ cursor.file # 0 => cursor.lines = archive

\* Nothing has been read before the first reset, and a session has its row before
\* its requests are read.
EpochInv ==
  /\ epoch = 0 => cursor = None
  /\ pc = "update" => known

IndexInv == TypeOK /\ WritesInv /\ CursorInv /\ EpochInv /\ RowsMatchCursor

-----------------------------------------------------------------------------
SourceLines ==
  CASE meta = "recording" /\ active = "recording" -> lines
    [] meta \in Statuses /\ archive # Absent -> archive
    [] OTHER -> 0

\* When nothing changes any more, every complete line of the session's source is
\* indexed, and none of a half one (cli/README.md:245, 249).
EventuallyIndexed == <>[](rows = Numbers(1, SourceLines))

\* So it is when every rescan runs to its end, though the source of the session
\* changes between live file and archive while it is read.
IndexedUnlessInterrupted == [](interrupts = 0) => EventuallyIndexed
=============================================================================
