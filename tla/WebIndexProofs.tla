----------------------------- MODULE WebIndexProofs -----------------------------
(***************************************************************************)
(* Proofs about WebIndex, for any number of lines, archivings and          *)
(* interrupts: what is indexed is the beginning of one file, and it stays  *)
(* until a reset is counted.                                               *)
(***************************************************************************)
EXTENDS WebIndex, SequenceTheorems, TLAPS

-----------------------------------------------------------------------------
(* Rows.                                                                   *)

\* The numbers of the lines after a, up to b.
LEMMA NumbersFrom ==
  ASSUME NEW a \in Nat, NEW b \in Nat, a <= b
  PROVE  Numbers(a + 1, b) \in Seq(Nat) /\ Len(Numbers(a + 1, b)) = b - a
<1>1. Numbers(a + 1, b) = [i \in 1..(b - a) |-> a + i]
  BY DEF Numbers
<1>2. b - a \in Nat /\ \A i \in 1..(b - a) : a + i \in Nat
  OBVIOUS
<1>3. Numbers(a + 1, b) \in [1..(b - a) -> Nat]
  BY <1>1, <1>2
<1>4. Numbers(a + 1, b) \in Seq(Nat) /\ DOMAIN Numbers(a + 1, b) = 1..(b - a)
  BY <1>1, <1>2, <1>3, SeqDef
<1>5. Len(Numbers(a + 1, b)) \in Nat /\ 1..Len(Numbers(a + 1, b)) = 1..(b - a)
  BY <1>4, LenProperties
<1>6. QED
  BY <1>2, <1>4, <1>5

\* Reading on from line a to line b gives the rows of one reading up to b.
LEMMA NumbersConcat ==
  ASSUME NEW a \in Nat, NEW b \in Nat, a <= b
  PROVE  Numbers(1, a) \o Numbers(a + 1, b) = Numbers(1, b)
<1>1. Numbers(1, a) = [i \in 1..a |-> i]
  BY DEF Numbers
<1>2. Numbers(a + 1, b) = [i \in 1..(b - a) |-> a + i]
  BY DEF Numbers
<1>3. Numbers(1, b) = [i \in 1..b |-> i]
  BY DEF Numbers
<1>4. /\ Numbers(1, a) \in Seq(Nat) /\ Len(Numbers(1, a)) = a
      /\ Numbers(a + 1, b) \in Seq(Nat) /\ Len(Numbers(a + 1, b)) = b - a
  <2>1. 0 \in Nat /\ 0 <= a /\ 0 + 1 = 1 /\ a - 0 = a
    OBVIOUS
  <2>2. Numbers(0 + 1, a) \in Seq(Nat) /\ Len(Numbers(0 + 1, a)) = a - 0
    BY <2>1, NumbersFrom, Zenon
  <2>3. QED
    BY <2>1, <2>2, NumbersFrom
<1>5. QED
  BY <1>1, <1>2, <1>3, <1>4

\* The rows up to a line number them.
LEMMA NumbersType ==
  ASSUME NEW b \in 0..MaxLines
  PROVE  Numbers(1, b) \in Seq(1..MaxLines)
<1>1. Numbers(1, b) = [i \in 1..b |-> i]
  BY IndexAssumption DEF Numbers
<1>2. b \in Nat /\ \A i \in 1..b : i \in 1..MaxLines
  BY IndexAssumption
<1>3. Numbers(1, b) \in [1..b -> 1..MaxLines]
  BY <1>1, <1>2
<1>4. QED
  BY <1>2, <1>3, SeqDef

-----------------------------------------------------------------------------
(* The files.                                                              *)

\* What Stat sees of a file.
LEMMA InfoType ==
  ASSUME TypeOK, CursorInv, NEW status
  PROVE  SourceInfo(status) \in Infos \cup {None}
<1>1. Live \in Infos
  BY IndexAssumption DEF TypeOK, Live, Infos
<1>2. archive # Absent => Archived \in Infos
  <2>1. archive # Absent => archive \in 0..MaxLines /\ archives \in 0..MaxArchives
    BY DEF TypeOK
  <2>2. QED
    BY <2>1, IndexAssumption DEF Archived, Infos
<1>3. QED
  BY <1>1, <1>2 DEF SourceInfo

\* A file that is still the one of Stat has a number of lines, and at least those
\* the cursor has passed when it is of this file.
LEMMA LinesRead ==
  ASSUME TypeOK, CursorInv, NEW info \in Infos, SameFile(info)
  PROVE  /\ LinesNow(info.file) \in 0..MaxLines
         /\ info.file \in 0..MaxArchives /\ info.file <= archives
         /\ info.file = 0 => LinesNow(info.file) = lines
         /\ info.file # 0 => LinesNow(info.file) = archive /\ info.file = archives
         /\ cursor # None /\ cursor.file = info.file => cursor.lines <= LinesNow(info.file)
<1>1. /\ info.file \in 0..MaxArchives /\ archives \in 0..MaxArchives /\ lines \in 0..MaxLines
      /\ info.file # 0 => info.file = archives
      /\ MaxLines \in Nat /\ MaxArchives \in Nat
  BY IndexAssumption DEF TypeOK, Infos, SameFile
<1>2. info.file # 0 => archive \in 0..MaxLines
  BY <1>1 DEF CursorInv
<1>3. cursor # None => cursor.lines \in 0..MaxLines
  BY DEF TypeOK, Cursors
<1>4. QED
  BY <1>1, <1>2, <1>3 DEF LinesNow, CursorInv

-----------------------------------------------------------------------------
(* The session commands and Proxify.                                       *)

\* A command begins: its archive write is the first.
LEMMA CommandInv == ASSUME IndexInv, Command PROVE IndexInv'
<1> USE DEF IndexInv
<1> DEFINE archived == [file |-> "archive", value |-> lines]
           documents == FileWrites \ [file : {"archive"}, value : 0..MaxLines]
           start == Rewrite("meta", "recording") \o Rewrite("active", "recording")
           mark == Rewrite("active", "starting") \o Rewrite("meta", "starting")
           confirm == Rewrite("active", "recording") \o Rewrite("meta", "recording")
<1>1. /\ UNCHANGED <<lines, half, archive, archives, meta, active, dbVars, pc, scan, interrupts>>
      /\ \/ writes' \in {start, start \o mark, confirm, Final("abandoned")}
         \/ archives < MaxArchives /\ writes' \in {<<archived>>, <<archived>> \o Final("completed")}
  BY DEF Command
<1>2. /\ start \in Seq(documents) /\ mark \in Seq(documents) /\ confirm \in Seq(documents)
      /\ \A s \in {"abandoned", "completed"} : Final(s) \in Seq(documents)
  <2>1. /\ \A s \in Statuses : Rewrite("meta", s) \in Seq(documents)
        /\ \A s \in {"recording", "starting"} : Rewrite("active", s) \in Seq(documents)
        /\ <<[file |-> "active", value |-> Absent]>> \in Seq(documents)
    BY DEF Rewrite, FileWrites
  <2>2. QED
    BY <2>1 DEF Final, Statuses
<1>3. \A d \in documents : d \in FileWrites /\ d.file # "archive"
  BY DEF FileWrites
<1> HIDE DEF documents, archived, start, mark, confirm
<1>4. archived \in FileWrites /\ archives' = archives
  BY <1>1 DEF TypeOK, FileWrites, archived
<1>5. WritesInv'
  <2>1. CASE writes' \in {start, start \o mark, confirm, Final("abandoned")}
    <3>1. writes' \in Seq(documents)
      BY <1>2, <2>1, ConcatProperties
    <3>2. \A i \in 1..Len(writes') : writes'[i] \in documents
      BY <3>1
    <3>3. QED
      BY <1>3, <3>1, <3>2 DEF WritesInv
  <2>2. CASE archives < MaxArchives /\ writes' \in {<<archived>>, <<archived>> \o Final("completed")}
    <3>1. PICK rest \in Seq(documents) : writes' = <<archived>> \o rest
      <4>1. <<>> \in Seq(documents) /\ <<archived>> = <<archived>> \o <<>>
        OBVIOUS
      <4>2. Final("completed") \in Seq(documents)
        BY <1>2
      <4>3. QED
        BY <2>2, <4>1, <4>2
    <3>2. writes' \in Seq(FileWrites)
      BY <1>4, <1>3, <3>1
    <3>3. \A i \in 1..Len(writes') : i # 1 => writes'[i] \in documents
      BY <3>1
    <3>4. QED
      BY <1>4, <1>3, <2>2, <3>2, <3>3 DEF WritesInv
  <2>3. QED
    BY <1>1, <2>1, <2>2
<1>6. TypeOK' /\ CursorInv' /\ EpochInv' /\ RowsMatchCursor'
  BY <1>1 DEF TypeOK, CursorInv, EpochInv, RowsMatchCursor, dbVars
<1>7. QED
  BY <1>5, <1>6

\* The first write that is left is done.
LEMMA WriteInv == ASSUME IndexInv, Write PROVE IndexInv'
<1> USE DEF IndexInv
<1> DEFINE w == writes[1]
<1>1. /\ writes # <<>> /\ writes' = Tail(writes)
      /\ meta' = (IF w.file = "meta" THEN w.value ELSE meta)
      /\ active' = (IF w.file = "active" THEN w.value ELSE active)
      /\ archive' = (IF w.file = "archive" THEN w.value ELSE archive)
      /\ archives' = (IF w.file = "archive" THEN archives + 1 ELSE archives)
      /\ UNCHANGED <<lines, half, dbVars, pc, scan, interrupts>>
  BY DEF Write
<1>2. /\ Len(writes) \in Nat \ {0} /\ w \in FileWrites
      /\ writes' \in Seq(FileWrites) /\ Len(writes') = Len(writes) - 1
      /\ \A i \in 1..Len(writes') : writes'[i] = writes[i + 1] /\ i + 1 \in 1..Len(writes)
  BY <1>1 DEF WritesInv
<1>3. \A i \in 1..Len(writes') : writes'[i].file # "archive"
  BY <1>2 DEF WritesInv
<1>4. w.file = "archive" => w.value \in 0..MaxLines /\ archives < MaxArchives
  BY <1>2 DEF WritesInv, FileWrites
<1>5. TypeOK'
  <2>1. meta' \in Statuses \cup {Absent, Torn}
    BY <1>1, <1>2 DEF FileWrites, TypeOK
  <2>2. active' \in {"recording", "starting", Absent, Torn}
    BY <1>1, <1>2 DEF FileWrites, TypeOK
  <2>3. archive' \in 0..MaxLines \cup {Absent} /\ archives' \in 0..MaxArchives
    BY <1>1, <1>4, IndexAssumption DEF TypeOK
  <2>4. QED
    BY <1>1, <2>1, <2>2, <2>3 DEF TypeOK, dbVars
<1>6. WritesInv'
  BY <1>2, <1>3 DEF WritesInv
<1>7. CursorInv'
  <2>1. CASE w.file = "archive"
    <3>1. archives \in Nat /\ archives' = archives + 1 /\ archive' \in 0..MaxLines
      BY <1>1, <1>4, <2>1 DEF TypeOK
    <3>2. cursor # None => cursor.file \in Nat /\ cursor.file < archives'
      BY <3>1 DEF CursorInv, TypeOK, Cursors
    <3>3. QED
      BY <1>1, <3>1, <3>2 DEF CursorInv, dbVars
  <2>2. CASE w.file # "archive"
    BY <1>1, <2>2 DEF CursorInv, dbVars
  <2>3. QED
    BY <2>1, <2>2
<1>8. EpochInv' /\ RowsMatchCursor'
  BY <1>1 DEF EpochInv, RowsMatchCursor, dbVars
<1>9. QED
  BY <1>5, <1>6, <1>7, <1>8

\* Proxify goes on writing: no line that was read goes away.
LEMMA AppendInv == ASSUME IndexInv, Append1 PROVE IndexInv'
<1> USE DEF IndexInv
<1>1. /\ lines < MaxLines /\ lines' \in {lines, lines + 1} /\ half' = ~half
      /\ UNCHANGED <<archive, archives, meta, active, writes, dbVars, pc, scan, interrupts>>
  BY DEF Append1
<1>2. lines' \in 0..MaxLines /\ lines <= lines'
  BY <1>1, IndexAssumption DEF TypeOK
<1>3. TypeOK'
  BY <1>1, <1>2 DEF TypeOK, dbVars
<1>4. WritesInv'
  BY <1>1 DEF WritesInv
<1>5. CursorInv'
  BY <1>1, <1>2 DEF CursorInv, dbVars, TypeOK, Cursors
<1>6. EpochInv' /\ RowsMatchCursor'
  BY <1>1 DEF EpochInv, RowsMatchCursor, dbVars
<1>7. QED
  BY <1>3, <1>4, <1>5, <1>6

-----------------------------------------------------------------------------
(* The rescan.                                                             *)

\* The steps that only read.
LEMMA ReadInv == ASSUME IndexInv, ReadMeta \/ Stat \/ Interrupt PROVE IndexInv'
<1> USE DEF IndexInv
<1>1. UNCHANGED <<fileVars, dbVars>>
  BY DEF ReadMeta, Stat, Interrupt
<1>2. WritesInv' /\ CursorInv' /\ EpochInv' /\ RowsMatchCursor'
  <2>1. pc' # "update"
    BY DEF ReadMeta, Stat, Interrupt
  <2>2. QED
    BY <1>1, <2>1 DEF WritesInv, CursorInv, EpochInv, RowsMatchCursor, fileVars, dbVars
<1>3. pc' \in {"idle", "stat", "upsert", "update", "remove"} /\ interrupts' \in 0..MaxInterrupts
  BY IndexAssumption DEF ReadMeta, Stat, Interrupt, TypeOK
<1>4. scan' \in [status : Statuses \cup {None}, info : Infos \cup {None},
                 previous : Infos \cup {None, ErrorStamp}, exists : BOOLEAN, changed : BOOLEAN]
  <2>1. CASE ReadMeta
    BY <2>1 DEF ReadMeta, TypeOK, NoScan
  <2>2. CASE Stat
    <3>1. PICK info : /\ info = SourceInfo(scan.status)
                      /\ scan' = [scan EXCEPT !.info = info, !.previous = stamp,
                                              !.exists = known, !.changed = Changed(info)]
      BY <2>2 DEF Stat
    <3>2. info \in Infos \cup {None}
      BY <3>1, InfoType
    <3>3. Changed(info) \in BOOLEAN
      BY DEF Changed
    <3>4. QED
      BY <3>1, <3>2, <3>3 DEF TypeOK
  <2>3. CASE Interrupt
    BY <2>3 DEF Interrupt, TypeOK
  <2>4. QED
    BY <2>1, <2>2, <2>3
<1>5. TypeOK'
  BY <1>1, <1>3, <1>4 DEF TypeOK, fileVars, dbVars
<1>6. QED
  BY <1>2, <1>5

\* The row of the session is there before its requests are read.
LEMMA UpsertInv == ASSUME IndexInv, Upsert PROVE IndexInv'
<1> USE DEF IndexInv
<1>1. /\ known' = TRUE /\ stamp' = scan.info /\ pc' \in {"update", "idle"}
      /\ UNCHANGED <<fileVars, cursor, rows, epoch, scan, interrupts>>
  BY DEF Upsert
<1>2. stamp' \in Infos \cup {None, ErrorStamp}
  BY <1>1 DEF TypeOK
<1>3. TypeOK'
  <2>1. known' \in BOOLEAN /\ known'
    BY <1>1
  <2>2. pc' \in {"idle", "stat", "upsert", "update", "remove"}
    BY <1>1
  <2>3. QED
    BY <1>1, <1>2, <2>1, <2>2 DEF TypeOK, fileVars
<1>4. WritesInv' /\ CursorInv' /\ EpochInv' /\ RowsMatchCursor'
  BY <1>1 DEF WritesInv, CursorInv, EpochInv, RowsMatchCursor, fileVars
<1>5. QED
  BY <1>3, <1>4

\* A session directory that is gone.
LEMMA RemoveInv == ASSUME IndexInv, RemoveMissing PROVE IndexInv'
<1> USE DEF IndexInv
<1>1. /\ known' = FALSE /\ stamp' = None /\ cursor' = None /\ rows' = <<>> /\ epoch' = 0
      /\ pc' = "idle" /\ UNCHANGED <<fileVars, scan, interrupts>>
  BY DEF RemoveMissing
<1>2. TypeOK'
  <2>1. rows' \in Seq(1..MaxLines) /\ epoch' \in Nat
    BY <1>1
  <2>2. known' \in BOOLEAN
    BY <1>1
  <2>3. pc' \in {"idle", "stat", "upsert", "update", "remove"}
    BY <1>1
  <2>4. QED
    BY <1>1, <2>1, <2>2, <2>3 DEF TypeOK, fileVars
<1>3. WritesInv' /\ CursorInv' /\ EpochInv' /\ RowsMatchCursor'
  BY <1>1 DEF WritesInv, CursorInv, EpochInv, RowsMatchCursor, fileVars
<1>4. QED
  BY <1>2, <1>3

\* One transaction of updateTraffic: a cursor that moves leaves the rows up to it.
LEMMA ScanTrafficStep ==
  ASSUME IndexInv, pc = "update", scan.info # None, SameFile(scan.info),
         NEW from, NEW reset \in BOOLEAN,
         \/ ~reset /\ from = cursor.lines /\ cursor # None /\ cursor.file = scan.info.file
         \/ reset /\ from = 0,
         ScanTraffic(from, reset)
  PROVE  /\ rows' \in Seq(1..MaxLines) /\ cursor' \in Cursors /\ cursor' # None
         /\ cursor'.file = scan.info.file /\ cursor'.lines = LinesNow(scan.info.file)
         /\ rows' = Numbers(1, cursor'.lines)
         /\ epoch' = (IF reset THEN epoch + 1 ELSE epoch)
<1> USE DEF IndexInv
<1> DEFINE upto == LinesNow(scan.info.file)
<1>1. scan.info \in Infos
  BY DEF TypeOK
<1>2. /\ upto \in 0..MaxLines /\ scan.info.file \in 0..MaxArchives
      /\ cursor # None /\ cursor.file = scan.info.file => cursor.lines <= upto
  BY <1>1, LinesRead
<1>3. /\ rows' = (IF reset THEN <<>> ELSE rows) \o Numbers(from + 1, upto)
      /\ cursor' = [file |-> scan.info.file, lines |-> upto]
      /\ epoch' = (IF reset THEN epoch + 1 ELSE epoch)
  BY DEF ScanTraffic
<1>4. cursor' \in Cursors /\ cursor' # None
  BY <1>2, <1>3, IndexAssumption DEF Cursors
<1>5. rows' = Numbers(1, upto)
  <2>1. upto \in Nat
    BY <1>2, IndexAssumption
  <2>2. CASE reset
    <3>1. Numbers(1, upto) \in Seq(1..MaxLines)
      BY <1>2, NumbersType
    <3>2. rows' = <<>> \o Numbers(1, upto)
      BY <1>3, <2>2
    <3>3. QED
      BY <3>1, <3>2
  <2>3. CASE ~reset
    <3>1. from = cursor.lines /\ cursor # None /\ from <= upto /\ rows = Numbers(1, from)
      BY <1>2, <2>3 DEF RowsMatchCursor
    <3>2. from \in Nat
      BY <3>1, IndexAssumption DEF TypeOK, Cursors
    <3>3. rows' = Numbers(1, from) \o Numbers(from + 1, upto)
      BY <1>3, <2>3, <3>1
    <3>4. QED
      BY <2>1, <3>1, <3>2, <3>3, NumbersConcat
  <2>4. QED
    BY <2>2, <2>3
<1>6. rows' \in Seq(1..MaxLines)
  BY <1>2, <1>5, NumbersType
<1>7. QED
  BY <1>3, <1>4, <1>5, <1>6

\* updateTraffic: a rebuild, a few more lines, or an error that is noted.
LEMMA UpdateInv == ASSUME IndexInv, Update PROVE IndexInv'
<1> USE DEF IndexInv
<1>1. /\ pc = "update" /\ pc' = "idle" /\ UNCHANGED <<fileVars, known, scan, interrupts>>
  BY DEF Update
<1>2. /\ known /\ known' = known /\ scan.info \in Infos \cup {None} /\ scan.exists \in BOOLEAN
      /\ pc' \in {"idle", "stat", "upsert", "update", "remove"}
  BY <1>1 DEF TypeOK, EpochInv
<1>3. ASSUME NEW reset \in BOOLEAN, NEW from, ScanTraffic(from, reset), stamp' = stamp,
             scan.info # None, SameFile(scan.info),
             \/ ~reset /\ from = cursor.lines /\ cursor # None /\ cursor.file = scan.info.file
             \/ reset /\ from = 0
      PROVE  IndexInv'
  <2>1. /\ rows' \in Seq(1..MaxLines) /\ cursor' \in Cursors /\ cursor' # None
        /\ cursor'.file = scan.info.file /\ cursor'.lines = LinesNow(scan.info.file)
        /\ rows' = Numbers(1, cursor'.lines)
        /\ epoch' = (IF reset THEN epoch + 1 ELSE epoch)
    BY <1>1, <1>3, ScanTrafficStep
  <2>2. /\ LinesNow(scan.info.file) \in 0..MaxLines
        /\ scan.info.file \in 0..MaxArchives /\ scan.info.file <= archives
        /\ scan.info.file = 0 => LinesNow(scan.info.file) = lines
        /\ scan.info.file # 0 => LinesNow(scan.info.file) = archive /\ scan.info.file = archives
    BY <1>2, <1>3, LinesRead
  <2>3. epoch \in Nat /\ epoch' \in Nat
    BY <2>1 DEF TypeOK
  <2>4. TypeOK'
    BY <1>1, <1>2, <1>3, <2>1, <2>3 DEF TypeOK, fileVars
  <2>5. CursorInv'
    <3>1. UNCHANGED <<lines, archive, archives>>
      BY <1>1 DEF fileVars
    <3>2. QED
      BY <2>1, <2>2, <3>1 DEF CursorInv
  <2>6. EpochInv'
    BY <1>1, <1>3, <2>1, <2>3 DEF EpochInv
  <2>7. WritesInv' /\ RowsMatchCursor'
    BY <1>1, <2>1 DEF WritesInv, RowsMatchCursor, fileVars
  <2>8. QED
    BY <2>4, <2>5, <2>6, <2>7
<1>4. CASE scan.info = None /\ ClearTraffic /\ UNCHANGED stamp
  <2>1. rows' = <<>> /\ cursor' = None /\ epoch' = epoch + 1
    BY <1>4 DEF ClearTraffic
  <2>2. epoch' \in Nat /\ rows' \in Seq(1..MaxLines)
    BY <2>1 DEF TypeOK
  <2>3. TypeOK'
    BY <1>1, <1>2, <1>4, <2>1, <2>2 DEF TypeOK, fileVars
  <2>4. QED
    BY <1>1, <2>1, <2>3 DEF WritesInv, CursorInv, EpochInv, RowsMatchCursor, fileVars
<1>5. CASE stamp' = ErrorStamp /\ UNCHANGED <<cursor, rows, epoch>>
  <2>1. TypeOK'
    BY <1>1, <1>2, <1>5 DEF TypeOK, fileVars
  <2>2. QED
    BY <1>1, <1>5, <2>1 DEF WritesInv, CursorInv, EpochInv, RowsMatchCursor, fileVars
<1>6. CASE scan.info # None /\ SameFile(scan.info) /\ UNCHANGED stamp
            /\ IF Incremental THEN ScanTraffic(cursor.lines, FALSE) ELSE ScanTraffic(0, TRUE)
  <2>1. CASE Incremental
    <3>1. cursor # None /\ cursor.file = scan.info.file
      BY <2>1 DEF Incremental
    <3>2. ScanTraffic(cursor.lines, FALSE)
      BY <1>6, <2>1
    <3>3. QED
      BY <1>3, <1>6, <3>1, <3>2
  <2>2. CASE ~Incremental
    <3>1. ScanTraffic(0, TRUE)
      BY <1>6, <2>2
    <3>2. QED
      BY <1>3, <1>6, <3>1
  <2>3. QED
    BY <2>1, <2>2
<1>7. QED
  BY <1>4, <1>5, <1>6 DEF Update

\* No step breaks the invariant.
LEMMA IndexStep == ASSUME IndexInv, [Next]_vars PROVE IndexInv'
<1>1. CASE Next
  BY <1>1, CommandInv, WriteInv, AppendInv, ReadInv, UpsertInv, UpdateInv, RemoveInv
  DEF Next, Rescan
<1>2. CASE UNCHANGED vars
  BY <1>2
  DEF vars, fileVars, dbVars, IndexInv, TypeOK, WritesInv, CursorInv, EpochInv, RowsMatchCursor
<1>3. QED
  BY <1>1, <1>2

\* The rows are the lines of one file up to the cursor, whatever is interrupted.
THEOREM IndexInvHolds == Spec => []IndexInv
<1>1. ASSUME Init PROVE IndexInv
  <2>1. known \in BOOLEAN /\ half \in BOOLEAN
    BY <1>1 DEF Init
  <2>2. scan \in [status : Statuses \cup {None}, info : Infos \cup {None},
                  previous : Infos \cup {None, ErrorStamp}, exists : BOOLEAN, changed : BOOLEAN]
    BY <1>1 DEF Init, NoScan
  <2>3. rows \in Seq(1..MaxLines) /\ writes \in Seq(FileWrites) /\ Len(writes) = 0
    BY <1>1 DEF Init
  <2>4. TypeOK
    BY <1>1, <2>1, <2>2, <2>3, IndexAssumption DEF Init, TypeOK
  <2>5. WritesInv
    BY <2>3 DEF WritesInv
  <2>6. CursorInv /\ EpochInv /\ RowsMatchCursor
    BY <1>1 DEF Init, CursorInv, EpochInv, RowsMatchCursor
  <2>7. QED
    BY <2>4, <2>5, <2>6 DEF IndexInv
<1>2. ASSUME IndexInv, [Next]_vars PROVE IndexInv'
  BY <1>2, IndexStep
<1>3. QED
  BY <1>1, <1>2, PTL DEF Spec

\* The rows are the lines up to the cursor, each once and in order.
THEOREM RowsMatch == Spec => []RowsMatchCursor
BY IndexInvHolds, PTL DEF IndexInv

-----------------------------------------------------------------------------
(* What a page may keep.                                                   *)

\* Rows that stay or are followed by more.
LEMMA PrefixGrows ==
  ASSUME NEW S, NEW T, NEW s \in Seq(S), NEW t \in Seq(T)
  PROVE  IsPrefix(s, s \o t)
<1>1. Len(s) <= Len(s \o t)
  OBVIOUS
<1>2. SubSeq(s, 1, Len(s)) = s /\ SubSeq(s \o t, 1, Len(s)) = s
  OBVIOUS
<1>3. QED
  BY <1>1, <1>2 DEF IsPrefix

\* What a rescan adds to the rows follows them.
LEMMA AddedRows ==
  ASSUME IndexInv, pc = "update", scan.info # None, SameFile(scan.info),
         Incremental, ScanTraffic(cursor.lines, FALSE)
  PROVE  IsPrefix(rows, rows')
<1> DEFINE upto == LinesNow(scan.info.file)
<1>1. scan.info \in Infos /\ rows \in Seq(1..MaxLines)
  BY DEF IndexInv, TypeOK
<1>2. /\ upto \in 0..MaxLines /\ cursor # None
      /\ cursor.lines <= upto /\ cursor.lines \in 0..MaxLines
  BY <1>1, LinesRead DEF IndexInv, TypeOK, Cursors, Incremental
<1>3. cursor.lines \in Nat /\ upto \in Nat
  BY <1>2, IndexAssumption
<1>4. rows' = rows \o Numbers(cursor.lines + 1, upto)
  BY DEF ScanTraffic
<1>5. Numbers(cursor.lines + 1, upto) \in Seq(Nat)
  <2> HIDE DEF upto
  <2>1. QED
    BY <1>2, <1>3, NumbersFrom, Zenon
<1>6. QED
  BY <1>1, <1>4, <1>5, PrefixGrows

\* Without a new reset epoch the rows a page has shown stay, and new ones follow
\* them: what is rebuilt or removed is counted in the same commit.
THEOREM RowsGrow == Spec => RowsGrowUnlessReset
<1>1. ASSUME IndexInv, [Next]_vars PROVE [epoch' = epoch => IsPrefix(rows, rows')]_vars
  <2>1. rows \in Seq(1..MaxLines) /\ epoch \in Nat
    BY <1>1 DEF IndexInv, TypeOK
  <2>2. IsPrefix(rows, rows)
    BY <2>1 DEF IsPrefix
  <2>3. CASE UNCHANGED vars
    BY <2>3
  <2>4. CASE Command \/ Write \/ Append1 \/ ReadMeta \/ Stat \/ Upsert \/ Interrupt
    <3>1. rows' = rows
      BY <2>4 DEF Command, Write, Append1, ReadMeta, Stat, Upsert, Interrupt, dbVars
    <3>2. QED
      BY <2>2, <3>1
  <2>5. CASE RemoveMissing
    <3>1. epoch' = epoch => rows' = rows
      BY <1>1, <2>5 DEF RemoveMissing, IndexInv, EpochInv, RowsMatchCursor
    <3>2. QED
      BY <2>2, <3>1
  <2>6. CASE Update
    <3>1. CASE ClearTraffic
      BY <2>1, <3>1 DEF ClearTraffic
    <3>2. CASE rows' = rows
      BY <2>2, <3>2
    <3>3. CASE ScanTraffic(0, TRUE)
      BY <2>1, <3>3 DEF ScanTraffic
    <3>4. CASE /\ pc = "update" /\ scan.info # None /\ SameFile(scan.info)
               /\ Incremental /\ ScanTraffic(cursor.lines, FALSE)
      BY <1>1, <3>4, AddedRows
    <3>5. QED
      BY <2>6, <3>1, <3>2, <3>3, <3>4 DEF Update
  <2>7. QED
    BY <1>1, <2>3, <2>4, <2>5, <2>6 DEF Next, Rescan
<1>2. QED
  BY <1>1, IndexInvHolds, PTL DEF Spec, RowsGrowUnlessReset

-----------------------------------------------------------------------------
(* What the readers of the index count on.                                 *)

\* A step that leaves rows and epoch is none of the contract.
LEMMA ContractStutters ==
  ASSUME rows' = rows, epoch' = epoch
  PROVE  UNCHANGED Contract!contractVars
BY DEF Contract!contractVars

\* One commit, in the terms of the contract.
LEMMA CommitIs ==
  ASSUME rows' \in Seq(Nat),
         \/ epoch > 0 /\ epoch' = epoch /\ IsPrefix(rows, rows')
         \/ epoch' = epoch + 1
         \/ epoch' = 0 /\ rows' = <<>>
  PROVE  Contract!Next
<1> DEFINE s == "session"
           allRows == [x \in {s} |-> rows]
           allEpochs == [x \in {s} |-> epoch]
<1>1. /\ allRows' = [allRows EXCEPT ![s] = allRows'[s]] /\ allRows'[s] = rows'
      /\ allEpochs' = [allEpochs EXCEPT ![s] = allEpochs'[s]] /\ allEpochs'[s] = epoch'
      /\ allRows[s] = rows /\ allEpochs[s] = epoch
  OBVIOUS
<1>2. Contract!Commit(s)
  BY <1>1 DEF Contract!Commit
<1>3. Contract!Grow(s) \/ Contract!Reset(s) \/ Contract!Forget(s)
  <2>1. CASE epoch > 0 /\ epoch' = epoch /\ IsPrefix(rows, rows')
    <3>1. Contract!IsPrefix(rows, rows')
      BY <2>1 DEF IsPrefix, Contract!IsPrefix
    <3>2. QED
      BY <1>1, <1>2, <2>1, <3>1 DEF Contract!Grow
  <2>2. CASE epoch' = epoch + 1
    BY <1>1, <1>2, <2>2 DEF Contract!Reset
  <2>3. CASE epoch' = 0 /\ rows' = <<>>
    BY <1>1, <1>2, <2>3 DEF Contract!Forget
  <2>4. QED
    BY <2>1, <2>2, <2>3
<1>4. QED
  BY <1>3 DEF Contract!Next

\* Whatever is interrupted, every commit of a rescan adds rows to those of the
\* session, rebuilds them and raises the epoch by one, or removes both.
THEOREM ContractKept == Spec => KeepsContract
<1>1. ASSUME Init PROVE Contract!Init
  <2>1. rows = <<>> /\ epoch = 0
    BY <1>1 DEF Init
  <2>2. QED
    BY <2>1 DEF Contract!Init
<1>2. ASSUME IndexInv, [Next]_vars PROVE [Contract!Next]_(Contract!contractVars)
  <2>1. rows \in Seq(1..MaxLines) /\ epoch \in Nat
    BY <1>2 DEF IndexInv, TypeOK
  <2>2. IndexInv'
    BY <1>2, IndexStep
  <2>3. rows' \in Seq(Nat)
    <3>1. rows' \in Seq(1..MaxLines)
      BY <2>2 DEF IndexInv, TypeOK
    <3>2. /\ Len(rows') \in Nat /\ rows' \in [1..Len(rows') -> 1..MaxLines]
          /\ \A n \in 1..MaxLines : n \in Nat
      BY <3>1, LenProperties, IndexAssumption
    <3>3. rows' \in [1..Len(rows') -> Nat]
      BY <3>2
    <3>4. QED
      BY <3>2, <3>3, SeqDef
  <2>4. CASE rows' = rows /\ epoch' = epoch
    BY <2>4, ContractStutters
  <2>5. CASE UNCHANGED vars
    BY <2>4, <2>5 DEF vars, dbVars
  <2>6. CASE Command \/ Write \/ Append1 \/ ReadMeta \/ Stat \/ Upsert \/ Interrupt
    BY <2>4, <2>6 DEF Command, Write, Append1, ReadMeta, Stat, Upsert, Interrupt, dbVars
  <2>7. CASE RemoveMissing
    BY <2>3, <2>7, CommitIs DEF RemoveMissing
  <2>8. CASE Update
    <3>1. CASE ClearTraffic
      BY <2>3, <3>1, CommitIs DEF ClearTraffic
    <3>2. CASE UNCHANGED <<cursor, rows, epoch>>
      BY <2>4, <3>2
    <3>3. CASE ScanTraffic(0, TRUE)
      BY <2>3, <3>3, CommitIs DEF ScanTraffic
    <3>4. CASE /\ pc = "update" /\ scan.info # None /\ SameFile(scan.info)
               /\ Incremental /\ ScanTraffic(cursor.lines, FALSE)
      <4>1. epoch > 0
        BY <1>2, <2>1, <3>4 DEF IndexInv, EpochInv, Incremental
      <4>2. epoch' = epoch
        BY <3>4 DEF ScanTraffic
      <4>3. IsPrefix(rows, rows')
        BY <1>2, <3>4, AddedRows
      <4>4. QED
        BY <2>3, <4>1, <4>2, <4>3, CommitIs
    <3>5. QED
      BY <2>8, <3>1, <3>2, <3>3, <3>4 DEF Update
  <2>9. QED
    BY <1>2, <2>5, <2>6, <2>7, <2>8 DEF Next, Rescan
<1>3. QED
  BY <1>1, <1>2, IndexInvHolds, PTL DEF Spec, KeepsContract, Contract!Spec
=============================================================================
