------------------------------ MODULE BodyCapture ------------------------------
(***************************************************************************)
(* capturingReadCloser: a body that passes through Proxify and the copy    *)
(* that is kept of it.  The goroutine that forwards the body reads it; it  *)
(* may be closed by another one.  The payload of a request body is taken   *)
(* when its response arrives, at whatever point the reading is; that of a  *)
(* response when it ends or is closed, and then the exchange is logged.    *)
(***************************************************************************)
EXTENDS Integers, Sequences

CONSTANTS BodyKinds, \* [declared, size] of the bodies; declared is -1 when unknown
          MaxBody    \* maxBodyBytes

ASSUME BodyAssumption ==
  /\ \A k \in BodyKinds : k.size \in Nat /\ k.declared \in {-1, k.size}
  /\ MaxBody \in Nat

VARIABLES
  side,     \* of which message it is the body
  kind,     \* its declared and its true length
  passed,   \* bytes the source has given out
  counted,  \* totalRead
  sawEnd,   \* reachedEOF
  reader,   \* what the forwarding goroutine does in Read
  pending,  \* count and error of the read that is not yet counted
  closer,   \* what the closing goroutine does
  done,     \* the sync.Once
  payloads  \* history: the payloads given out

bodyVars == <<side, kind, passed, counted, sawEnd, reader, pending, closer, done, payloads>>

BodyTypeOK ==
  /\ side \in {"request", "response"} /\ kind \in BodyKinds
  /\ counted \in 0..passed /\ passed \in 0..kind.size
  /\ sawEnd \in BOOLEAN /\ done \in BOOLEAN
  /\ pending \in [count : 0..kind.size, error : {"none", "EOF", "other"}]
  /\ reader \in {"idle", "count", "complete", "ended"}
  /\ reader # "count" => passed = counted
  /\ closer \in {"idle", "complete", "ended"}
  /\ payloads \in Seq([captured : 0..MaxBody, truncated : BOOLEAN])

BodyInit ==
  /\ side \in {"request", "response"} /\ kind \in BodyKinds
  /\ passed = 0 /\ counted = 0 /\ sawEnd = FALSE
  /\ reader = "idle" /\ pending = [count |-> 0, error |-> "none"]
  /\ closer = "idle" /\ done = FALSE
  /\ payloads = <<>>

Captured == IF counted < MaxBody THEN counted ELSE MaxBody

\* Mutant: a body of unknown length is cut off only by the limit.
TruncatedByLimit ==
  IF kind.declared >= 0 THEN kind.declared > Captured ELSE counted > Captured

Truncated ==
  IF kind.declared >= 0 THEN kind.declared > Captured ELSE ~sawEnd \/ counted > Captured

\* payload, under the lock of the copy.
Give ==
  payloads' = Append(payloads, [captured |-> Captured, truncated |-> Truncated])

\* source.Read returns some bytes, the end with or after the last ones, or an error.
SourceReads ==
  /\ reader = "idle"
  /\ \E n \in 0..(kind.size - passed), error \in {"none", "EOF", "other"} :
       /\ error = "EOF" => passed + n = kind.size
       /\ n > 0 \/ error # "none"
       /\ closer # "idle" => n = 0 /\ error = "other"
       /\ passed' = passed + n
       /\ pending' = [count |-> n, error |-> error]
  /\ reader' = "count"
  /\ UNCHANGED <<side, kind, counted, sawEnd, closer, done, payloads>>

CountRead ==
  /\ reader = "count"
  /\ counted' = counted + pending.count
  /\ sawEnd' = (sawEnd \/ pending.error = "EOF")
  /\ reader' = IF pending.error = "none" THEN "idle" ELSE "complete"
  /\ pending' = [count |-> 0, error |-> "none"]
  /\ UNCHANGED <<side, kind, passed, closer, done, payloads>>

\* What an error of the source's Close adds to the payload, its text in readError, is
\* left out: it decides neither what was kept nor whether it counts as truncated.
CloseSource ==
  /\ closer = "idle" /\ closer' = "complete"
  /\ UNCHANGED <<side, kind, passed, counted, sawEnd, reader, pending, done, payloads>>

\* complete: the first time, and only for a response.
Complete ==
  IF side = "request" \/ done THEN UNCHANGED <<done, payloads>>
  ELSE done' = TRUE /\ Give

ReaderCompletes ==
  /\ reader = "complete" /\ reader' = "ended"
  /\ Complete
  /\ UNCHANGED <<side, kind, passed, counted, sawEnd, pending, closer>>

CloserCompletes ==
  /\ closer = "complete" /\ closer' = "ended"
  /\ Complete
  /\ UNCHANGED <<side, kind, passed, counted, sawEnd, reader, pending>>

\* wrapResponseCapture asks for the payload of the request body, once.
ResponseArrives ==
  /\ side = "request" /\ ~done
  /\ done' = TRUE /\ Give
  /\ UNCHANGED <<side, kind, passed, counted, sawEnd, reader, pending, closer>>

BodyNext ==
  \/ SourceReads \/ CountRead \/ CloseSource
  \/ ReaderCompletes \/ CloserCompletes \/ ResponseArrives

BodySpec == BodyInit /\ [][BodyNext]_bodyVars

-----------------------------------------------------------------------------
\* An exchange has one payload of each body, and what it says is true: a body that
\* is not marked truncated was kept in full, wherever the reading was when the
\* payload was taken (cli/README.md:210: what is cut off is marked).  A response
\* that was read to its end or closed has given its payload.
PayloadIsTrue ==
  /\ Len(payloads) <= 1
  /\ \A i \in DOMAIN payloads : payloads[i].truncated \/ payloads[i].captured = kind.size
  /\ side = "response" /\ "ended" \in {reader, closer} => payloads # <<>>

\* What the payload rests on: the read that is not yet counted is what counted
\* lacks, the end of the source is seen only behind its last byte, and complete
\* runs once.
BodyInv ==
  /\ BodyTypeOK
  /\ counted + pending.count = passed
  /\ reader # "count" => pending = [count |-> 0, error |-> "none"]
  /\ pending.error = "EOF" => passed = kind.size
  /\ sawEnd => counted = kind.size
  /\ Len(payloads) = IF done THEN 1 ELSE 0
  /\ PayloadIsTrue
=============================================================================
