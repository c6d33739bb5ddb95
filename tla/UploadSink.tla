----------------------------- MODULE UploadSink -----------------------------
(***************************************************************************)
(* Streaming to R2 in parts of one size (gallery/storage.py): a sink that   *)
(* buffers what it is given, and its two users, the archive builder, which  *)
(* writes a directory after the last photo - after a failure as well - and  *)
(* upload_streaming_body_to_r2.  What is streamed is numbered: a part is an *)
(* interval of the stream.                                                  *)
(***************************************************************************)
EXTENDS Integers, Sequences

CONSTANTS
    Chunk,          \* MULTIPART_CHUNK_BYTES
    MaxParts,       \* parts R2 allows in one upload
    MaxStream,      \* bound: bytes streamed
    MaxRefusals       \* bound: calls to R2 that fail

ASSUME SinkAssumption ==
    /\ Chunk \in Nat \ {0} /\ MaxParts \in Nat \ {0}
    /\ MaxStream \in Nat /\ MaxRefusals \in Nat

VARIABLES
    upload,     \* the sink: open, completed or aborted
    written,    \* bytes taken
    flushed,    \* bytes taken out of the buffer
    parts,      \* parts R2 has acknowledged: <<first, last>>
    writer,       \* the caller: "writing", "footer" after a failure, "done" or "failed"
    full,       \* a write is flushing its parts
    object,     \* the parts of the object R2 shows, none if there is none
    faults

sinkVars == <<upload, written, flushed, parts, writer, full, object, faults>>

NoObject == <<>>
Intervals == (1..(MaxStream + 1)) \X (0..MaxStream)

SinkTypeOK ==
    /\ upload \in {"open", "completed", "aborted"}
    /\ written \in 0..MaxStream /\ flushed \in 0..written
    /\ parts \in Seq(Intervals) /\ Len(parts) <= MaxParts
    /\ writer \in {"writing", "footer", "done", "failed"}
    /\ full \in BOOLEAN
    /\ object \in Seq(Intervals)
    /\ faults \in 0..MaxRefusals

SinkInit ==
    /\ upload = "open"
    /\ written = 0 /\ flushed = 0
    /\ parts = <<>>
    /\ writer = "writing" /\ full = FALSE
    /\ object = NoObject
    /\ faults = 0

Buffered == written - flushed

(* R2 answers, or the call fails: by itself or because there are too many   *)
(* parts.                                                                   *)
CanAnswer == Len(parts) < MaxParts
CanFail == faults < MaxRefusals \/ ~CanAnswer
Fault == faults' = IF CanAnswer THEN faults + 1 ELSE faults

Write(n) ==
    /\ writer \in {"writing", "footer"} /\ ~full
    /\ written + n <= MaxStream
    /\ written' = written + n
    /\ full' = (Buffered + n >= Chunk)
    /\ writer' = IF writer = "footer" /\ ~full' THEN "failed" ELSE writer
    /\ UNCHANGED <<upload, flushed, parts, object, faults>>

(* One round of the loop in write(): the buffer gives a chunk away before   *)
(* R2 is asked to take it, and a refusal ends the write.                    *)
FlushChunk ==
    /\ full
    /\ flushed' = flushed + Chunk
    /\ \/ /\ CanAnswer
          /\ parts' = Append(parts, <<flushed + 1, flushed'>>)
          /\ full' = (written - flushed' >= Chunk)
          /\ UNCHANGED <<writer, faults>>
       \/ /\ CanFail /\ Fault
          /\ writer' \in IF writer = "footer" THEN {"failed"} ELSE {"footer", "failed"}
          /\ full' = FALSE
          /\ UNCHANGED parts
    /\ UNCHANGED <<upload, written, object>>

(* Reading the source fails: the archive writes its footer all the same.    *)
SourceFails ==
    /\ writer = "writing" /\ ~full
    /\ writer' \in {"footer", "failed"}
    /\ UNCHANGED <<upload, written, flushed, parts, full, object, faults>>

(* Mutant: a user whose write has failed closes the sink.                   *)
CloseAlways ==
    /\ writer \in {"writing", "footer"} /\ ~full /\ upload = "open" /\ written > 0
    /\ writer' = "done" /\ upload' = "completed"
    /\ object' = IF Buffered > 0 THEN Append(parts, <<flushed + 1, written>>) ELSE parts
    /\ flushed' = written
    /\ UNCHANGED <<written, parts, full, faults>>

(* close(): the rest, or one empty part, is flushed and the upload          *)
(* completed; R2 may have done so and the answer be lost.                   *)
Close ==
    /\ writer = "writing" /\ ~full /\ upload = "open"
    /\ LET last == IF Buffered > 0 \/ parts = <<>>
                   THEN <<<<flushed + 1, written>>>> ELSE <<>>
       IN  \/ /\ CanAnswer \/ last = <<>>
              /\ object' = parts \o last
              /\ \/ writer' = "done" /\ upload' = "completed" /\ UNCHANGED faults
                 \/ /\ faults < MaxRefusals /\ faults' = faults + 1
                    /\ writer' = "failed" /\ upload' = "aborted"
              /\ parts' = object'
           \/ /\ CanFail /\ Fault
              /\ writer' = "failed" /\ upload' = "aborted"
              /\ UNCHANGED <<object, parts>>
    /\ flushed' = written
    /\ UNCHANGED <<written, full>>

(* The writer's except clause; close() has done the same before it.           *)
Abort ==
    /\ writer = "failed" /\ upload = "open"
    /\ upload' = "aborted"
    /\ UNCHANGED <<written, flushed, parts, writer, full, object, faults>>

SinkNext ==
    \/ \E n \in 1..(2 * Chunk) : Write(n)
    \/ FlushChunk \/ SourceFails \/ Close \/ Abort

SinkSpec == SinkInit /\ [][SinkNext]_sinkVars
-----------------------------------------------------------------------------
(* An object in R2 is all that was written before the sink was closed, once *)
(* and in order, in parts of one size but the last, and no upload that is   *)
(* reported as done is without its object (storage.py:281-349).             *)
UploadWhole ==
    /\ writer = "done" => object # NoObject
    /\ object # NoObject =>
        /\ object[Len(object)][2] = written
        /\ \A i \in DOMAIN object :
            /\ object[i][1] = IF i = 1 THEN 1 ELSE object[i - 1][2] + 1
            /\ i < Len(object) => object[i][2] - object[i][1] = Chunk - 1
=============================================================================
