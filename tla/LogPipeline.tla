----------------------------- MODULE LogPipeline -----------------------------
(***************************************************************************)
(* File logging, src/src/logging.rs: threads that emit diagnostic records, *)
(* the bounded queue between them and the log worker, the worker with its  *)
(* rotating files, and `LoggingGuard', over one life of the process after  *)
(* another.                                                                *)
(*                                                                         *)
(* A file is the sequence of the bytes in it, and a byte is known by the   *)
(* number of the record that it belongs to.  File 0 is `suzumushi.log',    *)
(* file k is `suzumushi.log.k'.                                            *)
(***************************************************************************)
EXTENDS Integers, Sequences, FiniteSets

CONSTANTS
  Producers,        \* the threads that emit records
  MaxRecordBytes,   \* logging.max_record_bytes
  MarkBytes,        \* the length of the mark of a record that was cut
  MaxPiece,         \* bounds what is written to a record at once
  QueueCapacity,    \* logging.queue_capacity
  MaxLogFiles,      \* MAX_LOG_FILES
  Configs,          \* the file counts and sizes that are configured
  MaxRecords,       \* bounds the records that are queued
  MaxEmitted,       \* bounds the records of one life
  Faults,           \* what may go wrong: "crash", "io"
  Absent            \* a file that does not exist

ASSUME LogAssumption ==
  /\ {MaxRecordBytes, MarkBytes, MaxPiece, QueueCapacity, MaxLogFiles} \subseteq Nat \ {0}
  /\ {MaxRecords, MaxEmitted} \subseteq Nat
  /\ Configs \subseteq [maxFiles : 1 .. MaxLogFiles, maxFileBytes : Nat]
  /\ \A c \in Configs : MaxRecordBytes <= c.maxFileBytes
  /\ Faults \subseteq {"crash", "io"}
  /\ Absent \notin Seq(Nat)

VARIABLES
  phase,         \* of the process: "down", "prune", "open", "rotate", "run",
                 \* "closed" (`finish' was called) or "reported"
  config,        \* the configuration of this life
  record,        \* BoundedRecordWriter of each producer
  queue,         \* the records on their way to the worker
  dropped,       \* dropped_records
  writeFailed,   \* write_failed
  worker,        \* "recv", "write", "rotate", "flush" or "done"
  inHand,        \* the record that is written and how much of it is left
  bytesWritten,  \* of the current file, as RotatingWriter counts them
  rotation,      \* the next step of `rotate', and the archive it is at
  files,         \* the log directory
  report,        \* LoggingReport, NoReport before
  nextId,        \* history: the number of the next record to be queued
  emitted,       \* history: the records emitted in this life
  stored         \* history: the records written in this life

queueVars == <<record, queue, dropped, nextId, emitted>>
writerVars == <<bytesWritten, rotation, files>>
vars == <<phase, config, queueVars, writeFailed, worker, inHand, writerVars, report, stored>>

NoRecord == [id |-> 0, left |-> 0]
NoRotation == [step |-> "none", at |-> 0]
NoReport == [dropped |-> 0, failed |-> FALSE, emitted |-> 0, stored |-> 0]

-----------------------------------------------------------------------------
(* The producers: `BoundedRecordWriter' and `LogQueue'. *)

NewRecord == [bytes |-> 0, state |-> "open"]

AtMost(n, limit) == IF n <= limit THEN n ELSE limit

(* What is written beyond the limit is cut off. *)
WriteRecord(p, n) ==
  LET accepted == AtMost(n, MaxRecordBytes - record[p].bytes) IN
  /\ record[p].state # "emitted"
  /\ record' = [record EXCEPT
       ![p] = [bytes |-> @.bytes + accepted,
               state |-> IF accepted < n THEN "truncated" ELSE @.state]]
  /\ UNCHANGED <<phase, config, queue, dropped, nextId, emitted, writeFailed,
                 worker, inHand, writerVars, report, stored>>

(* `mark_truncated' *)
EmittedBytes(r) ==
  IF r.state # "truncated" THEN r.bytes
  ELSE IF MaxRecordBytes >= MarkBytes THEN MaxRecordBytes
  ELSE AtMost(MaxRecordBytes, 2)

(* Mutant: a record that finds the queue full is forgotten. *)
ForgetDropped == UNCHANGED dropped

CountDropped == dropped' = dropped + 1

(* `enqueue', under the lock: never waits.  The queue has no sender any more
   once `finish' has closed it. *)
Enqueue(bytes) ==
  IF phase # "run"
  THEN writeFailed' = TRUE /\ UNCHANGED <<queue, dropped, nextId, emitted>>
  ELSE /\ emitted < MaxEmitted
       /\ emitted' = emitted + 1
       /\ IF Len(queue) < QueueCapacity
          THEN /\ nextId <= MaxRecords
               /\ queue' = Append(queue, [id |-> nextId, left |-> bytes])
               /\ nextId' = nextId + 1
               /\ UNCHANGED dropped
          ELSE CountDropped /\ UNCHANGED <<queue, nextId>>
       /\ UNCHANGED writeFailed

(* A record is emitted when it is flushed or dropped, once and if there is
   anything in it; `make_writer' makes the next one. *)
Emit(p) ==
  /\ phase \in {"run", "closed", "reported"}
  /\ \/ /\ record[p].state # "emitted" /\ record[p].bytes > 0
        /\ Enqueue(EmittedBytes(record[p]))
        /\ record' \in {[record EXCEPT ![p] = NewRecord],
                        [record EXCEPT ![p] = [bytes |-> 0, state |-> "emitted"]]}
     \/ /\ record[p].state = "emitted"
        /\ record' = [record EXCEPT ![p] = NewRecord]
        /\ UNCHANGED <<queue, dropped, nextId, emitted, writeFailed>>
  /\ UNCHANGED <<phase, config, worker, inHand, writerVars, report, stored>>

-----------------------------------------------------------------------------
(* `rotate': every archive moves up by one, the oldest first, and then the
   current file does. *)

Exists(k) == files[k] # Absent

(* Mutant: two files are one too few to rename. *)
TruncatesPairs ==
  rotation' = IF config.maxFiles <= 2 THEN [step |-> "empty", at |-> 0]
              ELSE [step |-> "unlink", at |-> config.maxFiles - 1]

StartRotation ==
  rotation' = IF config.maxFiles = 1 THEN [step |-> "empty", at |-> 0]
              ELSE [step |-> "unlink", at |-> config.maxFiles - 1]

AfterArchive(k) ==
  IF k = 1 THEN [step |-> "create", at |-> 0] ELSE [step |-> "unlink", at |-> k - 1]

(* Nothing is deleted where there is nothing to move. *)
Unlink ==
  /\ rotation.step = "unlink"
  /\ LET k == rotation.at IN
     IF Exists(k - 1)
     THEN /\ files' = [files EXCEPT ![k] = Absent]
          /\ rotation' = [rotation EXCEPT !.step = "rename"]
     ELSE /\ rotation' = AfterArchive(k)
          /\ UNCHANGED files
  /\ UNCHANGED bytesWritten

RenameFile ==
  /\ rotation.step = "rename"
  /\ LET k == rotation.at IN
     /\ files' = [files EXCEPT ![k] = files[k - 1], ![k - 1] = Absent]
     /\ rotation' = AfterArchive(k)
  /\ UNCHANGED bytesWritten

(* An only file is cut to nothing and written from its start again. *)
SetLen ==
  /\ rotation.step = "empty"
  /\ files' = [files EXCEPT ![0] = <<>>]
  /\ rotation' = [rotation EXCEPT !.step = "seek"]
  /\ UNCHANGED bytesWritten

SeekStart ==
  /\ rotation.step = "seek"
  /\ rotation' = NoRotation
  /\ bytesWritten' = 0
  /\ UNCHANGED files

(* `create_log_file' insists on a new file. *)
CreateCurrent ==
  /\ rotation.step = "create" /\ ~Exists(0)
  /\ files' = [files EXCEPT ![0] = <<>>]
  /\ rotation' = NoRotation
  /\ bytesWritten' = 0

RotationStep == Unlink \/ RenameFile \/ SetLen \/ SeekStart \/ CreateCurrent

-----------------------------------------------------------------------------
(* The log worker. *)

WorkerKeeps == UNCHANGED <<phase, config, record, dropped, nextId, emitted, report>>

(* `recv' returns a record; it is thrown away once a write has failed. *)
Receive ==
  /\ worker = "recv" /\ queue # <<>>
  /\ queue' = Tail(queue)
  /\ IF writeFailed THEN UNCHANGED <<worker, inHand>>
     ELSE worker' = "write" /\ inHand' = Head(queue)
  /\ UNCHANGED <<writeFailed, writerVars, stored>>
  /\ WorkerKeeps

(* Mutant: a file is never filled to its last byte. *)
RotationDueEarly ==
  bytesWritten > 0 /\ bytesWritten + inHand.left >= config.maxFileBytes

RotationDue ==
  bytesWritten > 0 /\ bytesWritten + inHand.left > config.maxFileBytes

(* `write_all': the file may take a part of the record at a time, and every
   part asks again whether it fits. *)
Write ==
  /\ worker = "write"
  /\ IF RotationDue
     THEN /\ worker' = "rotate"
          /\ StartRotation
          /\ UNCHANGED <<inHand, bytesWritten, files, stored>>
     ELSE \E n \in (IF "io" \in Faults THEN 1 .. inHand.left ELSE {inHand.left}) :
            /\ files' = [files EXCEPT ![0] = @ \o [k \in 1 .. n |-> inHand.id]]
            /\ bytesWritten' = bytesWritten + n
            /\ inHand' = IF n = inHand.left THEN NoRecord ELSE [inHand EXCEPT !.left = @ - n]
            /\ worker' = IF n = inHand.left THEN "flush" ELSE "write"
            /\ stored' = IF n = inHand.left THEN stored + 1 ELSE stored
            /\ UNCHANGED rotation
  /\ UNCHANGED <<queue, writeFailed>>
  /\ WorkerKeeps

Rotate ==
  /\ worker = "rotate"
  /\ RotationStep
  /\ worker' = IF rotation' = NoRotation THEN "write" ELSE "rotate"
  /\ UNCHANGED <<queue, writeFailed, inHand, stored>>
  /\ WorkerKeeps

(* A file is not buffered: there is nothing left to flush. *)
Flush ==
  /\ worker = "flush"
  /\ worker' = "recv"
  /\ UNCHANGED <<queue, writeFailed, inHand, writerVars, stored>>
  /\ WorkerKeeps

NoteFailure == writeFailed' = TRUE

(* Any call that fails ends the writing; what a rotation has done so far stays
   done, and the worker goes on to empty the queue. *)
WriteFails ==
  /\ worker \in {"write", "rotate", "flush"}
  /\ "io" \in Faults \/ (rotation.step = "create" /\ Exists(0))
  /\ NoteFailure
  /\ worker' = "recv"
  /\ inHand' = NoRecord
  /\ rotation' = NoRotation
  /\ UNCHANGED <<queue, bytesWritten, files, stored>>
  /\ WorkerKeeps

(* Mutant: something else holds on to the sender. *)
SenderKept == FALSE

Disconnected == phase = "closed"

(* The queue is closed and empty. *)
WorkerEnds ==
  /\ worker = "recv" /\ queue = <<>> /\ Disconnected
  /\ worker' = "done"
  /\ writeFailed' \in (IF "io" \in Faults THEN {writeFailed, TRUE} ELSE {writeFailed})
  /\ UNCHANGED <<queue, inHand, writerVars, stored>>
  /\ WorkerKeeps

WorkerStep == Receive \/ Write \/ Rotate \/ Flush \/ WriteFails \/ WorkerEnds

-----------------------------------------------------------------------------
(* The life of the process: `initialize_from' and `finish'. *)

Highest == MaxLogFiles - 1

Start ==
  /\ phase = "down"
  /\ phase' = "prune"
  /\ config' \in Configs
  /\ rotation' = [step |-> "prune", at |-> config'.maxFiles]
  /\ record' = [p \in Producers |-> NewRecord]
  /\ queue' = <<>> /\ dropped' = 0 /\ writeFailed' = FALSE
  /\ worker' = "recv" /\ inHand' = NoRecord
  /\ report' = NoReport
  /\ emitted' = 0 /\ stored' = 0
  /\ UNCHANGED <<bytesWritten, files, nextId>>

StartKeeps ==
  UNCHANGED <<config, queueVars, writeFailed, worker, inHand, report, stored>>

(* `prune_archives', for fewer files than were configured before. *)
Prune ==
  /\ phase = "prune"
  /\ IF rotation.at <= Highest
     THEN /\ files' = [files EXCEPT ![rotation.at] = Absent]
          /\ rotation' = [rotation EXCEPT !.at = @ + 1]
          /\ UNCHANGED phase
     ELSE /\ phase' = "open"
          /\ rotation' = NoRotation
          /\ UNCHANGED files
  /\ UNCHANGED bytesWritten
  /\ StartKeeps

(* `open_log_file'; a file that is full already is rotated at once. *)
Open ==
  /\ phase = "open"
  /\ files' = IF Exists(0) THEN files ELSE [files EXCEPT ![0] = <<>>]
  /\ bytesWritten' = Len(files'[0])
  /\ IF bytesWritten' >= config.maxFileBytes
     THEN phase' = "rotate" /\ StartRotation
     ELSE phase' = "run" /\ UNCHANGED rotation
  /\ StartKeeps

RotateFull ==
  /\ phase = "rotate"
  /\ RotationStep
  /\ phase' = IF rotation' = NoRotation THEN "run" ELSE "rotate"
  /\ StartKeeps

(* The session does not start. *)
StartFails ==
  /\ phase \in {"prune", "open", "rotate"}
  /\ "io" \in Faults \/ (rotation.step = "create" /\ Exists(0))
  /\ phase' = "down"
  /\ rotation' = NoRotation
  /\ UNCHANGED <<bytesWritten, files>>
  /\ StartKeeps

(* `finish' closes the queue, waits for the worker, and reads what there is to
   report. *)
Close ==
  /\ phase = "run"
  /\ phase' = "closed"
  /\ UNCHANGED <<config, queueVars, writeFailed, worker, inHand, writerVars, report, stored>>

Joined == phase = "closed" /\ worker = "done"

Report ==
  /\ Joined
  /\ phase' = "reported"
  /\ report' = [dropped |-> dropped, failed |-> writeFailed, emitted |-> emitted, stored |-> stored]
  /\ UNCHANGED <<config, queueVars, writeFailed, worker, inHand, writerVars, stored>>

(* The process ends, or dies at any time before. *)
Exit ==
  /\ phase = "reported" \/ ("crash" \in Faults /\ phase # "down")
  /\ phase' = "down"
  /\ rotation' = NoRotation
  /\ UNCHANGED <<config, queueVars, writeFailed, worker, inHand, bytesWritten,
                 files, report, stored>>

-----------------------------------------------------------------------------
Init ==
  /\ phase = "down"
  /\ config \in Configs
  /\ record = [p \in Producers |-> NewRecord]
  /\ queue = <<>> /\ dropped = 0 /\ writeFailed = FALSE
  /\ worker = "recv" /\ inHand = NoRecord
  /\ bytesWritten = 0 /\ rotation = NoRotation
  /\ files = [k \in 0 .. Highest |-> Absent]
  /\ report = NoReport
  /\ nextId = 1 /\ emitted = 0 /\ stored = 0

Produce == \E p \in Producers : Emit(p) \/ \E n \in 1 .. MaxPiece : WriteRecord(p, n)

Running == phase \in {"run", "closed"}

LifeStep ==
  Start \/ Prune \/ Open \/ RotateFull \/ StartFails \/ Close \/ Report \/ Exit

Next ==
  \/ phase \in {"run", "closed", "reported"} /\ Produce
  \/ Running /\ WorkerStep
  \/ LifeStep

Spec == Init /\ [][Next]_vars

(* The worker thread is scheduled, and so is the thread that waits for it. *)
FairSpec ==
  /\ Spec
  /\ WF_vars(Running /\ WorkerStep)
  /\ WF_vars(Report)

-----------------------------------------------------------------------------
(* What can be read in the log directory is in the order in which it was
   emitted, from the highest archive down to the current file, and no record is
   spread over two files, wherever a rotation was interrupted. *)
LogsInOrder ==
  \A j, k \in 0 .. Highest : Exists(j) /\ Exists(k) =>
    \A a \in DOMAIN files[j], b \in DOMAIN files[k] :
      /\ j > k => files[j][a] < files[k][b]
      /\ j = k /\ a < b => files[j][a] <= files[k][b]

OnDisk == UNION {{files[k][b] : b \in DOMAIN files[k]} : k \in {i \in 0 .. Highest : Exists(i)}}

(* A rotation loses only the oldest: whatever leaves the disk is older than all
   that stays, and unless there is only one file something does stay, at every
   single step and from whatever an interrupted rotation left behind.  (Only
   `prune_archives', for a configuration with fewer files, starts from the newest
   archive that is too many.) *)
OldestLost ==
  [][ LET lost == OnDisk \ OnDisk' IN
      phase # "prune" /\ lost # {} =>
        /\ config.maxFiles > 1 => OnDisk' # {}
        /\ \A r \in lost, q \in OnDisk' : r < q ]_vars

(* No record is lost without a trace: unless a failure is reported, every record
   that was emitted is in the files, on its way there or counted as dropped, and
   once `finish' has returned none is on its way. *)
RecordsAccounted ==
  /\ ~writeFailed =>
       emitted = dropped + stored + Len(queue) + (IF inHand.id = 0 THEN 0 ELSE 1)
  /\ phase = "reported" /\ ~report.failed =>
       report.emitted = report.dropped + report.stored

(* `finish' returns: the queue is closed although the subscriber stays, and the
   worker empties it even when it can no longer write. *)
FinishEnds == phase = "closed" ~> phase # "closed"

=============================================================================
