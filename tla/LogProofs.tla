------------------------------ MODULE LogProofs ------------------------------
(***************************************************************************)
(* Theorems about LogPipeline: for queues, files and records of any size   *)
(* and any number of producers, no record is lost without a trace, and     *)
(* what is on disk is in the order in which it was emitted, also when      *)
(* writes fail and processes die at any step.                              *)
(*                                                                         *)
(* The order rests on two facts: all that is on disk was queued before all *)
(* that is still on its way, and a record that is written in part leaves   *)
(* room for its rest, so that no rotation becomes due between its parts.   *)
(***************************************************************************)
EXTENDS LogPipeline, SequenceTheorems, TLAPS

Phases == {"down", "prune", "open", "rotate", "run", "closed", "reported"}
Workers == {"recv", "write", "rotate", "flush", "done"}
RecordState == [bytes : 0 .. MaxRecordBytes, state : {"open", "truncated", "emitted"}]
Queued == [id : Nat \ {0}, left : 1 .. MaxRecordBytes]
Reports == [dropped : Nat, failed : BOOLEAN, emitted : Nat, stored : Nat]

Typed ==
  /\ phase \in Phases
  /\ config \in Configs
  /\ record \in [Producers -> RecordState]
  /\ queue \in Seq(Queued)
  /\ dropped \in Nat /\ emitted \in Nat /\ stored \in Nat /\ nextId \in Nat \ {0}
  /\ writeFailed \in BOOLEAN
  /\ worker \in Workers
  /\ inHand \in Queued \cup {NoRecord}
  /\ report \in Reports

(* The worker has a record in hand exactly while it writes it. *)
InHand == (worker \in {"write", "rotate"}) = (inHand # NoRecord)

(* A life starts with a new worker, which only ends an empty, closed queue. *)
Ends ==
  /\ phase \in {"prune", "open", "rotate"} => worker = "recv"
  /\ worker = "done" => queue = <<>> /\ phase \in {"closed", "reported", "down"}

AccountInv == Typed /\ InHand /\ Ends /\ RecordsAccounted

-----------------------------------------------------------------------------
(* Records. *)

LEMMA Sizes ==
  /\ MaxRecordBytes \in Nat \ {0} /\ MarkBytes \in Nat \ {0} /\ MaxPiece \in Nat \ {0}
  /\ QueueCapacity \in Nat \ {0} /\ MaxLogFiles \in Nat \ {0}
BY LogAssumption

LEMMA RecordFields ==
  ASSUME NEW r \in RecordState
  PROVE  r.bytes \in 0 .. MaxRecordBytes /\ r.state \in {"open", "truncated", "emitted"}
BY DEF RecordState

LEMMA QueuedFields ==
  ASSUME NEW r \in Queued
  PROVE  r.id \in Nat \ {0} /\ r.left \in 1 .. MaxRecordBytes /\ r # NoRecord
BY DEF Queued, NoRecord

(* What is emitted of a record is something, and not more than a record holds. *)
LEMMA EmittedSize ==
  ASSUME NEW r \in RecordState, r.bytes > 0
  PROVE  EmittedBytes(r) \in 1 .. MaxRecordBytes
BY Sizes, RecordFields DEF EmittedBytes, AtMost

LEMMA NewRecordTyped == NewRecord \in RecordState
BY Sizes DEF NewRecord, RecordState

(* What is appended to a record stays within it. *)
LEMMA PieceAccepted ==
  ASSUME NEW r \in RecordState, NEW n \in 1 .. MaxPiece
  PROVE  r.bytes + AtMost(n, MaxRecordBytes - r.bytes) \in 0 .. MaxRecordBytes
BY Sizes, RecordFields DEF AtMost

LEMMA InitAccount == Init => AccountInv
<1> SUFFICES ASSUME Init PROVE AccountInv
  OBVIOUS
<1>1. Typed
  <2>1. queue \in Seq(Queued)
    BY EmptySeq DEF Init
  <2>2. record \in [Producers -> RecordState]
    BY NewRecordTyped DEF Init
  <2>3. report \in Reports
    BY DEF Init, NoReport, Reports
  <2>4. /\ dropped \in Nat /\ emitted \in Nat /\ stored \in Nat /\ nextId \in Nat \ {0}
        /\ phase \in Phases /\ worker \in Workers
    BY DEF Init, Phases, Workers
  <2>5. config \in Configs /\ writeFailed \in BOOLEAN /\ inHand = NoRecord
    BY DEF Init
  <2> QED
    BY <2>1, <2>2, <2>3, <2>4, <2>5 DEF Typed
<1>2. InHand /\ Ends
  BY DEF Init, InHand, Ends
<1>3. RecordsAccounted
  BY EmptySeq DEF Init, RecordsAccounted, NoRecord, NoReport
<1> QED
  BY <1>1, <1>2, <1>3 DEF AccountInv

(* Steps that leave alone what the account is about. *)
LEMMA AccountKept ==
  ASSUME AccountInv, phase' \in Phases, phase' # "reported",
         phase' \in {"prune", "open", "rotate"} => phase \in {"prune", "open", "rotate"},
         phase' \in {"closed", "down"} \/ worker # "done",
         UNCHANGED <<config, queueVars, writeFailed, worker, inHand, report, stored>>
  PROVE  AccountInv'
<1>1. Typed'
  BY DEF AccountInv, Typed, queueVars
<1>2. InHand'
  BY DEF AccountInv, InHand
<1>3. Ends'
  BY DEF AccountInv, Ends, queueVars
<1>4. RecordsAccounted'
  BY DEF AccountInv, RecordsAccounted, queueVars
<1> QED
  BY <1>1, <1>2, <1>3, <1>4 DEF AccountInv

LEMMA WriteRecordAccount ==
  ASSUME AccountInv, NEW p \in Producers, NEW n \in 1 .. MaxPiece, WriteRecord(p, n)
  PROVE  AccountInv'
<1>1. record' \in [Producers -> RecordState]
  <2>1. record \in [Producers -> RecordState]
    BY DEF AccountInv, Typed
  <2>2. record[p] \in RecordState
    BY <2>1
  <2> DEFINE b == record[p].bytes + AtMost(n, MaxRecordBytes - record[p].bytes)
             s == IF AtMost(n, MaxRecordBytes - record[p].bytes) < n THEN "truncated"
                  ELSE record[p].state
  <2>3. b \in 0 .. MaxRecordBytes /\ s \in {"open", "truncated", "emitted"}
    BY <2>2, PieceAccepted, RecordFields
  <2>4. record' = [record EXCEPT ![p] = [bytes |-> b, state |-> s]]
    BY DEF WriteRecord
  <2> HIDE DEF b, s
  <2>5. [bytes |-> b, state |-> s] \in RecordState
    BY <2>3 DEF RecordState
  <2> QED
    BY <2>1, <2>4, <2>5
<1>2. Typed'
  BY <1>1 DEF AccountInv, Typed, WriteRecord
<1>3. InHand' /\ Ends'
  BY DEF AccountInv, InHand, Ends, WriteRecord
<1>4. RecordsAccounted'
  BY DEF AccountInv, RecordsAccounted, WriteRecord
<1> QED
  BY <1>2, <1>3, <1>4 DEF AccountInv

LEMMA EmitAccount ==
  ASSUME AccountInv, NEW p \in Producers, Emit(p)
  PROVE  AccountInv'
<1>1. /\ Typed /\ InHand /\ Ends /\ RecordsAccounted
      /\ record \in [Producers -> RecordState] /\ queue \in Seq(Queued)
      /\ dropped \in Nat /\ emitted \in Nat /\ stored \in Nat /\ nextId \in Nat \ {0}
  BY DEF AccountInv, Typed
<1>2. record' \in [Producers -> RecordState]
  <2>1. [bytes |-> 0, state |-> "emitted"] \in RecordState
    BY Sizes DEF RecordState
  <2> QED
    BY <1>1, <2>1, NewRecordTyped DEF Emit
<1>3. UNCHANGED <<phase, config, worker, inHand, report, stored>>
  BY DEF Emit
<1>4. \/ UNCHANGED <<queue, dropped, nextId, emitted, writeFailed>>
      \/ record[p].bytes > 0 /\ Enqueue(EmittedBytes(record[p]))
  BY DEF Emit
<1>5. CASE UNCHANGED <<queue, dropped, nextId, emitted, writeFailed>>
  <2>1. Typed'
    BY <1>2, <1>3, <1>5 DEF AccountInv, Typed
  <2>2. InHand' /\ Ends'
    BY <1>3, <1>5 DEF AccountInv, InHand, Ends
  <2>3. RecordsAccounted'
    BY <1>3, <1>5 DEF AccountInv, RecordsAccounted
  <2> QED
    BY <2>1, <2>2, <2>3 DEF AccountInv
<1>6. CASE record[p].bytes > 0 /\ Enqueue(EmittedBytes(record[p]))
  <2> DEFINE size == EmittedBytes(record[p])
             new == [id |-> nextId, left |-> size]
  <2>1. size \in 1 .. MaxRecordBytes
    BY <1>1, <1>6, EmittedSize
  <2>2. Enqueue(size)
    BY <1>6
  <2> HIDE DEF size
  <2>3. new \in Queued
    BY <1>1, <2>1 DEF Queued
  <2>4. CASE phase # "run"
    <3>1. writeFailed' = TRUE /\ UNCHANGED <<queue, dropped, nextId, emitted>>
      BY <2>2, <2>4 DEF Enqueue
    <3>2. Typed'
      BY <1>2, <1>3, <3>1 DEF AccountInv, Typed
    <3>3. InHand' /\ Ends'
      BY <1>3, <3>1 DEF AccountInv, InHand, Ends
    <3>4. RecordsAccounted'
      BY <1>3, <3>1 DEF AccountInv, RecordsAccounted
    <3> QED
      BY <3>2, <3>3, <3>4 DEF AccountInv
  <2>5. CASE phase = "run" /\ Len(queue) < QueueCapacity
    <3>1. /\ queue' = Append(queue, new) /\ nextId' = nextId + 1
          /\ emitted' = emitted + 1 /\ UNCHANGED <<dropped, writeFailed>>
      BY <2>2, <2>5 DEF Enqueue
    <3> HIDE DEF new
    <3>2. queue' \in Seq(Queued) /\ Len(queue') = Len(queue) + 1 /\ Len(queue) \in Nat
      BY <1>1, <2>3, <3>1, AppendProperties, LenProperties
    <3>3. Typed'
      BY <1>1, <1>2, <1>3, <3>1, <3>2 DEF Typed
    <3>4. worker # "done"
      BY <1>1, <2>5 DEF Ends
    <3>5. InHand' /\ Ends'
      BY <1>1, <1>3, <3>4, <2>5 DEF InHand, Ends
    <3>6. RecordsAccounted'
      BY <1>1, <1>3, <2>5, <3>1, <3>2 DEF RecordsAccounted
    <3> QED
      BY <3>3, <3>5, <3>6 DEF AccountInv
  <2>6. CASE phase = "run" /\ ~(Len(queue) < QueueCapacity)
    <3>1. /\ dropped' = dropped + 1 /\ UNCHANGED <<queue, nextId, writeFailed>>
          /\ emitted' = emitted + 1
      BY <2>2, <2>6 DEF Enqueue, CountDropped
    <3>2. Len(queue) \in Nat
      BY <1>1, LenProperties
    <3>3. Typed'
      BY <1>1, <1>2, <1>3, <3>1 DEF Typed
    <3>4. InHand' /\ Ends'
      BY <1>1, <1>3, <3>1 DEF InHand, Ends
    <3>5. RecordsAccounted'
      BY <1>1, <1>3, <2>6, <3>1, <3>2 DEF RecordsAccounted
    <3> QED
      BY <3>3, <3>4, <3>5 DEF AccountInv
  <2> QED
    BY <2>4, <2>5, <2>6
<1> QED
  BY <1>4, <1>5, <1>6

LEMMA ReceiveAccount ==
  ASSUME AccountInv, Running, Receive
  PROVE  AccountInv'
<1>1. /\ Typed /\ InHand /\ Ends /\ RecordsAccounted /\ queue \in Seq(Queued) /\ queue # <<>>
  BY DEF AccountInv, Typed, Receive
<1>2. /\ queue' \in Seq(Queued) /\ Len(queue') = Len(queue) - 1 /\ Head(queue) \in Queued
      /\ Len(queue) \in Nat /\ queue' = Tail(queue)
  BY <1>1, HeadTailProperties, LenProperties DEF Receive
<1>3. /\ UNCHANGED <<phase, config, record, dropped, nextId, emitted, report, writeFailed, stored>>
      /\ worker = "recv"
  BY DEF Receive, WorkerKeeps
<1>4. CASE writeFailed
  <2>1. UNCHANGED <<worker, inHand>>
    BY <1>4 DEF Receive
  <2>2. Typed'
    BY <1>1, <1>2, <1>3, <2>1 DEF Typed
  <2>3. InHand' /\ Ends'
    BY <1>1, <1>3, <2>1 DEF InHand, Ends
  <2>4. RecordsAccounted'
    BY <1>1, <1>3, <1>4, <2>1 DEF RecordsAccounted
  <2> QED
    BY <2>2, <2>3, <2>4 DEF AccountInv
<1>5. CASE ~writeFailed
  <2>1. worker' = "write" /\ inHand' = Head(queue)
    BY <1>5 DEF Receive
  <2>2. inHand' \in Queued /\ inHand'.id # 0 /\ inHand' # NoRecord
    BY <1>2, <2>1, QueuedFields
  <2>3. Ends'
    BY <1>3, <2>1 DEF Ends, Running
  <2>4. Typed'
    BY <1>1, <1>2, <1>3, <2>1, <2>2 DEF Typed, Workers
  <2>5. InHand'
    BY <2>1, <2>2 DEF InHand
  <2>6. inHand = NoRecord
    BY <1>1, <1>3 DEF InHand
  <2>7. RecordsAccounted'
    <3>1. dropped \in Nat /\ stored \in Nat /\ emitted \in Nat
      BY <1>1 DEF Typed
    <3> QED
      BY <1>1, <1>2, <1>3, <1>5, <2>2, <2>6, <3>1 DEF RecordsAccounted, NoRecord
  <2> QED
    BY <2>3, <2>4, <2>5, <2>7 DEF AccountInv
<1> QED
  BY <1>4, <1>5

(* A step of the worker that neither takes nor finishes a record. *)
LEMMA WorkerMoved ==
  ASSUME AccountInv, Running, WorkerKeeps, UNCHANGED <<queue, writeFailed, stored>>,
         worker' \in Workers \ {"done"}, inHand' \in Queued \cup {NoRecord},
         (worker' \in {"write", "rotate"}) = (inHand' # NoRecord),
         (inHand'.id = 0) = (inHand.id = 0)
  PROVE  AccountInv'
<1>1. Typed /\ RecordsAccounted
  BY DEF AccountInv
<1>2. Typed'
  BY <1>1 DEF Typed, WorkerKeeps
<1>3. InHand' /\ Ends'
  BY DEF InHand, Ends, Running, WorkerKeeps
<1>4. RecordsAccounted'
  BY <1>1 DEF RecordsAccounted, WorkerKeeps
<1> QED
  BY <1>2, <1>3, <1>4 DEF AccountInv

LEMMA WriteAccount ==
  ASSUME AccountInv, Running, Write
  PROVE  AccountInv'
<1>1. /\ Typed /\ InHand /\ Ends /\ RecordsAccounted /\ worker = "write"
      /\ WorkerKeeps /\ UNCHANGED <<queue, writeFailed>>
  BY DEF AccountInv, Write
<1>2. inHand \in Queued /\ inHand # NoRecord /\ inHand.id # 0 /\ inHand.left \in 1 .. MaxRecordBytes
      /\ inHand.id \in Nat
  BY <1>1, QueuedFields DEF InHand, Typed
<1>3. CASE RotationDue
  <2>1. worker' = "rotate" /\ UNCHANGED <<inHand, stored>>
    BY <1>3 DEF Write
  <2> QED
    BY <1>1, <1>2, <2>1, WorkerMoved DEF Workers
<1>4. CASE ~RotationDue
  <2>1. PICK n \in 1 .. inHand.left :
          /\ inHand' = IF n = inHand.left THEN NoRecord ELSE [inHand EXCEPT !.left = @ - n]
          /\ worker' = IF n = inHand.left THEN "flush" ELSE "write"
          /\ stored' = IF n = inHand.left THEN stored + 1 ELSE stored
    <3>1. (IF "io" \in Faults THEN 1 .. inHand.left ELSE {inHand.left}) \subseteq 1 .. inHand.left
      BY <1>2, Sizes
    <3> QED
      BY <1>4, <3>1, Zenon DEF Write
  <2>2. CASE n = inHand.left
    <3>1. inHand' = NoRecord /\ worker' = "flush" /\ stored' = stored + 1
      BY <2>1, <2>2
    <3>2. Typed'
      BY <1>1, <3>1 DEF Typed, WorkerKeeps, Workers
    <3>3. InHand' /\ Ends'
      BY <1>1, <3>1 DEF InHand, Ends, Running, WorkerKeeps
    <3>4. RecordsAccounted'
      <4>1. dropped \in Nat /\ stored \in Nat /\ emitted \in Nat /\ Len(queue) \in Nat
        BY <1>1, LenProperties DEF Typed
      <4> QED
        BY <1>1, <1>2, <3>1, <4>1 DEF RecordsAccounted, NoRecord, WorkerKeeps, Running
    <3> QED
      BY <3>2, <3>3, <3>4 DEF AccountInv
  <2>3. CASE n # inHand.left
    <3>1. inHand' = [inHand EXCEPT !.left = @ - n] /\ worker' = "write" /\ UNCHANGED stored
      BY <2>1, <2>3
    <3>2. inHand.left - n \in 1 .. MaxRecordBytes
      BY <1>2, <2>1, <2>3, Sizes
    <3>3. inHand' \in Queued /\ inHand'.id = inHand.id
      BY <1>2, <3>1, <3>2 DEF Queued
    <3>4. inHand' # NoRecord
      BY <3>3, QueuedFields
    <3> QED
      BY <1>1, <3>1, <3>3, <3>4, WorkerMoved DEF Workers
  <2> QED
    BY <2>2, <2>3
<1> QED
  BY <1>3, <1>4

LEMMA RotateAccount ==
  ASSUME AccountInv, Running, Rotate
  PROVE  AccountInv'
<1>1. Typed /\ InHand
  BY DEF AccountInv
<1> QED
  BY <1>1, WorkerMoved DEF Rotate, InHand, Typed, Workers

LEMMA FlushAccount ==
  ASSUME AccountInv, Running, Flush
  PROVE  AccountInv'
<1>1. Typed /\ InHand
  BY DEF AccountInv
<1> QED
  BY <1>1, WorkerMoved DEF Flush, InHand, Typed, Workers

LEMMA WriteFailsAccount ==
  ASSUME AccountInv, Running, WriteFails
  PROVE  AccountInv'
<1>1. /\ Typed /\ InHand /\ Ends /\ RecordsAccounted
      /\ WorkerKeeps /\ UNCHANGED <<queue, stored>>
      /\ writeFailed' = TRUE /\ worker' = "recv" /\ inHand' = NoRecord
  BY DEF AccountInv, WriteFails, NoteFailure
<1>2. Typed'
  BY <1>1 DEF Typed, WorkerKeeps, Workers
<1>3. InHand' /\ Ends'
  BY <1>1 DEF InHand, Ends, Running, WorkerKeeps
<1>4. RecordsAccounted'
  BY <1>1 DEF RecordsAccounted, Running, WorkerKeeps
<1> QED
  BY <1>2, <1>3, <1>4 DEF AccountInv

LEMMA WorkerEndsAccount ==
  ASSUME AccountInv, WorkerEnds
  PROVE  AccountInv'
<1>1. /\ Typed /\ InHand /\ Ends /\ RecordsAccounted
      /\ WorkerKeeps /\ UNCHANGED <<queue, inHand, stored>>
      /\ writeFailed' \in {writeFailed, TRUE} /\ worker' = "done" /\ worker = "recv"
      /\ queue = <<>> /\ phase = "closed"
  BY DEF AccountInv, WorkerEnds, Disconnected
<1>2. Typed'
  BY <1>1 DEF Typed, WorkerKeeps, Workers
<1>3. InHand' /\ Ends'
  BY <1>1 DEF InHand, Ends, WorkerKeeps
<1>4. RecordsAccounted'
  BY <1>1 DEF RecordsAccounted, WorkerKeeps
<1> QED
  BY <1>2, <1>3, <1>4 DEF AccountInv

-----------------------------------------------------------------------------
(* The life of the process. *)

LEMMA StartAccount ==
  ASSUME AccountInv, Start
  PROVE  AccountInv'
<1>1. queue' \in Seq(Queued) /\ Len(queue') = 0
  BY EmptySeq DEF Start
<1>2. record' \in [Producers -> RecordState]
  BY NewRecordTyped DEF Start
<1>3. report' \in Reports
  BY DEF Start, NoReport, Reports
<1>4. /\ dropped' \in Nat /\ emitted' \in Nat /\ stored' \in Nat /\ nextId' \in Nat \ {0}
      /\ phase' \in Phases /\ worker' \in Workers
  BY DEF AccountInv, Typed, Start, Phases, Workers
<1>5. config' \in Configs /\ writeFailed' \in BOOLEAN /\ inHand' = NoRecord
  BY DEF Start
<1>6. Typed'
  BY <1>1, <1>2, <1>3, <1>4, <1>5 DEF Typed
<1>7. InHand' /\ Ends'
  BY DEF Start, InHand, Ends
<1>8. RecordsAccounted'
  BY <1>1 DEF Start, RecordsAccounted, NoRecord
<1> QED
  BY <1>6, <1>7, <1>8 DEF AccountInv

LEMMA ReportAccount ==
  ASSUME AccountInv, Report
  PROVE  AccountInv'
<1>1. /\ Typed /\ InHand /\ Ends /\ RecordsAccounted
      /\ phase' = "reported" /\ worker = "done" /\ queue = <<>> /\ inHand = NoRecord
      /\ UNCHANGED <<config, queueVars, writeFailed, worker, inHand, stored>>
      /\ report' = [dropped |-> dropped, failed |-> writeFailed, emitted |-> emitted,
                     stored |-> stored]
  BY DEF AccountInv, Report, Joined, Ends, InHand
<1>2. report' \in Reports
  BY <1>1 DEF Reports, Typed
<1>3. Typed'
  BY <1>1, <1>2 DEF Typed, queueVars, Phases
<1>4. InHand' /\ Ends'
  BY <1>1 DEF InHand, Ends, queueVars
<1>5. RecordsAccounted'
  <2>1. Len(queue) = 0 /\ inHand.id = 0
    BY <1>1, EmptySeq DEF NoRecord
  <2>2. dropped \in Nat /\ stored \in Nat /\ emitted \in Nat
    BY <1>1 DEF Typed
  <2> QED
    BY <1>1, <2>1, <2>2 DEF RecordsAccounted, queueVars
<1> QED
  BY <1>3, <1>4, <1>5 DEF AccountInv

LEMMA NextAccount == AccountInv /\ [Next]_vars => AccountInv'
<1> SUFFICES ASSUME AccountInv, [Next]_vars PROVE AccountInv'
  OBVIOUS
<1>1. ASSUME Produce PROVE AccountInv'
  BY <1>1, WriteRecordAccount, EmitAccount DEF Produce
<1>2. ASSUME Running, WorkerStep PROVE AccountInv'
  BY <1>2, ReceiveAccount, WriteAccount, RotateAccount, FlushAccount, WriteFailsAccount,
     WorkerEndsAccount DEF WorkerStep
<1>3. ASSUME LifeStep PROVE AccountInv'
  <2>1. CASE Start \/ Report
    BY <2>1, StartAccount, ReportAccount
  <2>2. CASE Prune \/ Open \/ RotateFull \/ StartFails
    <3>1. worker = "recv"
      BY <2>2 DEF AccountInv, Ends, Prune, Open, RotateFull, StartFails
    <3> QED
      BY <2>2, <3>1, AccountKept DEF Prune, Open, RotateFull, StartFails, StartKeeps, Phases,
         AccountInv, Typed
  <2>3. CASE Close \/ Exit
    BY <2>3, AccountKept DEF Close, Exit, Phases
  <2> QED
    BY <1>3, <2>1, <2>2, <2>3 DEF LifeStep
<1>4. ASSUME UNCHANGED vars PROVE AccountInv'
  <2>1. Typed'
    BY <1>4 DEF AccountInv, Typed, vars, queueVars
  <2>2. InHand' /\ Ends'
    BY <1>4 DEF AccountInv, InHand, Ends, vars, queueVars
  <2>3. RecordsAccounted'
    BY <1>4 DEF AccountInv, RecordsAccounted, vars, queueVars
  <2> QED
    BY <2>1, <2>2, <2>3 DEF AccountInv
<1> QED
  BY <1>1, <1>2, <1>3, <1>4 DEF Next

(* The inductive invariant of the account holds throughout. *)
THEOREM AccountHolds == Spec => []AccountInv
BY InitAccount, NextAccount, PTL DEF Spec

(* However the queue overflows, writes fail and lives end, every record emitted is
   written, on its way, counted as dropped or covered by a reported failure: what
   `LogQueue', the worker and `finish' promise together. *)
THEOREM RecordsStayAccounted == Spec => []RecordsAccounted
BY AccountHolds, PTL DEF AccountInv

-----------------------------------------------------------------------------
(* The order on disk. *)

Slots == 0 .. Highest
Contents == Seq(Nat) \cup {Absent}
RotationSteps == {"none", "prune", "unlink", "rename", "empty", "seek", "create"}

FilesTyped == files \in [Slots -> Contents] /\ bytesWritten \in Nat

RotationOK ==
  /\ rotation \in [step : RotationSteps, at : Nat]
  /\ rotation.step \in {"unlink", "rename"} => rotation.at \in 1 .. Highest
  /\ phase = "prune" => rotation.step = "prune" /\ rotation.at > 0

(* There is a current file whenever a record may be written to it. *)
Current ==
  /\ rotation.step = "seek" => Exists(0)
  /\ Running /\ (worker = "write" \/ (worker \in {"recv", "flush"} /\ ~writeFailed)) => Exists(0)

(* Records are numbered in the order in which they are queued. *)
Numbered ==
  /\ inHand.id < nextId
  /\ \A i \in DOMAIN queue : inHand.id < queue[i].id /\ queue[i].id < nextId
  /\ \A i, k \in DOMAIN queue : i < k => queue[i].id < queue[k].id

(* What is on disk was queued before all that is not. *)
Below ==
  \A r \in OnDisk :
    /\ r < nextId
    /\ \A i \in DOMAIN queue : r < queue[i].id
    /\ inHand # NoRecord => r <= inHand.id

(* A record that is written in part is in the current file only, and the rest of it
   fits there: no rotation comes between its parts. *)
Torn ==
  inHand # NoRecord =>
    /\ inHand.id \in OnDisk =>
         worker = "write" /\ bytesWritten + inHand.left <= config.maxFileBytes
    /\ \A k \in 1 .. Highest : Exists(k) =>
         \A a \in DOMAIN files[k] : files[k][a] # inHand.id

OrderInv ==
  /\ AccountInv
  /\ FilesTyped /\ RotationOK /\ Current
  /\ Numbered /\ Below /\ Torn
  /\ LogsInOrder

LEMMA SlotFacts ==
  /\ Highest \in Nat /\ 0 \in Slots /\ Slots \subseteq Nat
  /\ \A k \in 1 .. Highest : k \in Slots /\ k - 1 \in Slots /\ k \in Nat
  /\ <<>> \in Contents /\ Absent \in Contents /\ <<>> # Absent
<1>1. <<>> \in Seq(Nat) /\ Absent \notin Seq(Nat)
  BY EmptySeq, LogAssumption
<1>2. MaxLogFiles \in Nat \ {0}
  BY Sizes
<1>3. Highest \in Nat /\ Highest = MaxLogFiles - 1
  BY <1>2 DEF Highest
<1>4. /\ 0 \in Slots /\ Slots \subseteq Nat
      /\ \A k \in 1 .. Highest : k \in Slots /\ k - 1 \in Slots /\ k \in Nat
  BY <1>3 DEF Slots
<1>5. <<>> \in Contents /\ Absent \in Contents /\ <<>> # Absent
  BY <1>1 DEF Contents
<1> QED
  BY <1>3, <1>4, <1>5

LEMMA DiskBytes ==
  /\ \A r : r \in OnDisk <=> \E k \in Slots : Exists(k) /\ \E b \in DOMAIN files[k] : r = files[k][b]
  /\ \A r : r \in OnDisk' <=>
       \E k \in Slots : Exists(k)' /\ \E b \in DOMAIN files'[k] : r = files'[k][b]
BY DEF OnDisk, Slots

LEMMA ConfigFacts ==
  ASSUME NEW c \in Configs
  PROVE  /\ c.maxFiles \in 1 .. MaxLogFiles /\ c.maxFileBytes \in Nat
         /\ MaxRecordBytes <= c.maxFileBytes
BY LogAssumption

(* Files that are emptied or gone disturb no order. *)
LEMMA Thinned ==
  ASSUME FilesTyped, LogsInOrder,
         \A k \in Slots : files'[k] \in {Absent, <<>>, files[k]}
  PROVE  LogsInOrder' /\ OnDisk' \subseteq OnDisk
<1>1. \A k \in Slots : Exists(k)' /\ DOMAIN files'[k] # {} => Exists(k) /\ files'[k] = files[k]
  BY DEF Exists
<1>2. LogsInOrder'
  <2> SUFFICES ASSUME NEW j \in Slots, NEW k \in Slots, Exists(j)', Exists(k)',
                      NEW a \in DOMAIN files'[j], NEW b \in DOMAIN files'[k]
               PROVE  /\ j > k => files'[j][a] < files'[k][b]
                      /\ j = k /\ a < b => files'[j][a] <= files'[k][b]
    BY DEF LogsInOrder, Slots
  <2>1. /\ Exists(j) /\ files'[j] = files[j]
        /\ Exists(k) /\ files'[k] = files[k]
    BY <1>1
  <2> QED
    BY <2>1 DEF LogsInOrder, Slots
<1>3. OnDisk' \subseteq OnDisk
  <2> SUFFICES ASSUME NEW k \in Slots, Exists(k)', NEW b \in DOMAIN files'[k]
               PROVE  files'[k][b] \in OnDisk
    BY DiskBytes
  <2>1. Exists(k) /\ files'[k] = files[k]
    BY <1>1
  <2> QED
    BY <2>1, DiskBytes
<1> QED
  BY <1>2, <1>3

(* Nor does a file that moves up by one. *)
LEMMA Moved ==
  ASSUME FilesTyped, LogsInOrder, NEW m \in 1 .. Highest,
         files' = [files EXCEPT ![m] = files[m - 1], ![m - 1] = Absent]
  PROVE  files' \in [Slots -> Contents] /\ LogsInOrder' /\ OnDisk' \subseteq OnDisk
<1> DEFINE from(k) == IF k = m THEN m - 1 ELSE k
<1>1. files \in [Slots -> Contents] /\ m \in Slots /\ m - 1 \in Slots /\ m \in Nat
  BY SlotFacts DEF FilesTyped
<1>2. files' \in [Slots -> Contents]
  BY <1>1, SlotFacts
<1>3. \A k \in Slots : Exists(k)' =>
        from(k) \in Slots /\ Exists(from(k)) /\ files'[k] = files[from(k)] /\ k # m - 1
  BY <1>1 DEF Exists
<1>4. \A j, k \in Slots : j > k /\ k # m - 1 => from(j) > from(k) \/ (j = m /\ k = m - 1)
  BY <1>1, SlotFacts
<1> HIDE DEF from
<1>5. LogsInOrder'
  <2> SUFFICES ASSUME NEW j \in Slots, NEW k \in Slots, Exists(j)', Exists(k)',
                      NEW a \in DOMAIN files'[j], NEW b \in DOMAIN files'[k]
               PROVE  /\ j > k => files'[j][a] < files'[k][b]
                      /\ j = k /\ a < b => files'[j][a] <= files'[k][b]
    BY DEF LogsInOrder, Slots
  <2>1. /\ from(j) \in Slots /\ Exists(from(j)) /\ files'[j] = files[from(j)]
        /\ from(k) \in Slots /\ Exists(from(k)) /\ files'[k] = files[from(k)] /\ k # m - 1
    BY <1>3
  <2>2. j > k => from(j) > from(k)
    BY <1>4, <2>1
  <2>3. j = k => from(j) = from(k)
    OBVIOUS
  <2>4. /\ from(j) > from(k) => files[from(j)][a] < files[from(k)][b]
        /\ from(j) = from(k) /\ a < b => files[from(j)][a] <= files[from(k)][b]
    BY <2>1 DEF LogsInOrder, Slots
  <2> QED
    BY <2>1, <2>2, <2>3, <2>4
<1>6. ASSUME NEW r \in OnDisk' PROVE r \in OnDisk
  <2>1. PICK k \in Slots : Exists(k)' /\ \E b \in DOMAIN files'[k] : r = files'[k][b]
    BY <1>6 DEF OnDisk, Exists, Slots
  <2>2. from(k) \in Slots /\ Exists(from(k)) /\ files'[k] = files[from(k)]
    BY <1>3, <2>1
  <2> QED
    BY <2>1, <2>2, DiskBytes
<1> QED
  BY <1>2, <1>5, <1>6

(* A step of a rotation, interrupted or not, only moves, empties or deletes. *)
LEMMA RotationKeeps ==
  ASSUME AccountInv, FilesTyped, RotationOK, Current, LogsInOrder, RotationStep
  PROVE  /\ FilesTyped' /\ LogsInOrder' /\ OnDisk' \subseteq OnDisk
         /\ rotation' \in [step : RotationSteps, at : Nat]
         /\ rotation'.step \in {"unlink", "rename"} => rotation'.at \in 1 .. Highest
         /\ rotation'.step = "seek" => Exists(0)'
         /\ rotation' = NoRotation => Exists(0)'
<1> DEFINE k == rotation.at
<1>0. /\ rotation \in [step : RotationSteps, at : Nat] /\ files \in [Slots -> Contents]
      /\ bytesWritten \in Nat
  BY DEF RotationOK, FilesTyped
<1>1. ASSUME k \in 1 .. Highest
      PROVE  /\ AfterArchive(k) \in [step : RotationSteps, at : Nat]
             /\ AfterArchive(k).step \in {"unlink", "create"}
             /\ AfterArchive(k).step = "unlink" => AfterArchive(k).at \in 1 .. Highest
             /\ AfterArchive(k) # NoRotation
  BY <1>1, SlotFacts DEF AfterArchive, RotationSteps, NoRotation
<1>2. CASE Unlink
  <2>1. k \in 1 .. Highest /\ rotation.step = "unlink" /\ bytesWritten' = bytesWritten
    BY <1>2 DEF Unlink, RotationOK
  <2>2. CASE Exists(k - 1)
    <3>1. files' = [files EXCEPT ![k] = Absent] /\ rotation' = [rotation EXCEPT !.step = "rename"]
      BY <1>2, <2>2 DEF Unlink
    <3>2. files' \in [Slots -> Contents] /\ \A i \in Slots : files'[i] \in {Absent, <<>>, files[i]}
      BY <1>0, <3>1, SlotFacts
    <3>3. /\ rotation' \in [step : RotationSteps, at : Nat]
          /\ rotation'.step = "rename" /\ rotation'.at = k
      BY <1>0, <3>1 DEF RotationSteps
    <3>4. rotation' # NoRotation
      BY <3>3 DEF NoRotation
    <3> QED
      BY <1>0, <2>1, <3>2, <3>3, <3>4, Thinned DEF FilesTyped
  <2>3. CASE ~Exists(k - 1)
    <3>1. files' = files /\ rotation' = AfterArchive(k)
      BY <1>2, <2>3 DEF Unlink
    <3>2. LogsInOrder' /\ OnDisk' \subseteq OnDisk
      BY <3>1, Thinned
    <3> QED
      BY <1>0, <1>1, <2>1, <3>1, <3>2 DEF FilesTyped
  <2> QED
    BY <2>2, <2>3
<1>3. CASE RenameFile
  <2>1. /\ k \in 1 .. Highest /\ bytesWritten' = bytesWritten
        /\ files' = [files EXCEPT ![k] = files[k - 1], ![k - 1] = Absent]
        /\ rotation' = AfterArchive(k)
    BY <1>3 DEF RenameFile, RotationOK
  <2>2. files' \in [Slots -> Contents] /\ LogsInOrder' /\ OnDisk' \subseteq OnDisk
    BY <2>1, Moved
  <2> QED
    BY <1>0, <1>1, <2>1, <2>2 DEF FilesTyped
<1>4. ASSUME files' = [files EXCEPT ![0] = <<>>]
      PROVE  files' \in [Slots -> Contents] /\ LogsInOrder' /\ OnDisk' \subseteq OnDisk /\ Exists(0)'
  <2>1. /\ files' \in [Slots -> Contents] /\ files'[0] = <<>>
        /\ \A i \in Slots : files'[i] \in {Absent, <<>>, files[i]}
    BY <1>0, <1>4, SlotFacts
  <2> QED
    BY <2>1, Thinned, SlotFacts DEF Exists
<1>5. CASE SetLen
  <2>1. files' = [files EXCEPT ![0] = <<>>] /\ rotation' = [rotation EXCEPT !.step = "seek"]
        /\ bytesWritten' = bytesWritten
    BY <1>5 DEF SetLen
  <2>2. rotation' \in [step : RotationSteps, at : Nat] /\ rotation'.step = "seek"
    BY <1>0, <2>1 DEF RotationSteps
  <2> QED
    BY <1>0, <1>4, <2>1, <2>2 DEF FilesTyped
<1>6. /\ NoRotation \in [step : RotationSteps, at : Nat]
      /\ NoRotation.step \notin {"unlink", "rename", "seek"}
  BY DEF NoRotation, RotationSteps
<1>7. CASE SeekStart
  <2>1. files' = files /\ rotation' = NoRotation /\ bytesWritten' = 0 /\ Exists(0)
    BY <1>7 DEF SeekStart, Current
  <2>2. LogsInOrder' /\ OnDisk' \subseteq OnDisk /\ Exists(0)'
    BY <2>1, Thinned DEF Exists
  <2> QED
    BY <1>0, <1>6, <2>1, <2>2 DEF FilesTyped
<1>8. CASE CreateCurrent
  <2>1. files' = [files EXCEPT ![0] = <<>>] /\ rotation' = NoRotation /\ bytesWritten' = 0
    BY <1>8 DEF CreateCurrent
  <2> QED
    BY <1>0, <1>4, <1>6, <2>1 DEF FilesTyped
<1> QED
  BY <1>2, <1>3, <1>5, <1>7, <1>8 DEF RotationStep

(* Where a rotation starts: with two files or more at the highest archive. *)
LEMMA RotationStarts ==
  ASSUME AccountInv, StartRotation
  PROVE  /\ rotation' \in [step : RotationSteps, at : Nat]
         /\ rotation'.step \in {"unlink", "empty"}
         /\ rotation'.step = "unlink" => rotation'.at \in 1 .. Highest
<1>1. config.maxFiles \in 1 .. MaxLogFiles /\ MaxLogFiles \in Nat
  BY ConfigFacts, Sizes DEF AccountInv, Typed
<1>2. CASE config.maxFiles = 1
  BY <1>2 DEF StartRotation, RotationSteps
<1>3. CASE config.maxFiles # 1
  <2>1. rotation' = [step |-> "unlink", at |-> config.maxFiles - 1]
    BY <1>3 DEF StartRotation
  <2>2. config.maxFiles - 1 \in 1 .. Highest /\ config.maxFiles - 1 \in Nat
    BY <1>1, <1>3 DEF Highest
  <2> QED
    BY <2>1, <2>2 DEF RotationSteps
<1> QED
  BY <1>2, <1>3

LEMMA InitOrder == Init => OrderInv
<1> SUFFICES ASSUME Init PROVE OrderInv
  OBVIOUS
<1>1. AccountInv /\ inHand = NoRecord
  BY InitAccount DEF Init
<1>2. \A k \in Slots : files[k] = Absent
  BY DEF Init, Slots
<1>3. FilesTyped
  BY SlotFacts DEF Init, FilesTyped, Slots
<1>4. RotationOK /\ Current
  BY DEF Init, RotationOK, NoRotation, RotationSteps, Current, Running
<1>5. Numbered
  BY EmptySeq DEF Init, Numbered, NoRecord
<1>6. Below /\ LogsInOrder
  <2>1. OnDisk = {}
    BY <1>2, DiskBytes DEF Exists
  <2> QED
    BY <1>2, <2>1 DEF Below, LogsInOrder, Exists, Slots
<1>7. Torn
  BY <1>1 DEF Torn
<1> QED
  BY <1>1, <1>3, <1>4, <1>5, <1>6, <1>7 DEF OrderInv

(* Steps that leave the disk and the records alone. *)
LEMMA DiskKept ==
  ASSUME OrderInv, AccountInv', RotationOK', Current',
         UNCHANGED <<files, bytesWritten, queue, inHand, nextId, config>>,
         worker' = worker \/ inHand = NoRecord
  PROVE  OrderInv'
<1>1. OnDisk' = OnDisk
  BY DEF OnDisk, Exists
<1>2. FilesTyped' /\ LogsInOrder'
  BY DEF OrderInv, FilesTyped, LogsInOrder, Exists
<1>3. Numbered'
  BY DEF OrderInv, Numbered
<1>4. Below'
  BY <1>1 DEF OrderInv, Below
<1>5. Torn'
  BY <1>1 DEF OrderInv, Torn, Exists
<1> QED
  BY <1>2, <1>3, <1>4, <1>5 DEF OrderInv

(* Steps that only move, empty or delete files, while no record is written. *)
LEMMA DiskShrinks ==
  ASSUME OrderInv, AccountInv', FilesTyped', RotationOK', Current', LogsInOrder',
         OnDisk' \subseteq OnDisk, UNCHANGED <<queue, inHand, nextId>>,
         inHand = NoRecord \/ worker # "write"
  PROVE  OrderInv'
<1>1. Numbered'
  BY DEF OrderInv, Numbered
<1>2. Below'
  BY DEF OrderInv, Below
<1>3. Torn'
  <2>1. CASE inHand = NoRecord
    BY <2>1 DEF Torn
  <2>2. CASE inHand # NoRecord
    <3>1. inHand.id \notin OnDisk'
      BY <2>2 DEF OrderInv, Torn
    <3>2. ASSUME NEW k \in 1 .. Highest, Exists(k)', NEW a \in DOMAIN files'[k],
                 files'[k][a] = inHand.id
          PROVE  FALSE
      BY <3>1, <3>2, SlotFacts DEF OnDisk, Exists, Slots
    <3> QED
      BY <3>1, <3>2 DEF Torn
  <2> QED
    BY <2>1, <2>2
<1> QED
  BY <1>1, <1>2, <1>3 DEF OrderInv

(* What is on disk are numbers. *)
LEMMA DiskNumbers ==
  ASSUME OrderInv
  PROVE  \A r \in OnDisk : r \in Nat
<1>1. \A k \in Slots : Exists(k) => files[k] \in Seq(Nat)
  BY DEF OrderInv, FilesTyped, Contents, Exists
<1>2. \A k \in Slots : Exists(k) => \A b \in DOMAIN files[k] : files[k][b] \in Nat
  BY <1>1, ElementOfSeq, LenProperties
<1> QED
  BY <1>2, DiskBytes

LEMMA EmitOrder ==
  ASSUME OrderInv, AccountInv', NEW p \in Producers, Emit(p)
  PROVE  OrderInv'
<1>1. UNCHANGED <<phase, config, worker, inHand, bytesWritten, rotation, files>>
  BY DEF Emit, writerVars
<1>2. /\ AccountInv /\ queue \in Seq(Queued) /\ nextId \in Nat \ {0}
      /\ inHand \in Queued \cup {NoRecord}
  BY DEF OrderInv, AccountInv, Typed
<1>3. \/ UNCHANGED <<queue, nextId>>
      \/ \E size : /\ queue' = Append(queue, [id |-> nextId, left |-> size])
                    /\ size \in 1 .. MaxRecordBytes /\ nextId' = nextId + 1
  <2>1. CASE record[p].state # "emitted" /\ record[p].bytes > 0 /\ Enqueue(EmittedBytes(record[p]))
    <3>1. record[p] \in RecordState
      BY DEF OrderInv, AccountInv, Typed
    <3>2. EmittedBytes(record[p]) \in 1 .. MaxRecordBytes
      BY <2>1, <3>1, EmittedSize
    <3> QED
      BY <2>1, <3>2, Zenon DEF Enqueue, CountDropped
  <2> QED
    BY <2>1 DEF Emit
<1>4. writeFailed' = writeFailed \/ writeFailed' = TRUE
  BY DEF Emit, Enqueue
<1>5. RotationOK' /\ Current'
  BY <1>1, <1>4 DEF OrderInv, RotationOK, Current, Exists, Running
<1>6. CASE UNCHANGED <<queue, nextId>>
  BY <1>1, <1>5, <1>6, DiskKept
<1>7. ASSUME NEW size, queue' = Append(queue, [id |-> nextId, left |-> size]),
             size \in 1 .. MaxRecordBytes, nextId' = nextId + 1
      PROVE  OrderInv'
  <2> DEFINE new == [id |-> nextId, left |-> size]
  <2>1. new \in Queued /\ new.id = nextId /\ queue' = Append(queue, new)
    BY <1>2, <1>7 DEF Queued
  <2> HIDE DEF new
  <2>2. /\ Len(queue) \in Nat /\ DOMAIN queue = 1 .. Len(queue)
        /\ DOMAIN queue' = 1 .. Len(queue) + 1
        /\ \A i \in 1 .. Len(queue) : queue'[i] = queue[i]
        /\ queue'[Len(queue) + 1] = new
    BY <1>2, <2>1, AppendProperties, LenProperties
  <2>3. \A i \in 1 .. Len(queue) : queue[i].id \in Nat /\ queue[i].id < nextId
    <3>1. \A i \in 1 .. Len(queue) : queue[i] \in Queued
      BY <1>2, ElementOfSeq
    <3> QED
      BY <2>2, <3>1, QueuedFields DEF OrderInv, Numbered
  <2>4. inHand.id \in Nat /\ inHand.id < nextId
    BY <1>2, QueuedFields DEF OrderInv, Numbered, NoRecord
  <2>5. Numbered'
    <3>1. inHand'.id < nextId'
      BY <1>1, <1>2, <1>7, <2>4
    <3>2. ASSUME NEW i \in DOMAIN queue'
          PROVE  inHand'.id < queue'[i].id /\ queue'[i].id < nextId'
      <4>1. CASE i \in 1 .. Len(queue)
        BY <1>1, <1>2, <1>7, <2>2, <2>3, <2>4, <4>1 DEF OrderInv, Numbered
      <4>2. CASE i = Len(queue) + 1
        BY <1>1, <1>2, <1>7, <2>1, <2>2, <2>4, <4>2
      <4> QED
        BY <2>2, <4>1, <4>2
    <3>3. ASSUME NEW i \in DOMAIN queue', NEW j \in DOMAIN queue', i < j
          PROVE  queue'[i].id < queue'[j].id
      <4>1. i \in 1 .. Len(queue)
        BY <2>2, <3>3
      <4>2. CASE j \in 1 .. Len(queue)
        BY <2>2, <3>3, <4>1, <4>2 DEF OrderInv, Numbered
      <4>3. CASE j = Len(queue) + 1
        BY <2>1, <2>2, <2>3, <4>1, <4>3
      <4> QED
        BY <2>2, <4>2, <4>3
    <3> QED
      BY <3>1, <3>2, <3>3 DEF Numbered
  <2>6. OnDisk' = OnDisk
    BY <1>1 DEF OnDisk, Exists
  <2>7. \A r \in OnDisk : r \in Nat
    BY DiskNumbers
  <2>8. Below'
    <3> SUFFICES ASSUME NEW r \in OnDisk
                 PROVE  /\ r < nextId'
                        /\ \A i \in DOMAIN queue' : r < queue'[i].id
                        /\ inHand' # NoRecord => r <= inHand'.id
      BY <2>6 DEF Below
    <3>1. /\ r \in Nat /\ r < nextId /\ \A i \in 1 .. Len(queue) : r < queue[i].id
          /\ inHand # NoRecord => r <= inHand.id
      BY <2>2, <2>7 DEF OrderInv, Below
    <3>2. r < nextId'
      BY <1>2, <1>7, <3>1
    <3>3. \A i \in DOMAIN queue' : r < queue'[i].id
      BY <2>1, <2>2, <3>1
    <3> QED
      BY <1>1, <3>1, <3>2, <3>3
  <2>9. Torn'
    BY <1>1, <2>6 DEF OrderInv, Torn, Exists
  <2>10. FilesTyped' /\ LogsInOrder'
    BY <1>1 DEF OrderInv, FilesTyped, LogsInOrder, Exists
  <2> QED
    BY <1>5, <2>5, <2>8, <2>9, <2>10 DEF OrderInv
<1> QED
  BY <1>3, <1>6, <1>7

LEMMA ReceiveOrder ==
  ASSUME OrderInv, AccountInv', Running, Receive
  PROVE  OrderInv'
<1>1. /\ queue \in Seq(Queued) /\ queue # <<>> /\ nextId \in Nat \ {0}
      /\ inHand \in Queued \cup {NoRecord} /\ queue' = Tail(queue)
      /\ UNCHANGED <<phase, config, nextId, writeFailed, bytesWritten, rotation, files>>
      /\ worker = "recv"
  BY DEF OrderInv, AccountInv, Typed, Receive, WorkerKeeps, writerVars
<1>2. /\ Len(queue) \in Nat \ {0} /\ DOMAIN queue = 1 .. Len(queue)
      /\ DOMAIN queue' = 1 .. Len(queue) - 1
      /\ \A i \in 1 .. Len(queue) - 1 : queue'[i] = queue[i + 1]
      /\ Head(queue) = queue[1]
  BY <1>1, HeadTailProperties, LenProperties, EmptySeq
<1>3. \A i \in 1 .. Len(queue) : queue[i] \in Queued /\ queue[i].id \in Nat
  BY <1>1, ElementOfSeq, QueuedFields
<1>4. UNCHANGED <<worker, inHand>> \/ (worker' = "write" /\ inHand' = queue[1] /\ ~writeFailed)
  BY <1>2 DEF Receive
<1>5. RotationOK' /\ Current'
  BY <1>1, <1>4 DEF OrderInv, RotationOK, Current, Running, Exists
<1>6. OnDisk' = OnDisk
  BY <1>1 DEF OnDisk, Exists
<1>7. FilesTyped' /\ LogsInOrder'
  BY <1>1 DEF OrderInv, FilesTyped, LogsInOrder, Exists
<1>8. \A i \in DOMAIN queue' : i + 1 \in DOMAIN queue /\ queue'[i] = queue[i + 1]
  BY <1>2
<1>9. \A i, j \in DOMAIN queue' : i < j => queue'[i].id < queue'[j].id
  BY <1>2, <1>8 DEF OrderInv, Numbered
<1>10. \A i \in DOMAIN queue' : queue[1].id < queue'[i].id /\ queue'[i].id < nextId'
  BY <1>1, <1>2, <1>8 DEF OrderInv, Numbered
<1>11. CASE UNCHANGED <<worker, inHand>>
  <2>1. Numbered'
    BY <1>1, <1>2, <1>8, <1>9, <1>11 DEF OrderInv, Numbered
  <2>2. Below'
    BY <1>1, <1>6, <1>8, <1>11 DEF OrderInv, Below
  <2>3. Torn'
    BY <1>1, <1>6, <1>11 DEF OrderInv, Torn, Exists
  <2> QED
    BY <1>5, <1>7, <2>1, <2>2, <2>3 DEF OrderInv
<1>12. CASE worker' = "write" /\ inHand' = queue[1]
  <2>1. Numbered'
    <3>1. inHand'.id < nextId'
      BY <1>1, <1>2, <1>12 DEF OrderInv, Numbered
    <3> QED
      BY <1>9, <1>10, <1>12, <3>1 DEF Numbered
  <2>2. \A r \in OnDisk : r \in Nat /\ r < queue[1].id
    BY <1>2, DiskNumbers DEF OrderInv, Below
  <2>3. Below'
    <3>1. \A r \in OnDisk : r < nextId' /\ \A i \in DOMAIN queue' : r < queue'[i].id
      BY <1>1, <1>8 DEF OrderInv, Below
    <3>2. \A r \in OnDisk : r <= inHand'.id
      BY <1>2, <1>3, <1>12, <2>2
    <3> QED
      BY <1>6, <3>1, <3>2 DEF Below
  <2>4. inHand'.id \notin OnDisk'
    BY <1>2, <1>3, <1>6, <1>12, <2>2
  <2>5. Torn'
    <3>1. ASSUME NEW k \in 1 .. Highest, Exists(k)', NEW a \in DOMAIN files'[k]
          PROVE  files'[k][a] # inHand'.id
      BY <2>4, <3>1, SlotFacts DEF OnDisk, Exists, Slots
    <3> QED
      BY <2>4, <3>1 DEF Torn
  <2> QED
    BY <1>5, <1>7, <2>1, <2>3, <2>5 DEF OrderInv
<1> QED
  BY <1>4, <1>11, <1>12

(* A rotation only becomes due for a record of which nothing is written yet. *)
LEMMA RotationBetweenRecords ==
  ASSUME OrderInv, RotationDue, inHand # NoRecord
  PROVE  inHand.id \notin OnDisk
<1>1. /\ inHand \in Queued /\ config \in Configs /\ bytesWritten \in Nat
  BY DEF OrderInv, AccountInv, Typed, FilesTyped
<1>2. inHand.left \in Nat /\ config.maxFileBytes \in Nat
  BY <1>1, QueuedFields, ConfigFacts, Sizes
<1>3. ~(bytesWritten + inHand.left <= config.maxFileBytes)
  BY <1>1, <1>2 DEF RotationDue
<1> QED
  BY <1>3 DEF OrderInv, Torn

(* What is appended to the current file is the newest on disk. *)
LEMMA Appended ==
  ASSUME OrderInv, worker = "write", Exists(0), inHand # NoRecord, NEW n \in Nat,
         files' = [files EXCEPT ![0] = @ \o [k \in 1 .. n |-> inHand.id]]
  PROVE  /\ files' \in [Slots -> Contents] /\ LogsInOrder' /\ Exists(0)'
         /\ OnDisk' \subseteq OnDisk \cup {inHand.id}
         /\ \A k \in 1 .. Highest : files'[k] = files[k]
<1> DEFINE new == [k \in 1 .. n |-> inHand.id]
           id == inHand.id
<1>1. inHand \in Queued /\ inHand.id \in Nat
  BY QueuedFields DEF OrderInv, AccountInv, Typed
<1>2. files \in [Slots -> Contents] /\ files[0] \in Seq(Nat)
  BY SlotFacts DEF OrderInv, FilesTyped, Contents, Exists
<1>3. new \in Seq(Nat) /\ Len(new) = n /\ \A k \in 1 .. n : new[k] = id
  BY <1>1, SeqDef
<1> HIDE DEF new
<1>4. /\ files[0] \o new \in Seq(Nat) /\ Len(files[0]) \in Nat
      /\ DOMAIN files[0] = 1 .. Len(files[0])
      /\ DOMAIN (files[0] \o new) = 1 .. Len(files[0]) + n
      /\ \A k \in 1 .. Len(files[0]) + n :
           (files[0] \o new)[k] = IF k <= Len(files[0]) THEN files[0][k] ELSE id
  <2>1. /\ files[0] \o new \in Seq(Nat) /\ Len(files[0] \o new) = Len(files[0]) + n
        /\ \A k \in 1 .. Len(files[0]) + n :
             (files[0] \o new)[k] = IF k <= Len(files[0]) THEN files[0][k]
                                    ELSE new[k - Len(files[0])]
    <3>1. ASSUME NEW s \in Seq(Nat), NEW t \in Seq(Nat)
          PROVE  /\ s \o t \in Seq(Nat) /\ Len(s \o t) = Len(s) + Len(t)
                 /\ \A k \in 1 .. Len(s) + Len(t) :
                      (s \o t)[k] = IF k <= Len(s) THEN s[k] ELSE t[k - Len(s)]
      BY ConcatProperties
    <3> QED
      BY <1>2, <1>3, <3>1
  <2>2. /\ Len(files[0]) \in Nat /\ DOMAIN files[0] = 1 .. Len(files[0])
        /\ DOMAIN (files[0] \o new) = 1 .. Len(files[0]) + n
    BY <1>2, <2>1, LenProperties
  <2>3. \A k \in 1 .. Len(files[0]) + n :
          ~(k <= Len(files[0])) => k - Len(files[0]) \in 1 .. n
    BY <2>2
  <2> QED
    BY <1>3, <2>1, <2>2, <2>3
<1>5. files' = [files EXCEPT ![0] = files[0] \o new]
  BY DEF new
<1>6. /\ files' \in [Slots -> Contents] /\ files'[0] = files[0] \o new /\ Exists(0)'
      /\ \A k \in Slots \ {0} : files'[k] = files[k]
  BY <1>2, <1>4, <1>5, SlotFacts, LogAssumption DEF Contents, Exists
<1>7. \A k \in Slots \ {0} : k \in 1 .. Highest
  BY DEF Slots
<1>8. ASSUME NEW r \in OnDisk PROVE r \in Nat /\ r <= id
  BY <1>8, DiskNumbers DEF OrderInv, Below
<1>9. \A k \in Slots : Exists(k) => \A b \in DOMAIN files[k] : files[k][b] \in OnDisk
  BY DiskBytes
<1>10. LogsInOrder'
  <2> SUFFICES ASSUME NEW j \in Slots, NEW k \in Slots, Exists(j)', Exists(k)',
                      NEW a \in DOMAIN files'[j], NEW b \in DOMAIN files'[k]
               PROVE  /\ j > k => files'[j][a] < files'[k][b]
                      /\ j = k /\ a < b => files'[j][a] <= files'[k][b]
    BY DEF LogsInOrder, Slots
  <2>1. CASE j > k
    <3>1. j \in Slots \ {0} /\ j \in 1 .. Highest /\ Exists(j) /\ files'[j] = files[j]
      BY <1>6, <1>7, <2>1, SlotFacts DEF Exists
    <3>2. files[j][a] \in OnDisk /\ files[j][a] \in Nat /\ files[j][a] < id
      <4>1. files[j][a] \in OnDisk /\ files[j][a] # id
        BY <1>9, <3>1 DEF OrderInv, Torn
      <4> QED
        BY <1>1, <1>8, <4>1
    <3>3. CASE k = 0
      <4>1. CASE b \in DOMAIN files[0]
        <5>1. files'[0][b] = files[0][b]
          BY <1>4, <1>6, <4>1
        <5> QED
          BY <2>1, <3>1, <3>3, <4>1, <5>1 DEF OrderInv, LogsInOrder, Slots
      <4>2. CASE b \notin DOMAIN files[0]
        <5>1. files'[0][b] = id
          BY <1>4, <1>6, <3>3, <4>2
        <5> QED
          BY <2>1, <3>1, <3>2, <3>3, <5>1, SlotFacts
      <4> QED
        BY <4>1, <4>2
    <3>4. CASE k # 0
      <4>1. files'[k] = files[k] /\ Exists(k)
        BY <1>6, <3>4 DEF Exists
      <4> QED
        BY <2>1, <3>1, <4>1, SlotFacts DEF OrderInv, LogsInOrder, Slots
    <3> QED
      BY <3>3, <3>4
  <2>2. CASE j = k /\ j # 0
    <3>1. files'[k] = files[k] /\ Exists(k)
      BY <1>6, <2>2 DEF Exists
    <3> QED
      BY <2>2, <3>1, SlotFacts DEF OrderInv, LogsInOrder, Slots
  <2>3. CASE j = k /\ j = 0 /\ a < b
    <3>1. a \in 1 .. Len(files[0]) + n /\ b \in 1 .. Len(files[0]) + n
      BY <1>4, <1>6, <2>3
    <3>2. CASE b <= Len(files[0])
      <4>1. files'[0][a] = files[0][a] /\ files'[0][b] = files[0][b]
        BY <1>4, <1>6, <2>3, <3>1, <3>2
      <4>2. a \in DOMAIN files[0] /\ b \in DOMAIN files[0]
        BY <1>4, <2>3, <3>1, <3>2
      <4> QED
        BY <2>3, <4>1, <4>2, SlotFacts DEF OrderInv, LogsInOrder, Slots
    <3>3. CASE ~(b <= Len(files[0]))
      <4>1. files'[0][b] = id
        BY <1>4, <1>6, <3>1, <3>3
      <4>2. files'[0][a] \in Nat /\ files'[0][a] <= id
        <5>1. CASE a <= Len(files[0])
          <6>1. a \in DOMAIN files[0] /\ files'[0][a] = files[0][a]
            BY <1>4, <1>6, <3>1, <5>1
          <6>2. files[0][a] \in OnDisk
            BY <1>9, <6>1, SlotFacts
          <6> QED
            BY <1>8, <6>1, <6>2
        <5>2. CASE ~(a <= Len(files[0]))
          BY <1>1, <1>4, <1>6, <3>1, <5>2
        <5> QED
          BY <5>1, <5>2
      <4> QED
        BY <2>3, <4>1, <4>2, SlotFacts
    <3> QED
      BY <3>2, <3>3
  <2> QED
    BY <2>1, <2>2, <2>3, SlotFacts
<1>11. ASSUME NEW r \in OnDisk' PROVE r \in OnDisk \cup {id}
  <2>1. PICK k \in Slots : files'[k] # Absent /\ \E b \in DOMAIN files'[k] : r = files'[k][b]
    BY <1>11 DEF OnDisk, Exists, Slots
  <2>2. PICK b \in DOMAIN files'[k] : r = files'[k][b]
    BY <2>1
  <2>3. CASE k = 0
    <3>1. files'[0][b] = id \/ (b \in DOMAIN files[0] /\ files'[0][b] = files[0][b])
      BY <1>4, <1>6, <2>2, <2>3
    <3> QED
      BY <1>9, <2>2, <2>3, <3>1, SlotFacts
  <2>4. CASE k # 0
    <3>1. files'[k] = files[k] /\ Exists(k)
      BY <1>6, <2>1, <2>4 DEF Exists
    <3> QED
      BY <1>9, <2>2, <3>1
  <2> QED
    BY <2>3, <2>4
<1>12. \A k \in 1 .. Highest : files'[k] = files[k]
  BY <1>6, SlotFacts
<1> QED
  BY <1>6, <1>10, <1>11, <1>12

LEMMA WriteOrder ==
  ASSUME OrderInv, AccountInv', Running, Write
  PROVE  OrderInv'
<1>1. /\ worker = "write" /\ inHand # NoRecord /\ inHand \in Queued /\ config \in Configs
      /\ bytesWritten \in Nat /\ nextId \in Nat /\ Exists(0)
      /\ UNCHANGED <<phase, config, nextId, queue, writeFailed>>
  BY DEF OrderInv, AccountInv, InHand, Typed, FilesTyped, Current, Write, WorkerKeeps
<1>2. /\ inHand.id \in Nat \ {0} /\ inHand.left \in 1 .. MaxRecordBytes
      /\ inHand.left \in Nat /\ config.maxFileBytes \in Nat
      /\ MaxRecordBytes <= config.maxFileBytes
  BY <1>1, QueuedFields, ConfigFacts, Sizes
<1>3. CASE RotationDue
  <2>1. worker' = "rotate" /\ StartRotation /\ UNCHANGED <<inHand, bytesWritten, files>>
    BY <1>3 DEF Write
  <2>2. RotationOK'
    BY <1>1, <2>1, RotationStarts DEF OrderInv, RotationOK, Running
  <2>3. Current'
    BY <1>1, <2>1, RotationStarts DEF OrderInv, Current
  <2>4. inHand.id \notin OnDisk /\ OnDisk' = OnDisk
    BY <1>1, <1>3, <2>1, RotationBetweenRecords DEF OnDisk, Exists
  <2>5. FilesTyped' /\ LogsInOrder'
    BY <2>1 DEF OrderInv, FilesTyped, LogsInOrder, Exists
  <2>6. Numbered'
    BY <1>1, <2>1 DEF OrderInv, Numbered
  <2>7. Below'
    BY <1>1, <2>1, <2>4 DEF OrderInv, Below
  <2>8. Torn'
    BY <2>1, <2>4 DEF OrderInv, Torn, Exists
  <2> QED
    BY <2>2, <2>3, <2>5, <2>6, <2>7, <2>8 DEF OrderInv
<1>4. CASE ~RotationDue
  <2>1. (IF "io" \in Faults THEN 1 .. inHand.left ELSE {inHand.left}) \subseteq 1 .. inHand.left
    BY <1>2
  <2>2. PICK n \in 1 .. inHand.left :
          /\ files' = [files EXCEPT ![0] = @ \o [k \in 1 .. n |-> inHand.id]]
          /\ bytesWritten' = bytesWritten + n
          /\ inHand' = IF n = inHand.left THEN NoRecord ELSE [inHand EXCEPT !.left = @ - n]
          /\ worker' = IF n = inHand.left THEN "flush" ELSE "write"
          /\ rotation' = rotation
    BY <1>4, <2>1, Zenon DEF Write
  <2>3. n \in Nat /\ n <= inHand.left /\ inHand.left - n \in Nat
    BY <1>2
  <2>4. /\ files' \in [Slots -> Contents] /\ LogsInOrder' /\ Exists(0)'
        /\ OnDisk' \subseteq OnDisk \cup {inHand.id}
        /\ \A k \in 1 .. Highest : files'[k] = files[k]
    BY <1>1, <2>2, <2>3, Appended
  <2>5. FilesTyped'
    BY <1>1, <2>2, <2>3, <2>4 DEF FilesTyped
  <2>6. RotationOK' /\ Current'
    BY <1>1, <2>2, <2>4 DEF OrderInv, RotationOK, Current
  <2>7. \A r \in OnDisk' :
          /\ r < nextId' /\ r <= inHand.id
          /\ \A i \in DOMAIN queue' : r < queue'[i].id
    BY <1>1, <1>2, <2>4 DEF OrderInv, Below, Numbered
  <2>8. CASE n = inHand.left
    <3>1. inHand' = NoRecord
      BY <2>2, <2>8
    <3>2. 0 < nextId /\ \A i \in DOMAIN queue : 0 < queue[i].id
      <4>1. \A i \in DOMAIN queue : queue[i] \in Queued
        BY ElementOfSeq, LenProperties DEF OrderInv, AccountInv, Typed
      <4>2. nextId \in Nat \ {0}
        BY DEF OrderInv, AccountInv, Typed
      <4> QED
        BY <4>1, <4>2, QueuedFields
    <3>3. Numbered'
      BY <1>1, <3>1, <3>2 DEF OrderInv, Numbered, NoRecord
    <3>4. Below' /\ Torn'
      BY <2>7, <3>1 DEF Below, Torn
    <3> QED
      BY <2>4, <2>5, <2>6, <3>3, <3>4 DEF OrderInv
  <2>9. CASE n # inHand.left
    <3>1. /\ inHand' = [inHand EXCEPT !.left = @ - n] /\ worker' = "write"
      BY <2>2, <2>9
    <3>2. inHand'.id = inHand.id /\ inHand'.left = inHand.left - n
      BY <1>1, <3>1 DEF Queued
    <3>3. Numbered'
      BY <1>1, <3>2 DEF OrderInv, Numbered
    <3>4. Below'
      BY <2>7, <3>2 DEF Below
    <3>5. bytesWritten + inHand.left <= config.maxFileBytes
      <4>1. bytesWritten = 0 \/ bytesWritten + inHand.left <= config.maxFileBytes
        BY <1>1, <1>2, <1>4 DEF RotationDue
      <4> QED
        BY <1>2, <4>1, Sizes
    <3>6. bytesWritten' + inHand'.left <= config'.maxFileBytes
      BY <1>1, <1>2, <2>2, <2>3, <3>2, <3>5
    <3>7. \A k \in 1 .. Highest : Exists(k)' =>
            \A a \in DOMAIN files'[k] : files'[k][a] # inHand'.id
      BY <1>1, <2>4, <3>2 DEF OrderInv, Torn, Exists
    <3>8. Torn'
      BY <3>1, <3>6, <3>7 DEF Torn
    <3> QED
      BY <2>4, <2>5, <2>6, <3>3, <3>4, <3>8 DEF OrderInv
  <2> QED
    BY <2>8, <2>9
<1> QED
  BY <1>3, <1>4

LEMMA RotateOrder ==
  ASSUME OrderInv, AccountInv', Running, Rotate
  PROVE  OrderInv'
<1>1. /\ worker = "rotate" /\ RotationStep
      /\ worker' = IF rotation' = NoRotation THEN "write" ELSE "rotate"
      /\ UNCHANGED <<phase, config, nextId, queue, inHand, writeFailed>>
  BY DEF Rotate, WorkerKeeps
<1>2. /\ FilesTyped' /\ LogsInOrder' /\ OnDisk' \subseteq OnDisk
      /\ rotation' \in [step : RotationSteps, at : Nat]
      /\ rotation'.step \in {"unlink", "rename"} => rotation'.at \in 1 .. Highest
      /\ rotation'.step = "seek" => Exists(0)'
      /\ rotation' = NoRotation => Exists(0)'
  BY <1>1, RotationKeeps DEF OrderInv
<1>3. RotationOK'
  BY <1>1, <1>2 DEF RotationOK, Running
<1>4. Current'
  BY <1>1, <1>2 DEF Current
<1> QED
  BY <1>1, <1>2, <1>3, <1>4, DiskShrinks

LEMMA FlushOrder ==
  ASSUME OrderInv, AccountInv', Running, Flush
  PROVE  OrderInv'
<1>1. /\ worker = "flush" /\ worker' = "recv" /\ inHand = NoRecord
      /\ UNCHANGED <<phase, config, nextId, queue, inHand, writeFailed, files, bytesWritten,
                     rotation>>
  BY DEF OrderInv, AccountInv, InHand, Flush, WorkerKeeps, writerVars
<1>2. RotationOK' /\ Current'
  BY <1>1 DEF OrderInv, RotationOK, Current, Running, Exists
<1> QED
  BY <1>1, <1>2, DiskKept

LEMMA WriteFailsOrder ==
  ASSUME OrderInv, AccountInv', Running, WriteFails
  PROVE  OrderInv'
<1>1. /\ worker' = "recv" /\ inHand' = NoRecord /\ writeFailed' = TRUE /\ rotation' = NoRotation
      /\ UNCHANGED <<phase, config, nextId, queue, files, bytesWritten>>
  BY DEF WriteFails, NoteFailure, WorkerKeeps
<1>2. RotationOK' /\ Current'
  BY <1>1 DEF RotationOK, Current, NoRotation, RotationSteps, Running
<1>3. OnDisk' = OnDisk /\ FilesTyped' /\ LogsInOrder'
  BY <1>1 DEF OrderInv, OnDisk, FilesTyped, LogsInOrder, Exists
<1>4. Numbered'
  <2>1. queue \in Seq(Queued) /\ nextId \in Nat \ {0}
    BY DEF OrderInv, AccountInv, Typed
  <2>2. \A i \in DOMAIN queue : queue[i] \in Queued
    BY <2>1, ElementOfSeq, LenProperties
  <2>3. 0 < nextId /\ \A i \in DOMAIN queue : 0 < queue[i].id
    BY <2>1, <2>2, QueuedFields
  <2> QED
    BY <1>1, <2>3 DEF OrderInv, Numbered, NoRecord
<1>5. Below' /\ Torn'
  BY <1>1, <1>3 DEF OrderInv, Below, Torn
<1> QED
  BY <1>2, <1>3, <1>4, <1>5 DEF OrderInv

LEMMA WorkerEndsOrder ==
  ASSUME OrderInv, AccountInv', Running, WorkerEnds
  PROVE  OrderInv'
<1>1. /\ worker = "recv" /\ worker' = "done" /\ inHand = NoRecord
      /\ UNCHANGED <<phase, config, nextId, queue, inHand, files, bytesWritten, rotation>>
  BY DEF OrderInv, AccountInv, InHand, WorkerEnds, WorkerKeeps, writerVars
<1>2. RotationOK' /\ Current'
  BY <1>1 DEF OrderInv, RotationOK, Current, Running, Exists
<1> QED
  BY <1>1, <1>2, DiskKept

(* While a life begins the worker has nothing in hand. *)
LEMMA NothingInHand ==
  ASSUME AccountInv, phase \in {"prune", "open", "rotate"}
  PROVE  worker = "recv" /\ inHand = NoRecord
BY DEF AccountInv, Ends, InHand

LEMMA StartOrder ==
  ASSUME OrderInv, AccountInv', Start
  PROVE  OrderInv'
<1>1. /\ queue' = <<>> /\ inHand' = NoRecord /\ phase' = "prune" /\ config' \in Configs
      /\ rotation' = [step |-> "prune", at |-> config'.maxFiles]
      /\ UNCHANGED <<bytesWritten, files, nextId>>
  BY DEF Start
<1>2. config'.maxFiles \in Nat /\ config'.maxFiles > 0
  BY <1>1, ConfigFacts, Sizes
<1>3. RotationOK' /\ Current'
  BY <1>1, <1>2 DEF RotationOK, Current, RotationSteps, Running
<1>4. OnDisk' = OnDisk /\ FilesTyped' /\ LogsInOrder'
  BY <1>1 DEF OrderInv, OnDisk, FilesTyped, LogsInOrder, Exists
<1>5. DOMAIN queue' = {} /\ nextId \in Nat \ {0}
  BY <1>1 DEF OrderInv, AccountInv, Typed
<1>6. Numbered'
  BY <1>1, <1>5 DEF Numbered, NoRecord
<1>7. Below' /\ Torn'
  BY <1>1, <1>4, <1>5 DEF OrderInv, Below, Torn
<1> QED
  BY <1>3, <1>4, <1>6, <1>7 DEF OrderInv

LEMMA PruneOrder ==
  ASSUME OrderInv, AccountInv', Prune
  PROVE  OrderInv'
<1>1. /\ phase = "prune" /\ rotation.step = "prune" /\ rotation.at > 0
      /\ rotation \in [step : RotationSteps, at : Nat] /\ files \in [Slots -> Contents]
      /\ inHand = NoRecord /\ UNCHANGED <<queue, nextId, inHand, bytesWritten>>
  BY NothingInHand DEF OrderInv, Prune, RotationOK, FilesTyped, StartKeeps, queueVars
<1>2. CASE rotation.at <= Highest
  <2>1. /\ files' = [files EXCEPT ![rotation.at] = Absent] /\ phase' = "prune"
        /\ rotation' = [rotation EXCEPT !.at = @ + 1]
    BY <1>1, <1>2 DEF Prune
  <2>2. /\ files' \in [Slots -> Contents] /\ files'[0] = files[0]
        /\ \A k \in Slots : files'[k] \in {Absent, <<>>, files[k]}
    BY <1>1, <2>1, SlotFacts
  <2>3. /\ rotation' \in [step : RotationSteps, at : Nat] /\ rotation'.step = "prune"
        /\ rotation'.at > 0
    BY <1>1, <2>1
  <2>4. FilesTyped' /\ RotationOK' /\ Current'
    BY <1>1, <2>1, <2>2, <2>3 DEF OrderInv, FilesTyped, RotationOK, Current, Running
  <2>5. LogsInOrder' /\ OnDisk' \subseteq OnDisk
    BY <2>2, Thinned DEF OrderInv
  <2> QED
    BY <1>1, <2>4, <2>5, DiskShrinks
<1>3. CASE ~(rotation.at <= Highest)
  <2>1. files' = files /\ phase' = "open" /\ rotation' = NoRotation
    BY <1>1, <1>3 DEF Prune
  <2>2. LogsInOrder' /\ OnDisk' \subseteq OnDisk
    BY <2>1, Thinned DEF OrderInv
  <2>3. FilesTyped' /\ RotationOK' /\ Current'
    BY <1>1, <2>1 DEF OrderInv, FilesTyped, RotationOK, Current, Running, NoRotation, RotationSteps
  <2> QED
    BY <1>1, <2>2, <2>3, DiskShrinks
<1> QED
  BY <1>2, <1>3

LEMMA OpenOrder ==
  ASSUME OrderInv, AccountInv', Open
  PROVE  OrderInv'
<1>1. /\ phase = "open" /\ files \in [Slots -> Contents] /\ inHand = NoRecord
      /\ files' = (IF Exists(0) THEN files ELSE [files EXCEPT ![0] = <<>>])
      /\ bytesWritten' = Len(files'[0]) /\ UNCHANGED <<queue, nextId, inHand>>
      /\ (phase' = "rotate" /\ StartRotation) \/ (phase' = "run" /\ rotation' = rotation)
  BY NothingInHand DEF OrderInv, Open, FilesTyped, StartKeeps, queueVars
<1>2. /\ files' \in [Slots -> Contents] /\ Exists(0)' /\ files'[0] \in Seq(Nat)
      /\ \A k \in Slots : files'[k] \in {Absent, <<>>, files[k]}
  <2>1. files' \in [Slots -> Contents]
    BY <1>1, SlotFacts
  <2>2. files'[0] # Absent /\ \A k \in Slots : files'[k] \in {Absent, <<>>, files[k]}
    BY <1>1, SlotFacts DEF Exists
  <2> QED
    BY <2>1, <2>2, SlotFacts DEF Exists, Contents
<1>3. FilesTyped'
  BY <1>1, <1>2, LenProperties DEF FilesTyped
<1>4. RotationOK'
  BY <1>1, RotationStarts DEF OrderInv, RotationOK
<1>5. Current'
  BY <1>2 DEF Current
<1>6. LogsInOrder' /\ OnDisk' \subseteq OnDisk
  BY <1>2, Thinned DEF OrderInv
<1> QED
  BY <1>1, <1>3, <1>4, <1>5, <1>6, DiskShrinks

LEMMA RotateFullOrder ==
  ASSUME OrderInv, AccountInv', RotateFull
  PROVE  OrderInv'
<1>1. /\ phase = "rotate" /\ RotationStep /\ inHand = NoRecord
      /\ phase' = IF rotation' = NoRotation THEN "run" ELSE "rotate"
      /\ UNCHANGED <<queue, nextId, inHand>>
  BY NothingInHand DEF OrderInv, RotateFull, StartKeeps, queueVars
<1>2. /\ FilesTyped' /\ LogsInOrder' /\ OnDisk' \subseteq OnDisk
      /\ rotation' \in [step : RotationSteps, at : Nat]
      /\ rotation'.step \in {"unlink", "rename"} => rotation'.at \in 1 .. Highest
      /\ rotation'.step = "seek" => Exists(0)'
      /\ rotation' = NoRotation => Exists(0)'
  BY <1>1, RotationKeeps DEF OrderInv
<1>3. RotationOK'
  BY <1>1, <1>2 DEF RotationOK
<1>4. Current'
  BY <1>1, <1>2 DEF Current, Running
<1> QED
  BY <1>1, <1>2, <1>3, <1>4, DiskShrinks

LEMMA LifeOrder ==
  ASSUME OrderInv, AccountInv', StartFails \/ Close \/ Report \/ Exit
  PROVE  OrderInv'
<1>1. UNCHANGED <<files, bytesWritten, queue, inHand, nextId, config, worker, writeFailed>>
  BY DEF StartFails, StartKeeps, Close, Report, Exit, queueVars, writerVars
<1>2. \/ phase' = "down" /\ rotation' = NoRotation
      \/ phase = "run" /\ phase' = "closed" /\ rotation' = rotation
      \/ phase' = "reported" /\ rotation' = rotation
  BY DEF StartFails, Close, Report, Exit, writerVars
<1>3. RotationOK'
  BY <1>2 DEF OrderInv, RotationOK, NoRotation, RotationSteps
<1>4. Current'
  BY <1>1, <1>2 DEF OrderInv, Current, NoRotation, Running, Exists
<1> QED
  BY <1>1, <1>3, <1>4, DiskKept

LEMMA NextOrder == OrderInv /\ AccountInv' /\ [Next]_vars => OrderInv'
<1> SUFFICES ASSUME OrderInv, AccountInv', [Next]_vars PROVE OrderInv'
  OBVIOUS
<1>1. ASSUME Produce PROVE OrderInv'
  <2>1. ASSUME NEW p \in Producers, NEW n \in 1 .. MaxPiece, WriteRecord(p, n) PROVE OrderInv'
    <3>1. UNCHANGED <<files, bytesWritten, queue, inHand, nextId, config, worker, writeFailed,
                      phase, rotation>>
      BY <2>1 DEF WriteRecord, writerVars
    <3>2. RotationOK' /\ Current'
      BY <3>1 DEF OrderInv, RotationOK, Current, Running, Exists
    <3> QED
      BY <3>1, <3>2, DiskKept
  <2> QED
    BY <1>1, <2>1, EmitOrder DEF Produce
<1>2. ASSUME Running, WorkerStep PROVE OrderInv'
  BY <1>2, ReceiveOrder, WriteOrder, RotateOrder, FlushOrder, WriteFailsOrder, WorkerEndsOrder
     DEF WorkerStep
<1>3. ASSUME LifeStep PROVE OrderInv'
  BY <1>3, StartOrder, PruneOrder, OpenOrder, RotateFullOrder, LifeOrder DEF LifeStep
<1>4. ASSUME UNCHANGED vars PROVE OrderInv'
  <2>1. UNCHANGED <<files, bytesWritten, queue, inHand, nextId, config, worker, writeFailed,
                    phase, rotation>>
    BY <1>4 DEF vars, queueVars, writerVars
  <2>2. RotationOK' /\ Current'
    BY <2>1 DEF OrderInv, RotationOK, Current, Running, Exists
  <2> QED
    BY <2>1, <2>2, DiskKept
<1> QED
  BY <1>1, <1>2, <1>3, <1>4 DEF Next

(* The inductive invariant of the files holds throughout. *)
THEOREM OrderHolds == Spec => []OrderInv
<1>1. Spec => []AccountInv
  BY AccountHolds
<1> QED
  BY <1>1, InitOrder, NextOrder, PTL DEF Spec

(* Wherever a rotation is interrupted, a write is torn or a process dies, what
   `RotatingWriter' has left in the directory reads in the order in which it was
   emitted, and no record is spread over two files. *)
THEOREM LogsStayInOrder == Spec => []LogsInOrder
BY OrderHolds, PTL DEF OrderInv

-----------------------------------------------------------------------------
(* What a rotation loses.  It rests on where the holes are: a rotation goes down
   from the highest archive and makes room before it moves a file, so that of
   all that it deletes only the highest archive can have anything in it. *)

(* Files are moved only while a rotation is under way. *)
Idle ==
  ~(phase \in {"prune", "rotate"} \/ (Running /\ worker = "rotate")) => rotation = NoRotation

(* Once a life is prepared there is no archive beyond its configuration. *)
Pruned ==
  phase # "down" =>
    \A k \in Slots :
      k >= config.maxFiles /\ (phase = "prune" => k < rotation.at) => files[k] = Absent

(* Where a rotation is at, there is room for the file that it moves next. *)
Holes ==
  /\ rotation.step \in {"unlink", "rename"} =>
       rotation.at < config.maxFiles /\ files[0] \notin {Absent, <<>>}
  /\ rotation.step = "unlink" /\ rotation.at + 1 < config.maxFiles => files[rotation.at] = Absent
  /\ rotation.step = "rename" => files[rotation.at] = Absent /\ files[rotation.at - 1] # Absent
  /\ rotation.step = "empty" => config.maxFiles = 1
  /\ rotation.step = "seek" => files[0] = <<>>

(* No archive is empty. *)
Filled == \A k \in 1 .. Highest : files[k] # <<>>

(* `bytes_written' is the length of the file whenever a record may be written. *)
Counted ==
  Running /\ (worker = "write" \/ (worker \in {"recv", "flush"} /\ ~writeFailed)) =>
    bytesWritten = Len(files[0])

LossInv == Idle /\ Pruned /\ Holes /\ Filled /\ Counted

(* What a step loses is older than all that stays. *)
OldestOnly ==
  OnDisk \ OnDisk' # {} =>
    /\ config.maxFiles > 1 => OnDisk' # {}
    /\ \A r \in OnDisk \ OnDisk', q \in OnDisk' : r < q

LEMMA NothingLost == OnDisk \subseteq OnDisk' => OldestOnly
BY DEF OldestOnly

(* Nothing is lost when all that there is stays somewhere. *)
LEMMA AllKept ==
  ASSUME \A k \in Slots : files[k] # Absent =>
           \E j \in Slots : files'[j] = files[k]
  PROVE  OnDisk \subseteq OnDisk'
<1> SUFFICES ASSUME NEW k \in Slots, files[k] # Absent, NEW b \in DOMAIN files[k]
             PROVE  files[k][b] \in OnDisk'
  BY DEF OnDisk, Exists, Slots
<1>1. PICK j \in Slots : files'[j] = files[k]
  OBVIOUS
<1> QED
  BY <1>1 DEF OnDisk, Exists, Slots

LEMMA SameFiles ==
  ASSUME files' = files
  PROVE  OldestOnly
BY AllKept, NothingLost

LEMMA ConfigNumbers ==
  ASSUME OrderInv
  PROVE  /\ config.maxFiles \in Nat /\ config.maxFiles \in 1 .. Highest + 1
         /\ config.maxFileBytes \in Nat \ {0}
<1>1. config \in Configs
  BY DEF OrderInv, AccountInv, Typed
<1> QED
  BY <1>1, ConfigFacts, Sizes DEF Highest

LEMMA NonemptyFile ==
  ASSUME FilesTyped, NEW k \in Slots, files[k] \notin {Absent, <<>>}
  PROVE  files[k] \in Seq(Nat) /\ 1 \in DOMAIN files[k]
<1>1. files[k] \in Seq(Nat)
  BY DEF FilesTyped, Contents
<1> QED
  BY <1>1, EmptySeq, LenProperties

LEMMA InitLoss == Init => LossInv
<1> SUFFICES ASSUME Init PROVE LossInv
  OBVIOUS
<1>1. Idle /\ Pruned /\ Counted
  BY DEF Init, Idle, Pruned, Counted, Running
<1>2. Holes
  BY DEF Init, Holes, NoRotation
<1>3. Filled
  BY SlotFacts DEF Init, Filled, Slots
<1> QED
  BY <1>1, <1>2, <1>3 DEF LossInv

-----------------------------------------------------------------------------
(* A rotation. *)

LEMMA StartsRoomy ==
  ASSUME OrderInv, StartRotation, UNCHANGED config, files'[0] \notin {Absent, <<>>}
  PROVE  Holes'
<1>1. config.maxFiles \in Nat /\ config.maxFiles \in 1 .. Highest + 1
  BY ConfigNumbers
<1>2. CASE config.maxFiles = 1
  BY <1>2 DEF StartRotation, Holes
<1>3. CASE config.maxFiles # 1
  <2>1. rotation' = [step |-> "unlink", at |-> config.maxFiles - 1]
    BY <1>3 DEF StartRotation
  <2>2. /\ rotation'.step = "unlink" /\ rotation'.at < config.maxFiles
        /\ ~(rotation'.at + 1 < config.maxFiles)
    BY <1>1, <2>1
  <2> QED
    BY <2>2 DEF Holes
<1> QED
  BY <1>2, <1>3

(* After an archive has moved, or had nothing to make room for, comes the one
   below it, where there is nothing any more. *)
LEMMA NextArchive ==
  ASSUME OrderInv, LossInv, rotation.step \in {"unlink", "rename"}, UNCHANGED config,
         rotation' = AfterArchive(rotation.at),
         files'[rotation.at - 1] = Absent,
         rotation.at # 1 => files'[0] = files[0]
  PROVE  Holes' /\ rotation' # NoRotation
<1> DEFINE k == rotation.at
<1>1. k \in 1 .. Highest /\ k < config.maxFiles /\ files[0] \notin {Absent, <<>>}
  BY DEF OrderInv, RotationOK, LossInv, Holes
<1>2. CASE k = 1
  <2>1. rotation' = [step |-> "create", at |-> 0]
    BY <1>2 DEF AfterArchive
  <2> QED
    BY <2>1 DEF Holes, NoRotation
<1>3. CASE k # 1
  <2>1. rotation'.step = "unlink" /\ rotation'.at = k - 1
    BY <1>3 DEF AfterArchive
  <2>2. config.maxFiles \in Nat /\ Highest \in Nat
    BY ConfigNumbers, SlotFacts
  <2>3. rotation'.at < config.maxFiles
    BY <1>1, <2>1, <2>2
  <2> QED
    BY <1>1, <1>3, <2>1, <2>3 DEF Holes, NoRotation
<1> QED
  BY <1>2, <1>3

LEMMA RotationLoss ==
  ASSUME OrderInv, LossInv, phase \notin {"down", "prune"}, UNCHANGED config, RotationStep
  PROVE  /\ Holes' /\ Filled' /\ OldestOnly
         /\ \A k \in Slots : k >= config.maxFiles => files'[k] = Absent
         /\ rotation' = NoRotation => bytesWritten' = Len(files'[0])
<1> DEFINE k == rotation.at
<1>1. /\ files \in [Slots -> Contents] /\ Highest \in Nat /\ 0 \in Slots
      /\ rotation \in [step : RotationSteps, at : Nat]
      /\ config.maxFiles \in Nat /\ config.maxFiles \in 1 .. Highest + 1
  BY SlotFacts, ConfigNumbers DEF OrderInv, FilesTyped, RotationOK
<1>2. \A i \in Slots : i >= config.maxFiles => files[i] = Absent
  BY DEF LossInv, Pruned
<1>3. \A i \in 1 .. Highest : i \in Slots /\ i # 0 /\ i - 1 \in Slots /\ files[i] # <<>>
  BY SlotFacts DEF LossInv, Filled
<1>4. CASE Unlink
  <2>1. /\ rotation.step = "unlink" /\ k \in 1 .. Highest /\ k < config.maxFiles
        /\ files[0] \notin {Absent, <<>>}
        /\ k + 1 < config.maxFiles => files[k] = Absent
    BY <1>4 DEF Unlink, OrderInv, RotationOK, LossInv, Holes
  <2>2. CASE files[k - 1] # Absent
    <3>1. files' = [files EXCEPT ![k] = Absent] /\ rotation' = [rotation EXCEPT !.step = "rename"]
      BY <1>4, <2>2 DEF Unlink, Exists
    <3>2. /\ files'[k] = Absent /\ \A i \in Slots \ {k} : files'[i] = files[i]
      BY <1>1, <1>3, <2>1, <3>1
    <3>3. rotation'.step = "rename" /\ rotation'.at = k
      BY <1>1, <3>1
    <3>4. k - 1 \in Slots \ {k} /\ 0 \in Slots \ {k}
      BY <1>1, <1>3, <2>1
    <3>5. Holes'
      BY <2>1, <2>2, <3>2, <3>3, <3>4 DEF Holes
    <3>6. \A i \in 1 .. Highest : files'[i] # <<>>
      BY <1>3, <3>2, SlotFacts
    <3>7. \A i \in Slots : i >= config.maxFiles => files'[i] = Absent
      BY <1>2, <3>2
    <3>8. OldestOnly
      <4>1. CASE files[k] = Absent
        <5>1. \A i \in Slots : files[i] # Absent => files'[i] = files[i]
          BY <3>2, <4>1
        <5> QED
          BY <5>1, AllKept, NothingLost
      <4>2. CASE files[k] # Absent
        <5>1. \A i \in Slots : files'[i] # Absent => i < k /\ files'[i] = files[i]
          <6>1. ~(k + 1 < config.maxFiles)
            BY <2>1, <4>2
          <6> QED
            BY <1>1, <1>2, <2>1, <3>2, <6>1, SlotFacts
        <5>2. ASSUME NEW r \in OnDisk \ OnDisk'
              PROVE  \E b \in DOMAIN files[k] : r = files[k][b]
          <6>1. PICK i \in Slots : files[i] # Absent /\ \E b \in DOMAIN files[i] : r = files[i][b]
            BY <5>2 DEF OnDisk, Exists, Slots
          <6>2. i = k
            <7>1. ASSUME i # k PROVE r \in OnDisk'
              BY <3>2, <6>1, <7>1 DEF OnDisk, Exists, Slots
            <7> QED
              BY <5>2, <7>1
          <6> QED
            BY <6>1, <6>2
        <5>3. ASSUME NEW r \in OnDisk \ OnDisk', NEW q \in OnDisk' PROVE r < q
          <6>1. PICK b \in DOMAIN files[k] : r = files[k][b]
            BY <5>2, <5>3
          <6>2. PICK i \in Slots : files'[i] # Absent /\ \E c \in DOMAIN files'[i] : q = files'[i][c]
            BY <5>3 DEF OnDisk, Exists, Slots
          <6>3. i < k /\ files'[i] = files[i] /\ files[i] # Absent /\ k \in Slots
            BY <1>3, <2>1, <5>1, <6>2
          <6>4. PICK c \in DOMAIN files[i] : q = files[i][c]
            BY <6>2, <6>3
          <6> QED
            BY <4>2, <6>1, <6>3, <6>4, SlotFacts DEF OrderInv, LogsInOrder, Exists, Slots
        <5>4. OnDisk' # {}
          <6>1. files[k - 1] \notin {Absent, <<>>} /\ k - 1 \in Slots
            <7>1. k - 1 = 0 \/ k - 1 \in 1 .. Highest
              BY <1>1, <2>1
            <7> QED
              BY <1>3, <2>1, <2>2, <7>1
          <6>2. 1 \in DOMAIN files[k - 1]
            BY <6>1, NonemptyFile DEF OrderInv
          <6>3. files'[k - 1] = files[k - 1]
            BY <3>2, <3>4
          <6>4. files'[k - 1][1] \in OnDisk'
            BY <2>2, <6>1, <6>2, <6>3 DEF OnDisk, Exists, Slots
          <6> QED
            BY <6>4
        <5> QED
          BY <5>3, <5>4 DEF OldestOnly
      <4> QED
        BY <4>1, <4>2
    <3> QED
      BY <3>3, <3>5, <3>6, <3>7, <3>8 DEF Filled, NoRotation
  <2>3. CASE files[k - 1] = Absent
    <3>1. files' = files /\ rotation' = AfterArchive(k)
      BY <1>4, <2>3 DEF Unlink, Exists
    <3>2. Holes' /\ rotation' # NoRotation
      BY <2>1, <2>3, <3>1, NextArchive
    <3> QED
      BY <1>2, <1>3, <3>1, <3>2, SameFiles DEF Filled
  <2> QED
    BY <2>2, <2>3
<1>5. CASE RenameFile
  <2>1. /\ rotation.step = "rename" /\ k \in 1 .. Highest /\ k < config.maxFiles
        /\ files[0] \notin {Absent, <<>>} /\ files[k] = Absent /\ files[k - 1] # Absent
        /\ files' = [files EXCEPT ![k] = files[k - 1], ![k - 1] = Absent]
        /\ rotation' = AfterArchive(k)
    BY <1>5 DEF RenameFile, OrderInv, RotationOK, LossInv, Holes
  <2>2. k \in Slots /\ k - 1 \in Slots /\ k # k - 1
    BY <1>3, <2>1, SlotFacts
  <2>3. /\ files'[k] = files[k - 1] /\ files'[k - 1] = Absent
        /\ \A i \in Slots \ {k, k - 1} : files'[i] = files[i]
    BY <1>1, <2>1, <2>2
  <2>4. k # 1 => files'[0] = files[0]
    BY <1>1, <2>1, <2>3
  <2>5. Holes' /\ rotation' # NoRotation
    BY <2>1, <2>3, <2>4, NextArchive
  <2>6. \A i \in 1 .. Highest : files'[i] # <<>>
    <3>1. files[k - 1] # <<>>
      <4>1. k - 1 = 0 \/ k - 1 \in 1 .. Highest
        BY <1>1, <2>1
      <4> QED
        BY <1>3, <2>1, <4>1
    <3> QED
      BY <1>3, <2>3, <3>1, SlotFacts
  <2>7. \A i \in Slots : i >= config.maxFiles => files'[i] = Absent
    <3>1. \A i \in Slots : i >= config.maxFiles => i # k
      BY <1>1, <2>1, SlotFacts
    <3> QED
      BY <1>2, <2>3, <3>1
  <2>8. OldestOnly
    <3>1. \A i \in Slots : files[i] # Absent => \E j \in Slots : files'[j] = files[i]
      BY <2>1, <2>2, <2>3
    <3> QED
      BY <3>1, AllKept, NothingLost
  <2> QED
    BY <2>5, <2>6, <2>7, <2>8 DEF Filled
<1>6. CASE SetLen
  <2>1. /\ files' = [files EXCEPT ![0] = <<>>] /\ rotation' = [rotation EXCEPT !.step = "seek"]
        /\ config.maxFiles = 1
    BY <1>6 DEF SetLen, LossInv, Holes
  <2>2. /\ files'[0] = <<>> /\ \A i \in Slots \ {0} : files'[i] = files[i]
        /\ rotation'.step = "seek"
    BY <1>1, <2>1
  <2>3. \A i \in Slots \ {0} : i >= config.maxFiles
    BY <2>1, SlotFacts
  <2>4. OnDisk' = {}
    <3>1. \A i \in Slots : files'[i] \in {Absent, <<>>}
      BY <1>2, <2>2, <2>3
    <3>2. ASSUME NEW r \in OnDisk' PROVE FALSE
      <4>1. PICK i \in Slots : files'[i] # Absent /\ \E c \in DOMAIN files'[i] : r = files'[i][c]
        BY <3>2 DEF OnDisk, Exists, Slots
      <4> QED
        BY <3>1, <4>1
    <3> QED
      BY <3>2
  <2>5. Holes'
    BY <2>2 DEF Holes
  <2>6. Filled'
    BY <1>3, <2>2 DEF Filled
  <2>7. \A i \in Slots : i >= config.maxFiles => files'[i] = Absent
    <3>1. ~(0 >= config.maxFiles)
      BY <2>1
    <3> QED
      BY <1>2, <2>2, <3>1
  <2> QED
    BY <2>1, <2>2, <2>4, <2>5, <2>6, <2>7 DEF OldestOnly, NoRotation
<1>7. CASE SeekStart
  <2>1. files' = files /\ rotation' = NoRotation /\ bytesWritten' = 0 /\ files[0] = <<>>
    BY <1>7 DEF SeekStart, LossInv, Holes
  <2>2. Holes'
    BY <2>1 DEF Holes, NoRotation
  <2> QED
    BY <1>2, <1>3, <2>1, <2>2, SameFiles, EmptySeq DEF Filled
<1>8. CASE CreateCurrent
  <2>1. /\ files' = [files EXCEPT ![0] = <<>>] /\ rotation' = NoRotation /\ bytesWritten' = 0
        /\ files[0] = Absent
    BY <1>8 DEF CreateCurrent, Exists
  <2>2. /\ files'[0] = <<>> /\ \A i \in Slots \ {0} : files'[i] = files[i]
    BY <1>1, <2>1
  <2>3. Holes'
    BY <2>1 DEF Holes, NoRotation
  <2>4. Filled'
    BY <1>3, <2>2 DEF Filled
  <2>5. \A i \in Slots : i >= config.maxFiles => files'[i] = Absent
    <3>1. ~(0 >= config.maxFiles)
      BY <1>1
    <3> QED
      BY <1>2, <2>2, <3>1
  <2>6. OldestOnly
    <3>1. \A i \in Slots : files[i] # Absent => files'[i] = files[i]
      BY <2>1, <2>2
    <3> QED
      BY <3>1, AllKept, NothingLost
  <2> QED
    BY <2>1, <2>2, <2>3, <2>4, <2>5, <2>6, EmptySeq
<1> QED
  BY <1>4, <1>5, <1>6, <1>7, <1>8 DEF RotationStep

-----------------------------------------------------------------------------
(* Each step loses only the oldest, and leaves the invariant behind. *)

(* Steps that leave the files alone. *)
LEMMA LossKept ==
  ASSUME LossInv, Idle', UNCHANGED <<files, bytesWritten, config>>,
         UNCHANGED rotation \/ rotation' = NoRotation,
         phase' # "down" => phase \notin {"down", "prune"},
         Running' /\ (worker' = "write" \/ (worker' \in {"recv", "flush"} /\ ~writeFailed')) =>
           Running /\ (worker = "write" \/ (worker \in {"recv", "flush"} /\ ~writeFailed))
  PROVE  LossInv' /\ OldestOnly
<1>1. Pruned'
  BY DEF LossInv, Pruned
<1>2. Holes'
  BY DEF LossInv, Holes, NoRotation
<1>3. Filled' /\ Counted'
  BY DEF LossInv, Filled, Counted
<1> QED
  BY <1>1, <1>2, <1>3, SameFiles DEF LossInv

LEMMA ProduceLoss ==
  ASSUME OrderInv, LossInv, phase \in {"run", "closed", "reported"}, Produce
  PROVE  LossInv' /\ OldestOnly
<1>1. /\ UNCHANGED <<phase, config, worker, bytesWritten, rotation, files>>
      /\ writeFailed' = writeFailed \/ writeFailed' = TRUE
  BY DEF Produce, Emit, WriteRecord, Enqueue, writerVars
<1>2. Idle'
  BY <1>1 DEF LossInv, Idle, Running
<1> QED
  BY <1>1, <1>2, LossKept DEF Running

LEMMA WriteLoss ==
  ASSUME OrderInv, LossInv, Running, Write
  PROVE  LossInv' /\ OldestOnly
<1>1. /\ worker = "write" /\ inHand # NoRecord /\ inHand \in Queued /\ config \in Configs
      /\ bytesWritten \in Nat /\ files \in [Slots -> Contents] /\ files[0] # Absent
      /\ UNCHANGED <<phase, config, writeFailed>>
  BY DEF OrderInv, AccountInv, InHand, Typed, FilesTyped, Current, Exists, Write, WorkerKeeps
<1>2. files[0] \in Seq(Nat) /\ bytesWritten = Len(files[0]) /\ 0 \in Slots
  BY <1>1, SlotFacts DEF LossInv, Counted, Contents
<1>3. CASE RotationDue
  <2>1. worker' = "rotate" /\ StartRotation /\ UNCHANGED <<bytesWritten, files>>
    BY <1>3 DEF Write
  <2>2. files[0] # <<>>
    BY <1>2, <1>3, EmptySeq DEF RotationDue
  <2>3. Holes'
    BY <1>1, <2>1, <2>2, StartsRoomy
  <2>4. Idle' /\ Pruned' /\ Filled' /\ Counted'
    BY <1>1, <2>1 DEF LossInv, Idle, Pruned, Filled, Counted, Running
  <2> QED
    BY <2>1, <2>3, <2>4, SameFiles DEF LossInv
<1>4. CASE ~RotationDue
  <2>1. inHand.left \in Nat
    BY <1>1, QueuedFields, Sizes
  <2>2. (IF "io" \in Faults THEN 1 .. inHand.left ELSE {inHand.left}) \subseteq Nat
    BY <2>1
  <2>3. PICK n \in Nat :
          /\ files' = [files EXCEPT ![0] = @ \o [k \in 1 .. n |-> inHand.id]]
          /\ bytesWritten' = bytesWritten + n
          /\ worker' \in {"write", "flush"}
          /\ rotation' = rotation
    BY <1>4, <2>2, Zenon DEF Write
  <2> DEFINE new == [k \in 1 .. n |-> inHand.id]
  <2>4. new \in Seq(Nat) /\ Len(new) = n
    BY <1>1, QueuedFields, SeqDef
  <2>5. files' = [files EXCEPT ![0] = files[0] \o new]
    BY <2>3
  <2> HIDE DEF new
  <2>6. /\ files[0] \o new \in Seq(Nat) /\ Len(files[0] \o new) = bytesWritten + n
        /\ Len(files[0]) \in Nat /\ DOMAIN files[0] = 1 .. Len(files[0])
        /\ DOMAIN (files[0] \o new) = 1 .. Len(files[0]) + n
        /\ \A b \in 1 .. Len(files[0]) : (files[0] \o new)[b] = files[0][b]
    <3>1. /\ files[0] \o new \in Seq(Nat) /\ Len(files[0] \o new) = Len(files[0]) + n
          /\ \A b \in 1 .. Len(files[0]) + n :
               (files[0] \o new)[b] = IF b <= Len(files[0]) THEN files[0][b]
                                      ELSE new[b - Len(files[0])]
      BY <1>2, <2>4, ConcatProperties
    <3>2. /\ Len(files[0]) \in Nat /\ DOMAIN files[0] = 1 .. Len(files[0])
          /\ DOMAIN (files[0] \o new) = 1 .. Len(files[0]) + n
      BY <1>2, <3>1, LenProperties
    <3> QED
      BY <1>2, <3>1, <3>2
  <2>7. /\ files'[0] = files[0] \o new /\ \A i \in Slots \ {0} : files'[i] = files[i]
        /\ files'[0] # Absent
    BY <1>1, <1>2, <2>5, <2>6, LogAssumption
  <2>8. rotation = NoRotation /\ Idle'
    BY <1>1, <2>3 DEF LossInv, Idle, Running
  <2>9. Holes'
    BY <2>3, <2>8 DEF Holes, NoRotation
  <2>10. Pruned'
    <3>1. \A i \in Slots : i >= config.maxFiles => i # 0
      BY ConfigNumbers
    <3> QED
      BY <1>1, <2>7, <3>1 DEF LossInv, Pruned, Running
  <2>11. Filled'
    BY <2>7, SlotFacts DEF LossInv, Filled, Slots
  <2>12. Counted'
    BY <2>3, <2>6, <2>7 DEF Counted
  <2>13. OnDisk \subseteq OnDisk'
    <3> SUFFICES ASSUME NEW i \in Slots, files[i] # Absent, NEW b \in DOMAIN files[i]
                 PROVE  files[i][b] \in OnDisk'
      BY DEF OnDisk, Exists, Slots
    <3>1. files'[i] # Absent /\ b \in DOMAIN files'[i] /\ files'[i][b] = files[i][b]
      <4>1. CASE i = 0
        <5>1. b \in 1 .. Len(files[0]) /\ b \in 1 .. Len(files[0]) + n
          BY <2>3, <2>6, <4>1
        <5> QED
          BY <2>6, <2>7, <4>1, <5>1
      <4>2. CASE i # 0
        BY <2>7, <4>2
      <4> QED
        BY <4>1, <4>2
    <3> QED
      BY <3>1 DEF OnDisk, Exists, Slots
  <2> QED
    BY <2>8, <2>9, <2>10, <2>11, <2>12, <2>13, NothingLost DEF LossInv
<1> QED
  BY <1>3, <1>4

LEMMA RotateLoss ==
  ASSUME OrderInv, LossInv, Running, Rotate
  PROVE  LossInv' /\ OldestOnly
<1>1. /\ RotationStep /\ UNCHANGED <<phase, config, writeFailed>>
      /\ worker' = IF rotation' = NoRotation THEN "write" ELSE "rotate"
  BY DEF Rotate, WorkerKeeps
<1>2. /\ Holes' /\ Filled' /\ OldestOnly
      /\ \A k \in Slots : k >= config.maxFiles => files'[k] = Absent
      /\ rotation' = NoRotation => bytesWritten' = Len(files'[0])
  BY <1>1, RotationLoss DEF Running
<1>3. Idle' /\ Pruned' /\ Counted'
  BY <1>1, <1>2 DEF Idle, Pruned, Counted, Running
<1> QED
  BY <1>2, <1>3 DEF LossInv

LEMMA WorkerLoss ==
  ASSUME OrderInv, LossInv, Running, Receive \/ Flush \/ WriteFails \/ WorkerEnds
  PROVE  LossInv' /\ OldestOnly
<1>1. /\ UNCHANGED <<phase, config, bytesWritten, files>>
      /\ UNCHANGED rotation \/ rotation' = NoRotation
  BY DEF Receive, Flush, WriteFails, WorkerEnds, WorkerKeeps, writerVars
<1>2. \/ worker = "recv" /\ writeFailed' = writeFailed /\ worker' = worker
      \/ worker = "recv" /\ ~writeFailed /\ worker' = "write"
      \/ worker = "flush" /\ worker' = "recv" /\ writeFailed' = writeFailed
      \/ worker' = "recv" /\ writeFailed' = TRUE
      \/ worker' = "done"
  BY DEF Receive, Flush, WriteFails, NoteFailure, WorkerEnds
<1>3. Idle'
  <2>1. rotation = NoRotation \/ rotation' = NoRotation
    BY DEF LossInv, Idle, Running, Receive, Flush, WriteFails, WorkerEnds
  <2> QED
    BY <1>1, <2>1 DEF Idle
<1> QED
  BY <1>1, <1>2, <1>3, LossKept DEF Running

(* What `prune_archives' loses is not the rotation's. *)
LEMMA PruneLoss ==
  ASSUME OrderInv, LossInv, Prune
  PROVE  LossInv'
<1>1. /\ phase = "prune" /\ rotation.step = "prune" /\ rotation.at > 0
      /\ rotation \in [step : RotationSteps, at : Nat] /\ files \in [Slots -> Contents]
      /\ worker = "recv" /\ UNCHANGED <<config, worker>>
  BY NothingInHand DEF OrderInv, Prune, RotationOK, FilesTyped, StartKeeps
<1>2. \A i \in Slots : i >= config.maxFiles /\ i < rotation.at => files[i] = Absent
  BY <1>1 DEF LossInv, Pruned
<1>3. CASE rotation.at <= Highest
  <2>1. /\ files' = [files EXCEPT ![rotation.at] = Absent] /\ phase' = "prune"
        /\ rotation' = [rotation EXCEPT !.at = @ + 1]
    BY <1>1, <1>3 DEF Prune
  <2>2. /\ rotation'.step = "prune" /\ rotation'.at = rotation.at + 1
        /\ \A i \in Slots : files'[i] = IF i = rotation.at THEN Absent ELSE files[i]
    BY <1>1, <2>1
  <2>3. \A i \in Slots : i < rotation.at + 1 => i < rotation.at \/ i = rotation.at
    BY <1>1, SlotFacts
  <2>4. Pruned'
    <3>1. \A i \in Slots :
            i >= config'.maxFiles /\ i < rotation'.at => files'[i] = Absent
      <4>1. config' = config
        BY <1>1
      <4> QED
        BY <1>2, <2>2, <2>3, <4>1
    <3> QED
      BY <2>1, <3>1 DEF Pruned
  <2>5. Filled'
    <3>1. Absent # <<>>
      BY SlotFacts
    <3> QED
      BY <2>2, <3>1, SlotFacts DEF LossInv, Filled
  <2>6. Idle' /\ Holes' /\ Counted'
    BY <2>1, <2>2 DEF Idle, Holes, Counted, Running
  <2> QED
    BY <2>4, <2>5, <2>6 DEF LossInv
<1>4. CASE ~(rotation.at <= Highest)
  <2>1. files' = files /\ phase' = "open" /\ rotation' = NoRotation
    BY <1>1, <1>4 DEF Prune
  <2>2. \A i \in Slots : i < rotation.at
    BY <1>1, <1>4, SlotFacts DEF Slots
  <2>3. Pruned'
    <3>1. \A i \in Slots : i >= config'.maxFiles => files'[i] = Absent
      BY <1>1, <1>2, <2>1, <2>2
    <3> QED
      BY <3>1 DEF Pruned
  <2>4. Idle' /\ Holes' /\ Filled' /\ Counted'
    BY <2>1 DEF LossInv, Idle, Holes, Filled, Counted, Running, NoRotation
  <2> QED
    BY <2>3, <2>4 DEF LossInv
<1> QED
  BY <1>3, <1>4

LEMMA OpenLoss ==
  ASSUME OrderInv, LossInv, Open
  PROVE  LossInv' /\ OldestOnly
<1>1. /\ phase = "open" /\ files \in [Slots -> Contents] /\ worker = "recv"
      /\ files' = (IF files[0] # Absent THEN files ELSE [files EXCEPT ![0] = <<>>])
      /\ bytesWritten' = Len(files'[0]) /\ UNCHANGED <<config, worker>>
      /\ \/ bytesWritten' >= config.maxFileBytes /\ phase' = "rotate" /\ StartRotation
         \/ phase' = "run" /\ rotation' = rotation
  BY NothingInHand DEF OrderInv, Open, FilesTyped, Exists, StartKeeps
<1>2. /\ files'[0] # Absent /\ \A i \in Slots \ {0} : files'[i] = files[i]
      /\ files[0] # Absent => files'[0] = files[0]
  BY <1>1, SlotFacts
<1>3. rotation = NoRotation
  BY <1>1 DEF LossInv, Idle, Running
<1>4. Holes'
  <2>1. CASE phase' = "run"
    BY <1>1, <1>3, <2>1 DEF Holes, NoRotation
  <2>2. CASE phase' = "rotate"
    <3>1. Len(files'[0]) >= config.maxFileBytes /\ StartRotation
      BY <1>1, <2>2
    <3>2. files'[0] # <<>>
      BY <3>1, ConfigNumbers, EmptySeq
    <3> QED
      BY <1>1, <1>2, <3>1, <3>2, StartsRoomy
  <2> QED
    BY <1>1, <2>1, <2>2
<1>5. Pruned'
  <2>1. \A i \in Slots : i >= config.maxFiles => i # 0
    BY ConfigNumbers
  <2> QED
    BY <1>1, <1>2, <2>1 DEF LossInv, Pruned
<1>6. Filled'
  BY <1>2, SlotFacts DEF LossInv, Filled
<1>7. Idle' /\ Counted'
  BY <1>1, <1>3 DEF Idle, Counted
<1>8. OldestOnly
  <2>1. \A i \in Slots : files[i] # Absent => files'[i] = files[i]
    BY <1>2
  <2> QED
    BY <2>1, AllKept, NothingLost
<1> QED
  BY <1>4, <1>5, <1>6, <1>7, <1>8 DEF LossInv

LEMMA RotateFullLoss ==
  ASSUME OrderInv, LossInv, RotateFull
  PROVE  LossInv' /\ OldestOnly
<1>1. /\ phase = "rotate" /\ RotationStep /\ UNCHANGED <<config, worker>> /\ worker = "recv"
      /\ phase' = IF rotation' = NoRotation THEN "run" ELSE "rotate"
  BY NothingInHand DEF OrderInv, RotateFull, StartKeeps
<1>2. /\ Holes' /\ Filled' /\ OldestOnly
      /\ \A k \in Slots : k >= config.maxFiles => files'[k] = Absent
      /\ rotation' = NoRotation => bytesWritten' = Len(files'[0])
  BY <1>1, RotationLoss
<1>3. Idle' /\ Pruned' /\ Counted'
  BY <1>1, <1>2 DEF Idle, Pruned, Counted, Running
<1> QED
  BY <1>2, <1>3 DEF LossInv

LEMMA StartLoss ==
  ASSUME OrderInv, LossInv, Start
  PROVE  LossInv' /\ OldestOnly
<1>1. /\ phase' = "prune" /\ config' \in Configs
      /\ rotation' = [step |-> "prune", at |-> config'.maxFiles]
      /\ UNCHANGED <<bytesWritten, files>>
  BY DEF Start
<1>2. \A i \in Slots : ~(i >= config'.maxFiles /\ i < config'.maxFiles)
  BY <1>1, ConfigFacts, Sizes, SlotFacts
<1>3. Pruned'
  BY <1>1, <1>2 DEF Pruned
<1>4. Idle' /\ Holes' /\ Filled' /\ Counted'
  BY <1>1 DEF LossInv, Idle, Holes, Filled, Counted, Running
<1> QED
  BY <1>1, <1>3, <1>4, SameFiles DEF LossInv

LEMMA LifeLoss ==
  ASSUME OrderInv, LossInv, StartFails \/ Close \/ Report \/ Exit
  PROVE  LossInv' /\ OldestOnly
<1>1. UNCHANGED <<files, bytesWritten, config, worker, writeFailed>>
  BY DEF StartFails, StartKeeps, Close, Report, Exit, queueVars, writerVars
<1>2. \/ phase' = "down" /\ rotation' = NoRotation
      \/ phase = "run" /\ phase' = "closed" /\ rotation' = rotation
      \/ phase = "closed" /\ worker = "done" /\ phase' = "reported" /\ rotation' = rotation
  BY DEF StartFails, Close, Report, Joined, Exit, writerVars
<1>3. Idle'
  BY <1>1, <1>2 DEF LossInv, Idle, Running
<1> QED
  BY <1>1, <1>2, <1>3, LossKept DEF Running

LEMMA NextLoss ==
  ASSUME OrderInv, LossInv, [Next]_vars
  PROVE  LossInv' /\ (phase # "prune" => OldestOnly)
<1>1. CASE phase \in {"run", "closed", "reported"} /\ Produce
  BY <1>1, ProduceLoss
<1>2. CASE Running /\ WorkerStep
  BY <1>2, WriteLoss, RotateLoss, WorkerLoss DEF WorkerStep
<1>3. CASE LifeStep
  <2>1. Prune => phase = "prune"
    BY DEF Prune
  <2> QED
    BY <1>3, <2>1, PruneLoss, OpenLoss, RotateFullLoss, StartLoss, LifeLoss DEF LifeStep
<1>4. CASE UNCHANGED vars
  <2>1. UNCHANGED <<phase, config, worker, writeFailed, bytesWritten, rotation, files>>
    BY <1>4 DEF vars, writerVars
  <2>2. LossInv'
    BY <2>1 DEF LossInv, Idle, Pruned, Holes, Filled, Counted, Running
  <2> QED
    BY <2>1, <2>2, SameFiles
<1> QED
  BY <1>1, <1>2, <1>3, <1>4 DEF Next

(* The inductive invariant of the holes holds throughout. *)
THEOREM LossHolds == Spec => []LossInv
<1>1. Spec => []OrderInv
  BY OrderHolds
<1>2. OrderInv /\ LossInv /\ [Next]_vars => LossInv'
  BY NextLoss
<1> QED
  BY <1>1, <1>2, InitLoss, PTL DEF Spec

(* `rotate' loses only the oldest records: what a step takes off the disk is older
   than all that stays, and something stays unless there is only one file, at every
   single step, after failures and crashes at any other. *)
THEOREM RotationLosesOldest == Spec => OldestLost
<1>1. OrderInv /\ LossInv /\ [Next]_vars =>
        [ LET lost == OnDisk \ OnDisk' IN
          phase # "prune" /\ lost # {} =>
            /\ config.maxFiles > 1 => OnDisk' # {}
            /\ \A r \in lost, q \in OnDisk' : r < q ]_vars
  BY NextLoss DEF OldestOnly
<1> QED
  BY <1>1, OrderHolds, LossHolds, PTL DEF Spec, OldestLost

=============================================================================
