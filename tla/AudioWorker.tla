----------------------------- MODULE AudioWorker -----------------------------
(***************************************************************************)
(* The audio worker thread of src/src/audio/mod.rs: `WorkerCore' and       *)
(* `worker_main'.  It owns at most one active track, made of a decoder     *)
(* helper and an output stream, receives commands and the newest seek, and *)
(* reports events and positions.                                           *)
(*                                                                         *)
(* The loop of `worker_main' looks at the command lane, then at the seek   *)
(* lane, then at a held seek that has settled, then drives the track.  Any *)
(* of the four may find that an earlier lane has filled since it was       *)
(* looked at, so none of them waits here for the others to be empty.       *)
(*                                                                         *)
(* Decoder and output are external: a track yields one block per unit of   *)
(* its length, the ring holds RingSize blocks, the device plays one block  *)
(* at a time while it is audible.                                          *)
(***************************************************************************)
EXTENDS AudioLanes

CONSTANTS
  LengthOf,        \* what the decoder of an entry really yields
  DurationOf,      \* what its header says, NoTime when it says nothing
  RingSize,        \* blocks the output ring holds
  ReportInterval,  \* POSITION_INTERVAL
  MayFail          \* whether helpers, devices and their cleanup may fail

ASSUME WorkerAssumption ==
  /\ RingSize \in Nat \ {0}
  /\ ReportInterval \in Nat \ {0}
  /\ MayFail \in BOOLEAN

VARIABLES
  active,          \* ActivePlayback, or NoActive
  pendingSeek,     \* the seek held back while seeks keep coming, or NoSeek
  restarted,       \* whether `last_restart' is set
  running          \* whether the worker's loop still runs

workerVars == <<active, pendingSeek, restarted, running>>

NoActive == [generation |-> 0]
IsActive == active.generation # 0
Matches(generation) == IsActive /\ active.generation = generation

NewActive(generation, timeline, entry, position, paused, muted, duration, notice) ==
  [generation |-> generation, timeline |-> timeline, entry |-> entry, muted |-> muted,
   info |-> FALSE, duration |-> duration, pending |-> FALSE, started |-> FALSE,
   paused |-> paused, ended |-> FALSE, base |-> position, reported |-> position,
   notice |-> notice, ring |-> 0, consumed |-> 0]

WorkerInit ==
  /\ active = NoActive
  /\ pendingSeek = NoSeek
  /\ restarted = FALSE
  /\ running = TRUE

-----------------------------------------------------------------------------
(* Reports. *)

InfoDuration(a) == IF a.info THEN DurationOf[a.entry] ELSE NoTime

PositionFor(a) ==
  IF ~a.info THEN a.base
  ELSE IF InfoDuration(a) = NoTime THEN a.base + a.consumed
  ELSE Lower(a.base + a.consumed, InfoDuration(a))

Report(a, position, duration) ==
  [generation |-> a.generation, timeline |-> a.timeline,
   position |-> position, duration |-> duration]

(* `publish_position': a report goes out when it is forced, after an interval
   of play, or when the position went back. *)
Publishes(a, force) ==
  force \/ PositionFor(a) - a.reported >= ReportInterval \/ PositionFor(a) < a.reported

Published(a, force) ==
  IF Publishes(a, force) THEN [a EXCEPT !.reported = PositionFor(a)] ELSE a

PublishedLane(a, force) ==
  IF Publishes(a, force) THEN Report(a, PositionFor(a), InfoDuration(a)) ELSE positionLane

Emit(type, generation) == events' = Append(events, [type |-> type, generation |-> generation])

(* Mutant: the track is reported as ended but not dropped. *)
ReportsWithoutStopping(type, generation) ==
  /\ pendingSeek' = NoSeek
  /\ Emit(type, generation)
  /\ UNCHANGED active

(* `stop_active' and the event that tells of it; cleanup may turn it into a
   failure. *)
StopActive(type, generation) ==
  /\ active' = NoActive
  /\ pendingSeek' = NoSeek
  /\ \/ Emit(type, generation)
     \/ MayFail /\ Emit("Failed", generation)

CommandLaneKept == UNCHANGED <<commandsOpen, seekLane>>

-----------------------------------------------------------------------------
(* Commands. *)

ExecPlay(c) ==
  /\ pendingSeek' = NoSeek
  /\ \/ /\ active' = NewActive(c.generation, 1, c.entry, c.position, c.paused, c.muted,
                               NoTime, "Started")
        /\ UNCHANGED events
     \/ MayFail /\ active' = NoActive /\ Emit("Failed", c.generation)
  /\ UNCHANGED positionLane

(* Mutant: a file that cannot be opened is not reported. *)
SilentLoadFailed(c) ==
  /\ active' = NoActive
  /\ pendingSeek' = NoSeek
  /\ UNCHANGED <<events, positionLane>>

ExecLoadFailed(c) ==
  /\ active' = NoActive
  /\ pendingSeek' = NoSeek
  /\ Emit("Failed", c.generation)
  /\ UNCHANGED positionLane

(* Mutant: a pause is ignored until the track has started. *)
PausesStarted(c) == Matches(c.generation) /\ ~active.paused /\ active.started

Pauses(c) == Matches(c.generation) /\ ~active.paused

(* Every pause, also one that no longer applies, publishes a position. *)
ExecPause(c) ==
  LET applies == Pauses(c)
      paused == IF applies THEN [active EXCEPT !.paused = TRUE] ELSE active
  IN  \/ /\ active' = IF IsActive THEN Published(paused, TRUE) ELSE active
         /\ positionLane' = IF IsActive THEN PublishedLane(paused, TRUE) ELSE positionLane
         /\ IF applies THEN Emit("Paused", c.generation) ELSE UNCHANGED events
         /\ UNCHANGED pendingSeek
      \/ /\ MayFail /\ applies /\ active.started
         /\ StopActive("Failed", c.generation)
         /\ UNCHANGED positionLane

Resumes(c) == Matches(c.generation) /\ active.paused

ExecResume(c) ==
  /\ IF Resumes(c)
     THEN \/ /\ active' = [active EXCEPT !.paused = FALSE]
             /\ Emit("Resumed", c.generation)
             /\ UNCHANGED pendingSeek
          \/ MayFail /\ active.started /\ StopActive("Failed", c.generation)
     ELSE UNCHANGED <<active, pendingSeek, events>>
  /\ UNCHANGED positionLane

ExecStop(c) ==
  /\ IF Matches(c.generation)
     THEN StopActive("Stopped", c.generation)
     ELSE UNCHANGED <<active, pendingSeek, events>>
  /\ UNCHANGED positionLane

ExecSetGain(c) ==
  /\ active' = IF Matches(c.generation) THEN [active EXCEPT !.muted = c.muted] ELSE active
  /\ UNCHANGED <<pendingSeek, events, positionLane>>

ReceiveCommand ==
  /\ running /\ commands # <<>>
  /\ Head(commands).type # "Shutdown"
  /\ commands' = Tail(commands)
  /\ LET c == Head(commands) IN
     CASE c.type = "Play" -> ExecPlay(c)
       [] c.type = "LoadFailed" -> ExecLoadFailed(c)
       [] c.type = "Pause" -> ExecPause(c)
       [] c.type = "Resume" -> ExecResume(c)
       [] c.type = "Stop" -> ExecStop(c)
       [] c.type = "SetGain" -> ExecSetGain(c)
  /\ CommandLaneKept
  /\ UNCHANGED <<restarted, running>>

(* The loop returns on a shutdown command or, the lane drained, once the
   sender is gone; the seek lane closes behind it. *)
WorkerExits ==
  /\ running
  /\ IF commands = <<>> THEN ~commandsOpen ELSE Head(commands).type = "Shutdown"
  /\ running' = FALSE
  /\ active' = NoActive
  /\ pendingSeek' = NoSeek
  /\ seekLane' = NoSeek
  /\ UNCHANGED <<commands, commandsOpen, events, positionLane, restarted>>

-----------------------------------------------------------------------------
(* Seeks. *)

ReachesEnd(position) == active.duration # NoTime /\ position >= active.duration

(* `finish_at_end' *)
FinishAtEnd ==
  /\ positionLane' = Report(active, active.duration, active.duration)
  /\ StopActive("Finished", active.generation)
  /\ UNCHANGED restarted

PausedOnRestart == active.paused

(* `restart_active': a new decoder and output continue the track, and its
   pause, on the next timeline. *)
RestartForSeek(position) ==
  /\ restarted' = TRUE
  /\ pendingSeek' = NoSeek
  /\ \/ /\ active' = NewActive(active.generation, active.timeline + 1, active.entry,
                               position, PausedOnRestart, active.muted, active.duration, "Seeked")
        /\ UNCHANGED events
     \/ MayFail /\ active' = NoActive /\ Emit("Failed", active.generation)
  /\ UNCHANGED positionLane

(* A seek while another is held, or soon after a restart, silences the output
   and waits for the seeks to stop coming. *)
HoldSeek(request) ==
  /\ pendingSeek # NoSeek \/ restarted
  /\ pendingSeek' = request
  /\ UNCHANGED <<active, restarted, events, positionLane>>

ReceiveSeek ==
  /\ running /\ seekLane # NoSeek
  /\ seekLane' = NoSeek
  /\ IF ~Matches(seekLane.generation)
     THEN UNCHANGED <<active, pendingSeek, restarted, events, positionLane>>
     ELSE IF ReachesEnd(seekLane.position) THEN FinishAtEnd
     ELSE \/ HoldSeek(seekLane)
          \/ pendingSeek = NoSeek /\ RestartForSeek(seekLane.position)
  /\ UNCHANGED <<commands, commandsOpen, running>>

(* `settle_seek', once the held seek is due. *)
SettleSeek ==
  /\ running /\ pendingSeek # NoSeek
  /\ IF Matches(pendingSeek.generation)
     THEN IF ReachesEnd(pendingSeek.position)
          THEN FinishAtEnd ELSE RestartForSeek(pendingSeek.position)
     ELSE /\ pendingSeek' = NoSeek /\ restarted' = TRUE
          /\ UNCHANGED <<active, events, positionLane>>
  /\ CommandLaneKept
  /\ UNCHANGED <<commands, running>>

-----------------------------------------------------------------------------
(* `drive': publish a position, then do one thing for the track, unless a
   held seek is about to replace it. *)

DriveKept == CommandLaneKept /\ UNCHANGED <<commands, restarted, running>>

Driven(a) ==
  /\ active' = a
  /\ positionLane' = PublishedLane(active, FALSE)
  /\ UNCHANGED pendingSeek

DrivePublishes ==
  /\ running /\ IsActive
  /\ Publishes(active, FALSE)
  /\ Driven(Published(active, FALSE))
  /\ UNCHANGED events
  /\ DriveKept

DriveFails ==
  /\ MayFail
  /\ running /\ IsActive
  /\ StopActive("Failed", active.generation)
  /\ UNCHANGED positionLane
  /\ DriveKept

Drives == running /\ IsActive /\ pendingSeek = NoSeek

(* `write_pending': the first block that reaches the output starts it. *)
DriveWrites ==
  /\ Drives
  /\ active.pending /\ active.ring < RingSize
  /\ Driven([Published(active, FALSE) EXCEPT !.pending = FALSE, !.ring = @ + 1,
                                             !.started = TRUE])
  /\ events' =
       IF active.started THEN events
       ELSE Append(events,
              IF active.notice = "Started"
              THEN [type |-> "Started", generation |-> active.generation,
                    timeline |-> active.timeline, position |-> active.base,
                    duration |-> InfoDuration(active)]
              ELSE [type |-> "Seeked", generation |-> active.generation,
                    timeline |-> active.timeline, position |-> active.base])
  /\ DriveKept

Polls == Drives /\ ~active.pending /\ ~active.ended

Exhausted(a) ==
  a.base + a.consumed + a.ring + (IF a.pending THEN 1 ELSE 0) >= LengthOf[a.entry]

(* `decoder_ready': the header says where the decoder really starts.  A
   decoder that starts past the last packet reports an error instead. *)
DriveReady ==
  LET duration == DurationOf[active.entry]
      start == DecoderPosition(IF duration = NoTime THEN active.base
                               ELSE Lower(active.base, duration))
  IN  /\ Polls /\ ~active.info
      /\ \/ /\ Driven([Published(active, FALSE) EXCEPT
                         !.info = TRUE, !.base = start, !.reported = start,
                         !.duration = IF duration # NoTime THEN duration ELSE @])
            /\ UNCHANGED events
         \/ /\ Exhausted(active)
            /\ StopActive("Failed", active.generation)
            /\ positionLane' = PublishedLane(active, FALSE)
      /\ DriveKept

DriveDecodes ==
  /\ Polls /\ active.info
  /\ Driven([Published(active, FALSE) EXCEPT !.pending = ~Exhausted(active),
                                             !.ended = Exhausted(active)])
  /\ UNCHANGED events
  /\ DriveKept

(* `finish_drained': the decoder ended and nothing is left to play. *)
DriveFinishes ==
  LET end == InfoDuration(active)
      played == IF active.started
                THEN Report(active, IF end # NoTime THEN end ELSE PositionFor(active), end)
                ELSE Report(active, IF active.duration # NoTime THEN active.duration
                                    ELSE active.base, active.duration)
      broken == ~active.started /\ active.notice = "Started"
  IN  /\ Drives
      /\ active.ended /\ ~active.pending
      /\ active.started => active.ring = 0 /\ ~active.paused
      /\ StopActive(IF broken THEN "Failed" ELSE "Finished", active.generation)
      /\ positionLane' = IF broken THEN PublishedLane(active, FALSE) ELSE played
      /\ DriveKept

(* The device plays a block; a held seek has silenced it. *)
DevicePlays ==
  /\ running /\ IsActive /\ pendingSeek = NoSeek
  /\ active.started /\ ~active.paused /\ active.ring > 0
  /\ active' = [active EXCEPT !.ring = @ - 1, !.consumed = @ + 1]
  /\ UNCHANGED <<pendingSeek, events, positionLane>>
  /\ DriveKept

Drive ==
  \/ DrivePublishes \/ DriveFails \/ DriveWrites \/ DriveReady
  \/ DriveDecodes \/ DriveFinishes

WorkerNext == ReceiveCommand \/ ReceiveSeek \/ SettleSeek \/ WorkerExits \/ Drive \/ DevicePlays

=============================================================================
