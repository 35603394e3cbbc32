-------------------------------- MODULE Player --------------------------------
(***************************************************************************)
(* The player: the event loop of src/src/terminal.rs with the playback     *)
(* controls and the queue, and the audio worker, joined by their lanes.    *)
(***************************************************************************)
EXTENDS Playback, AudioWorker

CONSTANTS
  MaxBurst,     \* controls taken between two looks at the audio lanes
  MaxSeeks      \* bound: seeks sent in one behaviour

(* What the header says of an entry is a time, or nothing. *)
ASSUME PlayerAssumption == DurationOf \in [Entries -> Nat \cup {NoTime}]

VARIABLES
  loop,         \* where the event loop is
  burst,        \* controls taken since it last looked at the audio lanes
  seeks         \* seeks sent so far, for the bound MaxSeeks

vars == <<appVars, inputs, laneVars, workerVars, loop, burst, seeks>>

Init ==
  /\ PlaybackInit
  /\ LanesInit
  /\ WorkerInit
  /\ loop = "positions"
  /\ burst = 0
  /\ seeks = 0

-----------------------------------------------------------------------------
(* `drain_audio_events' takes positions until the slot is empty, then events
   until the lane is; then come desktop actions and one terminal event. *)

TakePosition ==
  /\ loop = "positions"
  /\ positionLane # NoReport
  /\ PositionReported(positionLane)
  /\ positionLane' = NoReport
  /\ UNCHANGED <<queueVars, repeat, muted, commands, commandsOpen, seekLane, events>>
  /\ UNCHANGED <<workerVars, loop, burst, seeks>>

PositionsDrained ==
  /\ loop = "positions"
  /\ positionLane = NoReport
  /\ loop' = "events"
  /\ UNCHANGED <<appVars, laneVars, workerVars, burst, seeks>>

TakeEvent ==
  /\ loop = "events"
  /\ events # <<>>
  /\ EventHandled(Head(events))
  /\ events' = Tail(events)
  /\ UNCHANGED <<positionLane, workerVars, loop, burst, seeks>>

EventsDrained ==
  /\ loop = "events"
  /\ events = <<>>
  /\ loop' = "input"
  /\ UNCHANGED <<appVars, laneVars, workerVars, burst, seeks>>

(* One desktop action or terminal event, which is this control. *)
Input(control) ==
  /\ loop = "input"
  /\ control
  /\ burst' = (burst + 1) % MaxBurst
  /\ loop' = IF burst' = 0 THEN "positions" ELSE "input"
  /\ seeks' = IF seekLane' # seekLane THEN seeks + 1 ELSE seeks
  /\ seeks' <= MaxSeeks
  /\ UNCHANGED <<workerVars, inputs>>

TakeInput == Input(UserControl \/ QueueEdit)

LoopAgain ==
  /\ loop = "input"
  /\ loop' = "positions"
  /\ burst' = 0
  /\ UNCHANGED <<appVars, laneVars, workerVars, seeks>>

(* Quitting closes the lanes and joins the worker. *)
Quit ==
  /\ "quit" \in inputs
  /\ loop = "input"
  /\ CloseLanes
  /\ loop' = "closing"
  /\ UNCHANGED <<appVars, inputs, workerVars, burst, seeks>>

WorkerJoined ==
  /\ loop = "closing"
  /\ ~running
  /\ loop' = "closed"
  /\ playback' = [playback EXCEPT !.status = "Stopped", !.seekTarget = NoTime]
  /\ UNCHANGED <<queueVars, repeat, muted, laneVars, workerVars, burst, seeks>>

EventLoop ==
  /\ \/ TakePosition \/ PositionsDrained \/ TakeEvent \/ EventsDrained
     \/ LoopAgain \/ WorkerJoined
  /\ UNCHANGED inputs

WorkerStep == WorkerNext /\ UNCHANGED <<appVars, inputs, loop, burst, seeks>>

Next == EventLoop \/ TakeInput \/ Quit \/ WorkerStep

(* Each thread keeps running.  A held seek is due a fixed time after the last
   one, the decoder helper answers or is timed out, the device keeps playing
   what it is given: so none of the worker's steps waits forever.  Nothing
   makes the listener act, and a worker without a track sleeps on its command
   lane, whatever the seek lane holds. *)
Fairness ==
  /\ WF_vars(EventLoop)
  /\ WF_vars(ReceiveCommand /\ WorkerStep)
  /\ WF_vars(IsActive /\ ReceiveSeek /\ WorkerStep)
  /\ WF_vars(SettleSeek /\ WorkerStep)
  /\ WF_vars(WorkerExits /\ WorkerStep)
  /\ WF_vars(Drive /\ WorkerStep)
  /\ WF_vars(DevicePlays /\ WorkerStep)

Spec == Init /\ [][Next]_vars
FairSpec == Spec /\ Fairness

-----------------------------------------------------------------------------
(* Nothing is in flight between a running event loop and its worker. *)
Quiet == commandsOpen /\ commands = <<>> /\ events = <<>>

GenerationsLeft == playback.generation < MaxPlaybackGen

(* Once nothing is in flight the display and the worker agree: the same track
   at the same generation or none, paused exactly when a pause was the last
   request, shown as paused or playing accordingly, at the gain that was set,
   and no requested stop is outstanding.  When the track plays again, no target
   of a seek is left over that would freeze the position. *)
QuietAgreement ==
  Quiet /\ GenerationsLeft =>
    /\ WorkerHasTrack = IsActive
    /\ WorkerHasTrack =>
         /\ active.generation = playback.generation
         /\ active.entry = playback.current.entry
         /\ active.muted = muted
         /\ playback.request # "Stop"
         /\ active.paused = (playback.request = "Pause")
         /\ playback.status = "Paused" => active.paused
         /\ playback.status = "Playing" => ~active.paused
    /\ seekLane = NoSeek /\ pendingSeek = NoSeek /\ (IsActive => active.started)
         => playback.seekTarget = NoTime

(* A generation ends once: after its stop, finish or failure has been reported
   nothing more is, and the worker no longer has it. *)
Ends(event) == event.type \in {"Stopped", "Finished", "Failed"}
EndedOnce ==
  \A i \in DOMAIN events :
    Ends(events[i]) =>
      /\ active.generation # events[i].generation
      /\ \A j \in i + 1 .. Len(events) : events[j].generation # events[i].generation

(* What is shown of a track never goes back to an earlier timeline: a report
   or event from before a seek cannot overwrite one from after it. *)
TimelineMonotone ==
  [][ /\ playback'.generation = playback.generation
      /\ playback'.status # "Stopped"
      => playback'.timeline >= playback.timeline ]_vars

(* Every load is answered: it starts, pauses, fails, stops or gives way to a
   newer one, and no track shows as loading forever.  So is every seek: once they
   stop coming none leaves a target behind that would freeze the position on
   display. *)
Answered ==
  /\ \A g \in 1 .. MaxPlaybackGen :
       LET loading == playback.status = "Loading" /\ playback.generation = g
       IN  loading ~> ~loading
  /\ playback.seekTarget # NoTime ~> playback.seekTarget = NoTime

(* Quitting ends the worker, also with a full command lane. *)
QuitEnds == loop = "closing" ~> loop = "closed"

=============================================================================
