------------------------------- MODULE Playback -------------------------------
(***************************************************************************)
(* Playback as the event loop sees it: `PlaybackState' and the controls of *)
(* src/src/app/playback.rs with the queue edits of src/src/app.rs.  Every  *)
(* control returns at most one intent, which the loop turns into a command *)
(* for the worker (src/src/terminal.rs); here the two are one action, and  *)
(* a full command lane blocks the control.                                 *)
(***************************************************************************)
EXTENDS Queue, AudioLanes

CONSTANTS
  MaxPlaybackGen,   \* the largest playback generation; u64::MAX in the code
  SeekStep,         \* the distance of a relative seek
  Positions,        \* positions that are saved, or sought by name
  Habits            \* the sets of kinds of input that one listener or another gives

ASSUME PlaybackAssumption ==
  /\ MaxPlaybackGen \in Nat \ {0}
  /\ SeekStep \in Nat \ {0}
  /\ Positions \subseteq 0 .. MaxPosition
  /\ Habits \subseteq SUBSET {"transport", "navigation", "seek", "gain", "shuffle", "repeat",
                             "edit", "quit"}

VARIABLES
  playback,       \* PlaybackState
  repeat,         \* RepeatMode
  muted,          \* the gain setting; volume takes the same path
  inputs          \* the kinds of input that this listener gives

appVars == <<queueVars, playback, repeat, muted>>

HasTrackStatus == {"Loading", "Playing", "Paused"}
RepeatMode == {"Off", "All", "One"}

NewPlayback ==
  [generation |-> 0, status |-> "Stopped", seekRevision |-> 0, current |-> NoItem,
   hint |-> 1, timeline |-> 0, seekTarget |-> NoTime, position |-> 0,
   duration |-> NoTime, request |-> "Play", finished |-> FALSE]

-----------------------------------------------------------------------------
(* Reading the playback state. *)

WorkerHasTrack == playback.current.id # 0 /\ playback.status \in HasTrackStatus

(* Mutant: only what the worker acknowledged counts. *)
AcknowledgedStatus == playback.status

(* The status once every command already sent is acknowledged. *)
RequestedStatus ==
  IF ~WorkerHasTrack THEN playback.status
  ELSE CASE playback.request = "Play" -> "Playing"
         [] playback.request = "Pause" -> "Paused"
         [] playback.request = "Stop" -> "Stopped"

CurrentIndex == CurrentPosition(items, playback.current, playback.hint)
NextIndex == NextPosition(playback.current, playback.hint, repeat = "All")
PreviousIndex == PreviousPosition(playback.current, playback.hint, repeat = "All")

ResumePosition ==
  IF playback.finished \/ (playback.duration # NoTime /\ playback.position >= playback.duration)
  THEN 0 ELSE playback.position

(* `PlaybackState::select': all but the seek revision starts over. *)
Selected(item, index, position, generation) ==
  [NewPlayback EXCEPT !.current = item, !.hint = index, !.position = position,
                      !.generation = generation, !.seekRevision = playback.seekRevision]

-----------------------------------------------------------------------------
(* Requests to the worker. *)

OrderUnchanged == UNCHANGED <<shuffleOrder, shuffleCursor>>

Request(mode, command) ==
  /\ playback' = [playback EXCEPT !.request = mode]
  /\ SendCommand([type |-> command, generation |-> playback.generation])
  /\ OrderUnchanged

RequestPause == Request("Pause", "Pause")
RequestResume == Request("Play", "Resume")
RequestStop == Request("Stop", "Stop")

NextGeneration == playback.generation + 1

(* `start_queue_index_with_state', and with it `start_new_shuffle_round_at':
   a new generation loads the item at this index.  Opening the file fails when
   it no longer is the one that was scanned. *)
LoadTrack(its, index, position, paused, newRound) ==
  /\ playback.generation < MaxPlaybackGen
  /\ playback' = [Selected(its[index], index, position, NextGeneration) EXCEPT
                    !.status = "Loading", !.request = IF paused THEN "Pause" ELSE "Play"]
  /\ TrackSelected(its, index, newRound)
  /\ \/ SendCommand([type |-> "Play", generation |-> NextGeneration,
                     entry |-> its[index].entry, position |-> position,
                     paused |-> paused, muted |-> muted])
     \/ SendCommand([type |-> "LoadFailed", generation |-> NextGeneration])

(* Without a generation left, a load only says so. *)
LoadOrExhausted(index, position, paused, newRound) ==
  \/ LoadTrack(items, index, position, paused, newRound)
  \/ /\ playback.generation = MaxPlaybackGen
     /\ UNCHANGED playback
     /\ OrderUnchanged
     /\ SendNothing

(* `select_stopped_queue_index': show another track without loading it.  The
   same track keeps its generation. *)
SelectStopped(index) ==
  LET same == items[index].id = playback.current.id
      generation == IF same THEN playback.generation ELSE NextGeneration
  IN  /\ IF generation > MaxPlaybackGen
         THEN UNCHANGED playback /\ OrderUnchanged
         ELSE /\ playback' = Selected(items[index], index, 0, generation)
              /\ TrackSelected(items, index, FALSE)
      /\ SendNothing

NavigateTo(index) ==
  CASE RequestedStatus = "Paused" -> LoadOrExhausted(index, 0, TRUE, FALSE)
    [] RequestedStatus \in {"Stopped", "Error"} -> SelectStopped(index)
    [] OTHER -> LoadOrExhausted(index, 0, FALSE, FALSE)

-----------------------------------------------------------------------------
(* Controls. *)

QueueKept == UNCHANGED <<items, queuedAssets, queueGen, nextItemId, shuffle>>
SettingsKept == UNCHANGED <<repeat, muted, events, positionLane>>
Kept == QueueKept /\ SettingsKept

StartSelected ==
  LET index == AtMost(selection, Len(items))
      resumes == CurrentIndex = index /\ playback.request # "Stop"
  IN  /\ items # <<>>
      /\ LoadOrExhausted(index, IF resumes THEN ResumePosition ELSE 0, FALSE, TRUE)

PlayPause ==
  /\ CASE RequestedStatus = "Playing" -> RequestPause
       [] RequestedStatus = "Paused" -> RequestResume
       [] OTHER -> StartSelected
  /\ UNCHANGED selection /\ Kept

Play ==
  /\ CASE RequestedStatus = "Paused" -> RequestResume
       [] RequestedStatus \in {"Stopped", "Error"} -> StartSelected
       [] OTHER -> FALSE
  /\ UNCHANGED selection /\ Kept

Pause ==
  /\ RequestedStatus = "Playing"
  /\ RequestPause
  /\ UNCHANGED selection /\ Kept

StopTrack ==
  /\ playback.current.id # 0
  /\ RequestedStatus # "Stopped"
  /\ IF playback.status = "Error"
     THEN /\ playback' = [playback EXCEPT !.status = "Stopped", !.seekTarget = NoTime]
          /\ OrderUnchanged
          /\ SendNothing
     ELSE RequestStop

StopPlayback == StopTrack /\ UNCHANGED selection /\ Kept

(* Next at the end of the queue: stop a track that plays, or leave the error
   of one that failed. *)
EndOfQueue ==
  /\ UNCHANGED selection
  /\ IF RequestedStatus \in {"Playing", "Paused"}
     THEN RequestStop
     ELSE /\ playback' = IF WorkerHasTrack THEN playback
                         ELSE [playback EXCEPT !.status = "Stopped"]
          /\ OrderUnchanged
          /\ SendNothing

NextTrackMoves ==
  IF items = <<>> THEN StopTrack /\ UNCHANGED selection
  ELSE IF NextIndex = 0 THEN EndOfQueue
  ELSE selection' = NextIndex /\ NavigateTo(NextIndex)

NextTrack == NextTrackMoves /\ Kept

PreviousTrack ==
  /\ IF items = <<>> THEN StopTrack /\ UNCHANGED selection
     ELSE LET here == OrPlace(CurrentIndex,
                              IF playback.current.id # 0 THEN playback.hint ELSE selection)
              previous == AtMost(OrPlace(PreviousIndex, here), Len(items))
          IN  selection' = previous /\ NavigateTo(previous)
  /\ Kept

Seekable == playback.status \in {"Playing", "Paused"}

SeekTo(position) ==
  /\ playback' = [playback EXCEPT !.seekTarget = position, !.position = position]
  /\ SendSeek(playback.generation, position)
  /\ OrderUnchanged
  /\ UNCHANGED selection

(* `seek_relative': steps add up from the target of the seek in flight, and a
   step past a known end is the next track. *)
SeekRelative(forward) ==
  LET base == IF playback.seekTarget # NoTime THEN playback.seekTarget ELSE playback.position
      target == IF forward THEN base + SeekStep ELSE AtLeast(base - SeekStep, 0)
      limit == IF playback.duration # NoTime THEN playback.duration ELSE target
  IN  /\ Seekable
      /\ IF forward /\ target > limit
         THEN NextTrackMoves
         ELSE SeekTo(DecoderPosition(AtMost(target, limit)))
      /\ Kept

(* `seek_absolute' for a caller that names the current track; any other token
   and a position past a known end are ignored. *)
SeekAbsolute(position) ==
  /\ playback.current.id # 0
  /\ Seekable
  /\ playback.duration # NoTime => position <= playback.duration
  /\ SeekTo(DecoderPosition(position))
  /\ Kept

(* A change of gain reaches a track the worker has; another one gets it when
   it is loaded. *)
ToggleMute ==
  /\ muted' = ~muted
  /\ IF WorkerHasTrack
     THEN SendCommand([type |-> "SetGain", generation |-> playback.generation,
                       muted |-> muted'])
     ELSE SendNothing
  /\ QueueKept
  /\ UNCHANGED <<selection, shuffleOrder, shuffleCursor, playback, repeat, events, positionLane>>

SetRepeat(mode) ==
  /\ repeat # mode
  /\ repeat' = mode
  /\ UNCHANGED <<queueVars, playback, muted, laneVars>>

ToggleShuffle ==
  /\ SetShuffle(~shuffle, IF WorkerHasTrack THEN playback.current ELSE NoItem)
  /\ UNCHANGED <<playback, repeat, muted, laneVars>>


-----------------------------------------------------------------------------
(* Queue edits keep `position_hint' on the current track or, once it has left
   the queue, on its successor. *)

Reconciled(its, pb) ==
  LET index == CurrentPosition(its, pb.current, pb.hint)
  IN  [pb EXCEPT !.hint = IF index # 0 THEN index ELSE AtMost(pb.hint, Len(its) + 1)]

EditKept == UNCHANGED <<repeat, muted, laneVars>>

(* Mutant: the place of a removed current track does not move with the queue. *)
RemoveKeepsPlace ==
  /\ RemoveSelected
  /\ playback' = Reconciled(items', playback)
  /\ EditKept

RemoveQueueItem ==
  LET removedBefore == CurrentIndex = 0 /\ selection < playback.hint
      shifted == IF removedBefore THEN [playback EXCEPT !.hint = @ - 1] ELSE playback
  IN  /\ RemoveSelected
      /\ playback' = Reconciled(items', shifted)
      /\ EditKept

ClearQueue == Clear /\ playback' = Reconciled(items', playback) /\ EditKept

MoveQueueItem(down) ==
  /\ MoveSelected(down)
  /\ playback' = Reconciled(items', playback)
  /\ EditKept

SelectQueueItem(position) ==
  /\ MoveSelection(position)
  /\ UNCHANGED playback /\ EditKept

(* `queue_entry', `queue_playlist': the new tracks wait behind the track the
   worker has; without one the first of them starts a new shuffle round. *)
QueueEntries(batch) ==
  \/ AppendRejected(batch) /\ UNCHANGED playback /\ EditKept
  \/ /\ AppendItems(batch)
     /\ IF WorkerHasTrack
        THEN UNCHANGED selection ELSE selection' = Len(items) + 1
     /\ IF WorkerHasTrack \/ playback.generation = MaxPlaybackGen
        THEN /\ ExtendShuffleOrder(Ids(Appended(batch)))
             /\ UNCHANGED playback
             /\ SendNothing
        ELSE LoadTrack(items', selection', 0, FALSE, TRUE)
     /\ SettingsKept

-----------------------------------------------------------------------------
(* Reports from the worker. *)

(* Mutant: reports from before a seek count too. *)
CountsStale(report) ==
  /\ report.generation = playback.generation
  /\ playback.current.id # 0
  /\ playback.status \notin {"Stopped", "Error"}
  /\ playback.seekTarget = NoTime

(* `audio_position': a report counts for the track and timeline on display and
   while no seek is in flight. *)
PositionCounts(report) ==
  /\ report.generation = playback.generation
  /\ playback.current.id # 0
  /\ playback.status \notin {"Stopped", "Error"}
  /\ playback.seekTarget = NoTime
  /\ report.timeline >= playback.timeline

PositionReported(report) ==
  playback' = IF ~PositionCounts(report) THEN playback
              ELSE [playback EXCEPT
                      !.timeline = report.timeline,
                      !.position = report.position,
                      !.duration = IF report.duration # NoTime THEN report.duration ELSE @]

(* `apply_event_position' *)
AtTimeline(pb, timeline, position) ==
  IF timeline > pb.timeline
  THEN [pb EXCEPT !.timeline = timeline, !.position = position] ELSE pb

Started(event) ==
  AtTimeline([playback EXCEPT
                !.status = IF playback.request = "Pause" THEN "Paused" ELSE "Playing",
                !.seekTarget = NoTime,
                !.duration = event.duration],
             event.timeline, event.position)

(* A seek that ended up elsewhere was overtaken by a newer one: its timeline
   counts, its position does not. *)
Seeked(event) ==
  IF playback.seekTarget \notin {NoTime, event.position}
  THEN [playback EXCEPT !.timeline = AtLeast(@, event.timeline)]
  ELSE [AtTimeline([playback EXCEPT !.seekTarget = NoTime], event.timeline, event.position)
          EXCEPT !.seekRevision = @ + 1]

(* The events that only change what is displayed. *)
EventApplied(event) ==
  CASE event.type = "Started" -> Started(event)
    [] event.type = "Paused" ->
         IF playback.status = "Loading" THEN playback
         ELSE [playback EXCEPT !.status = "Paused"]
    [] event.type = "Resumed" ->
         IF playback.status = "Loading" THEN playback
         ELSE [playback EXCEPT !.status = "Playing"]
    [] event.type = "Stopped" ->
         [playback EXCEPT !.status = "Stopped", !.seekTarget = NoTime, !.position = 0]
    [] event.type = "Seeked" -> Seeked(event)
    [] event.type = "Failed" ->
         [playback EXCEPT !.status = "Error", !.seekTarget = NoTime]

(* `advance_after_finish': a stop that came too late still stops; otherwise
   repeat-one or the next track is loaded, paused if pause was requested. *)
AdvanceAfterFinish ==
  LET settled == [playback EXCEPT !.seekTarget = NoTime, !.status = "Stopped"]
      again == IF repeat = "One" THEN CurrentIndex ELSE 0
      next == OrPlace(again, NextIndex)
      paused == RequestedStatus = "Paused"
  IN  IF RequestedStatus = "Stopped"
      THEN /\ playback' = [settled EXCEPT !.position = 0]
           /\ OrderUnchanged /\ UNCHANGED selection /\ SendNothing
      ELSE IF next = 0
      THEN /\ playback' = [settled EXCEPT
                             !.position = IF playback.duration # NoTime
                                          THEN playback.duration ELSE @,
                             !.finished = TRUE]
           /\ OrderUnchanged /\ UNCHANGED selection /\ SendNothing
      ELSE /\ selection' = IF again # 0 THEN selection ELSE next
           /\ \/ LoadTrack(items, next, 0, paused, FALSE)
              \/ /\ playback.generation = MaxPlaybackGen
                 /\ playback' = [playback EXCEPT !.seekTarget = NoTime]
                 /\ OrderUnchanged /\ SendNothing

(* `audio_event': events of another generation are dropped. *)
EventHandled(event) ==
  /\ IF event.generation # playback.generation \/ playback.current.id = 0
     THEN UNCHANGED <<playback, selection>> /\ OrderUnchanged /\ SendNothing
     ELSE IF event.type = "Finished" THEN AdvanceAfterFinish
     ELSE /\ playback' = EventApplied(event)
          /\ UNCHANGED selection /\ OrderUnchanged /\ SendNothing
  /\ QueueKept
  /\ UNCHANGED <<repeat, muted>>

-----------------------------------------------------------------------------
(* A session starts with an empty or with a restored queue. *)
PlaybackInit ==
  /\ repeat = "Off"
  /\ muted = FALSE
  /\ inputs \in Habits
  /\ \/ EmptyQueue /\ playback = NewPlayback
     \/ \E saved \in Sessions, position \in Positions :
          \E i \in DOMAIN saved :
            /\ RestoredQueue(saved, i)
            /\ playback =
                 [NewPlayback EXCEPT
                    !.current = items[selection], !.hint = selection,
                    !.position = IF RestoredCurrent(items, saved, i) # 0 THEN position ELSE 0]

OtherControl ==
  \/ "navigation" \in inputs /\ (NextTrack \/ PreviousTrack)
  \/ /\ "seek" \in inputs
     /\ \/ \E forward \in BOOLEAN : SeekRelative(forward)
        \/ \E position \in Positions : SeekAbsolute(position)
  \/ "gain" \in inputs /\ ToggleMute
  \/ "shuffle" \in inputs /\ ToggleShuffle
  \/ "repeat" \in inputs /\ \E mode \in RepeatMode : SetRepeat(mode)

UserControl ==
  \/ "transport" \in inputs /\ (PlayPause \/ Play \/ Pause \/ StopPlayback)
  \/ OtherControl

QueueEdit ==
  /\ "edit" \in inputs
  /\ \/ \E batch \in Batches : QueueEntries(batch)
     \/ RemoveQueueItem \/ ClearQueue
     \/ \E down \in BOOLEAN : MoveQueueItem(down)
     \/ \E position \in 1 .. MaxItems : SelectQueueItem(position)

-----------------------------------------------------------------------------
(* The ids that Next, and those that Previous, would reach without repeat. *)
PlayOrder == IF shuffle THEN shuffleOrder ELSE [i \in DOMAIN items |-> items[i].id]

Upcoming ==
  LET next == NextPosition(playback.current, playback.hint, FALSE)
  IN  IF next = 0 THEN <<>>
      ELSE SubSeq(PlayOrder, OrderPosition(PlayOrder, items[next].id), Len(items))

Behind ==
  LET previous == PreviousPosition(playback.current, playback.hint, FALSE)
  IN  IF previous = 0 THEN <<>>
      ELSE SubSeq(PlayOrder, 1, OrderPosition(PlayOrder, items[previous].id))

(* The cursor is on the current track or on the place it was removed from.
   That fails only for a track that was shown as stopped while shuffle was
   turned on and then turns out to be playing (see StopHolds in PlayerAsked). *)
CursorOnCurrent ==
  shuffle => OrderPosition(shuffleOrder, playback.current.id) \in {0, shuffleCursor}

(* All of `before' that is in `kept' is in `after', once and in order. *)
KeepsInOrder(before, after, kept) ==
  /\ ToSet(after) = ToSet(before) \cap kept
  /\ \A i, j \in DOMAIN after, m, n \in DOMAIN before :
       i < j /\ after[i] = before[m] /\ after[j] = before[n] => m < n

(* Removing and appending under a track that plays, the playing track included,
   skips nothing and replays nothing: what was to come still is, with what was
   appended, and what came before stays behind, in order. *)
EditsKeepPlace ==
  [][ /\ Ids(items') # Ids(items)
      /\ WorkerHasTrack /\ CursorOnCurrent
      /\ playback'.current = playback.current
      => /\ ToSet(Upcoming') =
              (ToSet(Upcoming) \cap Ids(items')) \cup (Ids(items') \ Ids(items))
         /\ KeepsInOrder(Behind, Behind', Ids(items')) ]_appVars

=============================================================================
