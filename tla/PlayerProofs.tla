----------------------------- MODULE PlayerProofs -----------------------------
(***************************************************************************)
(* Theorems about Player, for queues, lanes, rings and tracks of any size  *)
(* and whatever fails: a generation ends once, the whole player keeps its  *)
(* types, the queue stays sound under playback, what is shown of a track   *)
(* never goes back to before a seek, display and worker agree once nothing *)
(* is in flight, so that what the listener asked for is obeyed, and the    *)
(* queue can be edited under a track without losing its place.             *)
(*                                                                         *)
(* The first rests on the order of the loads in the command lane: each is  *)
(* newer than the ones before it, than the track that the worker has and   *)
(* than all that the worker has reported.  The types need that order: an   *)
(* event or a command is about a generation that was on display.  The      *)
(* others rest on the types, agreement also on what is on its way to put   *)
(* each difference right, and the place of a track on its hint, which is   *)
(* its row or, once it has left the queue, the row it left.                *)
(***************************************************************************)
EXTENDS PlayerAsked, QueueProofs

CommandTypes == {"Play", "LoadFailed", "Pause", "Resume", "Stop", "SetGain", "Shutdown"}
EventTypes == {"Started", "Paused", "Resumed", "Stopped", "Seeked", "Finished", "Failed"}

Loads(command) == command.type \in {"Play", "LoadFailed"}

IsSeq(s) == s \in Seq({s[i] : i \in DOMAIN s})

(* What is in the lanes. *)
InLanes ==
  /\ IsSeq(commands) /\ \A i \in DOMAIN commands : commands[i].type \in CommandTypes
  /\ IsSeq(events) /\ \A i \in DOMAIN events : events[i].type \in EventTypes

(* No generation is ahead of the one on display. *)
Generations ==
  /\ "generation" \in DOMAIN playback /\ playback.generation \in Nat
  /\ "generation" \in DOMAIN active /\ active.generation \in 0 .. playback.generation
  /\ \A i \in DOMAIN events : events[i].generation \in 1 .. playback.generation
  /\ \A i \in DOMAIN commands :
       Loads(commands[i]) => commands[i].generation \in 1 .. playback.generation

(* A load is newer than all that came before it. *)
LoadsNewer ==
  \A i \in DOMAIN commands : Loads(commands[i]) =>
    /\ active.generation < commands[i].generation
    /\ \A k \in DOMAIN events : events[k].generation < commands[i].generation
    /\ \A j \in 1 .. i - 1 : Loads(commands[j]) => commands[j].generation < commands[i].generation

EndInv == InLanes /\ Generations /\ LoadsNewer /\ EndedOnce

-----------------------------------------------------------------------------
(* Lanes. *)

LEMMA SeqOfOwn ==
  ASSUME NEW S, NEW s \in Seq(S)
  PROVE  IsSeq(s)
<1>1. Len(s) \in Nat /\ DOMAIN s = 1 .. Len(s) /\ s \in [1 .. Len(s) -> S]
  BY LenProperties
<1>2. s \in [1 .. Len(s) -> {s[i] : i \in DOMAIN s}]
  BY <1>1
<1> QED
  BY <1>1, <1>2, SeqDef DEF IsSeq

LEMMA AppendedLane ==
  ASSUME NEW s, IsSeq(s), NEW e
  PROVE  /\ IsSeq(Append(s, e))
         /\ Len(s) \in Nat /\ DOMAIN s = 1 .. Len(s)
         /\ DOMAIN Append(s, e) = 1 .. Len(s) + 1
         /\ \A i \in 1 .. Len(s) : Append(s, e)[i] = s[i]
         /\ Append(s, e)[Len(s) + 1] = e
<1> DEFINE S == {s[i] : i \in DOMAIN s} \cup {e}
<1>1. s \in Seq(S)
  <2>1. Len(s) \in Nat /\ DOMAIN s = 1 .. Len(s) /\ s \in [1 .. Len(s) -> {s[i] : i \in DOMAIN s}]
    BY LenProperties DEF IsSeq
  <2>2. s \in [1 .. Len(s) -> S]
    BY <2>1
  <2> HIDE DEF S
  <2> QED
    BY <2>1, <2>2, SeqDef
<1>2. e \in S
  OBVIOUS
<1> HIDE DEF S
<1>3. /\ Append(s, e) \in Seq(S) /\ Len(Append(s, e)) = Len(s) + 1
      /\ \A i \in 1 .. Len(s) : Append(s, e)[i] = s[i]
      /\ Append(s, e)[Len(s) + 1] = e
  BY <1>1, <1>2, AppendProperties
<1>4. /\ Len(s) \in Nat /\ DOMAIN s = 1 .. Len(s)
      /\ DOMAIN Append(s, e) = 1 .. Len(s) + 1
  BY <1>1, <1>3, LenProperties
<1>5. IsSeq(Append(s, e))
  BY <1>3, SeqOfOwn
<1> QED
  BY <1>3, <1>4, <1>5

LEMMA TailOfLane ==
  ASSUME NEW s, IsSeq(s), s # <<>>
  PROVE  /\ IsSeq(Tail(s))
         /\ Len(s) \in Nat \ {0} /\ DOMAIN s = 1 .. Len(s)
         /\ DOMAIN Tail(s) = 1 .. Len(s) - 1
         /\ \A i \in 1 .. Len(s) - 1 : Tail(s)[i] = s[i + 1]
         /\ Head(s) = s[1] /\ 1 \in DOMAIN s
<1> DEFINE S == {s[i] : i \in DOMAIN s}
<1>1. s \in Seq(S)
  BY DEF IsSeq
<1> HIDE DEF S
<1>2. /\ Tail(s) \in Seq(S) /\ Len(Tail(s)) = Len(s) - 1
      /\ \A i \in 1 .. Len(Tail(s)) : Tail(s)[i] = s[i + 1]
  BY <1>1, HeadTailProperties
<1>3. Len(s) \in Nat \ {0} /\ DOMAIN s = 1 .. Len(s) /\ DOMAIN Tail(s) = 1 .. Len(s) - 1
  BY <1>1, <1>2, LenProperties, EmptySeq
<1>4. IsSeq(Tail(s))
  BY <1>2, SeqOfOwn
<1>5. Head(s) = s[1] /\ 1 \in DOMAIN s
  BY <1>1, <1>3
<1> QED
  BY <1>2, <1>3, <1>4, <1>5

LEMMA EmptyLane == IsSeq(<<>>) /\ DOMAIN <<>> = {}
<1> DEFINE none == <<>>
<1>1. none \in Seq(Nat) /\ Len(none) = 0
  BY EmptySeq
<1> HIDE DEF none
<1>2. IsSeq(none)
  BY <1>1, SeqOfOwn
<1>3. DOMAIN none = 1 .. 0
  BY <1>1, LenProperties
<1>4. IsSeq(none) /\ DOMAIN none = {}
  BY <1>2, <1>3
<1> QED
  BY <1>4 DEF none

LEMMA InitEnd == Init => EndInv
<1> SUFFICES ASSUME Init PROVE EndInv
  OBVIOUS
<1>1. commands = <<>> /\ events = <<>> /\ active = [generation |-> 0]
  BY DEF Init, LanesInit, WorkerInit, NoActive
<1>2. DOMAIN commands = {} /\ DOMAIN events = {}
  BY <1>1, EmptyLane
<1>3. "generation" \in DOMAIN playback /\ playback.generation = 0
  <2>1. CASE playback = NewPlayback
    BY <2>1 DEF NewPlayback
  <2>2. CASE playback # NewPlayback
    <3>1. PICK saved \in Sessions, position \in Positions : \E i \in DOMAIN saved :
            playback = [NewPlayback EXCEPT
                          !.current = items[selection], !.hint = selection,
                          !.position = IF RestoredCurrent(items, saved, i) # 0
                                       THEN position ELSE 0]
      BY <2>2 DEF Init, PlaybackInit
    <3> QED
      BY <3>1 DEF NewPlayback
  <2> QED
    BY <2>1, <2>2
<1>4. InLanes
  BY <1>1, <1>2, EmptyLane DEF InLanes
<1>5. Generations
  BY <1>1, <1>2, <1>3 DEF Generations
<1>6. LoadsNewer /\ EndedOnce
  BY <1>2 DEF LoadsNewer, EndedOnce
<1> QED
  BY <1>4, <1>5, <1>6 DEF EndInv

-----------------------------------------------------------------------------
(* What the event loop does: of all controls and events it only matters what
   they send, and that the generation only grows, with every load. *)

Grows ==
  /\ "generation" \in DOMAIN playback'
  /\ playback'.generation \in {playback.generation, playback.generation + 1}

SendsLoad ==
  \E c : /\ commands' = Append(commands, c)
         /\ c.type \in CommandTypes /\ Loads(c)
         /\ c.generation = playback.generation + 1
         /\ "generation" \in DOMAIN playback'
         /\ playback'.generation = playback.generation + 1

SendsOther ==
  \E c : /\ commands' = Append(commands, c)
         /\ c.type \in CommandTypes /\ ~Loads(c)
         /\ Grows

Sends == SendsLoad \/ SendsOther \/ (Grows /\ commands' = commands)

LEMMA SendsKeep ==
  ASSUME EndInv, Sends, active' = active, IsSeq(events'),
         \A i \in DOMAIN events' : \E k \in DOMAIN events : events'[i] = events[k],
         EndedOnce'
  PROVE  EndInv'
<1>1. /\ playback.generation \in Nat
      /\ "generation" \in DOMAIN active /\ active.generation \in 0 .. playback.generation
      /\ \A i \in DOMAIN commands :
           Loads(commands[i]) => commands[i].generation \in 1 .. playback.generation
      /\ IsSeq(commands) /\ \A i \in DOMAIN commands : commands[i].type \in CommandTypes
  BY DEF EndInv, InLanes, Generations
<1>2. \A i \in DOMAIN events' : /\ events'[i].type \in EventTypes
                               /\ events'[i].generation \in 1 .. playback.generation
  BY DEF EndInv, InLanes, Generations
<1>3. ASSUME NEW i \in DOMAIN commands, Loads(commands[i])
      PROVE  /\ active.generation < commands[i].generation
             /\ \A k \in DOMAIN events' : events'[k].generation < commands[i].generation
             /\ \A j \in 1 .. i - 1 : Loads(commands[j]) =>
                  commands[j].generation < commands[i].generation
  BY <1>3 DEF EndInv, LoadsNewer
<1>4. ASSUME Grows, commands' = commands PROVE EndInv'
  <2>1. InLanes'
    BY <1>1, <1>2, <1>4 DEF InLanes
  <2>2. LoadsNewer'
    BY <1>3, <1>4 DEF LoadsNewer, Loads
  <2>3. Generations'
    BY <1>1, <1>2, <1>4 DEF Generations, Grows, Loads
  <2> QED
    BY <2>1, <2>2, <2>3 DEF EndInv
<1>5. ASSUME NEW c, commands' = Append(commands, c), c.type \in CommandTypes, Grows,
             Loads(c) => c.generation = playback.generation + 1
                         /\ playback'.generation = playback.generation + 1
      PROVE  EndInv'
  <2> DEFINE n == Len(commands)
  <2>1. /\ IsSeq(commands') /\ n \in Nat /\ DOMAIN commands = 1 .. n
        /\ DOMAIN commands' = 1 .. n + 1
        /\ \A i \in 1 .. n : commands'[i] = commands[i]
        /\ commands'[n + 1] = c
    BY <1>1, <1>5, AppendedLane
  <2> HIDE DEF n
  <2>2. \A i \in DOMAIN commands' : i \in DOMAIN commands \/ i = n + 1
    BY <2>1
  <2>3. InLanes'
    BY <1>1, <1>2, <1>5, <2>1, <2>2 DEF InLanes
  <2>4. Generations'
    <3>1. ASSUME NEW i \in DOMAIN commands', Loads(commands'[i])
          PROVE  commands'[i].generation \in 1 .. playback'.generation
      <4>1. CASE i \in DOMAIN commands
        BY <1>1, <1>5, <2>1, <3>1, <4>1 DEF Grows
      <4>2. CASE i = n + 1
        BY <1>1, <1>5, <2>1, <3>1, <4>2
      <4> QED
        BY <2>2, <4>1, <4>2
    <3> QED
      BY <1>1, <1>2, <1>5, <3>1 DEF Generations, Grows, Loads
  <2>5. LoadsNewer'
    <3> SUFFICES ASSUME NEW i \in DOMAIN commands', Loads(commands'[i])
                 PROVE  /\ active.generation < commands'[i].generation
                        /\ \A k \in DOMAIN events' :
                             events'[k].generation < commands'[i].generation
                        /\ \A j \in 1 .. i - 1 : Loads(commands'[j]) =>
                             commands'[j].generation < commands'[i].generation
      BY DEF LoadsNewer, Loads
    <3>1. CASE i \in DOMAIN commands
      <4>1. commands'[i] = commands[i] /\ \A j \in 1 .. i - 1 : commands'[j] = commands[j]
        BY <2>1, <3>1
      <4> QED
        BY <1>3, <3>1, <4>1
    <3>2. CASE i = n + 1
      <4>1. commands'[i] = c /\ c.generation = playback.generation + 1
        BY <1>5, <2>1, <3>2
      <4>2. \A j \in 1 .. i - 1 : j \in DOMAIN commands /\ commands'[j] = commands[j]
        BY <2>1, <3>2
      <4> QED
        BY <1>1, <1>2, <4>1, <4>2
    <3> QED
      BY <2>2, <3>1, <3>2
  <2> QED
    BY <2>3, <2>4, <2>5 DEF EndInv
<1>6. CASE SendsLoad
  <2>1. PICK c : /\ commands' = Append(commands, c)
                 /\ c.type \in CommandTypes /\ Loads(c)
                 /\ c.generation = playback.generation + 1
                 /\ "generation" \in DOMAIN playback'
                 /\ playback'.generation = playback.generation + 1
    BY <1>6 DEF SendsLoad
  <2> QED
    BY <1>5, <2>1 DEF Grows
<1>7. CASE SendsOther
  BY <1>5, <1>7 DEF SendsOther
<1> QED
  BY <1>4, <1>6, <1>7 DEF Sends

LEMMA SendsKeepSame ==
  ASSUME EndInv, Sends, UNCHANGED <<active, events>>
  PROVE  EndInv'
<1>1. IsSeq(events') /\ EndedOnce'
  BY DEF EndInv, InLanes, EndedOnce
<1> QED
  BY <1>1, SendsKeep

(* The first event has been taken. *)
LEMMA SendsKeepTaken ==
  ASSUME EndInv, Sends, active' = active, NEW n \in Nat \ {0}, DOMAIN events = 1 .. n,
         IsSeq(events'), DOMAIN events' = 1 .. n - 1,
         \A i \in 1 .. n - 1 : events'[i] = events[i + 1]
  PROVE  EndInv'
<1>1. \A i \in DOMAIN events' : i + 1 \in DOMAIN events /\ events'[i] = events[i + 1]
  OBVIOUS
<1>2. EndedOnce'
  <2>1. Len(events) = n /\ IsSeq(events)
    BY LenProperties DEF EndInv, InLanes, IsSeq
  <2>2. Len(events') = n - 1
    BY LenProperties DEF IsSeq
  <2> SUFFICES ASSUME NEW i \in DOMAIN events', Ends(events'[i])
               PROVE  /\ active.generation # events'[i].generation
                      /\ \A j \in i + 1 .. n - 1 : events'[j].generation # events'[i].generation
    BY <2>2 DEF EndedOnce, Ends
  <2>3. \A j \in i + 1 .. n - 1 : j + 1 \in (i + 1) + 1 .. n /\ events'[j] = events[j + 1]
    OBVIOUS
  <2> QED
    BY <1>1, <2>1, <2>3 DEF EndInv, EndedOnce
<1> QED
  BY <1>1, <1>2, SendsKeep


(* Controls that send nothing, or a command that loads nothing. *)
LEMMA Quietly ==
  ASSUME Generations, SendNothing,
         playback' = playback \/ (Grows /\ playback'.generation = playback.generation)
  PROVE  Sends
BY DEF Generations, SendNothing, Sends, Grows

LEMMA CommandSent ==
  ASSUME Grows, NEW c, c.type \in CommandTypes \ {"Play", "LoadFailed"}, SendCommand(c)
  PROVE  Sends
BY DEF SendCommand, Sends, SendsOther, Loads

LEMMA RequestSends ==
  ASSUME Generations, NEW mode, NEW command \in {"Pause", "Resume", "Stop"},
         Request(mode, command)
  PROVE  Sends
<1>1. playback' = [playback EXCEPT !.request = mode]
  BY DEF Request
<1>2. Grows
  BY <1>1 DEF Generations, Grows
<1>3. SendCommand([type |-> command, generation |-> playback.generation])
  BY DEF Request
<1> QED
  BY <1>2, <1>3, CommandSent DEF CommandTypes

LEMMA SelectedGeneration ==
  ASSUME NEW item, NEW index, NEW position, NEW generation
  PROVE  /\ "generation" \in DOMAIN Selected(item, index, position, generation)
         /\ Selected(item, index, position, generation).generation = generation
BY DEF Selected, NewPlayback

LEMMA LoadTrackSends ==
  ASSUME Generations, NEW its, NEW index, NEW position, NEW paused, NEW newRound,
         LoadTrack(its, index, position, paused, newRound)
  PROVE  Sends
<1> DEFINE chosen == Selected(its[index], index, position, NextGeneration)
           mode == IF paused THEN "Pause" ELSE "Play"
<1>1. /\ playback' = [chosen EXCEPT !.status = "Loading", !.request = mode]
      /\ \/ SendCommand([type |-> "Play", generation |-> NextGeneration,
                         entry |-> its[index].entry, position |-> position,
                         paused |-> paused, muted |-> muted])
         \/ SendCommand([type |-> "LoadFailed", generation |-> NextGeneration])
  BY DEF LoadTrack
<1>2. "generation" \in DOMAIN chosen /\ chosen.generation = NextGeneration
  BY SelectedGeneration
<1> HIDE DEF chosen, mode
<1>3. "generation" \in DOMAIN playback' /\ playback'.generation = playback.generation + 1
  BY <1>1, <1>2 DEF NextGeneration
<1>4. ASSUME NEW c, SendCommand(c), c.type \in {"Play", "LoadFailed"},
             c.generation = NextGeneration
      PROVE  Sends
  BY <1>3, <1>4 DEF SendCommand, Sends, SendsLoad, Loads, CommandTypes, NextGeneration
<1> QED
  BY <1>1, <1>4

LEMMA LoadOrExhaustedSends ==
  ASSUME Generations, NEW index, NEW position, NEW paused, NEW newRound,
         LoadOrExhausted(index, position, paused, newRound)
  PROVE  Sends
BY LoadTrackSends, Quietly DEF LoadOrExhausted

LEMMA SelectStoppedSends ==
  ASSUME Generations, NEW index, SelectStopped(index)
  PROVE  Sends
<1> DEFINE generation == IF items[index].id = playback.current.id
                         THEN playback.generation ELSE NextGeneration
<1>1. /\ commands' = commands
      /\ playback' = playback \/ playback' = Selected(items[index], index, 0, generation)
  BY DEF SelectStopped, SendNothing
<1>2. generation \in {playback.generation, playback.generation + 1}
  BY DEF NextGeneration
<1> HIDE DEF generation
<1>3. Grows
  BY <1>1, <1>2, SelectedGeneration DEF Generations, Grows
<1> QED
  BY <1>1, <1>3 DEF Sends

LEMMA NavigateToSends ==
  ASSUME Generations, NEW index, NavigateTo(index)
  PROVE  Sends
BY LoadOrExhaustedSends, SelectStoppedSends DEF NavigateTo

LEMMA StopTrackSends ==
  ASSUME Generations, StopTrack
  PROVE  Sends
<1>1. CASE RequestStop
  BY <1>1, RequestSends DEF RequestStop
<1>2. CASE /\ playback' = [playback EXCEPT !.status = "Stopped", !.seekTarget = NoTime]
           /\ SendNothing
  BY <1>2, Quietly DEF Generations, Grows
<1> QED
  BY <1>1, <1>2 DEF StopTrack

LEMMA NextTrackSends ==
  ASSUME Generations, NextTrackMoves
  PROVE  Sends
<1>1. CASE EndOfQueue
  <2>1. CASE RequestStop
    BY <2>1, RequestSends DEF RequestStop
  <2>2. CASE /\ playback' = IF WorkerHasTrack THEN playback
                            ELSE [playback EXCEPT !.status = "Stopped"]
             /\ SendNothing
    BY <2>2, Quietly DEF Generations, Grows
  <2> QED
    BY <1>1, <2>1, <2>2 DEF EndOfQueue
<1> QED
  BY <1>1, StopTrackSends, NavigateToSends DEF NextTrackMoves

LEMMA StartSelectedSends ==
  ASSUME Generations, StartSelected
  PROVE  Sends
BY LoadOrExhaustedSends DEF StartSelected

LEMMA SeekToSends ==
  ASSUME Generations, NEW position, SeekTo(position)
  PROVE  Sends
<1>1. playback' = [playback EXCEPT !.seekTarget = position, !.position = position]
      /\ commands' = commands
  BY DEF SeekTo, SendSeek
<1> QED
  BY <1>1 DEF Generations, Sends, Grows

LEMMA TransportSends ==
  ASSUME Generations, PlayPause \/ Play \/ Pause \/ StopPlayback
  PROVE  Sends
<1>1. RequestPause => Sends
  BY RequestSends DEF RequestPause
<1>2. RequestResume => Sends
  BY RequestSends DEF RequestResume
<1>3. PlayPause => Sends
  BY <1>1, <1>2, StartSelectedSends DEF PlayPause
<1>4. Play => Sends
  BY <1>2, StartSelectedSends DEF Play
<1> QED
  BY <1>1, <1>3, <1>4, StopTrackSends DEF Pause, StopPlayback

LEMMA PreviousTrackSends ==
  ASSUME Generations, PreviousTrack
  PROVE  Sends
BY StopTrackSends, NavigateToSends DEF PreviousTrack

LEMMA OtherSends ==
  ASSUME Generations, OtherControl
  PROVE  Sends
<1>1. NextTrack => Sends
  BY NextTrackSends DEF NextTrack
<1>2. ASSUME NEW forward \in BOOLEAN, SeekRelative(forward) PROVE Sends
  BY <1>2, NextTrackSends, SeekToSends DEF SeekRelative
<1>3. ASSUME NEW position \in Positions, SeekAbsolute(position) PROVE Sends
  BY <1>3, SeekToSends DEF SeekAbsolute
<1>4. ToggleMute => Sends
  <2> SUFFICES ASSUME ToggleMute PROVE Sends
    OBVIOUS
  <2>1. playback' = playback /\ Grows
    BY DEF ToggleMute, Generations, Grows
  <2>2. CASE SendCommand([type |-> "SetGain", generation |-> playback.generation,
                          muted |-> muted'])
    BY <2>1, <2>2, CommandSent DEF CommandTypes
  <2>3. CASE SendNothing
    BY <2>1, <2>3, Quietly
  <2> QED
    BY <2>2, <2>3 DEF ToggleMute
<1>5. ToggleShuffle => Sends
  BY DEF ToggleShuffle, laneVars, Generations, Sends, Grows
<1>6. ASSUME NEW mode \in RepeatMode, SetRepeat(mode) PROVE Sends
  BY <1>6 DEF SetRepeat, laneVars, Generations, Sends, Grows
<1> QED
  BY <1>1, <1>2, <1>3, <1>4, <1>5, <1>6, PreviousTrackSends DEF OtherControl

LEMMA EditSends ==
  ASSUME Generations, QueueEdit
  PROVE  Sends
<1>1. ASSUME NEW its, NEW pb, "generation" \in DOMAIN pb, pb.generation = playback.generation,
             playback' = Reconciled(its, pb), EditKept
      PROVE  Sends
  <2>1. PICK h : playback' = [pb EXCEPT !.hint = h]
    BY <1>1 DEF Reconciled
  <2> QED
    BY <1>1, <2>1 DEF EditKept, laneVars, Generations, Sends, Grows
<1>2. "generation" \in DOMAIN playback
  BY DEF Generations
<1>3. RemoveQueueItem => Sends
  <2> SUFFICES ASSUME RemoveQueueItem PROVE Sends
    OBVIOUS
  <2> DEFINE shifted == IF CurrentIndex = 0 /\ selection < playback.hint
                        THEN [playback EXCEPT !.hint = @ - 1] ELSE playback
  <2>1. playback' = Reconciled(items', shifted) /\ EditKept
    BY DEF RemoveQueueItem
  <2>2. "generation" \in DOMAIN shifted /\ shifted.generation = playback.generation
    BY <1>2
  <2> HIDE DEF shifted
  <2> QED
    BY <1>1, <2>1, <2>2
<1>4. ClearQueue => Sends
  BY <1>1, <1>2 DEF ClearQueue
<1>5. ASSUME NEW down \in BOOLEAN, MoveQueueItem(down) PROVE Sends
  BY <1>1, <1>2, <1>5 DEF MoveQueueItem
<1>6. ASSUME NEW position \in 1 .. MaxItems, SelectQueueItem(position) PROVE Sends
  BY <1>6 DEF SelectQueueItem, EditKept, laneVars, Generations, Sends, Grows
<1>7. ASSUME NEW batch \in Batches, QueueEntries(batch) PROVE Sends
  <2>1. CASE UNCHANGED playback /\ EditKept
    BY <2>1 DEF EditKept, laneVars, Generations, Sends, Grows
  <2>2. CASE UNCHANGED playback /\ SendNothing
    BY <2>2, Quietly
  <2>3. CASE LoadTrack(items', selection', 0, FALSE, TRUE)
    BY <2>3, LoadTrackSends
  <2> QED
    BY <1>7, <2>1, <2>2, <2>3 DEF QueueEntries
<1> QED
  BY <1>3, <1>4, <1>5, <1>6, <1>7 DEF QueueEdit

LEMMA EventSends ==
  ASSUME Generations, NEW event, event.type \in EventTypes, EventHandled(event)
  PROVE  Sends
<1>1. ASSUME NEW pb, NEW timeline, NEW position, "generation" \in DOMAIN pb,
             pb.generation = playback.generation
      PROVE  /\ "generation" \in DOMAIN AtTimeline(pb, timeline, position)
             /\ AtTimeline(pb, timeline, position).generation = playback.generation
  BY <1>1 DEF AtTimeline
<1>2. "generation" \in DOMAIN playback /\ playback.generation \in Nat
  BY DEF Generations
<1>3. /\ "generation" \in DOMAIN Started(event)
      /\ Started(event).generation = playback.generation
  <2> DEFINE pb == [playback EXCEPT
                      !.status = IF playback.request = "Pause" THEN "Paused" ELSE "Playing",
                      !.seekTarget = NoTime, !.duration = event.duration]
  <2>1. "generation" \in DOMAIN pb /\ pb.generation = playback.generation
    BY <1>2
  <2>2. Started(event) = AtTimeline(pb, event.timeline, event.position)
    BY DEF Started
  <2> HIDE DEF pb
  <2> QED
    BY <1>1, <2>1, <2>2
<1>4. /\ "generation" \in DOMAIN Seeked(event)
      /\ Seeked(event).generation = playback.generation
  <2> DEFINE pb == [playback EXCEPT !.seekTarget = NoTime]
             at == AtTimeline(pb, event.timeline, event.position)
  <2>1. "generation" \in DOMAIN pb /\ pb.generation = playback.generation
    BY <1>2
  <2>2. /\ "generation" \in DOMAIN at /\ at.generation = playback.generation
    <3> HIDE DEF pb
    <3> QED
      BY <1>1, <2>1
  <2>3. \/ Seeked(event) = [playback EXCEPT !.timeline = AtLeast(@, event.timeline)]
        \/ Seeked(event) = [at EXCEPT !.seekRevision = @ + 1]
    BY DEF Seeked
  <2> HIDE DEF at
  <2> QED
    BY <1>2, <2>2, <2>3
<1>5. CASE event.type # "Finished" /\ playback' = EventApplied(event) /\ SendNothing
  <2>1. /\ "generation" \in DOMAIN EventApplied(event)
        /\ EventApplied(event).generation = playback.generation
    BY <1>2, <1>3, <1>4, <1>5 DEF EventApplied, EventTypes
  <2> QED
    BY <1>2, <1>5, <2>1 DEF SendNothing, Sends, Grows
<1>6. CASE AdvanceAfterFinish
  <2> DEFINE settled == [playback EXCEPT !.seekTarget = NoTime, !.status = "Stopped"]
  <2>1. "generation" \in DOMAIN settled /\ settled.generation = playback.generation
    BY <1>2
  <2>2. ASSUME NEW x, playback' = [settled EXCEPT !.position = x], SendNothing PROVE Sends
    BY <1>2, <2>1, <2>2 DEF SendNothing, Sends, Grows
  <2>3. ASSUME NEW x, playback' = [settled EXCEPT !.position = x, !.finished = TRUE], SendNothing
        PROVE Sends
    BY <1>2, <2>1, <2>3 DEF SendNothing, Sends, Grows
  <2>4. CASE playback' = [playback EXCEPT !.seekTarget = NoTime] /\ SendNothing
    BY <1>2, <2>4 DEF SendNothing, Sends, Grows
  <2> QED
    BY <1>6, <2>2, <2>3, <2>4, LoadTrackSends DEF AdvanceAfterFinish
<1>7. CASE UNCHANGED playback /\ SendNothing
  BY <1>7, Quietly
<1> QED
  BY <1>5, <1>6, <1>7 DEF EventHandled


(* Controls and edits leave the events to the worker. *)
LEMMA ControlsKeepEvents == UserControl \/ QueueEdit => events' = events
<1>1. PlayPause \/ Play \/ Pause \/ StopPlayback => events' = events
  BY DEF PlayPause, Play, Pause, StopPlayback, Kept, SettingsKept
<1>2. OtherControl => events' = events
  BY DEF OtherControl, NextTrack, PreviousTrack, SeekRelative, SeekAbsolute, ToggleMute,
         ToggleShuffle, SetRepeat, Kept, SettingsKept, laneVars
<1>3. QueueEdit => events' = events
  BY DEF QueueEdit, QueueEntries, RemoveQueueItem, ClearQueue, MoveQueueItem, SelectQueueItem,
         EditKept, SettingsKept, laneVars
<1> QED
  BY <1>1, <1>2, <1>3 DEF UserControl

(* A look at the lanes, a control, an edit or quitting. *)
LEMMA LoopEnd ==
  ASSUME EndInv, EventLoop \/ TakeInput \/ Quit
  PROVE  EndInv'
<1>1. Generations
  BY DEF EndInv
<1>2. CASE TakePosition
  <2>1. playback' = playback \/ (Grows /\ playback'.generation = playback.generation)
    BY <1>1, <1>2 DEF TakePosition, PositionReported, Generations, Grows
  <2>2. SendNothing /\ UNCHANGED <<active, events>>
    BY <1>2 DEF TakePosition, SendNothing, workerVars
  <2> QED
    BY <1>1, <2>1, <2>2, Quietly, SendsKeepSame
<1>3. CASE PositionsDrained \/ EventsDrained \/ LoopAgain
  <2>1. playback' = playback /\ SendNothing /\ UNCHANGED <<active, events>>
    BY <1>3 DEF PositionsDrained, EventsDrained, LoopAgain, SendNothing, appVars, laneVars,
                workerVars
  <2> QED
    BY <1>1, <2>1, Quietly, SendsKeepSame
<1>4. CASE WorkerJoined
  <2>1. /\ playback' = [playback EXCEPT !.status = "Stopped", !.seekTarget = NoTime]
        /\ SendNothing /\ UNCHANGED <<active, events>>
    BY <1>4 DEF WorkerJoined, SendNothing, laneVars, workerVars
  <2>2. Grows /\ playback'.generation = playback.generation
    BY <1>1, <2>1 DEF Generations, Grows
  <2> QED
    BY <1>1, <2>1, <2>2, Quietly, SendsKeepSame
<1>5. CASE TakeInput
  <2>1. UserControl \/ QueueEdit
    BY <1>5 DEF TakeInput, Input
  <2>2. Sends
    BY <1>1, <2>1, TransportSends, OtherSends, EditSends DEF UserControl
  <2>3. active' = active
    BY <1>5 DEF TakeInput, Input, workerVars
  <2>4. events' = events
    BY <2>1, ControlsKeepEvents
  <2> QED
    BY <2>2, <2>3, <2>4, SendsKeepSame
<1>6. CASE Quit
  <2>1. /\ UNCHANGED <<playback, active, events>>
        /\ commands' = commands \/ commands' = Append(commands, [type |-> "Shutdown"])
    BY <1>6 DEF Quit, CloseLanes, appVars, workerVars
  <2>2. Sends
    BY <1>1, <2>1 DEF Generations, Sends, SendsOther, Grows, CommandTypes, Loads
  <2> QED
    BY <2>1, <2>2, SendsKeepSame
<1>7. CASE TakeEvent
  <2>1. /\ events # <<>> /\ EventHandled(Head(events)) /\ events' = Tail(events)
        /\ active' = active
    BY <1>7 DEF TakeEvent, workerVars
  <2>2. IsSeq(events) /\ \A i \in DOMAIN events : events[i].type \in EventTypes
    BY DEF EndInv, InLanes
  <2> DEFINE n == Len(events)
  <2>3. /\ IsSeq(events') /\ n \in Nat \ {0} /\ DOMAIN events = 1 .. n
        /\ DOMAIN events' = 1 .. n - 1
        /\ \A i \in 1 .. n - 1 : events'[i] = events[i + 1]
        /\ Head(events) = events[1] /\ 1 \in DOMAIN events
    BY <2>1, <2>2, TailOfLane
  <2> HIDE DEF n
  <2>4. Sends
    BY <1>1, <2>1, <2>2, <2>3, EventSends
  <2> QED
    BY <2>1, <2>3, <2>4, SendsKeepTaken
<1> QED
  BY <1>2, <1>3, <1>4, <1>5, <1>6, <1>7 DEF EventLoop

-----------------------------------------------------------------------------
(* What the worker does: it has the generation g, its own or that of the load
   it has just received, keeps or drops it, and reports at most one event of it. *)

Adds(g) ==
  \/ events' = events
  \/ \E e : /\ events' = Append(events, e)
            /\ e.type \in EventTypes
            /\ g # 0 /\ e.generation = g
            /\ Ends(e) => active'.generation = 0

Holds(g) ==
  /\ "generation" \in DOMAIN active' /\ active'.generation \in {0, g}
  /\ Adds(g)

(* The commands are the ones before, or all of them but the first. *)
Fewer == commands' = commands \/ (commands # <<>> /\ commands' = Tail(commands))

LEMMA FewerCommands ==
  ASSUME EndInv, Fewer
  PROVE  /\ IsSeq(commands')
         /\ \A i \in DOMAIN commands' :
              \E k \in DOMAIN commands :
                /\ commands'[i] = commands[k]
                /\ commands' # commands => k = i + 1
                /\ \A j \in 1 .. i - 1 : \E l \in 1 .. k - 1 : commands'[j] = commands[l]
<1>1. IsSeq(commands)
  BY DEF EndInv, InLanes
<1>2. CASE commands' = commands
  BY <1>1, <1>2
<1>3. CASE commands # <<>> /\ commands' = Tail(commands)
  <2> DEFINE n == Len(commands)
  <2>1. /\ IsSeq(commands') /\ n \in Nat \ {0} /\ DOMAIN commands = 1 .. n
        /\ DOMAIN commands' = 1 .. n - 1
        /\ \A i \in 1 .. n - 1 : commands'[i] = commands[i + 1]
    BY <1>1, <1>3, TailOfLane
  <2> HIDE DEF n
  <2> SUFFICES ASSUME NEW i \in DOMAIN commands'
               PROVE  /\ i + 1 \in DOMAIN commands /\ commands'[i] = commands[i + 1]
                      /\ \A j \in 1 .. i - 1 :
                           j + 1 \in 1 .. (i + 1) - 1 /\ commands'[j] = commands[j + 1]
    BY <2>1
  <2> QED
    BY <2>1
<1> QED
  BY <1>2, <1>3 DEF Fewer

LEMMA WorkerKeeps ==
  ASSUME EndInv, playback' = playback, Fewer, NEW g \in 0 .. playback.generation, Holds(g),
         \A i \in DOMAIN commands' : Loads(commands'[i]) => g < commands'[i].generation,
         \A k \in DOMAIN events : Ends(events[k]) => events[k].generation # g
  PROVE  EndInv'
<1>1. /\ playback.generation \in Nat /\ "generation" \in DOMAIN playback
      /\ \A k \in DOMAIN events : /\ events[k].generation \in 1 .. playback.generation
                                 /\ events[k].type \in EventTypes
      /\ IsSeq(events)
  BY DEF EndInv, Generations, InLanes
<1>2. /\ "generation" \in DOMAIN active' /\ active'.generation \in {0, g}
  BY DEF Holds
<1>3. ASSUME NEW i \in DOMAIN commands'
      PROVE  /\ commands'[i].type \in CommandTypes
             /\ Loads(commands'[i]) =>
                  /\ commands'[i].generation \in 1 .. playback.generation
                  /\ \A k \in DOMAIN events : events[k].generation < commands'[i].generation
                  /\ \A j \in 1 .. i - 1 : Loads(commands'[j]) =>
                       commands'[j].generation < commands'[i].generation
  <2>1. PICK k \in DOMAIN commands :
          /\ commands'[i] = commands[k]
          /\ \A j \in 1 .. i - 1 : \E l \in 1 .. k - 1 : commands'[j] = commands[l]
    BY <1>3, FewerCommands
  <2> QED
    BY <2>1 DEF EndInv, InLanes, Generations, LoadsNewer
<1>4. IsSeq(commands')
  BY FewerCommands
<1>5. ASSUME IsSeq(events'), EndedOnce',
             \A k \in DOMAIN events' : \/ k \in DOMAIN events /\ events'[k] = events[k]
                                      \/ /\ events'[k].type \in EventTypes
                                         /\ g # 0 /\ events'[k].generation = g
      PROVE  EndInv'
  <2>1. InLanes'
    BY <1>1, <1>3, <1>4, <1>5 DEF InLanes
  <2>2. Generations'
    <3>1. \A k \in DOMAIN events' : events'[k].generation \in 1 .. playback'.generation
      BY <1>1, <1>5
    <3>2. active'.generation \in 0 .. playback'.generation
      BY <1>1, <1>2
    <3> QED
      BY <1>1, <1>2, <1>3, <3>1, <3>2 DEF Generations, Loads
  <2>3. LoadsNewer'
    <3> SUFFICES ASSUME NEW i \in DOMAIN commands', Loads(commands'[i])
                 PROVE  /\ active'.generation < commands'[i].generation
                        /\ \A k \in DOMAIN events' :
                             events'[k].generation < commands'[i].generation
                        /\ \A j \in 1 .. i - 1 : Loads(commands'[j]) =>
                             commands'[j].generation < commands'[i].generation
      BY DEF LoadsNewer, Loads
    <3>1. /\ g < commands'[i].generation /\ commands'[i].generation \in 1 .. playback.generation
          /\ \A k \in DOMAIN events : events[k].generation < commands'[i].generation
          /\ \A j \in 1 .. i - 1 : Loads(commands'[j]) =>
               commands'[j].generation < commands'[i].generation
      BY <1>3
    <3>2. active'.generation < commands'[i].generation
      BY <1>2, <3>1
    <3> QED
      BY <1>5, <3>1, <3>2
  <2> QED
    BY <1>5, <2>1, <2>2, <2>3 DEF EndInv
<1>6. ASSUME NEW k \in DOMAIN events, Ends(events[k])
      PROVE  /\ active'.generation # events[k].generation
             /\ \A j \in k + 1 .. Len(events) : events[j].generation # events[k].generation
  <2>1. events[k].generation # g /\ events[k].generation # 0
    BY <1>1, <1>6
  <2> QED
    BY <1>2, <1>6, <2>1 DEF EndInv, EndedOnce
<1>7. CASE events' = events
  BY <1>1, <1>5, <1>6, <1>7 DEF EndedOnce, Ends
<1>8. ASSUME NEW e, events' = Append(events, e), e.type \in EventTypes,
             g # 0, e.generation = g, Ends(e) => active'.generation = 0
      PROVE  EndInv'
  <2> DEFINE n == Len(events)
  <2>1. /\ IsSeq(events') /\ n \in Nat /\ DOMAIN events = 1 .. n
        /\ DOMAIN events' = 1 .. n + 1
        /\ \A i \in 1 .. n : events'[i] = events[i]
        /\ events'[n + 1] = e
    BY <1>1, <1>8, AppendedLane
  <2>2. Len(events') = n + 1
    <3> HIDE DEF n
    <3> QED
      BY <2>1, LenProperties DEF IsSeq
  <2>3. EndedOnce'
    <3> SUFFICES ASSUME NEW k \in DOMAIN events', Ends(events'[k])
                 PROVE  /\ active'.generation # events'[k].generation
                        /\ \A j \in k + 1 .. n + 1 :
                             events'[j].generation # events'[k].generation
      BY <2>2 DEF EndedOnce, Ends
    <3>1. CASE k \in 1 .. n
      <4>1. k \in DOMAIN events /\ events'[k] = events[k]
        BY <2>1, <3>1
      <4>2. /\ active'.generation # events[k].generation
            /\ \A j \in k + 1 .. n : events[j].generation # events[k].generation
            /\ events[k].generation # g
        BY <1>6, <4>1
      <4> HIDE DEF n
      <4>3. ASSUME NEW j \in k + 1 .. n + 1
            PROVE  events'[j].generation # events'[k].generation
        <5>1. CASE j = n + 1
          BY <1>8, <2>1, <4>1, <4>2, <5>1
        <5>2. CASE j \in k + 1 .. n
          <6>1. events'[j] = events[j]
            BY <2>1, <3>1, <5>2
          <6> QED
            BY <4>1, <4>2, <5>2, <6>1
        <5> QED
          BY <2>1, <3>1, <5>1, <5>2
      <4> QED
        BY <4>1, <4>2, <4>3
    <3>2. CASE k = n + 1
      <4> HIDE DEF n
      <4>1. events'[k] = e /\ k + 1 .. n + 1 = {}
        BY <2>1, <3>2
      <4> QED
        BY <1>8, <4>1
    <3> HIDE DEF n
    <3> QED
      BY <2>1, <3>1, <3>2
  <2> HIDE DEF n
  <2>4. \A k \in DOMAIN events' : \/ k \in DOMAIN events /\ events'[k] = events[k]
                                 \/ /\ events'[k].type \in EventTypes
                                    /\ g # 0 /\ events'[k].generation = g
    <3> SUFFICES ASSUME NEW k \in DOMAIN events'
                 PROVE  (k \in DOMAIN events /\ events'[k] = events[k]) \/ events'[k] = e
      BY <1>8
    <3>1. k \in 1 .. n \/ k = n + 1
      BY <2>1
    <3> QED
      BY <2>1, <3>1
  <2> QED
    BY <1>5, <2>1, <2>3, <2>4
<1> QED
  BY <1>7, <1>8 DEF Holds, Adds

(* The worker goes on with its own generation, or without it. *)
LEMMA OwnKeeps ==
  ASSUME EndInv, playback' = playback, Fewer, Holds(active.generation)
  PROVE  EndInv'
<1>1. active.generation \in 0 .. playback.generation
  BY DEF EndInv, Generations
<1>2. \A k \in DOMAIN events : Ends(events[k]) => events[k].generation # active.generation
  BY DEF EndInv, EndedOnce
<1>3. ASSUME NEW i \in DOMAIN commands', Loads(commands'[i])
      PROVE  active.generation < commands'[i].generation
  <2>1. PICK k \in DOMAIN commands : commands'[i] = commands[k]
    BY <1>3, FewerCommands
  <2> QED
    BY <1>3, <2>1 DEF EndInv, LoadsNewer
<1> QED
  BY <1>1, <1>2, <1>3, WorkerKeeps

(* The worker receives a load, and goes on with its generation or without. *)
LEMMA LoadKeeps ==
  ASSUME EndInv, playback' = playback, commands # <<>>, commands' = Tail(commands),
         Loads(Head(commands)), Holds(Head(commands).generation)
  PROVE  EndInv'
<1> DEFINE g == Head(commands).generation
           n == Len(commands)
<1>1. IsSeq(commands)
  BY DEF EndInv, InLanes
<1>2. /\ n \in Nat \ {0} /\ DOMAIN commands = 1 .. n
      /\ DOMAIN commands' = 1 .. n - 1
      /\ \A i \in 1 .. n - 1 : commands'[i] = commands[i + 1]
      /\ Head(commands) = commands[1] /\ 1 \in DOMAIN commands
  BY <1>1, TailOfLane
<1> HIDE DEF n
<1>3. /\ g \in 0 .. playback.generation
      /\ \A k \in DOMAIN events : events[k].generation < g
  BY <1>2 DEF EndInv, Generations, LoadsNewer
<1>4. \A k \in DOMAIN events : events[k].generation # g
  <2>1. \A k \in DOMAIN events : events[k].generation \in Nat
    BY DEF EndInv, Generations
  <2> QED
    BY <1>3, <2>1
<1>5. ASSUME NEW i \in DOMAIN commands', Loads(commands'[i])
      PROVE  g < commands'[i].generation
  <2>1. commands'[i] = commands[i + 1] /\ i + 1 \in DOMAIN commands /\ 1 \in 1 .. (i + 1) - 1
    BY <1>2
  <2> QED
    BY <1>2, <1>5, <2>1 DEF EndInv, LoadsNewer
<1>6. Fewer /\ Holds(g)
  BY DEF Fewer
<1> HIDE DEF g
<1> QED
  BY <1>3, <1>4, <1>5, <1>6, WorkerKeeps

-----------------------------------------------------------------------------
(* The steps of the worker. *)

LEMMA StopActiveHolds ==
  ASSUME NEW type \in EventTypes, NEW g, g # 0, StopActive(type, g)
  PROVE  Holds(g)
<1>1. "generation" \in DOMAIN active' /\ active'.generation = 0
  BY DEF StopActive, NoActive
<1>2. ASSUME NEW t \in EventTypes, Emit(t, g) PROVE Adds(g)
  <2> DEFINE e == [type |-> t, generation |-> g]
  <2>1. events' = Append(events, e) /\ e.type \in EventTypes /\ e.generation = g
    BY <1>2 DEF Emit
  <2> HIDE DEF e
  <2> QED
    BY <1>1, <2>1 DEF Adds
<1>3. Adds(g)
  BY <1>2 DEF StopActive, EventTypes
<1> QED
  BY <1>1, <1>3 DEF Holds

LEMMA DropHolds ==
  ASSUME NEW g, g # 0, active' = NoActive, Emit("Failed", g)
  PROVE  Holds(g)
<1> DEFINE e == [type |-> "Failed", generation |-> g]
<1>1. events' = Append(events, e) /\ e.type \in EventTypes /\ e.generation = g
  BY DEF Emit, EventTypes
<1> HIDE DEF e
<1>2. "generation" \in DOMAIN active' /\ active'.generation = 0
  BY DEF NoActive
<1> QED
  BY <1>1, <1>2 DEF Adds, Holds

(* An event that does not end the track, which stays. *)
LEMMA TellHolds ==
  ASSUME NEW g, g # 0, NEW e, e.type \in EventTypes, ~Ends(e), e.generation = g,
         events' = Append(events, e),
         "generation" \in DOMAIN active', active'.generation = g
  PROVE  Holds(g)
BY DEF Adds, Holds

LEMMA KeepsHold ==
  ASSUME NEW g, events' = events, "generation" \in DOMAIN active', active'.generation \in {0, g}
  PROVE  Holds(g)
BY DEF Adds, Holds

LEMMA PublishedGeneration ==
  ASSUME NEW a, "generation" \in DOMAIN a, NEW force
  PROVE  /\ "generation" \in DOMAIN Published(a, force)
         /\ Published(a, force).generation = a.generation
BY DEF Published

LEMMA NewGeneration ==
  ASSUME NEW g, NEW timeline, NEW entry, NEW position, NEW paused, NEW isMuted, NEW duration,
         NEW notice
  PROVE  /\ "generation" \in DOMAIN NewActive(g, timeline, entry, position, paused, isMuted,
                                             duration, notice)
         /\ NewActive(g, timeline, entry, position, paused, isMuted, duration,
                      notice).generation = g
BY DEF NewActive

LEMMA FinishHolds ==
  ASSUME IsActive, FinishAtEnd
  PROVE  Holds(active.generation)
BY StopActiveHolds DEF IsActive, FinishAtEnd, EventTypes

LEMMA RestartHolds ==
  ASSUME Generations, IsActive, NEW position, RestartForSeek(position)
  PROVE  Holds(active.generation)
<1> DEFINE new == NewActive(active.generation, active.timeline + 1, active.entry, position,
                            PausedOnRestart, active.muted, active.duration, "Seeked")
<1>1. \/ active' = new /\ events' = events
      \/ active' = NoActive /\ Emit("Failed", active.generation)
  BY DEF RestartForSeek
<1>2. "generation" \in DOMAIN new /\ new.generation = active.generation
  BY NewGeneration
<1> HIDE DEF new
<1> QED
  BY <1>1, <1>2, KeepsHold, DropHolds DEF IsActive

LEMMA CommandKeeps ==
  ASSUME EndInv, playback' = playback, ReceiveCommand
  PROVE  EndInv'
<1> DEFINE c == Head(commands)
<1>1. commands # <<>> /\ commands' = Tail(commands) /\ Fewer
  BY DEF ReceiveCommand, Fewer
<1>2. IsSeq(commands) /\ Generations
  BY DEF EndInv, InLanes
<1>3. c = commands[1] /\ 1 \in DOMAIN commands
  BY <1>1, <1>2, TailOfLane
<1>4. c.type \in CommandTypes /\ (Loads(c) => c.generation \in 1 .. playback.generation)
  BY <1>3 DEF EndInv, InLanes, Generations
<1>5. "generation" \in DOMAIN active
  BY <1>2 DEF Generations
<1>6. ASSUME events' = events, active' = active PROVE EndInv'
  BY <1>1, <1>5, <1>6, KeepsHold, OwnKeeps
<1>7. CASE c.type = "Play" /\ ExecPlay(c)
  <2>1. Loads(c) /\ c.generation # 0
    BY <1>4, <1>7 DEF Loads
  <2> DEFINE new == NewActive(c.generation, 1, c.entry, c.position, c.paused, c.muted, NoTime,
                              "Started")
  <2>2. \/ active' = new /\ events' = events
        \/ active' = NoActive /\ Emit("Failed", c.generation)
    BY <1>7 DEF ExecPlay
  <2>3. "generation" \in DOMAIN new /\ new.generation = c.generation
    BY NewGeneration
  <2> HIDE DEF new, c
  <2>4. Holds(c.generation)
    BY <2>1, <2>2, <2>3, KeepsHold, DropHolds
  <2> QED
    BY <1>1, <2>1, <2>4, LoadKeeps DEF c
<1>8. CASE c.type = "LoadFailed" /\ ExecLoadFailed(c)
  <2>1. Loads(c) /\ c.generation # 0
    BY <1>4, <1>8 DEF Loads
  <2>2. Holds(c.generation)
    BY <1>8, <2>1, DropHolds DEF ExecLoadFailed
  <2> QED
    BY <1>1, <2>1, <2>2, LoadKeeps
<1>9. ASSUME Matches(c.generation), NEW type \in EventTypes, StopActive(type, c.generation)
      PROVE  EndInv'
  <2>1. Holds(active.generation)
    BY <1>9, StopActiveHolds DEF Matches, IsActive
  <2> QED
    BY <1>1, <2>1, OwnKeeps
<1>10. ASSUME Matches(c.generation), NEW type \in {"Paused", "Resumed"},
              Emit(type, c.generation), "generation" \in DOMAIN active',
              active'.generation = active.generation
       PROVE  EndInv'
  <2> DEFINE e == [type |-> type, generation |-> c.generation]
  <2>1. /\ events' = Append(events, e) /\ e.type \in EventTypes /\ ~Ends(e)
        /\ e.generation = active.generation /\ active.generation # 0
    BY <1>10 DEF Emit, EventTypes, Ends, Matches, IsActive
  <2> HIDE DEF e
  <2>2. Holds(active.generation)
    BY <1>10, <2>1, TellHolds
  <2> QED
    BY <1>1, <2>2, OwnKeeps
<1>11. CASE c.type = "Pause" /\ ExecPause(c)
  <2> DEFINE paused == IF Pauses(c) THEN [active EXCEPT !.paused = TRUE] ELSE active
  <2>1. "generation" \in DOMAIN paused /\ paused.generation = active.generation
    BY <1>5
  <2>2. \/ /\ active' = IF IsActive THEN Published(paused, TRUE) ELSE active
           /\ IF Pauses(c) THEN Emit("Paused", c.generation) ELSE UNCHANGED events
        \/ Pauses(c) /\ StopActive("Failed", c.generation)
    BY <1>11 DEF ExecPause
  <2> HIDE DEF paused
  <2>3. CASE /\ active' = IF IsActive THEN Published(paused, TRUE) ELSE active
             /\ IF Pauses(c) THEN Emit("Paused", c.generation) ELSE UNCHANGED events
    <3>1. "generation" \in DOMAIN active' /\ active'.generation = active.generation
      BY <1>5, <2>1, <2>3, PublishedGeneration
    <3>2. CASE Pauses(c)
      BY <1>10, <2>3, <3>1, <3>2 DEF Pauses
    <3>3. CASE ~Pauses(c)
      BY <1>1, <2>3, <3>1, <3>3, KeepsHold, OwnKeeps
    <3> QED
      BY <3>2, <3>3
  <2>4. CASE Pauses(c) /\ StopActive("Failed", c.generation)
    BY <1>9, <2>4 DEF Pauses, EventTypes
  <2> QED
    BY <2>2, <2>3, <2>4
<1>12. CASE c.type = "Resume" /\ ExecResume(c)
  <2>1. CASE /\ Resumes(c) /\ active' = [active EXCEPT !.paused = FALSE]
             /\ Emit("Resumed", c.generation)
    <3>1. "generation" \in DOMAIN active' /\ active'.generation = active.generation
      BY <1>5, <2>1
    <3> QED
      BY <1>10, <2>1, <3>1 DEF Resumes
  <2>2. CASE Resumes(c) /\ StopActive("Failed", c.generation)
    BY <1>9, <2>2 DEF Resumes, EventTypes
  <2>3. CASE UNCHANGED <<active, events>>
    BY <1>6, <2>3
  <2> QED
    BY <1>12, <2>1, <2>2, <2>3 DEF ExecResume
<1>13. CASE c.type = "Stop" /\ ExecStop(c)
  <2>1. CASE Matches(c.generation) /\ StopActive("Stopped", c.generation)
    BY <1>9, <2>1 DEF EventTypes
  <2>2. CASE UNCHANGED <<active, events>>
    BY <1>6, <2>2
  <2> QED
    BY <1>13, <2>1, <2>2 DEF ExecStop
<1>14. CASE c.type = "SetGain" /\ ExecSetGain(c)
  <2>1. /\ events' = events
        /\ "generation" \in DOMAIN active' /\ active'.generation = active.generation
    BY <1>5, <1>14 DEF ExecSetGain
  <2> QED
    BY <1>1, <2>1, KeepsHold, OwnKeeps
<1> HIDE DEF c
<1>15. \/ c.type = "Play" /\ ExecPlay(c)
       \/ c.type = "LoadFailed" /\ ExecLoadFailed(c)
       \/ c.type = "Pause" /\ ExecPause(c)
       \/ c.type = "Resume" /\ ExecResume(c)
       \/ c.type = "Stop" /\ ExecStop(c)
       \/ c.type = "SetGain" /\ ExecSetGain(c)
  <2>1. /\ c.type # "Shutdown"
        /\ CASE c.type = "Play" -> ExecPlay(c)
             [] c.type = "LoadFailed" -> ExecLoadFailed(c)
             [] c.type = "Pause" -> ExecPause(c)
             [] c.type = "Resume" -> ExecResume(c)
             [] c.type = "Stop" -> ExecStop(c)
             [] c.type = "SetGain" -> ExecSetGain(c)
    BY DEF ReceiveCommand, c
  <2> QED
    BY <1>4, <2>1 DEF CommandTypes
<1> QED
  BY <1>7, <1>8, <1>11, <1>12, <1>13, <1>14, <1>15

LEMMA SeekKeeps ==
  ASSUME EndInv, playback' = playback, ReceiveSeek \/ SettleSeek \/ WorkerExits
  PROVE  EndInv'
<1>1. Fewer /\ Generations
  <2>1. ReceiveSeek => commands' = commands
    BY DEF ReceiveSeek
  <2>2. SettleSeek => commands' = commands
    BY DEF SettleSeek
  <2>3. WorkerExits => commands' = commands
    BY DEF WorkerExits
  <2>4. Fewer
    BY <2>1, <2>2, <2>3 DEF Fewer
  <2> QED
    BY <2>4 DEF EndInv
<1>2. "generation" \in DOMAIN active
  BY <1>1 DEF Generations
<1>3. CASE UNCHANGED <<active, events>>
  BY <1>1, <1>2, <1>3, KeepsHold, OwnKeeps
<1>4. CASE IsActive /\ (FinishAtEnd \/ \E position : RestartForSeek(position))
  BY <1>1, <1>4, FinishHolds, RestartHolds, OwnKeeps
<1>5. CASE WorkerExits
  <2>1. events' = events /\ "generation" \in DOMAIN active' /\ active'.generation = 0
    BY <1>5 DEF WorkerExits, NoActive
  <2> QED
    BY <1>1, <2>1, KeepsHold, OwnKeeps
<1>6. CASE ReceiveSeek
  BY <1>3, <1>4, <1>6 DEF ReceiveSeek, HoldSeek, Matches
<1>7. CASE SettleSeek
  BY <1>3, <1>4, <1>7 DEF SettleSeek, Matches
<1> QED
  BY <1>5, <1>6, <1>7

LEMMA DriveKeeps ==
  ASSUME EndInv, playback' = playback, Drive \/ DevicePlays
  PROVE  EndInv'
<1>1. Generations
  BY DEF EndInv
<1>2. "generation" \in DOMAIN active
  BY <1>1 DEF Generations
<1> DEFINE now == Published(active, FALSE)
<1>3. "generation" \in DOMAIN now /\ now.generation = active.generation
  BY <1>2, PublishedGeneration
<1> HIDE DEF now
<1>4. Fewer /\ active.generation # 0
  <2>1. DriveKept /\ IsActive
    <3>1. DrivePublishes => DriveKept /\ IsActive
      BY DEF DrivePublishes
    <3>2. DriveFails => DriveKept /\ IsActive
      BY DEF DriveFails
    <3>3. DriveWrites => DriveKept /\ IsActive
      BY DEF DriveWrites, Drives
    <3>4. DriveReady => DriveKept /\ IsActive
      BY DEF DriveReady, Polls, Drives
    <3>5. DriveDecodes => DriveKept /\ IsActive
      BY DEF DriveDecodes, Polls, Drives
    <3>6. DriveFinishes => DriveKept /\ IsActive
      BY DEF DriveFinishes, Drives
    <3>7. DevicePlays => DriveKept /\ IsActive
      BY DEF DevicePlays
    <3> QED
      BY <3>1, <3>2, <3>3, <3>4, <3>5, <3>6, <3>7 DEF Drive
  <2>2. commands' = commands
    BY <2>1 DEF DriveKept
  <2>3. Fewer
    BY <2>2 DEF Fewer
  <2> QED
    BY <2>1, <2>3 DEF IsActive
<1>5. ASSUME events' = events, "generation" \in DOMAIN active',
             active'.generation = active.generation
      PROVE  EndInv'
  BY <1>4, <1>5, KeepsHold, OwnKeeps
<1>6. ASSUME NEW type \in EventTypes, StopActive(type, active.generation) PROVE EndInv'
  BY <1>4, <1>6, StopActiveHolds, OwnKeeps
<1>7. CASE DrivePublishes
  <2>1. active' = now /\ events' = events
    BY <1>7 DEF DrivePublishes, Driven, now
  <2> QED
    BY <1>3, <1>5, <2>1
<1>8. CASE DriveFails
  BY <1>6, <1>8 DEF DriveFails, EventTypes
<1>9. CASE DriveWrites
  <2>1. active' = [now EXCEPT !.pending = FALSE, !.ring = @ + 1, !.started = TRUE]
    BY <1>9 DEF DriveWrites, Driven, now
  <2>2. "generation" \in DOMAIN active' /\ active'.generation = active.generation
    BY <1>3, <2>1
  <2>3. CASE active.started
    BY <1>5, <1>9, <2>2, <2>3 DEF DriveWrites
  <2>4. CASE ~active.started
    <3>1. PICK e : /\ events' = Append(events, e) /\ e.type \in {"Started", "Seeked"}
                   /\ e.generation = active.generation
      BY <1>9, <2>4 DEF DriveWrites
    <3>2. Holds(active.generation)
      BY <1>4, <2>2, <3>1, TellHolds DEF EventTypes, Ends
    <3> QED
      BY <1>4, <3>2, OwnKeeps
  <2> QED
    BY <2>3, <2>4
<1>10. CASE DriveReady
  <2>1. CASE StopActive("Failed", active.generation)
    BY <1>6, <2>1 DEF EventTypes
  <2>2. ASSUME NEW base, NEW duration, events' = events,
               active' = [now EXCEPT !.info = TRUE, !.base = base, !.reported = base,
                                     !.duration = duration]
        PROVE  EndInv'
    <3>1. "generation" \in DOMAIN active' /\ active'.generation = active.generation
      BY <1>3, <2>2
    <3> QED
      BY <1>5, <2>2, <3>1
  <2>3. \/ StopActive("Failed", active.generation)
        \/ \E base, duration :
             /\ events' = events
             /\ active' = [now EXCEPT !.info = TRUE, !.base = base, !.reported = base,
                                      !.duration = duration]
    BY <1>10 DEF DriveReady, Driven, now
  <2> QED
    BY <2>1, <2>2, <2>3
<1>11. CASE DriveDecodes
  <2>1. PICK x, y : active' = [now EXCEPT !.pending = x, !.ended = y]
    BY <1>11 DEF DriveDecodes, Driven, now
  <2>2. "generation" \in DOMAIN active' /\ active'.generation = active.generation
    BY <1>3, <2>1
  <2> QED
    BY <1>5, <1>11, <2>2 DEF DriveDecodes
<1>12. CASE DriveFinishes
  BY <1>6, <1>12 DEF DriveFinishes, EventTypes
<1>13. CASE DevicePlays
  <2>1. "generation" \in DOMAIN active' /\ active'.generation = active.generation
    BY <1>2, <1>13 DEF DevicePlays
  <2> QED
    BY <1>5, <1>13, <2>1 DEF DevicePlays
<1> QED
  BY <1>7, <1>8, <1>9, <1>10, <1>11, <1>12, <1>13 DEF Drive

LEMMA NextEnd == EndInv /\ [Next]_vars => EndInv'
<1> SUFFICES ASSUME EndInv, [Next]_vars PROVE EndInv'
  OBVIOUS
<1>1. CASE EventLoop \/ TakeInput \/ Quit
  BY <1>1, LoopEnd
<1>2. CASE WorkerStep
  <2>1. playback' = playback /\ WorkerNext
    BY <1>2 DEF WorkerStep, appVars
  <2> QED
    BY <2>1, CommandKeeps, SeekKeeps, DriveKeeps DEF WorkerNext
<1>3. CASE UNCHANGED vars
  <2>1. UNCHANGED <<playback, commands, events, active>>
    BY <1>3 DEF vars, appVars, laneVars, workerVars
  <2> QED
    BY <2>1 DEF EndInv, InLanes, Generations, LoadsNewer, EndedOnce
<1> QED
  BY <1>1, <1>2, <1>3 DEF Next

-----------------------------------------------------------------------------
(* The loads in the command lane are in order of their generations, each newer
   than the worker's track and than all that it has reported, so that no
   generation comes back to the worker of src/src/audio/mod.rs. *)
THEOREM EndHolds == Spec => []EndInv
<1> QED
  BY InitEnd, NextEnd, PTL DEF Spec

(* A generation ends once: after the worker has reported its stop, finish or
   failure it does not have it any more and reports nothing more of it. *)
THEOREM GenerationsEndOnce == Spec => []EndedOnce
<1>1. EndInv => EndedOnce
  BY DEF EndInv
<1> QED
  BY <1>1, EndHolds, PTL

-----------------------------------------------------------------------------
(* The types of the whole player.  The steps of the event loop and of the
   worker are reduced to a few shapes: what each does to the track, to the lanes
   and to the timeline on display. *)

Times == Nat \cup {NoTime}

-----------------------------------------------------------------------------
(* The display. *)

PlaybackStates ==
  [generation : Nat, status : HasTrackStatus \cup {"Stopped", "Error"}, seekRevision : Nat,
   current : Item \cup {NoItem}, hint : Nat \ {0}, timeline : Nat, seekTarget : Times,
   position : Nat, duration : Times, request : {"Play", "Pause", "Stop"}, finished : BOOLEAN]

(* A track that loads, plays or pauses is one; a target is where a decoder can
   start, and only such a track has one. *)
Shown ==
  /\ playback \in PlaybackStates
  /\ playback.status \in HasTrackStatus => playback.current.id # 0
  /\ playback.status # "Stopped" => playback.generation # 0
  /\ playback.status \notin HasTrackStatus => playback.seekTarget = NoTime
  /\ playback.seekTarget # NoTime => DecoderPosition(playback.seekTarget) = playback.seekTarget

AppInv == QueueInv /\ Shown /\ repeat \in RepeatMode /\ muted \in BOOLEAN

(* What the modules assume of the constants. *)
Assumptions ==
  /\ QueueAssumption /\ LanesAssumption /\ PlaybackAssumption /\ WorkerAssumption
  /\ PlayerAssumption

-----------------------------------------------------------------------------
(* Numbers. *)

LEMMA DecoderPositionFacts ==
  ASSUME LanesAssumption, NEW p \in Nat
  PROVE  /\ DecoderPosition(p) \in Nat
         /\ DecoderPosition(DecoderPosition(p)) = DecoderPosition(p)
<1> DEFINE G == Grain
           q == p - (p % G)
<1>1. G \in Nat \ {0} /\ MaxPosition \in Nat /\ MaxPosition % G = 0
  BY DEF LanesAssumption
<1> HIDE DEF G
<1>2. p % G \in 0 .. G - 1 /\ p % G <= p /\ p \div G \in Nat /\ p = G * (p \div G) + (p % G)
  BY <1>1
<1>3. q \in Nat /\ q % G = 0
  <2>1. q = G * (p \div G) /\ q \in Nat
    BY <1>1, <1>2
  <2>2. \A n \in Nat : (G * n) % G = 0
    BY <1>1
  <2> QED
    BY <1>2, <2>1, <2>2
<1>4. DecoderPosition(p) = Lower(q, MaxPosition)
  BY DEF DecoderPosition, G
<1> HIDE DEF q
<1>5. Lower(q, MaxPosition) \in {q, MaxPosition} /\ Lower(q, MaxPosition) <= MaxPosition
  BY <1>1, <1>3 DEF Lower
<1>6. ASSUME NEW d \in Nat, d % G = 0, d <= MaxPosition
      PROVE  DecoderPosition(d) = d
  <2>1. d - (d % G) = d
    BY <1>6
  <2> QED
    BY <1>6, <2>1 DEF DecoderPosition, Lower, G
<1> QED
  BY <1>1, <1>3, <1>4, <1>5, <1>6

-----------------------------------------------------------------------------
(* The queue under playback. *)

LEMMA RowFacts ==
  ASSUME QueueAssumption, QueueInv
  PROVE  /\ items \in Seq(Item) /\ Len(items) \in Nat /\ DOMAIN items = 1 .. Len(items)
         /\ items = <<>> <=> Len(items) = 0
         /\ \A i \in 1 .. Len(items) :
              items[i] \in Item /\ items[i].id # 0 /\ items[i].entry \in Entries
         /\ selection \in Nat \ {0}
         /\ items # <<>> => selection \in 1 .. Len(items)
<1>1. ItemsOK(items, queuedAssets, nextItemId) /\ SelectionOK(items, selection)
  BY DEF QueueInv
<1>2. items \in Seq(Item)
  BY <1>1 DEF ItemsOK
<1>3. /\ Len(items) \in Nat /\ DOMAIN items = 1 .. Len(items)
      /\ \A i \in 1 .. Len(items) :
           /\ items[i] \in Item /\ items[i].id \in 1 .. nextItemId - 1
           /\ items[i].id \in Nat /\ items[i].entry \in Entries
  BY <1>1, ItemsFacts
<1>4. items = <<>> <=> Len(items) = 0
  BY <1>2, EmptySeq
<1>5. \A i \in 1 .. Len(items) : items[i].id # 0
  BY <1>3
<1>6. selection \in 1 .. AtLeast(Len(items), 1)
  BY <1>1 DEF SelectionOK
<1> QED
  BY <1>2, <1>3, <1>4, <1>5, <1>6 DEF AtLeast

LEMMA NavigationFacts ==
  ASSUME QueueAssumption, QueueInv, NEW hint \in Nat \ {0}, NEW current \in Item \cup {NoItem},
         NEW wrap \in BOOLEAN
  PROVE  /\ CurrentPosition(items, current, hint) \in 0 .. Len(items)
         /\ NextPosition(current, hint, wrap) \in 0 .. Len(items)
         /\ PreviousPosition(current, hint, wrap) \in 0 .. Len(items)
<1> DEFINE n == Len(items)
           here == CurrentPosition(items, current, hint)
<1>1. /\ items \in Seq(Item) /\ n \in Nat /\ DOMAIN items = 1 .. n
      /\ items = <<>> <=> n = 0
      /\ selection \in Nat \ {0}
      /\ items # <<>> => selection \in 1 .. n
  BY RowFacts
<1>2. \A id : ItemPosition(items, id) \in 0 .. n
  BY <1>1, ItemPositionFacts
<1> HIDE DEF n
<1>3. here \in 0 .. n
  BY <1>1, <1>2 DEF CurrentPosition
<1> HIDE DEF here
<1>4. NextPosition(current, hint, wrap) \in 0 .. n
  <2>1. CASE items = <<>>
    BY <1>1, <2>1 DEF NextPosition
  <2>2. CASE items # <<>> /\ shuffle
    BY <1>1, <1>2, <2>2 DEF NextPosition
  <2>3. CASE items # <<>> /\ ~shuffle
    <3> DEFINE next == IF here # 0 THEN here + 1 ELSE AtMost(hint, n + 1)
    <3>1. next \in 1 .. n + 1
      BY <1>1, <1>3 DEF AtMost
    <3>2. NextPosition(current, hint, wrap) = IF next <= n THEN next ELSE IF wrap THEN 1 ELSE 0
      BY <2>3 DEF NextPosition, here, n
    <3> HIDE DEF next
    <3> QED
      BY <1>1, <2>3, <3>1, <3>2
  <2> QED
    BY <2>1, <2>2, <2>3
<1>5. PreviousPosition(current, hint, wrap) \in 0 .. n
  <2>1. CASE items = <<>> \/ (shuffle /\ current.id = 0)
    BY <1>1, <2>1 DEF PreviousPosition
  <2>2. CASE ~(items = <<>> \/ (shuffle /\ current.id = 0)) /\ shuffle
    BY <1>1, <1>2, <2>2 DEF PreviousPosition
  <2>3. CASE items # <<>> /\ ~shuffle
    <3> DEFINE before == IF here # 0 THEN here - 1
                         ELSE IF current.id # 0 THEN AtMost(hint, n + 1) - 1
                         ELSE selection - 1
    <3>1. before \in 0 .. n
      BY <1>1, <1>3, <2>3 DEF AtMost
    <3>2. PreviousPosition(current, hint, wrap) = OrPlace(before, IF wrap THEN n ELSE 0)
      BY <2>3 DEF PreviousPosition, here, n
    <3> HIDE DEF before
    <3> QED
      BY <1>1, <3>1, <3>2 DEF OrPlace
  <2> QED
    BY <2>1, <2>2, <2>3
<1> QED
  BY <1>3, <1>4, <1>5 DEF here, n

(* A step that moves the selection and the cursor, and edits nothing. *)
Reorders ==
  \/ OrderUnchanged
  \/ \E position : \E newRound \in BOOLEAN : TrackSelected(items, position, newRound)

LEMMA ReordersKeeps ==
  ASSUME QueueAssumption, QueueInv, QueueKept, Reorders,
         selection' = selection \/ selection' \in 1 .. Len(items)
  PROVE  QueueInv'
<1>1. Ids(items) \subseteq Nat /\ IsFiniteSet(Ids(items))
  BY ItemsFacts DEF QueueInv
<1>2. shuffle \in BOOLEAN /\ OrderOK(shuffle, Ids(items), shuffleOrder, shuffleCursor)
  BY DEF QueueInv
<1>3. OrderOK(shuffle, Ids(items), shuffleOrder', shuffleCursor')
  <2>1. CASE OrderUnchanged
    BY <1>2, <2>1 DEF OrderUnchanged
  <2>2. ASSUME NEW position, NEW newRound \in BOOLEAN, TrackSelected(items, position, newRound)
        PROVE  OrderOK(shuffle, Ids(items), shuffleOrder', shuffleCursor')
    BY <1>1, <1>2, <2>2, TrackSelectedEstablishes
  <2> QED
    BY <2>1, <2>2 DEF Reorders
<1>4. SelectionOK(items, selection')
  <2>1. SelectionOK(items, selection) /\ Len(items) \in Nat
    BY RowFacts DEF QueueInv
  <2> QED
    BY <2>1 DEF SelectionOK, AtLeast
<1> QED
  BY <1>3, <1>4 DEF QueueKept, QueueInv


-----------------------------------------------------------------------------
(* What a control does to the track, to what is sent and to what is shown. *)

SameTrack ==
  /\ playback'.generation = playback.generation
  /\ playback'.status = playback.status
  /\ playback'.current = playback.current

Same ==
  /\ SameTrack
  /\ playback'.request = playback.request
  /\ playback'.seekTarget = playback.seekTarget
  /\ UNCHANGED <<commands, seekLane, muted>>

(* A request for the track that the worker has. *)
Asks(mode, type) ==
  /\ WorkerHasTrack /\ playback.request # "Stop"
  /\ \/ mode = "Pause" /\ type = "Pause" /\ playback.request = "Play"
     \/ mode = "Play" /\ type = "Resume" /\ playback.request = "Pause"
     \/ mode = "Stop" /\ type = "Stop"
  /\ SameTrack
  /\ playback'.request = mode
  /\ playback'.seekTarget = playback.seekTarget
  /\ commands' = Append(commands, [type |-> type, generation |-> playback.generation])
  /\ UNCHANGED <<seekLane, muted>>

IsLoad(c, paused) ==
  \/ c.type = "LoadFailed"
  \/ /\ c.type = "Play" /\ c.entry = playback'.current.entry
     /\ c.position \in Nat /\ c.paused = paused /\ c.muted = muted

Starts(paused) ==
  /\ playback.generation < MaxPlaybackGen
  /\ playback'.generation = playback.generation + 1
  /\ playback'.status = "Loading"
  /\ playback'.current \in Item
  /\ playback'.request = IF paused THEN "Pause" ELSE "Play"
  /\ playback'.seekTarget = NoTime
  /\ \E c : /\ commands' = Append(commands, c)
            /\ c.generation = playback.generation + 1
            /\ IsLoad(c, paused)
  /\ UNCHANGED <<seekLane, muted>>

(* The track is none that the worker has, or one that it was told to stop. *)
Given == WorkerHasTrack /\ playback.request # "Stop"

Leaves ==
  /\ ~Given
  /\ playback'.generation \in {playback.generation, playback.generation + 1}
  /\ playback'.generation <= MaxPlaybackGen
  /\ playback'.status \notin HasTrackStatus
  /\ UNCHANGED <<commands, seekLane, muted>>

SeeksIn(target) ==
  /\ playback.status \in {"Playing", "Paused"}
  /\ SameTrack
  /\ playback'.request = playback.request
  /\ target \in Nat /\ DecoderPosition(target) = target
  /\ playback'.seekTarget = target
  /\ seekLane' = [generation |-> playback.generation, position |-> target]
  /\ UNCHANGED <<commands, muted>>

Mutes ==
  /\ UNCHANGED <<playback, seekLane>>
  /\ muted' = ~muted
  /\ commands' = IF WorkerHasTrack
                 THEN Append(commands, [type |-> "SetGain", generation |-> playback.generation,
                                        muted |-> muted'])
                 ELSE commands

Moves ==
  \/ Same
  \/ \E mode, type : Asks(mode, type)
  \/ \E paused \in BOOLEAN : Starts(paused)
  \/ Leaves
  \/ \E target : SeeksIn(target)
  \/ Mutes

(* The timeline on display does not go back within a generation. *)
TimelineKept ==
  \/ playback'.generation # playback.generation
  \/ playback'.status = "Stopped"
  \/ playback'.timeline >= playback.timeline

(* What a control that edits nothing establishes. *)
Plays == Shown' /\ Moves /\ TimelineKept /\ commandsOpen' = commandsOpen /\ Reorders

AppTyped == Assumptions /\ AppInv /\ playback.generation <= MaxPlaybackGen

LEMMA RequestedFacts ==
  ASSUME AppTyped
  PROVE  /\ RequestedStatus = "Playing" => WorkerHasTrack /\ playback.request = "Play"
         /\ RequestedStatus = "Paused" => WorkerHasTrack /\ playback.request = "Pause"
         /\ RequestedStatus \in {"Stopped", "Error"} <=> ~Given
         /\ RequestedStatus \in {"Playing", "Paused", "Stopped", "Error"}
         /\ RequestedStatus = "Error" => playback.status = "Error"
         /\ WorkerHasTrack <=> playback.status \in HasTrackStatus
<1>1. /\ playback.status \in HasTrackStatus \cup {"Stopped", "Error"}
      /\ playback.request \in {"Play", "Pause", "Stop"}
      /\ playback.status \in HasTrackStatus => playback.current.id # 0
  BY DEF AppTyped, AppInv, Shown, PlaybackStates
<1>2. CASE ~WorkerHasTrack
  BY <1>1, <1>2 DEF RequestedStatus, WorkerHasTrack, HasTrackStatus, Given
<1>3. CASE WorkerHasTrack
  <2>1. /\ playback.request = "Play" => RequestedStatus = "Playing"
        /\ playback.request = "Pause" => RequestedStatus = "Paused"
        /\ playback.request = "Stop" => RequestedStatus = "Stopped"
    BY <1>3 DEF RequestedStatus
  <2> QED
    BY <1>1, <1>3, <2>1 DEF WorkerHasTrack, Given
<1> QED
  BY <1>2, <1>3

(* A change of one field is one of the whole state. *)
LEMMA RequestPlays ==
  ASSUME AppTyped, Given, NEW mode, NEW type, Request(mode, type),
         \/ mode = "Pause" /\ type = "Pause" /\ playback.request = "Play"
         \/ mode = "Play" /\ type = "Resume" /\ playback.request = "Pause"
         \/ mode = "Stop" /\ type = "Stop",
         muted' = muted
  PROVE  Plays /\ Asks(mode, type)
<1>1. /\ playback' = [playback EXCEPT !.request = mode]
      /\ SendCommand([type |-> type, generation |-> playback.generation])
      /\ OrderUnchanged
  BY DEF Request
<1>2. playback \in PlaybackStates /\ mode \in {"Play", "Pause", "Stop"}
  BY DEF AppTyped, AppInv, Shown
<1>3. /\ playback' \in PlaybackStates
      /\ playback'.generation = playback.generation
      /\ playback'.status = playback.status
      /\ playback'.current = playback.current
      /\ playback'.request = mode
      /\ playback'.seekTarget = playback.seekTarget
      /\ playback'.timeline = playback.timeline
      /\ playback'.timeline \in Nat
  BY <1>1, <1>2 DEF PlaybackStates
<1>4. Shown'
  BY <1>3 DEF AppTyped, AppInv, Shown
<1>5. Asks(mode, type)
  BY <1>1, <1>3 DEF Asks, SameTrack, SendCommand, Given
<1> QED
  BY <1>1, <1>3, <1>4, <1>5 DEF Plays, Moves, TimelineKept, Reorders, SendCommand

LEMMA SelectedState ==
  ASSUME AppTyped, NEW item \in Item, NEW index \in Nat \ {0}, NEW position \in Nat,
         NEW generation \in Nat, NEW chosen, chosen = Selected(item, index, position, generation)
  PROVE  /\ chosen \in PlaybackStates
         /\ chosen.generation = generation /\ chosen.status = "Stopped"
         /\ chosen.current = item /\ chosen.request = "Play" /\ chosen.seekTarget = NoTime
<1>1. playback.seekRevision \in Nat
  BY DEF AppTyped, AppInv, Shown, PlaybackStates
<1>2. chosen = [generation |-> generation, status |-> "Stopped",
                seekRevision |-> playback.seekRevision, current |-> item,
                hint |-> index, timeline |-> 0, seekTarget |-> NoTime, position |-> position,
                duration |-> NoTime, request |-> "Play", finished |-> FALSE]
  BY DEF Selected, NewPlayback
<1> QED
  BY <1>1, <1>2 DEF PlaybackStates, Times, NoTime

LEMMA LoadTrackStarts ==
  ASSUME AppTyped, NEW its, NEW index \in Nat \ {0}, its[index] \in Item, its[index].id # 0,
         NEW position \in Nat, NEW paused \in BOOLEAN, NEW newRound \in BOOLEAN,
         LoadTrack(its, index, position, paused, newRound), muted' = muted
  PROVE  Shown' /\ Starts(paused) /\ TimelineKept /\ commandsOpen' = commandsOpen
<1> DEFINE chosen == Selected(its[index], index, position, NextGeneration)
           mode == IF paused THEN "Pause" ELSE "Play"
<1>1. /\ playback.generation < MaxPlaybackGen
      /\ playback' = [chosen EXCEPT !.status = "Loading", !.request = mode]
      /\ \/ SendCommand([type |-> "Play", generation |-> NextGeneration,
                         entry |-> its[index].entry, position |-> position,
                         paused |-> paused, muted |-> muted])
         \/ SendCommand([type |-> "LoadFailed", generation |-> NextGeneration])
  BY DEF LoadTrack
<1>2. playback.generation \in Nat /\ NextGeneration = playback.generation + 1
  BY DEF AppTyped, AppInv, Shown, PlaybackStates, NextGeneration
<1>3. /\ chosen \in PlaybackStates
      /\ chosen.generation = NextGeneration /\ chosen.status = "Stopped"
      /\ chosen.current = its[index] /\ chosen.request = "Play" /\ chosen.seekTarget = NoTime
  BY <1>2, SelectedState
<1>4. mode \in {"Play", "Pause"}
  OBVIOUS
<1> HIDE DEF chosen, mode
<1>5. /\ playback' \in PlaybackStates
      /\ playback'.generation = NextGeneration /\ playback'.status = "Loading"
      /\ playback'.current = its[index] /\ playback'.request = mode /\ playback'.seekTarget = NoTime
  BY <1>1, <1>3, <1>4 DEF PlaybackStates, HasTrackStatus
<1>6. Shown'
  BY <1>2, <1>5 DEF Shown, HasTrackStatus
<1>7. ASSUME NEW c, SendCommand(c), c.generation = NextGeneration, IsLoad(c, paused)
      PROVE  Starts(paused)
  BY <1>1, <1>2, <1>5, <1>7 DEF Starts, SendCommand, mode
<1>8. ASSUME SendCommand([type |-> "Play", generation |-> NextGeneration,
                          entry |-> its[index].entry, position |-> position,
                          paused |-> paused, muted |-> muted])
      PROVE  Starts(paused)
  <2> DEFINE c == [type |-> "Play", generation |-> NextGeneration,
                   entry |-> its[index].entry, position |-> position,
                   paused |-> paused, muted |-> muted]
  <2>1. c.generation = NextGeneration /\ IsLoad(c, paused)
    BY <1>5 DEF IsLoad
  <2>2. SendCommand(c)
    BY <1>8
  <2> HIDE DEF c
  <2> QED
    BY <1>7, <2>1, <2>2
<1>9. ASSUME SendCommand([type |-> "LoadFailed", generation |-> NextGeneration])
      PROVE  Starts(paused)
  <2> DEFINE c == [type |-> "LoadFailed", generation |-> NextGeneration]
  <2>1. c.generation = NextGeneration /\ IsLoad(c, paused)
    BY DEF IsLoad
  <2>2. SendCommand(c)
    BY <1>9
  <2> HIDE DEF c
  <2> QED
    BY <1>7, <2>1, <2>2
<1>10. TimelineKept
  BY <1>2, <1>5 DEF TimelineKept
<1>11. commandsOpen' = commandsOpen
  BY <1>1 DEF SendCommand
<1> QED
  BY <1>1, <1>6, <1>8, <1>9, <1>10, <1>11

LEMMA StaysAsIs ==
  ASSUME AppTyped, UNCHANGED <<playback, commands, commandsOpen, seekLane, muted>>
  PROVE  Shown' /\ Same /\ TimelineKept /\ commandsOpen' = commandsOpen
<1>1. playback.timeline \in Nat
  BY DEF AppTyped, AppInv, Shown, PlaybackStates
<1> QED
  BY <1>1 DEF AppTyped, AppInv, Shown, Same, SameTrack, TimelineKept

LEMMA LoadPlays ==
  ASSUME AppTyped, NEW index \in 1 .. Len(items), NEW position \in Nat,
         NEW paused \in BOOLEAN, NEW newRound \in BOOLEAN,
         LoadOrExhausted(index, position, paused, newRound), muted' = muted
  PROVE  /\ Plays
         /\ Starts(paused) \/ (playback.generation = MaxPlaybackGen /\ Same)
<1>1. /\ items[index] \in Item /\ items[index].id # 0 /\ index \in Nat \ {0}
      /\ Len(items) \in Nat
  BY RowFacts DEF AppTyped, AppInv, Assumptions
<1>2. CASE LoadTrack(items, index, position, paused, newRound)
  <2>1. Shown' /\ Starts(paused) /\ TimelineKept /\ commandsOpen' = commandsOpen
    BY <1>1, <1>2, LoadTrackStarts
  <2>2. Reorders
    BY <1>2 DEF LoadTrack, Reorders
  <2> QED
    BY <2>1, <2>2 DEF Plays, Moves
<1>3. CASE /\ playback.generation = MaxPlaybackGen
           /\ UNCHANGED playback
           /\ OrderUnchanged
           /\ SendNothing
  <2>1. Shown' /\ Same /\ TimelineKept /\ commandsOpen' = commandsOpen
    BY <1>3, StaysAsIs DEF SendNothing
  <2> QED
    BY <1>3, <2>1 DEF Plays, Moves, Reorders
<1> QED
  BY <1>2, <1>3 DEF LoadOrExhausted

LEMMA SelectStoppedPlays ==
  ASSUME AppTyped, ~Given, NEW index \in 1 .. Len(items), SelectStopped(index), muted' = muted
  PROVE  Plays /\ (Same \/ (Leaves /\ playback'.request = "Play"))
<1> DEFINE generation == IF items[index].id = playback.current.id
                         THEN playback.generation ELSE NextGeneration
           chosen == Selected(items[index], index, 0, generation)
<1>1. /\ items[index] \in Item /\ items[index].id # 0 /\ index \in Nat \ {0}
      /\ Len(items) \in Nat
  BY RowFacts DEF AppTyped, AppInv, Assumptions
<1>2. /\ SendNothing
      /\ IF generation > MaxPlaybackGen
         THEN UNCHANGED playback /\ OrderUnchanged
         ELSE playback' = chosen /\ TrackSelected(items, index, FALSE)
  BY DEF SelectStopped
<1>3. /\ playback.generation \in Nat /\ MaxPlaybackGen \in Nat
      /\ generation \in {playback.generation, playback.generation + 1}
  BY DEF AppTyped, AppInv, Shown, PlaybackStates, NextGeneration, Assumptions, PlaybackAssumption
<1>4. /\ chosen \in PlaybackStates
      /\ chosen.generation = generation /\ chosen.status = "Stopped"
      /\ chosen.request = "Play" /\ chosen.seekTarget = NoTime
  BY <1>1, <1>3, SelectedState
<1> HIDE DEF generation, chosen
<1>5. CASE generation > MaxPlaybackGen
  <2>1. Shown' /\ Same /\ TimelineKept /\ commandsOpen' = commandsOpen
    BY <1>2, <1>5, StaysAsIs DEF SendNothing
  <2> QED
    BY <1>2, <1>5, <2>1 DEF Plays, Moves, Reorders
<1>6. CASE ~(generation > MaxPlaybackGen)
  <2>1. playback' = chosen /\ generation <= MaxPlaybackGen
    BY <1>2, <1>3, <1>6
  <2>2. Shown'
    BY <1>4, <2>1 DEF Shown, HasTrackStatus
  <2>3. Leaves
    BY <1>2, <1>3, <1>4, <2>1 DEF Leaves, HasTrackStatus, SendNothing
  <2>4. TimelineKept /\ Reorders
    BY <1>2, <1>4, <1>6, <2>1 DEF TimelineKept, Reorders
  <2> QED
    BY <1>2, <1>4, <2>1, <2>2, <2>3, <2>4 DEF Plays, Moves, SendNothing
<1> QED
  BY <1>5, <1>6

(* What the listener cannot tell apart from a request: it follows the one that
   stands, or there is no track to follow it. *)
Follows ==
  \/ Same
  \/ (Starts(playback.request = "Pause") /\ Given)
  \/ (Leaves /\ playback'.request \in {"Play", playback.request})
  \/ \E target : SeeksIn(target)
  \/ Mutes
  \/ Asks("Stop", "Stop")

LEMMA NavigateToPlays ==
  ASSUME AppTyped, NEW index \in 1 .. Len(items), NavigateTo(index), muted' = muted
  PROVE  Plays /\ Follows
<1>1. /\ RequestedStatus = "Playing" => WorkerHasTrack /\ playback.request = "Play"
      /\ RequestedStatus = "Paused" => WorkerHasTrack /\ playback.request = "Pause"
      /\ RequestedStatus \in {"Stopped", "Error"} <=> ~Given
      /\ RequestedStatus \in {"Playing", "Paused", "Stopped", "Error"}
  BY RequestedFacts
<1>2. CASE RequestedStatus = "Paused"
  <2>1. LoadOrExhausted(index, 0, TRUE, FALSE)
    BY <1>2 DEF NavigateTo
  <2>2. Plays /\ (Starts(TRUE) \/ Same)
    BY <2>1, LoadPlays
  <2> QED
    BY <1>1, <1>2, <2>2 DEF Follows, Given
<1>3. CASE RequestedStatus \in {"Stopped", "Error"}
  <2>1. SelectStopped(index)
    BY <1>3 DEF NavigateTo
  <2> QED
    BY <1>1, <1>3, <2>1, SelectStoppedPlays DEF Follows
<1>4. CASE RequestedStatus = "Playing"
  <2>1. LoadOrExhausted(index, 0, FALSE, FALSE)
    BY <1>4 DEF NavigateTo
  <2>2. Plays /\ (Starts(FALSE) \/ Same)
    BY <2>1, LoadPlays
  <2> QED
    BY <1>1, <1>4, <2>2 DEF Follows, Given
<1> QED
  BY <1>1, <1>2, <1>3, <1>4

LEMMA StartSelectedPlays ==
  ASSUME AppTyped, StartSelected, muted' = muted
  PROVE  Plays /\ (Starts(FALSE) \/ (playback.generation = MaxPlaybackGen /\ Same))
<1> DEFINE index == AtMost(selection, Len(items))
<1>1. \E position \in {0, ResumePosition} :
         LoadOrExhausted(index, position, FALSE, TRUE) /\ items # <<>>
  BY DEF StartSelected
<1>2. ResumePosition \in Nat
  BY DEF ResumePosition, AppTyped, AppInv, Shown, PlaybackStates
<1>3. items # <<>> => selection \in 1 .. Len(items) /\ Len(items) \in Nat
  BY RowFacts DEF AppTyped, AppInv, Assumptions
<1>4. items # <<>> => index \in 1 .. Len(items)
  BY <1>3 DEF AtMost
<1> HIDE DEF index
<1> QED
  BY <1>1, <1>2, <1>4, LoadPlays

LEMMA StopTrackPlays ==
  ASSUME AppTyped, StopTrack, muted' = muted
  PROVE  Plays /\ Follows
<1>1. /\ RequestedStatus \in {"Stopped", "Error"} <=> ~Given
      /\ RequestedStatus \in {"Playing", "Paused", "Stopped", "Error"}
      /\ RequestedStatus = "Error" => playback.status = "Error"
      /\ WorkerHasTrack <=> playback.status \in HasTrackStatus
  BY RequestedFacts
<1>2. CASE playback.status = "Error"
  <2>1. /\ playback' = [playback EXCEPT !.status = "Stopped", !.seekTarget = NoTime]
        /\ OrderUnchanged /\ SendNothing
    BY <1>2 DEF StopTrack
  <2>2. playback \in PlaybackStates
    BY DEF AppTyped, AppInv, Shown
  <2>3. /\ playback' \in PlaybackStates
        /\ playback'.generation = playback.generation
        /\ playback'.status = "Stopped"
        /\ playback'.request = playback.request
        /\ playback'.seekTarget = NoTime
    BY <2>1, <2>2 DEF PlaybackStates, Times, NoTime
  <2>4. Shown'
    BY <2>3 DEF Shown, HasTrackStatus
  <2>5. ~Given
    BY <1>1, <1>2 DEF HasTrackStatus, Given
  <2>6. Leaves
    BY <2>1, <2>3, <2>5 DEF Leaves, HasTrackStatus, SendNothing, AppTyped
  <2> QED
    BY <2>1, <2>3, <2>4, <2>6 DEF Plays, Moves, Follows, TimelineKept, Reorders, SendNothing
<1>3. CASE playback.status # "Error"
  <2>1. Request("Stop", "Stop") /\ RequestedStatus # "Stopped"
    BY <1>3 DEF StopTrack, RequestStop
  <2>2. Given
    BY <1>1, <1>3, <2>1
  <2>3. Plays /\ Asks("Stop", "Stop")
    BY <2>1, <2>2, RequestPlays
  <2> QED
    BY <2>3 DEF Follows
<1> QED
  BY <1>2, <1>3

-----------------------------------------------------------------------------
(* The controls. *)

(* A control that edits nothing leaves the selection alone or on a row. *)
SelectionKept == selection' = selection \/ selection' \in 1 .. Len(items)

LEMMA EndOfQueuePlays ==
  ASSUME AppTyped, EndOfQueue, muted' = muted
  PROVE  Plays /\ Follows /\ SelectionKept
<1>1. /\ RequestedStatus \in {"Stopped", "Error"} <=> ~Given
      /\ RequestedStatus \in {"Playing", "Paused", "Stopped", "Error"}
      /\ WorkerHasTrack <=> playback.status \in HasTrackStatus
  BY RequestedFacts
<1>2. CASE RequestedStatus \in {"Playing", "Paused"}
  <2>1. Request("Stop", "Stop")
    BY <1>2 DEF EndOfQueue, RequestStop
  <2>2. Plays /\ Asks("Stop", "Stop")
    BY <1>1, <1>2, <2>1, RequestPlays
  <2> QED
    BY <2>2 DEF Follows, SelectionKept, EndOfQueue
<1>3. CASE RequestedStatus \notin {"Playing", "Paused"} /\ WorkerHasTrack
  <2>1. UNCHANGED <<playback, commands, commandsOpen, seekLane>> /\ OrderUnchanged
    BY <1>3 DEF EndOfQueue, SendNothing
  <2>2. Shown' /\ Same /\ TimelineKept /\ commandsOpen' = commandsOpen
    BY <2>1, StaysAsIs
  <2> QED
    BY <2>1, <2>2 DEF Plays, Moves, Reorders, Follows, SelectionKept, EndOfQueue
<1>4. CASE RequestedStatus \notin {"Playing", "Paused"} /\ ~WorkerHasTrack
  <2>1. /\ playback' = [playback EXCEPT !.status = "Stopped"]
        /\ UNCHANGED <<commands, commandsOpen, seekLane>> /\ OrderUnchanged
    BY <1>4 DEF EndOfQueue, SendNothing
  <2>2. playback \in PlaybackStates /\ playback.seekTarget = NoTime
    BY <1>1, <1>4 DEF AppTyped, AppInv, Shown
  <2>3. /\ playback' \in PlaybackStates
        /\ playback'.generation = playback.generation
        /\ playback'.status = "Stopped"
        /\ playback'.request = playback.request
        /\ playback'.seekTarget = NoTime
    BY <2>1, <2>2 DEF PlaybackStates
  <2>4. Shown'
    BY <2>3 DEF Shown, HasTrackStatus
  <2>5. Leaves
    BY <1>4, <2>1, <2>3 DEF Leaves, HasTrackStatus, Given, AppTyped
  <2> QED
    BY <2>1, <2>3, <2>4, <2>5
    DEF Plays, Moves, Follows, TimelineKept, Reorders, SelectionKept, EndOfQueue
<1> QED
  BY <1>2, <1>3, <1>4

LEMMA NextTrackPlays ==
  ASSUME AppTyped, NextTrackMoves, muted' = muted
  PROVE  Plays /\ Follows /\ SelectionKept
<1>1. CASE items = <<>>
  BY <1>1, StopTrackPlays DEF NextTrackMoves, SelectionKept
<1>2. CASE items # <<>> /\ NextIndex = 0
  BY <1>2, EndOfQueuePlays DEF NextTrackMoves
<1>3. CASE items # <<>> /\ NextIndex # 0
  <2>1. NextIndex \in 0 .. Len(items) /\ Len(items) \in Nat
    BY NavigationFacts, RowFacts
    DEF NextIndex, AppTyped, AppInv, Assumptions, Shown, PlaybackStates
  <2>2. NextIndex \in 1 .. Len(items)
    BY <1>3, <2>1
  <2>3. selection' = NextIndex /\ NavigateTo(NextIndex)
    BY <1>3 DEF NextTrackMoves
  <2> QED
    BY <2>2, <2>3, NavigateToPlays DEF SelectionKept
<1> QED
  BY <1>1, <1>2, <1>3

LEMMA PreviousTrackPlays ==
  ASSUME AppTyped, PreviousTrack
  PROVE  Plays /\ Follows /\ SelectionKept
<1>1. muted' = muted
  BY DEF PreviousTrack, Kept, SettingsKept
<1>2. CASE items = <<>>
  BY <1>1, <1>2, StopTrackPlays DEF PreviousTrack, SelectionKept
<1>3. CASE items # <<>>
  <2> DEFINE here == OrPlace(CurrentIndex,
                             IF playback.current.id # 0 THEN playback.hint ELSE selection)
             previous == AtMost(OrPlace(PreviousIndex, here), Len(items))
  <2>1. /\ CurrentIndex \in 0 .. Len(items) /\ PreviousIndex \in 0 .. Len(items)
        /\ Len(items) \in Nat /\ selection \in 1 .. Len(items)
        /\ playback.hint \in Nat \ {0}
    BY <1>3, NavigationFacts, RowFacts
    DEF CurrentIndex, PreviousIndex, AppTyped, AppInv, Assumptions, Shown, PlaybackStates
  <2>2. here \in Nat \ {0}
    BY <2>1 DEF OrPlace
  <2>3. previous \in 1 .. Len(items)
    <3> HIDE DEF here
    <3> QED
      BY <2>1, <2>2 DEF OrPlace, AtMost
  <2>4. selection' = previous /\ NavigateTo(previous)
    BY <1>3 DEF PreviousTrack
  <2> HIDE DEF previous
  <2> QED
    BY <1>1, <2>3, <2>4, NavigateToPlays DEF SelectionKept
<1> QED
  BY <1>2, <1>3

LEMMA SeekToPlays ==
  ASSUME AppTyped, Seekable, NEW position \in Nat, SeekTo(DecoderPosition(position)), muted' = muted
  PROVE  Plays /\ Follows /\ SelectionKept
<1> DEFINE target == DecoderPosition(position)
<1>1. target \in Nat /\ DecoderPosition(target) = target
  BY DecoderPositionFacts DEF AppTyped, Assumptions
<1>2. SeekTo(target)
  OBVIOUS
<1> HIDE DEF target
<1>3. playback \in PlaybackStates
  BY DEF AppTyped, AppInv, Shown
<1>4. playback' = [playback EXCEPT !.seekTarget = target, !.position = target]
  BY <1>2 DEF SeekTo
<1>5. /\ playback' \in PlaybackStates
      /\ playback'.generation = playback.generation
      /\ playback'.status = playback.status
      /\ playback'.current = playback.current
      /\ playback'.request = playback.request
      /\ playback'.seekTarget = target
      /\ playback'.timeline = playback.timeline
      /\ playback'.timeline \in Nat
  BY <1>1, <1>3, <1>4 DEF PlaybackStates, Times
<1>6. Shown'
  BY <1>1, <1>5 DEF AppTyped, AppInv, Shown, Seekable, HasTrackStatus
<1>7. SeeksIn(target)
  BY <1>1, <1>2, <1>5 DEF SeeksIn, SameTrack, Seekable, SeekTo, SendSeek
<1> QED
  BY <1>2, <1>5, <1>6, <1>7
  DEF Plays, Moves, Follows, TimelineKept, Reorders, SeekTo, SendSeek, SelectionKept

LEMMA SeekRelativePlays ==
  ASSUME AppTyped, NEW forward \in BOOLEAN, SeekRelative(forward)
  PROVE  Plays /\ Follows /\ SelectionKept
<1> DEFINE base == IF playback.seekTarget # NoTime THEN playback.seekTarget ELSE playback.position
           target == IF forward THEN base + SeekStep ELSE AtLeast(base - SeekStep, 0)
           limit == IF playback.duration # NoTime THEN playback.duration ELSE target
<1>1. /\ Seekable
      /\ IF forward /\ target > limit
         THEN NextTrackMoves
         ELSE SeekTo(DecoderPosition(AtMost(target, limit)))
      /\ muted' = muted
  BY DEF SeekRelative, Kept, SettingsKept
<1>2. /\ playback.seekTarget \in Nat \cup {NoTime} /\ playback.position \in Nat
      /\ playback.duration \in Nat \cup {NoTime} /\ SeekStep \in Nat
  BY DEF AppTyped, AppInv, Shown, PlaybackStates, Times, Assumptions, PlaybackAssumption
<1>3. base \in Nat
  BY <1>2
<1> HIDE DEF base
<1>4. target \in Nat
  BY <1>2, <1>3 DEF AtLeast
<1> HIDE DEF target
<1>5. limit \in Nat
  BY <1>2, <1>4
<1> HIDE DEF limit
<1>6. AtMost(target, limit) \in Nat
  BY <1>4, <1>5 DEF AtMost
<1> QED
  BY <1>1, <1>6, NextTrackPlays, SeekToPlays

LEMMA SeekAbsolutePlays ==
  ASSUME AppTyped, NEW position \in Positions, SeekAbsolute(position)
  PROVE  Plays /\ Follows /\ SelectionKept
<1>1. position \in Nat
  BY DEF AppTyped, Assumptions, PlaybackAssumption, LanesAssumption
<1>2. Seekable /\ SeekTo(DecoderPosition(position)) /\ muted' = muted
  BY DEF SeekAbsolute, Kept, SettingsKept
<1> QED
  BY <1>1, <1>2, SeekToPlays

LEMMA TransportPlays ==
  ASSUME AppTyped, PlayPause \/ Play \/ Pause \/ StopPlayback
  PROVE  Plays /\ selection' = selection /\ Kept
<1>1. selection' = selection /\ Kept /\ muted' = muted
  BY DEF PlayPause, Play, Pause, StopPlayback, Kept, SettingsKept
<1>2. /\ RequestedStatus = "Playing" => WorkerHasTrack /\ playback.request = "Play"
      /\ RequestedStatus = "Paused" => WorkerHasTrack /\ playback.request = "Pause"
  BY RequestedFacts
<1>3. ASSUME RequestedStatus = "Playing", RequestPause PROVE Plays
  BY <1>1, <1>2, <1>3, RequestPlays DEF RequestPause, Given
<1>4. ASSUME RequestedStatus = "Paused", RequestResume PROVE Plays
  BY <1>1, <1>2, <1>4, RequestPlays DEF RequestResume, Given
<1>5. ASSUME StartSelected PROVE Plays
  BY <1>1, <1>5, StartSelectedPlays
<1>6. PlayPause => Plays
  BY <1>3, <1>4, <1>5 DEF PlayPause
<1>7. Play => Plays
  BY <1>4, <1>5 DEF Play
<1>8. Pause => Plays
  BY <1>3 DEF Pause
<1>9. StopPlayback => Plays
  BY <1>1, StopTrackPlays DEF StopPlayback
<1> QED
  BY <1>1, <1>6, <1>7, <1>8, <1>9

(* What every control and every report establishes. *)
Moved == AppInv' /\ Moves /\ TimelineKept /\ commandsOpen' = commandsOpen

LEMMA PlaysMoved ==
  ASSUME AppTyped, Plays, QueueKept, SelectionKept, repeat' = repeat, muted' = muted
  PROVE  Moved
<1>1. QueueInv'
  BY ReordersKeeps DEF AppTyped, AppInv, Assumptions, Plays, SelectionKept
<1> QED
  BY <1>1 DEF Moved, Plays, AppTyped, AppInv

LEMMA ToggleMuteMoved ==
  ASSUME AppTyped, ToggleMute
  PROVE  Moved /\ Follows
<1>1. /\ UNCHANGED <<playback, seekLane, commandsOpen>>
      /\ commands' = IF WorkerHasTrack
                     THEN Append(commands, [type |-> "SetGain",
                                            generation |-> playback.generation, muted |-> muted'])
                     ELSE commands
      /\ muted' = ~muted /\ muted \in BOOLEAN
  BY DEF ToggleMute, SendCommand, SendNothing, AppTyped, AppInv
<1>2. Mutes
  BY <1>1 DEF Mutes
<1>3. QueueInv'
  BY DEF ToggleMute, QueueKept, QueueInv, AppTyped, AppInv
<1>4. Shown' /\ playback.timeline \in Nat
  BY <1>1 DEF Shown, PlaybackStates, AppTyped, AppInv
<1>5. muted' \in BOOLEAN /\ repeat' = repeat
  BY DEF ToggleMute, AppTyped, AppInv
<1> QED
  BY <1>1, <1>2, <1>3, <1>4, <1>5 DEF Moved, Moves, TimelineKept, Follows, AppInv, AppTyped

LEMMA SettingMoved ==
  ASSUME AppTyped, ToggleShuffle \/ \E mode \in RepeatMode : SetRepeat(mode)
  PROVE  Moved /\ Follows
<1>1. /\ UNCHANGED <<playback, commands, commandsOpen, seekLane, muted>>
      /\ repeat' \in RepeatMode
  BY DEF ToggleShuffle, SetRepeat, laneVars, AppTyped, AppInv
<1>2. QueueInv'
  <2>1. CASE ToggleShuffle
    <3>1. \E on \in BOOLEAN : \E current : SetShuffle(on, current)
      BY <2>1 DEF ToggleShuffle, AppTyped, AppInv, QueueInv
    <3> QED
      BY <3>1, SetShuffleInv DEF AppTyped, AppInv, Assumptions
  <2>2. CASE \E mode \in RepeatMode : SetRepeat(mode)
    BY <2>2 DEF SetRepeat, queueVars, QueueInv, AppTyped, AppInv
  <2> QED
    BY <2>1, <2>2
<1>3. Shown' /\ Same /\ TimelineKept /\ commandsOpen' = commandsOpen
  BY <1>1, StaysAsIs
<1>4. AppInv'
  BY <1>1, <1>2, <1>3 DEF AppInv, AppTyped
<1> QED
  BY <1>3, <1>4 DEF Moved, Moves, Follows

LEMMA OtherMoved ==
  ASSUME AppTyped, OtherControl
  PROVE  Moved /\ Follows
<1>1. ASSUME Plays, Follows, SelectionKept, Kept PROVE Moved /\ Follows
  BY <1>1, PlaysMoved DEF Kept, SettingsKept
<1>2. CASE NextTrack
  <2>1. Kept /\ muted' = muted /\ NextTrackMoves
    BY <1>2 DEF NextTrack, Kept, SettingsKept
  <2> QED
    BY <1>1, <2>1, NextTrackPlays
<1>3. CASE PreviousTrack
  <2>1. Kept
    BY <1>3 DEF PreviousTrack
  <2> QED
    BY <1>1, <1>3, <2>1, PreviousTrackPlays
<1>4. ASSUME NEW forward \in BOOLEAN, SeekRelative(forward) PROVE Moved /\ Follows
  <2>1. Kept
    BY <1>4 DEF SeekRelative
  <2> QED
    BY <1>1, <1>4, <2>1, SeekRelativePlays
<1>5. ASSUME NEW position \in Positions, SeekAbsolute(position) PROVE Moved /\ Follows
  <2>1. Kept
    BY <1>5 DEF SeekAbsolute
  <2> QED
    BY <1>1, <1>5, <2>1, SeekAbsolutePlays
<1> QED
  BY <1>2, <1>3, <1>4, <1>5, ToggleMuteMoved, SettingMoved DEF OtherControl

LEMMA ControlMoved ==
  ASSUME AppTyped, UserControl
  PROVE  Moved
<1>1. ASSUME PlayPause \/ Play \/ Pause \/ StopPlayback PROVE Moved
  <2>1. Plays /\ SelectionKept /\ Kept
    BY <1>1, TransportPlays DEF SelectionKept
  <2> QED
    BY <2>1, PlaysMoved DEF Kept, SettingsKept
<1> QED
  BY <1>1, OtherMoved DEF UserControl

-----------------------------------------------------------------------------
(* The queue edits: a queue that is still sound, and the place of the current
   track in it. *)

LEMMA ReconciledMoved ==
  ASSUME AppTyped, QueueInv', NEW pb \in PlaybackStates, NEW h \in Nat \ {0},
         pb = [playback EXCEPT !.hint = h],
         playback' = Reconciled(items', pb), EditKept
  PROVE  Moved /\ Same
<1>1. items' \in Seq(Item) /\ Len(items') \in Nat /\ DOMAIN items' = 1 .. Len(items')
  BY LenProperties DEF QueueInv, ItemsOK
<1>2. \E i \in Nat \ {0} : playback' = [pb EXCEPT !.hint = i]
  <2> DEFINE index == CurrentPosition(items', pb.current, pb.hint)
             n == IF index # 0 THEN index ELSE AtMost(pb.hint, Len(items') + 1)
  <2>1. ItemPosition(items', pb.current.id) \in 0 .. Len(items')
    BY <1>1, ItemPositionFacts
  <2>2. pb.hint \in Nat \ {0}
    BY DEF PlaybackStates
  <2>3. index \in Nat
    BY <1>1, <2>1, <2>2 DEF CurrentPosition
  <2> HIDE DEF index
  <2>4. n \in Nat \ {0}
    BY <1>1, <2>2, <2>3 DEF AtMost
  <2>5. playback' = [pb EXCEPT !.hint = n]
    BY DEF Reconciled, index
  <2> HIDE DEF n
  <2> QED
    BY <2>4, <2>5
<1>3. playback \in PlaybackStates
  BY DEF AppTyped, AppInv, Shown
<1>4. /\ playback' \in PlaybackStates
      /\ playback'.generation = playback.generation
      /\ playback'.status = playback.status
      /\ playback'.current = playback.current
      /\ playback'.request = playback.request
      /\ playback'.seekTarget = playback.seekTarget
      /\ playback'.timeline = playback.timeline
      /\ playback'.timeline \in Nat
  BY <1>2, <1>3 DEF PlaybackStates
<1>5. UNCHANGED <<repeat, muted, commands, commandsOpen, seekLane>>
  BY DEF EditKept, laneVars
<1>6. Shown'
  BY <1>4 DEF AppTyped, AppInv, Shown
<1>7. Same
  BY <1>4, <1>5 DEF Same, SameTrack
<1> QED
  BY <1>4, <1>5, <1>6, <1>7 DEF Moved, Moves, TimelineKept, AppTyped, AppInv

LEMMA OwnHint ==
  ASSUME AppTyped
  PROVE  /\ playback \in PlaybackStates /\ playback.hint \in Nat \ {0}
         /\ playback = [playback EXCEPT !.hint = playback.hint]
<1>1. playback \in PlaybackStates
  BY DEF AppTyped, AppInv, Shown
<1> QED
  BY <1>1 DEF PlaybackStates

LEMMA RemoveMoved ==
  ASSUME AppTyped, RemoveQueueItem
  PROVE  Moved /\ Same
<1> DEFINE before == CurrentIndex = 0 /\ selection < playback.hint
           h == IF before THEN playback.hint - 1 ELSE playback.hint
           pb == [playback EXCEPT !.hint = h]
           shifted == IF before THEN [playback EXCEPT !.hint = @ - 1] ELSE playback
<1>1. RemoveSelected /\ playback' = Reconciled(items', shifted) /\ EditKept
  BY DEF RemoveQueueItem
<1>2. QueueInv'
  BY <1>1, RemoveSelectedInv DEF AppTyped, AppInv, Assumptions
<1>3. selection \in Nat \ {0}
  BY RowFacts DEF AppTyped, AppInv, Assumptions
<1>4. /\ playback \in PlaybackStates /\ playback.hint \in Nat \ {0}
      /\ playback = [playback EXCEPT !.hint = playback.hint]
  BY OwnHint
<1>5. h \in Nat \ {0}
  BY <1>3, <1>4
<1>6. shifted = pb
  BY <1>4
<1> HIDE DEF h, shifted
<1>7. pb \in PlaybackStates
  BY <1>4, <1>5 DEF PlaybackStates
<1> HIDE DEF pb
<1>8. pb = [playback EXCEPT !.hint = h] /\ playback' = Reconciled(items', pb)
  BY <1>1, <1>6 DEF pb
<1> QED
  BY <1>1, <1>2, <1>5, <1>7, <1>8, ReconciledMoved

LEMMA QueueEntriesMoved ==
  ASSUME AppTyped, NEW batch \in Batches, QueueEntries(batch)
  PROVE  Moved /\ (Same \/ (Starts(FALSE) /\ ~WorkerHasTrack))
<1>0. QueueAssumption /\ QueueInv /\ shuffle \in BOOLEAN
  BY DEF AppTyped, AppInv, Assumptions, QueueInv
<1>1. CASE AppendRejected(batch) /\ UNCHANGED playback /\ EditKept
  <2>1. QueueInv'
    BY <1>0, <1>1, AppendRejectedInv
  <2>2. UNCHANGED <<playback, repeat, muted, commands, commandsOpen, seekLane>>
    BY <1>1 DEF EditKept, laneVars
  <2>3. Shown' /\ Same /\ TimelineKept /\ commandsOpen' = commandsOpen
    BY <2>2, StaysAsIs
  <2> QED
    BY <2>1, <2>2, <2>3 DEF Moved, Moves, AppTyped, AppInv
<1>2. CASE /\ AppendItems(batch)
           /\ IF WorkerHasTrack
              THEN UNCHANGED selection ELSE selection' = Len(items) + 1
           /\ IF WorkerHasTrack \/ playback.generation = MaxPlaybackGen
              THEN /\ ExtendShuffleOrder(Ids(Appended(batch)))
                   /\ UNCHANGED playback
                   /\ SendNothing
              ELSE LoadTrack(items', selection', 0, FALSE, TRUE)
           /\ SettingsKept
  <2>1. /\ ItemsOK(items', queuedAssets', nextItemId')
        /\ queueGen' \in 0 .. MaxQueueGen
        /\ Ids(items') = Ids(items) \cup Ids(Appended(batch))
        /\ Ids(items) \cap Ids(Appended(batch)) = {}
        /\ Ids(Appended(batch)) \subseteq Nat
        /\ IsFiniteSet(Ids(Appended(batch)))
        /\ Len(items') = Len(items) + Len(batch)
    BY <1>0, <1>2, AppendItemsEstablishes
  <2>2. batch \in Seq(Entries) /\ batch # <<>> /\ shuffle' = shuffle
    BY <1>0, <1>2 DEF AppendItems, QueueAssumption
  <2>3. Len(batch) \in Nat \ {0} /\ Len(items) \in Nat
    BY <1>0, <2>2, EmptySeq, LenProperties, RowFacts
  <2>4. SelectionOK(items', selection')
    <3>1. SelectionOK(items, selection)
      BY <1>0 DEF QueueInv
    <3> QED
      BY <1>2, <2>1, <2>3, <3>1 DEF SelectionOK, AtLeast
  <2>5. UNCHANGED <<repeat, muted>>
    BY <1>2 DEF SettingsKept
  <2>6. CASE WorkerHasTrack \/ playback.generation = MaxPlaybackGen
    <3>1. /\ ExtendShuffleOrder(Ids(Appended(batch)))
          /\ UNCHANGED <<playback, commands, commandsOpen, seekLane>>
      BY <1>2, <2>6 DEF SendNothing
    <3>2. OrderOK(shuffle, Ids(items'), shuffleOrder', shuffleCursor')
      BY <1>0, <2>1, <3>1, ExtendEstablishes DEF QueueInv
    <3>3. QueueInv'
      BY <1>0, <2>1, <2>2, <2>4, <3>2 DEF QueueInv
    <3>4. Shown' /\ Same /\ TimelineKept /\ commandsOpen' = commandsOpen
      BY <2>5, <3>1, StaysAsIs
    <3> QED
      BY <2>5, <3>3, <3>4 DEF Moved, Moves, AppTyped, AppInv
  <2>7. CASE ~(WorkerHasTrack \/ playback.generation = MaxPlaybackGen)
    <3>1. LoadTrack(items', selection', 0, FALSE, TRUE) /\ selection' = Len(items) + 1
      BY <1>2, <2>7
    <3>2. selection' \in 1 .. Len(items') /\ selection' \in Nat \ {0}
      BY <2>1, <2>3, <3>1
    <3>3. /\ \A i \in 1 .. Len(items') : items'[i] \in Item /\ items'[i].id \in 1 .. nextItemId' - 1
          /\ Ids(items') \subseteq Nat /\ IsFiniteSet(Ids(items'))
      BY <1>0, <2>1, ItemsFacts
    <3>4. items'[selection'] \in Item /\ items'[selection'].id # 0
      BY <3>2, <3>3
    <3>5. Shown' /\ Starts(FALSE) /\ TimelineKept /\ commandsOpen' = commandsOpen
      BY <2>5, <3>1, <3>2, <3>4, LoadTrackStarts
    <3>6. RefreshShuffleOrder(shuffle, items', items'[selection'])
      BY <3>1 DEF LoadTrack, TrackSelected
    <3>7. OrderOK(shuffle, Ids(items'), shuffleOrder', shuffleCursor')
      BY <1>0, <3>3, <3>6, RefreshEstablishes
    <3>8. QueueInv'
      BY <1>0, <2>1, <2>2, <2>4, <3>7 DEF QueueInv
    <3> QED
      BY <2>5, <2>7, <3>5, <3>8 DEF Moved, Moves, AppTyped, AppInv
  <2> QED
    BY <2>6, <2>7
<1> QED
  BY <1>1, <1>2 DEF QueueEntries

LEMMA EditMoved ==
  ASSUME AppTyped, QueueEdit
  PROVE  Moved /\ (Same \/ (Starts(FALSE) /\ ~WorkerHasTrack))
<1>0. QueueAssumption /\ QueueInv
  BY DEF AppTyped, AppInv, Assumptions
<1>1. ASSUME QueueInv', playback' = Reconciled(items', playback), EditKept
      PROVE  Moved /\ Same
  BY <1>1, OwnHint, ReconciledMoved
<1>2. CASE ClearQueue
  BY <1>0, <1>1, <1>2, ClearInv DEF ClearQueue
<1>3. ASSUME NEW down \in BOOLEAN, MoveQueueItem(down) PROVE Moved /\ Same
  BY <1>0, <1>1, <1>3, MoveSelectedInv DEF MoveQueueItem
<1>4. ASSUME NEW position \in 1 .. MaxItems, SelectQueueItem(position) PROVE Moved /\ Same
  <2>1. QueueInv'
    BY <1>0, <1>4, MoveSelectionInv DEF SelectQueueItem
  <2>2. UNCHANGED <<playback, repeat, muted, commands, commandsOpen, seekLane>>
    BY <1>4 DEF SelectQueueItem, EditKept, laneVars
  <2>3. Shown' /\ Same /\ TimelineKept /\ commandsOpen' = commandsOpen
    BY <2>2, StaysAsIs
  <2> QED
    BY <2>1, <2>2, <2>3 DEF Moved, Moves, AppTyped, AppInv
<1> QED
  BY <1>2, <1>3, <1>4, RemoveMoved, QueueEntriesMoved DEF QueueEdit

-----------------------------------------------------------------------------
(* The reports. *)

IsEvent(e) ==
  /\ e.type \in EventTypes
  /\ e.type \in {"Started", "Seeked"} => e.timeline \in Nat /\ e.position \in Nat
  /\ e.type = "Started" => e.duration \in Times

SendsNothing == UNCHANGED <<commands, commandsOpen, seekLane, muted>>

(* An event changes what is shown of the track, or ends it, or is dropped. *)
Starting(e) ==
  /\ e.type = "Started"
  /\ playback'.status = IF playback.request = "Pause" THEN "Paused" ELSE "Playing"
  /\ playback'.seekTarget = NoTime

Toggling(e) ==
  /\ e.type \in {"Paused", "Resumed"}
  /\ playback'.status = IF playback.status = "Loading" THEN "Loading"
                        ELSE IF e.type = "Paused" THEN "Paused" ELSE "Playing"
  /\ playback'.seekTarget = playback.seekTarget

Seeking(e) ==
  /\ e.type = "Seeked"
  /\ playback'.status = playback.status
  /\ playback'.seekTarget = IF playback.seekTarget \in {NoTime, e.position}
                            THEN NoTime ELSE playback.seekTarget

Telling(e) ==
  /\ Starting(e) \/ Toggling(e) \/ Seeking(e)
  /\ playback'.generation = playback.generation
  /\ playback'.current = playback.current
  /\ playback'.request = playback.request
  /\ SendsNothing

Ending(e) ==
  /\ Ends(e)
  /\ \/ /\ playback'.generation = playback.generation
        /\ playback'.status \notin HasTrackStatus
        /\ playback'.request = playback.request
        /\ SendsNothing
     \/ Starts(RequestedStatus = "Paused") /\ UNCHANGED commandsOpen
     \/ /\ playback.generation = MaxPlaybackGen
        /\ SameTrack
        /\ playback'.request = playback.request
        /\ SendsNothing

Takes(e) ==
  \/ Same /\ commandsOpen' = commandsOpen /\ (e.generation # playback.generation \/ ~WorkerHasTrack)
  \/ e.generation = playback.generation /\ (Telling(e) \/ Ending(e))

Reported(e) == Shown' /\ Takes(e) /\ TimelineKept /\ Reorders /\ SelectionKept

LEMMA PositionReports ==
  ASSUME AppTyped, NEW report, PositionReported(report),
         UNCHANGED <<commands, commandsOpen, seekLane, muted>>,
         report.timeline \in Nat, report.position \in Nat, report.duration \in Times
  PROVE  Shown' /\ Same /\ TimelineKept
<1>1. playback \in PlaybackStates
  BY DEF AppTyped, AppInv, Shown
<1>2. CASE ~PositionCounts(report)
  <2>1. playback' = playback
    BY <1>2 DEF PositionReported
  <2> QED
    BY <2>1, StaysAsIs
<1>3. CASE PositionCounts(report)
  <2> DEFINE d == IF report.duration # NoTime THEN report.duration ELSE playback.duration
  <2>1. playback' = [playback EXCEPT !.timeline = report.timeline,
                                     !.position = report.position,
                                     !.duration = d]
    BY <1>3 DEF PositionReported
  <2>2. d \in Times /\ playback.timeline \in Nat
    BY <1>1 DEF PlaybackStates
  <2> HIDE DEF d
  <2>3. /\ playback' \in PlaybackStates
        /\ playback'.generation = playback.generation
        /\ playback'.status = playback.status
        /\ playback'.current = playback.current
        /\ playback'.request = playback.request
        /\ playback'.seekTarget = playback.seekTarget
        /\ playback'.timeline = report.timeline
    BY <1>1, <2>1, <2>2 DEF PlaybackStates
  <2>4. Shown'
    BY <2>3 DEF AppTyped, AppInv, Shown
  <2>5. TimelineKept
    BY <1>3, <2>3 DEF TimelineKept, PositionCounts
  <2> QED
    BY <2>3, <2>4, <2>5 DEF Same, SameTrack
<1> QED
  BY <1>2, <1>3

LEMMA TimelineFacts ==
  ASSUME NEW pb \in PlaybackStates, NEW timeline \in Nat, NEW position \in Nat,
         NEW new, new = AtTimeline(pb, timeline, position)
  PROVE  /\ new \in PlaybackStates
         /\ new.generation = pb.generation /\ new.status = pb.status
         /\ new.current = pb.current /\ new.request = pb.request
         /\ new.seekTarget = pb.seekTarget /\ new.timeline >= pb.timeline
<1>1. CASE timeline > pb.timeline
  <2>1. new = [pb EXCEPT !.timeline = timeline, !.position = position]
    BY <1>1 DEF AtTimeline
  <2>2. /\ new \in PlaybackStates
        /\ new.generation = pb.generation /\ new.status = pb.status
        /\ new.current = pb.current /\ new.request = pb.request
        /\ new.seekTarget = pb.seekTarget /\ new.timeline = timeline
        /\ pb.timeline \in Nat
    BY <2>1 DEF PlaybackStates
  <2> QED
    BY <1>1, <2>2
<1>2. CASE ~(timeline > pb.timeline)
  <2>1. new = pb
    BY <1>2 DEF AtTimeline
  <2>2. pb.timeline \in Nat
    BY DEF PlaybackStates
  <2> QED
    BY <2>1, <2>2
<1> QED
  BY <1>1, <1>2

LEMMA StartedReports ==
  ASSUME AppTyped, NEW e, IsEvent(e), e.type = "Started", playback' = Started(e),
         playback.current.id # 0, playback.generation # 0
  PROVE  /\ Shown' /\ Starting(e) /\ TimelineKept
         /\ playback'.generation = playback.generation
         /\ playback'.current = playback.current
         /\ playback'.request = playback.request
<1> DEFINE status == IF playback.request = "Pause" THEN "Paused" ELSE "Playing"
           pb == [playback EXCEPT !.status = status, !.seekTarget = NoTime,
                                  !.duration = e.duration]
<1>1. playback' = AtTimeline(pb, e.timeline, e.position)
  BY DEF Started
<1>2. playback \in PlaybackStates /\ status \in HasTrackStatus /\ status # "Stopped"
  BY DEF AppTyped, AppInv, Shown, HasTrackStatus
<1>3. e.timeline \in Nat /\ e.position \in Nat /\ e.duration \in Times
  BY DEF IsEvent
<1>4. status = IF playback.request = "Pause" THEN "Paused" ELSE "Playing"
  OBVIOUS
<1> HIDE DEF status
<1>5. /\ pb \in PlaybackStates
      /\ pb.generation = playback.generation /\ pb.status = status
      /\ pb.current = playback.current /\ pb.request = playback.request
      /\ pb.seekTarget = NoTime /\ pb.timeline = playback.timeline
  BY <1>2, <1>3 DEF PlaybackStates, Times
<1> HIDE DEF pb
<1>6. /\ playback' \in PlaybackStates
      /\ playback'.generation = pb.generation /\ playback'.status = pb.status
      /\ playback'.current = pb.current /\ playback'.request = pb.request
      /\ playback'.seekTarget = pb.seekTarget /\ playback'.timeline >= pb.timeline
  BY <1>1, <1>3, <1>5, TimelineFacts
<1>7. Shown'
  BY <1>2, <1>5, <1>6 DEF Shown
<1> QED
  BY <1>4, <1>5, <1>6, <1>7 DEF Starting, TimelineKept

LEMMA SeekedReports ==
  ASSUME AppTyped, NEW e, IsEvent(e), e.type = "Seeked", playback' = Seeked(e)
  PROVE  /\ Shown' /\ Seeking(e) /\ TimelineKept
         /\ playback'.generation = playback.generation
         /\ playback'.current = playback.current
         /\ playback'.request = playback.request
<1>1. playback \in PlaybackStates
  BY DEF AppTyped, AppInv, Shown
<1>2. e.timeline \in Nat /\ e.position \in Nat
  BY DEF IsEvent
<1>3. CASE playback.seekTarget \notin {NoTime, e.position}
  <2> DEFINE t == AtLeast(playback.timeline, e.timeline)
  <2>1. playback' = [playback EXCEPT !.timeline = t]
    BY <1>3 DEF Seeked
  <2>2. t \in Nat /\ t >= playback.timeline
    BY <1>1, <1>2 DEF AtLeast, PlaybackStates
  <2> HIDE DEF t
  <2>3. /\ playback' \in PlaybackStates
        /\ playback'.generation = playback.generation
        /\ playback'.status = playback.status
        /\ playback'.current = playback.current
        /\ playback'.request = playback.request
        /\ playback'.seekTarget = playback.seekTarget
        /\ playback'.timeline >= playback.timeline
    BY <1>1, <2>1, <2>2 DEF PlaybackStates
  <2>4. Shown'
    BY <2>3 DEF AppTyped, AppInv, Shown
  <2> QED
    BY <1>3, <2>3, <2>4 DEF Seeking, TimelineKept
<1>4. CASE playback.seekTarget \in {NoTime, e.position}
  <2> DEFINE pb == [playback EXCEPT !.seekTarget = NoTime]
             new == AtTimeline(pb, e.timeline, e.position)
  <2>1. playback' = [new EXCEPT !.seekRevision = @ + 1]
    BY <1>4 DEF Seeked
  <2>2. /\ pb \in PlaybackStates
        /\ pb.generation = playback.generation /\ pb.status = playback.status
        /\ pb.current = playback.current /\ pb.request = playback.request
        /\ pb.seekTarget = NoTime /\ pb.timeline = playback.timeline
    BY <1>1 DEF PlaybackStates, Times
  <2> HIDE DEF pb
  <2>3. /\ new \in PlaybackStates
        /\ new.generation = pb.generation /\ new.status = pb.status
        /\ new.current = pb.current /\ new.request = pb.request
        /\ new.seekTarget = pb.seekTarget /\ new.timeline >= pb.timeline
    BY <1>2, <2>2, TimelineFacts
  <2> HIDE DEF new
  <2>4. /\ playback' \in PlaybackStates
        /\ playback'.generation = new.generation
        /\ playback'.status = new.status
        /\ playback'.current = new.current
        /\ playback'.request = new.request
        /\ playback'.seekTarget = new.seekTarget
        /\ playback'.timeline = new.timeline
    BY <2>1, <2>3 DEF PlaybackStates
  <2>5. Shown'
    BY <2>2, <2>3, <2>4 DEF AppTyped, AppInv, Shown
  <2> QED
    BY <1>4, <2>2, <2>3, <2>4, <2>5 DEF Seeking, TimelineKept
<1> QED
  BY <1>3, <1>4

LEMMA ToggleReports ==
  ASSUME AppTyped, NEW e, e.type \in {"Paused", "Resumed"}, playback' = EventApplied(e),
         playback.current.id # 0, playback.generation # 0
  PROVE  /\ Shown' /\ Toggling(e) /\ TimelineKept
         /\ playback'.generation = playback.generation
         /\ playback'.current = playback.current
         /\ playback'.request = playback.request
<1> DEFINE status == IF playback.status = "Loading" THEN "Loading"
                     ELSE IF e.type = "Paused" THEN "Paused" ELSE "Playing"
<1>1. playback \in PlaybackStates /\ playback.timeline \in Nat
  BY DEF AppTyped, AppInv, Shown, PlaybackStates
<1>2. \/ playback.status = "Loading" /\ playback' = playback
      \/ playback.status # "Loading" /\ playback' = [playback EXCEPT !.status = status]
  <2>1. CASE e.type = "Paused"
    BY <2>1 DEF EventApplied
  <2>2. CASE e.type = "Resumed"
    BY <2>2 DEF EventApplied
  <2> QED
    BY <2>1, <2>2
<1>3. /\ playback.status = "Loading" => status = "Loading"
      /\ status \in HasTrackStatus
      /\ status = IF playback.status = "Loading" THEN "Loading"
                  ELSE IF e.type = "Paused" THEN "Paused" ELSE "Playing"
  BY DEF HasTrackStatus
<1> HIDE DEF status
<1>4. /\ playback' \in PlaybackStates
      /\ playback'.generation = playback.generation
      /\ playback'.status = status
      /\ playback'.current = playback.current
      /\ playback'.request = playback.request
      /\ playback'.seekTarget = playback.seekTarget
      /\ playback'.timeline = playback.timeline
  BY <1>1, <1>2, <1>3 DEF PlaybackStates
<1>5. Shown'
  BY <1>3, <1>4 DEF AppTyped, AppInv, Shown
<1> QED
  BY <1>1, <1>3, <1>4, <1>5 DEF Toggling, TimelineKept

(* The end of a track that shows it as stopped or failed. *)
LEMMA EndShown ==
  ASSUME AppTyped, NEW status \in {"Stopped", "Error"}, NEW position \in Nat,
         NEW finished \in BOOLEAN,
         playback' = [playback EXCEPT !.seekTarget = NoTime, !.status = status,
                                      !.position = position, !.finished = finished],
         playback.generation # 0
  PROVE  /\ Shown' /\ TimelineKept
         /\ playback'.generation = playback.generation
         /\ playback'.status \notin HasTrackStatus
         /\ playback'.request = playback.request
<1>1. playback \in PlaybackStates
  BY DEF AppTyped, AppInv, Shown
<1>2. /\ playback' \in PlaybackStates
      /\ playback'.generation = playback.generation
      /\ playback'.status = status
      /\ playback'.request = playback.request
      /\ playback'.seekTarget = NoTime
      /\ playback'.timeline = playback.timeline
      /\ playback.timeline \in Nat
  BY <1>1 DEF PlaybackStates, Times
<1>3. Shown'
  BY <1>2 DEF Shown, HasTrackStatus
<1> QED
  BY <1>2, <1>3 DEF TimelineKept, HasTrackStatus

LEMMA AdvanceReports ==
  ASSUME AppTyped, NEW e, Ends(e), AdvanceAfterFinish, muted' = muted,
         playback.current.id # 0, playback.generation # 0
  PROVE  Shown' /\ Ending(e) /\ TimelineKept /\ Reorders /\ SelectionKept
<1> DEFINE settled == [playback EXCEPT !.seekTarget = NoTime, !.status = "Stopped"]
           again == IF repeat = "One" THEN CurrentIndex ELSE 0
           next == OrPlace(again, NextIndex)
           end == IF playback.duration # NoTime THEN playback.duration ELSE playback.position
<1>1. /\ playback \in PlaybackStates /\ playback.position \in Nat
      /\ playback.duration \in Times /\ playback.finished \in BOOLEAN
      /\ playback.generation \in Nat
  BY DEF AppTyped, AppInv, Shown, PlaybackStates
<1>2. CASE RequestedStatus = "Stopped"
  <2>1. /\ playback' = [settled EXCEPT !.position = 0]
        /\ OrderUnchanged /\ UNCHANGED selection /\ SendNothing
    BY <1>2 DEF AdvanceAfterFinish
  <2>2. playback' = [playback EXCEPT !.seekTarget = NoTime, !.status = "Stopped",
                                     !.position = 0, !.finished = playback.finished]
    BY <1>1, <2>1 DEF PlaybackStates
  <2>3. /\ Shown' /\ TimelineKept
        /\ playback'.generation = playback.generation
        /\ playback'.status \notin HasTrackStatus
        /\ playback'.request = playback.request
    BY <1>1, <2>2, EndShown
  <2> QED
    BY <2>1, <2>3 DEF Ending, SendsNothing, SendNothing, Reorders, SelectionKept
<1>3. CASE RequestedStatus # "Stopped" /\ next = 0
  <2>1. /\ playback' = [settled EXCEPT !.position = end, !.finished = TRUE]
        /\ OrderUnchanged /\ UNCHANGED selection /\ SendNothing
    BY <1>3 DEF AdvanceAfterFinish
  <2>2. end \in Nat
    BY <1>1 DEF Times
  <2> HIDE DEF end
  <2>3. playback' = [playback EXCEPT !.seekTarget = NoTime, !.status = "Stopped",
                                     !.position = end, !.finished = TRUE]
    BY <1>1, <2>1 DEF PlaybackStates
  <2>4. /\ Shown' /\ TimelineKept
        /\ playback'.generation = playback.generation
        /\ playback'.status \notin HasTrackStatus
        /\ playback'.request = playback.request
    BY <1>1, <2>2, <2>3, EndShown
  <2> QED
    BY <2>1, <2>4 DEF Ending, SendsNothing, SendNothing, Reorders, SelectionKept
<1>4. CASE RequestedStatus # "Stopped" /\ next # 0
  <2>1. /\ selection' = IF again # 0 THEN selection ELSE next
        /\ \/ LoadTrack(items, next, 0, RequestedStatus = "Paused", FALSE)
           \/ /\ playback.generation = MaxPlaybackGen
              /\ playback' = [playback EXCEPT !.seekTarget = NoTime]
              /\ OrderUnchanged /\ SendNothing
    BY <1>4 DEF AdvanceAfterFinish
  <2>2. /\ CurrentIndex \in 0 .. Len(items) /\ NextIndex \in 0 .. Len(items)
        /\ Len(items) \in Nat
    BY NavigationFacts, RowFacts
    DEF CurrentIndex, NextIndex, AppTyped, AppInv, Assumptions, Shown, PlaybackStates
  <2>3. again \in 0 .. Len(items) /\ next \in 1 .. Len(items) /\ next \in Nat \ {0}
    BY <1>4, <2>2 DEF OrPlace
  <2>4. items[next] \in Item /\ items[next].id # 0
    BY <2>3, RowFacts DEF AppTyped, AppInv, Assumptions
  <2> HIDE DEF again, next
  <2>5. SelectionKept
    BY <2>1, <2>3 DEF SelectionKept
  <2>6. CASE LoadTrack(items, next, 0, RequestedStatus = "Paused", FALSE)
    <3> DEFINE paused == RequestedStatus = "Paused"
    <3>1. paused \in BOOLEAN
      OBVIOUS
    <3> HIDE DEF paused
    <3>2. LoadTrack(items, next, 0, paused, FALSE)
      BY <2>6 DEF paused
    <3>3. Shown' /\ Starts(paused) /\ TimelineKept /\ commandsOpen' = commandsOpen
      BY <2>3, <2>4, <3>1, <3>2, LoadTrackStarts
    <3>4. Ending(e)
      BY <3>3 DEF Ending, paused
    <3>5. Reorders
      BY <3>2 DEF LoadTrack, Reorders
    <3> QED
      BY <2>5, <3>3, <3>4, <3>5
  <2>7. CASE /\ playback.generation = MaxPlaybackGen
             /\ playback' = [playback EXCEPT !.seekTarget = NoTime]
             /\ OrderUnchanged /\ SendNothing
    <3>1. /\ playback' \in PlaybackStates
          /\ playback'.generation = playback.generation
          /\ playback'.status = playback.status
          /\ playback'.current = playback.current
          /\ playback'.request = playback.request
          /\ playback'.seekTarget = NoTime
          /\ playback'.timeline = playback.timeline
          /\ playback.timeline \in Nat
      BY <1>1, <2>7 DEF PlaybackStates, Times
    <3>2. Shown' /\ TimelineKept
      BY <3>1 DEF AppTyped, AppInv, Shown, TimelineKept
    <3>3. Ending(e)
      BY <2>7, <3>1 DEF Ending, SameTrack, SendsNothing, SendNothing
    <3> QED
      BY <2>5, <2>7, <3>2, <3>3 DEF Reorders
  <2> QED
    BY <2>1, <2>6, <2>7
<1> QED
  BY <1>2, <1>3, <1>4

LEMMA EventReports ==
  ASSUME AppTyped, NEW e, IsEvent(e), e.generation # 0, EventHandled(e)
  PROVE  Reported(e) /\ QueueKept /\ UNCHANGED <<repeat, muted>>
<1>1. QueueKept /\ UNCHANGED <<repeat, muted>>
  BY DEF EventHandled
<1>2. CASE e.generation # playback.generation \/ playback.current.id = 0
  <2>1. UNCHANGED <<playback, selection, commands, commandsOpen, seekLane, muted>> /\ OrderUnchanged
    BY <1>2 DEF EventHandled, SendNothing
  <2>2. Shown' /\ Same /\ TimelineKept /\ commandsOpen' = commandsOpen
    BY <2>1, StaysAsIs
  <2>3. Takes(e)
    BY <1>2, <2>2 DEF Takes, WorkerHasTrack
  <2> QED
    BY <1>1, <2>1, <2>2, <2>3 DEF Reported, Reorders, SelectionKept
<1>3. CASE ~(e.generation # playback.generation \/ playback.current.id = 0)
  <2>0. e.generation = playback.generation /\ playback.current.id # 0 /\ playback.generation # 0
    BY <1>3
  <2>1. CASE e.type = "Finished"
    <3>1. AdvanceAfterFinish /\ Ends(e) /\ muted' = muted
      BY <1>3, <2>1 DEF EventHandled, Ends
    <3> QED
      BY <1>1, <2>0, <3>1, AdvanceReports DEF Reported, Takes
  <2>2. CASE e.type # "Finished"
    <3>1. /\ playback' = EventApplied(e)
          /\ UNCHANGED selection /\ OrderUnchanged /\ SendNothing
      BY <1>3, <2>2 DEF EventHandled
    <3>2. SendsNothing /\ Reorders /\ SelectionKept
      BY <1>1, <3>1 DEF SendsNothing, SendNothing, Reorders, SelectionKept
    <3>3. CASE e.type = "Started"
      BY <1>1, <2>0, <3>1, <3>2, <3>3, StartedReports DEF EventApplied, Reported, Takes, Telling
    <3>4. CASE e.type \in {"Paused", "Resumed"}
      BY <1>1, <2>0, <3>1, <3>2, <3>4, ToggleReports DEF Reported, Takes, Telling
    <3>5. CASE e.type = "Seeked"
      BY <1>1, <2>0, <3>1, <3>2, <3>5, SeekedReports DEF EventApplied, Reported, Takes, Telling
    <3>6. ASSUME NEW status \in {"Stopped", "Error"}, NEW position \in Nat,
                 playback' = [playback EXCEPT !.seekTarget = NoTime, !.status = status,
                                              !.position = position,
                                              !.finished = playback.finished],
                 Ends(e)
          PROVE  Reported(e)
      <4>1. playback.finished \in BOOLEAN
        BY DEF AppTyped, AppInv, Shown, PlaybackStates
      <4>2. /\ Shown' /\ TimelineKept
            /\ playback'.generation = playback.generation
            /\ playback'.status \notin HasTrackStatus
            /\ playback'.request = playback.request
        BY <2>0, <3>6, <4>1, EndShown
      <4> QED
        BY <2>0, <3>2, <3>6, <4>2 DEF Reported, Takes, Ending
    <3>7. playback \in PlaybackStates /\ playback.position \in Nat
      BY DEF AppTyped, AppInv, Shown, PlaybackStates
    <3>8. CASE e.type = "Stopped"
      <4>1. playback' = [playback EXCEPT !.status = "Stopped", !.seekTarget = NoTime,
                                         !.position = 0]
        BY <3>1, <3>8 DEF EventApplied
      <4>2. playback' = [playback EXCEPT !.seekTarget = NoTime, !.status = "Stopped",
                                         !.position = 0, !.finished = playback.finished]
        BY <3>7, <4>1 DEF PlaybackStates
      <4> QED
        BY <1>1, <3>6, <3>8, <4>2 DEF Ends
    <3>9. CASE e.type = "Failed"
      <4>1. playback' = [playback EXCEPT !.status = "Error", !.seekTarget = NoTime]
        BY <3>1, <3>9 DEF EventApplied
      <4>2. playback' = [playback EXCEPT !.seekTarget = NoTime, !.status = "Error",
                                         !.position = playback.position,
                                         !.finished = playback.finished]
        BY <3>7, <4>1 DEF PlaybackStates
      <4> QED
        BY <1>1, <3>6, <3>7, <3>9, <4>2 DEF Ends
    <3> QED
      BY <2>2, <3>3, <3>4, <3>5, <3>8, <3>9 DEF IsEvent, EventTypes
  <2> QED
    BY <2>1, <2>2
<1> QED
  BY <1>2, <1>3

-----------------------------------------------------------------------------
(* What the worker has, and what is in flight. *)

Actives ==
  [generation : Nat \ {0}, timeline : Nat, entry : Entries, muted : BOOLEAN, info : BOOLEAN,
   duration : Times, pending : BOOLEAN, started : BOOLEAN, paused : BOOLEAN, ended : BOOLEAN,
   base : Nat, reported : Nat, notice : {"Started", "Seeked"}, ring : Nat, consumed : Nat]

(* The duration is the one of the header, or not known yet; a block waits for
   the ring only once the header is read. *)
IsTrack(a) ==
  /\ a \in Actives
  /\ a.duration \in {NoTime, DurationOf[a.entry]}
  /\ a.pending => a.info

Worked == active = NoActive \/ IsTrack(active)

IsCommand(c) ==
  /\ c.type = "Play" => /\ c.entry \in Entries /\ c.position \in Nat
                        /\ c.paused \in BOOLEAN /\ c.muted \in BOOLEAN
  /\ c.type = "SetGain" => c.muted \in BOOLEAN

SeekRequests == [generation : 1 .. playback.generation,
                 position : {p \in Nat : DecoderPosition(p) = p}]

Reports == [generation : Nat, timeline : Nat, position : Nat, duration : Times]

Messages ==
  /\ \A i \in DOMAIN commands : IsCommand(commands[i])
  /\ \A k \in DOMAIN events : IsEvent(events[k])
  /\ seekLane \in SeekRequests \cup {NoSeek}
  /\ pendingSeek \in SeekRequests \cup {NoSeek}
  /\ positionLane \in Reports \cup {NoReport}

(* Where the decoder of an entry starts when it is told to start at p. *)
StartOf(entry, p) ==
  DecoderPosition(IF DurationOf[entry] = NoTime THEN p ELSE Lower(p, DurationOf[entry]))

-----------------------------------------------------------------------------
(* What a step of the worker does to its track and to the lanes. *)

SamePlay ==
  /\ active'.generation = active.generation /\ active'.entry = active.entry
  /\ active'.muted = active.muted /\ active'.paused = active.paused

SameStart ==
  /\ active'.started = active.started /\ active'.notice = active.notice
  /\ active'.info = active.info /\ active'.base = active.base
  /\ active'.duration = active.duration

Continues == SamePlay /\ SameStart /\ UNCHANGED <<commands, events, seekLane, pendingSeek>>

(* The first block reaches the output. *)
Announces(e) ==
  /\ IsActive /\ active.info /\ ~active.started
  /\ SamePlay
  /\ active'.started = TRUE
  /\ active'.notice = active.notice /\ active'.info = active.info
  /\ active'.base = active.base /\ active'.duration = active.duration
  /\ events' = Append(events, e) /\ e.generation = active.generation
  /\ IF active.notice = "Started" THEN e.type = "Started"
     ELSE e.type = "Seeked" /\ e.position = active.base
  /\ UNCHANGED <<commands, seekLane, pendingSeek>>

(* The decoder has read the header. *)
Readies ==
  /\ IsActive
  /\ SamePlay
  /\ active'.started = active.started /\ active'.notice = active.notice
  /\ active'.info = TRUE
  /\ active'.base = StartOf(active.entry, active.base)
  /\ active'.duration = IF DurationOf[active.entry] # NoTime
                        THEN DurationOf[active.entry] ELSE active.duration
  /\ UNCHANGED <<commands, events, seekLane, pendingSeek>>

(* The track ends. *)
Drops(e) ==
  /\ IsActive
  /\ active' = NoActive /\ pendingSeek' = NoSeek
  /\ events' = Append(events, e) /\ Ends(e) /\ e.generation = active.generation

RestartsAt(request) ==
  /\ IsActive /\ request.generation = active.generation
  /\ ~ReachesEnd(request.position)
  /\ SamePlay
  /\ active'.started = FALSE /\ active'.notice = "Seeked" /\ active'.info = FALSE
  /\ active'.base = request.position /\ active'.duration = active.duration
  /\ pendingSeek' = NoSeek
  /\ UNCHANGED <<commands, events>>

(* A seek is held, restarts the track, or came too late for it. *)
Seeks ==
  \/ /\ seekLane.generation = active.generation /\ seekLane # NoSeek
     /\ pendingSeek' = seekLane /\ seekLane' = NoSeek
     /\ UNCHANGED <<active, commands, events>>
  \/ RestartsAt(seekLane) /\ pendingSeek = NoSeek /\ seekLane' = NoSeek
  \/ RestartsAt(pendingSeek) /\ seekLane' = seekLane
  \/ /\ seekLane.generation # active.generation
     /\ seekLane' = NoSeek
     /\ UNCHANGED <<active, commands, events, pendingSeek>>
  \/ /\ pendingSeek.generation # active.generation
     /\ pendingSeek' = NoSeek
     /\ UNCHANGED <<active, commands, events, seekLane>>

(* A command is received. *)
LoadsIt(c) ==
  /\ c.type = "Play"
  /\ active'.generation = c.generation /\ active'.entry = c.entry
  /\ active'.muted = c.muted /\ active'.paused = c.paused
  /\ active'.started = FALSE /\ active'.notice = "Started" /\ active'.info = FALSE
  /\ pendingSeek' = NoSeek /\ events' = events

FailsIt(c, e) ==
  /\ Loads(c)
  /\ active' = NoActive /\ pendingSeek' = NoSeek
  /\ events' = Append(events, e) /\ Ends(e) /\ e.generation = c.generation

Obeys(c) ==
  /\ ~Loads(c)
  /\ ~(c.type = "Stop" /\ Matches(c.generation))
  /\ SameStart
  /\ active'.generation = active.generation /\ active'.entry = active.entry
  /\ active'.muted = IF Matches(c.generation) /\ c.type = "SetGain"
                     THEN c.muted ELSE active.muted
  /\ active'.paused = IF Matches(c.generation) /\ c.type \in {"Pause", "Resume"}
                      THEN c.type = "Pause" ELSE active.paused
  /\ pendingSeek' = pendingSeek
  /\ \/ events' = events /\ active'.paused = active.paused
     \/ /\ IsActive
        /\ events' = Append(events, [type |-> IF active'.paused THEN "Paused" ELSE "Resumed",
                                     generation |-> active.generation])

Receives(c) ==
  /\ commands # <<>> /\ commands' = Tail(commands)
  /\ seekLane' = seekLane
  /\ \/ LoadsIt(c)
     \/ \E e : FailsIt(c, e)
     \/ ~Loads(c) /\ Matches(c.generation) /\ \E e : Drops(e)
     \/ Obeys(c)

Works ==
  \/ Continues
  \/ Readies
  \/ \E e : Announces(e)
  \/ commands' = commands /\ seekLane' \in {seekLane, NoSeek} /\ \E e : Drops(e)
  \/ Seeks
  \/ Receives(Head(commands))

(* The worker's types after a step: its track, its events and its seeks. *)
EventsGrow == events' = events \/ \E e : events' = Append(events, e) /\ IsEvent(e)

Sound ==
  /\ Worked'
  /\ EventsGrow
  /\ pendingSeek' \in {pendingSeek, seekLane, NoSeek}
  /\ positionLane' \in Reports \cup {NoReport}

Working == Assumptions /\ Messages /\ Worked

-----------------------------------------------------------------------------
(* The worker's own operators. *)

LEMMA EndIsEvent ==
  ASSUME NEW type \in {"Stopped", "Finished", "Failed", "Paused", "Resumed"}, NEW g, NEW e,
         e = [type |-> type, generation |-> g]
  PROVE  IsEvent(e) /\ e.type = type /\ e.generation = g
BY DEF IsEvent, EventTypes

(* The track is dropped, and an event tells how it ended. *)
LEMMA StopDrops ==
  ASSUME IsActive, NEW type \in {"Stopped", "Finished", "Failed"},
         NEW g, g = active.generation, StopActive(type, g)
  PROVE  Worked' /\ EventsGrow /\ pendingSeek' = NoSeek /\ \E e : Drops(e)
<1>1. PICK t \in {"Stopped", "Finished", "Failed"} :
        events' = Append(events, [type |-> t, generation |-> g])
  BY DEF StopActive, Emit
<1> DEFINE e == [type |-> t, generation |-> g]
<1>2. IsEvent(e) /\ e.type = t /\ e.generation = g
  BY EndIsEvent
<1>3. events' = Append(events, e)
  BY <1>1
<1> HIDE DEF e
<1>4. Drops(e) /\ EventsGrow
  BY <1>2, <1>3 DEF Drops, StopActive, Ends, EventsGrow
<1> QED
  BY <1>4 DEF StopActive, Worked

LEMMA FailDrops ==
  ASSUME NEW g, active' = NoActive, pendingSeek' = NoSeek, Emit("Failed", g)
  PROVE  /\ Worked' /\ EventsGrow
         /\ \E e : events' = Append(events, e) /\ Ends(e) /\ e.generation = g
<1> DEFINE e == [type |-> "Failed", generation |-> g]
<1>1. IsEvent(e) /\ e.type = "Failed" /\ e.generation = g
  BY EndIsEvent
<1>2. events' = Append(events, e)
  BY DEF Emit
<1> HIDE DEF e
<1> QED
  BY <1>1, <1>2 DEF Worked, EventsGrow, Ends

LEMMA PositionFacts ==
  ASSUME Assumptions, NEW a \in Actives
  PROVE  PositionFor(a) \in Nat /\ InfoDuration(a) \in Times /\ NoTime = -1
<1>1. a.base \in Nat /\ a.consumed \in Nat /\ a.entry \in Entries
  BY DEF Actives
<1>2. DurationOf[a.entry] \in Times
  BY <1>1 DEF Assumptions, PlayerAssumption, Times
<1> DEFINE d == DurationOf[a.entry]
<1>3. InfoDuration(a) = IF a.info THEN d ELSE NoTime
  BY DEF InfoDuration
<1> HIDE DEF d
<1>4. InfoDuration(a) \in Times
  BY <1>2, <1>3 DEF Times, d
<1>5. PositionFor(a) \in Nat
  BY <1>1, <1>4 DEF PositionFor, Lower, Times
<1> QED
  BY <1>4, <1>5 DEF NoTime

(* Publishing a position only remembers it. *)
Republished(a, now) ==
  /\ IsTrack(now)
  /\ now.generation = a.generation /\ now.timeline = a.timeline
  /\ now.entry = a.entry /\ now.muted = a.muted /\ now.info = a.info
  /\ now.duration = a.duration /\ now.pending = a.pending
  /\ now.started = a.started /\ now.paused = a.paused /\ now.ended = a.ended
  /\ now.base = a.base /\ now.notice = a.notice /\ now.ring = a.ring
  /\ now.consumed = a.consumed

LEMMA PublishedFacts ==
  ASSUME Assumptions, NEW a, IsTrack(a), NEW force
  PROVE  Republished(a, Published(a, force))
<1> DEFINE now == Published(a, force)
<1>1. a \in Actives /\ PositionFor(a) \in Nat
  BY PositionFacts DEF IsTrack
<1>2. \E r \in Nat : now = [a EXCEPT !.reported = r]
  <2>1. CASE Publishes(a, force)
    BY <1>1, <2>1 DEF Published
  <2>2. CASE ~Publishes(a, force)
    <3>1. now = a /\ a.reported \in Nat /\ a = [a EXCEPT !.reported = a.reported]
      BY <1>1, <2>2 DEF Published, Actives
    <3> QED
      BY <3>1
  <2> QED
    BY <2>1, <2>2
<1> HIDE DEF now
<1>3. PICK r \in Nat : now = [a EXCEPT !.reported = r]
  BY <1>2
<1>4. /\ now \in Actives
      /\ now.generation = a.generation /\ now.timeline = a.timeline
      /\ now.entry = a.entry /\ now.muted = a.muted /\ now.info = a.info
      /\ now.duration = a.duration /\ now.pending = a.pending
      /\ now.started = a.started /\ now.paused = a.paused /\ now.ended = a.ended
      /\ now.base = a.base /\ now.notice = a.notice /\ now.ring = a.ring
      /\ now.consumed = a.consumed
  BY <1>1, <1>3 DEF Actives
<1>5. Republished(a, now)
  BY <1>4 DEF IsTrack, Republished
<1> QED
  BY <1>5 DEF now

LEMMA LaneFacts ==
  ASSUME Assumptions, NEW a, IsTrack(a), NEW force,
         positionLane \in Reports \cup {NoReport}
  PROVE  PublishedLane(a, force) \in Reports \cup {NoReport}
<1>1. PositionFor(a) \in Nat /\ InfoDuration(a) \in Times
  BY PositionFacts DEF IsTrack
<1>2. a.generation \in Nat /\ a.timeline \in Nat
  BY DEF IsTrack, Actives
<1>3. Report(a, PositionFor(a), InfoDuration(a)) \in Reports
  BY <1>1, <1>2 DEF Report, Reports
<1> QED
  BY <1>3 DEF PublishedLane

IsNew(new, g, entry, position, paused, isMuted, duration, notice) ==
  /\ IsTrack(new)
  /\ new.generation = g /\ new.entry = entry /\ new.muted = isMuted /\ new.paused = paused
  /\ new.started = FALSE /\ new.notice = notice /\ new.info = FALSE
  /\ new.base = position /\ new.duration = duration

LEMMA NewTrack ==
  ASSUME NEW g \in Nat \ {0}, NEW timeline \in Nat, NEW entry \in Entries, NEW position \in Nat,
         NEW paused \in BOOLEAN, NEW isMuted \in BOOLEAN,
         NEW duration \in Times, duration \in {NoTime, DurationOf[entry]},
         NEW notice \in {"Started", "Seeked"}
  PROVE  IsNew(NewActive(g, timeline, entry, position, paused, isMuted, duration, notice),
               g, entry, position, paused, isMuted, duration, notice)
<1> DEFINE new == NewActive(g, timeline, entry, position, paused, isMuted, duration, notice)
<1>1. new = [generation |-> g, timeline |-> timeline, entry |-> entry, muted |-> isMuted,
             info |-> FALSE, duration |-> duration, pending |-> FALSE, started |-> FALSE,
             paused |-> paused, ended |-> FALSE, base |-> position, reported |-> position,
             notice |-> notice, ring |-> 0, consumed |-> 0]
  BY DEF NewActive
<1> HIDE DEF new
<1>2. IsTrack(new)
  BY <1>1 DEF IsTrack, Actives
<1>3. IsNew(new, g, entry, position, paused, isMuted, duration, notice)
  BY <1>1, <1>2 DEF IsNew
<1> QED
  BY <1>3 DEF new

LEMMA WorkedFacts ==
  ASSUME Worked
  PROVE  /\ IsActive => IsTrack(active)
         /\ ~IsActive => active = NoActive /\ active.generation = 0
BY DEF Worked, IsTrack, Actives, IsActive, NoActive

-----------------------------------------------------------------------------
(* The steps of the worker. *)

LEMMA FirstCommand ==
  ASSUME EndInv, Messages, commands # <<>>
  PROVE  /\ IsCommand(Head(commands)) /\ Head(commands).type \in CommandTypes
         /\ Loads(Head(commands)) => Head(commands).generation \in Nat \ {0}
<1>1. IsSeq(commands)
  BY DEF EndInv, InLanes
<1>2. Head(commands) = commands[1] /\ 1 \in DOMAIN commands
  BY <1>1, TailOfLane
<1>3. IsCommand(commands[1])
  BY <1>2 DEF Messages
<1>4. commands[1].type \in CommandTypes
  BY <1>2 DEF EndInv, InLanes
<1>5. Loads(commands[1]) => commands[1].generation \in 1 .. playback.generation
  BY <1>2 DEF EndInv, Generations
<1>6. playback.generation \in Nat
  BY DEF EndInv, Generations
<1> QED
  BY <1>2, <1>3, <1>4, <1>5, <1>6

LEMMA PlayWorks ==
  ASSUME Working, NEW c, IsCommand(c), c.type = "Play", c.generation \in Nat \ {0}, ExecPlay(c)
  PROVE  Sound /\ (LoadsIt(c) \/ \E e : FailsIt(c, e))
<1>1. pendingSeek' = NoSeek /\ positionLane' = positionLane
  BY DEF ExecPlay
<1>2. positionLane \in Reports \cup {NoReport}
  BY DEF Working, Messages
<1>3. CASE /\ active' = NewActive(c.generation, 1, c.entry, c.position, c.paused, c.muted,
                                  NoTime, "Started")
           /\ UNCHANGED events
  <2> DEFINE new == NewActive(c.generation, 1, c.entry, c.position, c.paused, c.muted,
                              NoTime, "Started")
  <2>1. /\ c.entry \in Entries /\ c.position \in Nat
        /\ c.paused \in BOOLEAN /\ c.muted \in BOOLEAN /\ NoTime \in Times
    BY DEF IsCommand, Times
  <2>2. IsNew(new, c.generation, c.entry, c.position, c.paused, c.muted, NoTime, "Started")
    BY <2>1, NewTrack
  <2> HIDE DEF new
  <2>3. /\ IsTrack(active') /\ active'.generation = c.generation /\ active'.entry = c.entry
        /\ active'.muted = c.muted /\ active'.paused = c.paused
        /\ active'.started = FALSE /\ active'.notice = "Started" /\ active'.info = FALSE
    <3>1. active' = new
      BY <1>3 DEF new
    <3> QED
      BY <2>2, <3>1 DEF IsNew
  <2>4. LoadsIt(c)
    BY <1>1, <1>3, <2>3 DEF LoadsIt
  <2> QED
    BY <1>1, <1>2, <1>3, <2>3, <2>4 DEF Sound, Worked, EventsGrow
<1>4. CASE active' = NoActive /\ Emit("Failed", c.generation)
  <2>1. /\ Worked' /\ EventsGrow
        /\ \E e : events' = Append(events, e) /\ Ends(e) /\ e.generation = c.generation
    BY <1>1, <1>4, FailDrops
  <2> QED
    BY <1>1, <1>2, <1>4, <2>1 DEF Sound, FailsIt, Loads
<1> QED
  BY <1>3, <1>4 DEF ExecPlay

LEMMA StopActiveWorks ==
  ASSUME Working, NEW c, ~Loads(c), Matches(c.generation),
         NEW type \in {"Stopped", "Finished", "Failed"},
         StopActive(type, c.generation), UNCHANGED positionLane
  PROVE  Sound /\ \E e : Drops(e)
<1>1. IsActive /\ c.generation = active.generation
  BY DEF Matches
<1>2. Worked' /\ EventsGrow /\ pendingSeek' = NoSeek /\ \E e : Drops(e)
  BY <1>1, StopDrops
<1> QED
  BY <1>2 DEF Sound, Working, Messages

LEMMA PauseWorks ==
  ASSUME Working, NEW c, c.type = "Pause", ExecPause(c)
  PROVE  Sound /\ ((Matches(c.generation) /\ \E e : Drops(e)) \/ Obeys(c))
<1> DEFINE paused == IF Pauses(c) THEN [active EXCEPT !.paused = TRUE] ELSE active
<1>0. ~Loads(c) /\ c.type # "Stop" /\ positionLane \in Reports \cup {NoReport}
  BY DEF Loads, Working, Messages
<1>1. CASE /\ active' = IF IsActive THEN Published(paused, TRUE) ELSE active
           /\ positionLane' = IF IsActive THEN PublishedLane(paused, TRUE) ELSE positionLane
           /\ IF Pauses(c) THEN Emit("Paused", c.generation) ELSE UNCHANGED events
           /\ UNCHANGED pendingSeek
  <2>1. CASE ~IsActive
    <3>1. /\ active' = active /\ positionLane' = positionLane /\ events' = events
          /\ pendingSeek' = pendingSeek /\ ~Matches(c.generation)
      BY <1>1, <2>1 DEF Pauses, Matches
    <3>2. Obeys(c)
      BY <1>0, <3>1 DEF Obeys, SameStart
    <3>3. Worked'
      BY <3>1 DEF Working, Worked
    <3> QED
      BY <1>0, <3>1, <3>2, <3>3 DEF Sound, EventsGrow
  <2>2. CASE IsActive
    <3>1. IsTrack(active)
      BY <2>2, WorkedFacts DEF Working
    <3>2. /\ IsTrack(paused)
          /\ paused.generation = active.generation /\ paused.entry = active.entry
          /\ paused.muted = active.muted /\ paused.info = active.info
          /\ paused.duration = active.duration /\ paused.started = active.started
          /\ paused.base = active.base /\ paused.notice = active.notice
          /\ paused.paused = IF Pauses(c) THEN TRUE ELSE active.paused
      <4>1. CASE Pauses(c)
        BY <3>1, <4>1 DEF IsTrack, Actives
      <4>2. CASE ~Pauses(c)
        BY <3>1, <4>2
      <4> QED
        BY <4>1, <4>2
    <3> HIDE DEF paused
    <3> DEFINE now == Published(paused, TRUE)
    <3>3. active' = now /\ positionLane' = PublishedLane(paused, TRUE)
      BY <1>1, <2>2
    <3>9. Republished(paused, now)
      BY <3>2, PublishedFacts DEF Working
    <3> HIDE DEF now
    <3>4. /\ IsTrack(active')
          /\ active'.generation = paused.generation /\ active'.entry = paused.entry
          /\ active'.muted = paused.muted /\ active'.info = paused.info
          /\ active'.duration = paused.duration /\ active'.started = paused.started
          /\ active'.paused = paused.paused /\ active'.base = paused.base
          /\ active'.notice = paused.notice
      BY <3>3, <3>9 DEF Republished
    <3>5. positionLane' \in Reports \cup {NoReport}
      BY <1>0, <3>2, <3>3, LaneFacts DEF Working
    <3>6. active.paused \in BOOLEAN
      BY <3>1 DEF IsTrack, Actives
    <3>7. CASE Pauses(c)
      <4>1. /\ c.generation = active.generation /\ active'.paused = TRUE
            /\ events' = Append(events, [type |-> "Paused", generation |-> c.generation])
            /\ pendingSeek' = pendingSeek
        BY <1>1, <3>2, <3>4, <3>7 DEF Pauses, Matches, Emit
      <4>2. Obeys(c)
        BY <1>0, <2>2, <3>2, <3>4, <3>7, <4>1 DEF Obeys, SameStart, Pauses
      <4>3. IsEvent([type |-> "Paused", generation |-> c.generation])
        BY EndIsEvent
      <4> QED
        BY <3>4, <3>5, <4>1, <4>2, <4>3 DEF Sound, Worked, EventsGrow
    <3>8. CASE ~Pauses(c)
      <4>1. events' = events /\ pendingSeek' = pendingSeek /\ active'.paused = active.paused
        BY <1>1, <3>2, <3>4, <3>8
      <4>2. Matches(c.generation) => active.paused = TRUE
        BY <3>6, <3>8 DEF Pauses
      <4>3. Obeys(c)
        BY <1>0, <3>2, <3>4, <4>1, <4>2 DEF Obeys, SameStart
      <4> QED
        BY <3>4, <3>5, <4>1, <4>3 DEF Sound, Worked, EventsGrow
    <3> QED
      BY <3>7, <3>8
  <2> QED
    BY <2>1, <2>2
<1>2. CASE Pauses(c) /\ StopActive("Failed", c.generation) /\ UNCHANGED positionLane
  BY <1>0, <1>2, StopActiveWorks DEF Pauses
<1> QED
  BY <1>1, <1>2 DEF ExecPause

LEMMA ResumeWorks ==
  ASSUME Working, NEW c, c.type = "Resume", ExecResume(c)
  PROVE  Sound /\ ((Matches(c.generation) /\ \E e : Drops(e)) \/ Obeys(c))
<1>0. /\ ~Loads(c) /\ c.type # "Stop" /\ positionLane \in Reports \cup {NoReport}
      /\ positionLane' = positionLane
  BY DEF Loads, Working, Messages, ExecResume
<1>1. CASE /\ Resumes(c)
           /\ active' = [active EXCEPT !.paused = FALSE]
           /\ Emit("Resumed", c.generation)
           /\ UNCHANGED pendingSeek
  <2>1. IsActive /\ c.generation = active.generation /\ IsTrack(active)
    BY <1>1, WorkedFacts DEF Resumes, Matches, Working
  <2>2. /\ IsTrack(active') /\ SameStart
        /\ active'.generation = active.generation /\ active'.entry = active.entry
        /\ active'.muted = active.muted /\ active'.paused = FALSE
    BY <1>1, <2>1 DEF IsTrack, Actives, SameStart
  <2>3. events' = Append(events, [type |-> "Resumed", generation |-> c.generation])
    BY <1>1 DEF Emit
  <2>4. Obeys(c)
    BY <1>0, <1>1, <2>1, <2>2, <2>3 DEF Obeys, Resumes
  <2>5. IsEvent([type |-> "Resumed", generation |-> c.generation])
    BY EndIsEvent
  <2> QED
    BY <1>0, <1>1, <2>2, <2>3, <2>4, <2>5 DEF Sound, Worked, EventsGrow
<1>2. CASE Resumes(c) /\ StopActive("Failed", c.generation)
  BY <1>0, <1>2, StopActiveWorks DEF Resumes
<1>3. CASE ~Resumes(c) /\ UNCHANGED <<active, pendingSeek, events>>
  <2>1. Matches(c.generation) => active.paused = FALSE
    <3>1. IsActive => active.paused \in BOOLEAN
      BY WorkedFacts DEF Working, IsTrack, Actives
    <3> QED
      BY <1>3, <3>1 DEF Resumes, Matches
  <2>2. Obeys(c)
    BY <1>0, <1>3, <2>1 DEF Obeys, SameStart
  <2> QED
    BY <1>0, <1>3, <2>2 DEF Sound, Worked, EventsGrow, Working
<1> QED
  BY <1>1, <1>2, <1>3 DEF ExecResume

LEMMA CommandWorks ==
  ASSUME Working, EndInv, ReceiveCommand
  PROVE  Sound /\ Receives(Head(commands)) /\ commandsOpen' = commandsOpen
<1> DEFINE c == Head(commands)
<1>1. /\ commands # <<>> /\ commands' = Tail(commands) /\ UNCHANGED <<commandsOpen, seekLane>>
      /\ c.type # "Shutdown"
  BY DEF ReceiveCommand, CommandLaneKept
<1>2. /\ IsCommand(c) /\ c.type \in CommandTypes
      /\ Loads(c) => c.generation \in Nat \ {0}
  BY <1>1, FirstCommand DEF Working
<1>3. /\ c.type = "Play" => ExecPlay(c)
      /\ c.type = "LoadFailed" => ExecLoadFailed(c)
      /\ c.type = "Pause" => ExecPause(c)
      /\ c.type = "Resume" => ExecResume(c)
      /\ c.type = "Stop" => ExecStop(c)
      /\ c.type = "SetGain" => ExecSetGain(c)
  BY DEF ReceiveCommand
<1> HIDE DEF c
<1>4. positionLane \in Reports \cup {NoReport} /\ Worked
  BY DEF Working, Messages
<1>5. SUFFICES Sound /\ \/ LoadsIt(c)
                        \/ \E e : FailsIt(c, e)
                        \/ ~Loads(c) /\ Matches(c.generation) /\ \E e : Drops(e)
                        \/ Obeys(c)
  BY <1>1 DEF Receives, c
<1>6. CASE c.type = "Play"
  BY <1>2, <1>3, <1>6, PlayWorks DEF Loads
<1>7. CASE c.type = "LoadFailed"
  <2>1. /\ active' = NoActive /\ pendingSeek' = NoSeek /\ Emit("Failed", c.generation)
        /\ positionLane' = positionLane
    BY <1>3, <1>7 DEF ExecLoadFailed
  <2>2. /\ Worked' /\ EventsGrow
        /\ \E e : events' = Append(events, e) /\ Ends(e) /\ e.generation = c.generation
    BY <2>1, FailDrops
  <2> QED
    BY <1>4, <1>7, <2>1, <2>2 DEF Sound, FailsIt, Loads
<1>8. CASE c.type = "Pause"
  BY <1>3, <1>8, PauseWorks DEF Loads
<1>9. CASE c.type = "Resume"
  BY <1>3, <1>9, ResumeWorks DEF Loads
<1>10. CASE c.type = "Stop"
  <2>1. ~Loads(c) /\ positionLane' = positionLane
    BY <1>3, <1>10 DEF Loads, ExecStop
  <2>2. CASE Matches(c.generation)
    BY <1>3, <1>10, <2>1, <2>2, StopActiveWorks DEF ExecStop
  <2>3. CASE ~Matches(c.generation)
    <3>1. UNCHANGED <<active, pendingSeek, events>>
      BY <1>3, <1>10, <2>3 DEF ExecStop
    <3>2. Obeys(c)
      BY <1>10, <2>1, <2>3, <3>1 DEF Obeys, SameStart
    <3> QED
      BY <1>4, <2>1, <3>1, <3>2 DEF Sound, Worked, EventsGrow
  <2> QED
    BY <2>2, <2>3
<1>11. CASE c.type = "SetGain"
  <2>1. /\ active' = IF Matches(c.generation) THEN [active EXCEPT !.muted = c.muted] ELSE active
        /\ UNCHANGED <<pendingSeek, events, positionLane>> /\ c.muted \in BOOLEAN
    BY <1>2, <1>3, <1>11 DEF ExecSetGain, IsCommand
  <2>2. CASE Matches(c.generation)
    <3>1. IsTrack(active)
      BY <2>2, WorkedFacts DEF Working, Matches
    <3>2. /\ IsTrack(active') /\ SameStart
          /\ active'.generation = active.generation /\ active'.entry = active.entry
          /\ active'.muted = c.muted /\ active'.paused = active.paused
      BY <2>1, <2>2, <3>1 DEF IsTrack, Actives, SameStart
    <3>3. Obeys(c)
      BY <1>11, <2>1, <2>2, <3>2 DEF Obeys, Loads
    <3> QED
      BY <1>4, <2>1, <3>2, <3>3 DEF Sound, Worked, EventsGrow
  <2>3. CASE ~Matches(c.generation)
    <3>1. active' = active
      BY <2>1, <2>3
    <3>2. Obeys(c)
      BY <1>11, <2>1, <2>3, <3>1 DEF Obeys, SameStart, Loads
    <3> QED
      BY <1>4, <2>1, <3>1, <3>2 DEF Sound, Worked, EventsGrow
  <2> QED
    BY <2>2, <2>3
<1> QED
  BY <1>1, <1>2, <1>6, <1>7, <1>8, <1>9, <1>10, <1>11 DEF CommandTypes

LEMMA FinishWorks ==
  ASSUME Working, IsActive, active.duration # NoTime, FinishAtEnd
  PROVE  Sound /\ \E e : Drops(e)
<1>1. Worked' /\ EventsGrow /\ pendingSeek' = NoSeek /\ \E e : Drops(e)
  BY StopDrops DEF FinishAtEnd
<1>2. IsTrack(active)
  BY WorkedFacts DEF Working
<1>3. active.generation \in Nat /\ active.timeline \in Nat /\ active.duration \in Nat
  BY <1>2 DEF IsTrack, Actives, Times
<1>4. positionLane' = Report(active, active.duration, active.duration)
  BY DEF FinishAtEnd
<1>5. positionLane' \in Reports
  BY <1>3, <1>4 DEF Report, Reports, Times
<1> QED
  BY <1>1, <1>5 DEF Sound

LEMMA RestartWorks ==
  ASSUME Working, IsActive, NEW request, request.position \in Nat,
         request.generation = active.generation, ~ReachesEnd(request.position),
         RestartForSeek(request.position), commands' = commands
  PROVE  Sound /\ (RestartsAt(request) \/ \E e : Drops(e))
<1>1. IsTrack(active) /\ positionLane \in Reports \cup {NoReport}
  BY WorkedFacts DEF Working, Messages
<1>2. pendingSeek' = NoSeek /\ positionLane' = positionLane
  BY DEF RestartForSeek
<1> DEFINE a == active
           new == NewActive(a.generation, a.timeline + 1, a.entry, request.position,
                            a.paused, a.muted, a.duration, "Seeked")
<1>3. CASE active' = new /\ events' = events
  <2>1. /\ a.generation \in Nat \ {0} /\ a.timeline + 1 \in Nat /\ a.entry \in Entries
        /\ a.paused \in BOOLEAN /\ a.muted \in BOOLEAN /\ a.duration \in Times
        /\ a.duration \in {NoTime, DurationOf[a.entry]}
    BY <1>1 DEF IsTrack, Actives
  <2>2. IsNew(new, a.generation, a.entry, request.position, a.paused, a.muted, a.duration,
              "Seeked")
    BY <2>1, NewTrack
  <2> HIDE DEF new
  <2>3. /\ IsTrack(active') /\ SamePlay
        /\ active'.started = FALSE /\ active'.notice = "Seeked" /\ active'.info = FALSE
        /\ active'.base = request.position /\ active'.duration = active.duration
    BY <1>3, <2>2 DEF IsNew, SamePlay
  <2>4. RestartsAt(request)
    BY <1>2, <1>3, <2>3 DEF RestartsAt
  <2> QED
    BY <1>1, <1>2, <1>3, <2>3, <2>4 DEF Sound, Worked, EventsGrow
<1>4. CASE active' = NoActive /\ Emit("Failed", active.generation)
  <2>1. /\ Worked' /\ EventsGrow
        /\ \E e : events' = Append(events, e) /\ Ends(e) /\ e.generation = active.generation
    BY <1>2, <1>4, FailDrops
  <2>2. \E e : Drops(e)
    BY <1>2, <1>4, <2>1 DEF Drops
  <2> QED
    BY <1>1, <1>2, <2>1, <2>2 DEF Sound
<1> QED
  BY <1>3, <1>4 DEF RestartForSeek, PausedOnRestart

LEMMA SeekWorks ==
  ASSUME Working, ReceiveSeek
  PROVE  Sound /\ Works /\ commandsOpen' = commandsOpen
<1>1. /\ seekLane # NoSeek /\ seekLane' = NoSeek
      /\ commands' = commands /\ commandsOpen' = commandsOpen
  BY DEF ReceiveSeek
<1>2. /\ positionLane \in Reports \cup {NoReport} /\ Worked
      /\ seekLane.generation # 0 /\ seekLane.position \in Nat
  <2>2. seekLane \in SeekRequests
    BY <1>1 DEF Working, Messages
  <2>3. seekLane.generation \in 1 .. playback.generation /\ seekLane.position \in Nat
    BY <2>2 DEF SeekRequests
  <2> QED
    BY <2>3 DEF Working, Messages
<1>3. CASE ~Matches(seekLane.generation)
  <2>1. UNCHANGED <<active, pendingSeek, events, positionLane>>
    BY <1>3 DEF ReceiveSeek
  <2>2. seekLane.generation # active.generation
    <3>1. CASE IsActive
      BY <1>3, <3>1 DEF Matches
    <3>2. CASE ~IsActive
      BY <1>2, <3>2 DEF IsActive
    <3> QED
      BY <3>1, <3>2
  <2>3. Seeks
    BY <1>1, <2>1, <2>2 DEF Seeks
  <2> QED
    BY <1>1, <1>2, <2>1, <2>3 DEF Sound, Works, Worked, EventsGrow
<1>4. CASE Matches(seekLane.generation)
  <2>1. IsActive /\ active.generation = seekLane.generation
    BY <1>4 DEF Matches
  <2>2. CASE ReachesEnd(seekLane.position)
    <3>1. active.duration # NoTime /\ FinishAtEnd
      BY <1>4, <2>2 DEF ReceiveSeek, ReachesEnd
    <3>2. Sound /\ \E e : Drops(e)
      BY <2>1, <3>1, FinishWorks
    <3> QED
      BY <1>1, <3>2 DEF Works
  <2>3. CASE ~ReachesEnd(seekLane.position) /\ HoldSeek(seekLane)
    <3>1. pendingSeek' = seekLane /\ UNCHANGED <<active, events, positionLane>>
      BY <2>3 DEF HoldSeek
    <3>2. Seeks
      BY <1>1, <2>1, <3>1 DEF Seeks
    <3> QED
      BY <1>1, <1>2, <3>1, <3>2 DEF Sound, Works, Worked, EventsGrow
  <2>4. CASE /\ ~ReachesEnd(seekLane.position) /\ pendingSeek = NoSeek
             /\ RestartForSeek(seekLane.position)
    <3>1. Sound /\ (RestartsAt(seekLane) \/ \E e : Drops(e))
      BY <1>1, <1>2, <2>1, <2>4, RestartWorks
    <3> QED
      BY <1>1, <2>4, <3>1 DEF Works, Seeks
  <2> QED
    BY <1>4, <2>2, <2>3, <2>4 DEF ReceiveSeek
<1> QED
  BY <1>3, <1>4

LEMMA SettleWorks ==
  ASSUME Working, SettleSeek
  PROVE  Sound /\ Works /\ commandsOpen' = commandsOpen
<1>1. /\ pendingSeek # NoSeek /\ seekLane' = seekLane
      /\ commands' = commands /\ commandsOpen' = commandsOpen
  BY DEF SettleSeek, CommandLaneKept
<1>2. /\ positionLane \in Reports \cup {NoReport} /\ Worked
      /\ pendingSeek.generation # 0 /\ pendingSeek.position \in Nat
  <2>1. pendingSeek \in SeekRequests
    BY <1>1 DEF Working, Messages
  <2>2. pendingSeek.generation \in 1 .. playback.generation /\ pendingSeek.position \in Nat
    BY <2>1 DEF SeekRequests
  <2> QED
    BY <2>2 DEF Working, Messages
<1>3. CASE ~Matches(pendingSeek.generation)
  <2>1. UNCHANGED <<active, events, positionLane>> /\ pendingSeek' = NoSeek
    BY <1>3 DEF SettleSeek
  <2>2. pendingSeek.generation # active.generation
    <3>1. CASE IsActive
      BY <1>3, <3>1 DEF Matches
    <3>2. CASE ~IsActive
      BY <1>2, <3>2 DEF IsActive
    <3> QED
      BY <3>1, <3>2
  <2>3. Seeks
    BY <1>1, <2>1, <2>2 DEF Seeks
  <2> QED
    BY <1>1, <1>2, <2>1, <2>3 DEF Sound, Works, Worked, EventsGrow
<1>4. CASE Matches(pendingSeek.generation)
  <2>1. IsActive /\ active.generation = pendingSeek.generation
    BY <1>4 DEF Matches
  <2>2. CASE ReachesEnd(pendingSeek.position)
    <3>1. active.duration # NoTime /\ FinishAtEnd
      BY <1>4, <2>2 DEF SettleSeek, ReachesEnd
    <3>2. Sound /\ \E e : Drops(e)
      BY <2>1, <3>1, FinishWorks
    <3> QED
      BY <1>1, <3>2 DEF Works
  <2>3. CASE ~ReachesEnd(pendingSeek.position)
    <3>1. RestartForSeek(pendingSeek.position)
      BY <1>4, <2>3 DEF SettleSeek
    <3>2. Sound /\ (RestartsAt(pendingSeek) \/ \E e : Drops(e))
      BY <1>1, <1>2, <2>1, <2>3, <3>1, RestartWorks
    <3> QED
      BY <1>1, <3>2 DEF Works, Seeks
  <2> QED
    BY <2>2, <2>3
<1> QED
  BY <1>3, <1>4

(* What every step that drives the track starts from. *)
LEMMA DriveFacts ==
  ASSUME Working, IsActive
  PROVE  /\ IsTrack(active) /\ Republished(active, Published(active, FALSE))
         /\ PublishedLane(active, FALSE) \in Reports \cup {NoReport}
         /\ positionLane \in Reports \cup {NoReport}
<1>1. IsTrack(active) /\ positionLane \in Reports \cup {NoReport}
  BY WorkedFacts DEF Working, Messages
<1> QED
  BY <1>1, PublishedFacts, LaneFacts DEF Working

LEMMA PublishWorks ==
  ASSUME Working, DrivePublishes
  PROVE  Sound /\ Continues
<1> DEFINE now == Published(active, FALSE)
<1>1. /\ IsActive /\ active' = now /\ positionLane' = PublishedLane(active, FALSE)
      /\ UNCHANGED <<commands, events, seekLane, pendingSeek>>
  BY DEF DrivePublishes, Driven, DriveKept, CommandLaneKept
<1>2. Republished(active, now) /\ positionLane' \in Reports \cup {NoReport}
  BY <1>1, DriveFacts
<1> HIDE DEF now
<1>3. IsTrack(active') /\ SamePlay /\ SameStart
  BY <1>1, <1>2 DEF Republished, SamePlay, SameStart
<1> QED
  BY <1>1, <1>2, <1>3 DEF Sound, Worked, EventsGrow, Continues

LEMMA FailWorks ==
  ASSUME Working, DriveFails
  PROVE  Sound /\ \E e : Drops(e)
<1>1. IsActive /\ StopActive("Failed", active.generation) /\ positionLane' = positionLane
  BY DEF DriveFails
<1>2. Worked' /\ EventsGrow /\ pendingSeek' = NoSeek /\ \E e : Drops(e)
  BY <1>1, StopDrops
<1> QED
  BY <1>1, <1>2, DriveFacts DEF Sound

LEMMA WriteWorks ==
  ASSUME Working, DriveWrites
  PROVE  Sound /\ (Continues \/ \E e : Announces(e))
<1> DEFINE now == Published(active, FALSE)
<1>1. /\ IsActive /\ active.pending /\ positionLane' = PublishedLane(active, FALSE)
      /\ active' = [now EXCEPT !.pending = FALSE, !.ring = @ + 1, !.started = TRUE]
      /\ UNCHANGED <<commands, seekLane, pendingSeek>>
  BY DEF DriveWrites, Drives, Driven, DriveKept, CommandLaneKept
<1>2. /\ Republished(active, now) /\ positionLane' \in Reports \cup {NoReport}
      /\ IsTrack(active)
  BY <1>1, DriveFacts
<1> HIDE DEF now
<1>3. now \in Actives /\ now.duration \in {NoTime, DurationOf[now.entry]}
  BY <1>2 DEF Republished, IsTrack
<1>4. /\ active' \in Actives
      /\ active'.generation = now.generation /\ active'.entry = now.entry
      /\ active'.muted = now.muted /\ active'.paused = now.paused
      /\ active'.notice = now.notice /\ active'.info = now.info
      /\ active'.base = now.base /\ active'.duration = now.duration
      /\ active'.started = TRUE /\ active'.pending = FALSE
  <2> DEFINE ring == now.ring + 1
  <2>1. ring \in Nat
    BY <1>3 DEF Actives
  <2>2. active' = [now EXCEPT !.pending = FALSE, !.ring = ring, !.started = TRUE]
    BY <1>1
  <2> HIDE DEF ring
  <2> QED
    BY <1>3, <2>1, <2>2 DEF Actives
<1>5. IsTrack(active')
  BY <1>3, <1>4 DEF IsTrack
<1>6. /\ SamePlay
      /\ active'.started = TRUE
      /\ active'.notice = active.notice /\ active'.info = active.info
      /\ active'.base = active.base /\ active'.duration = active.duration
  BY <1>2, <1>4 DEF Republished, SamePlay
<1>7. CASE active.started
  <2>1. events' = events
    BY <1>7 DEF DriveWrites
  <2>2. active.started = TRUE
    BY <1>2, <1>7 DEF IsTrack, Actives
  <2>3. Continues
    BY <1>1, <1>6, <2>1, <2>2 DEF Continues, SameStart
  <2> QED
    BY <1>2, <1>5, <2>1, <2>3 DEF Sound, Worked, EventsGrow, Continues
<1>8. CASE ~active.started
  <2> DEFINE d == InfoDuration(active)
             e == IF active.notice = "Started"
                  THEN [type |-> "Started", generation |-> active.generation,
                        timeline |-> active.timeline, position |-> active.base, duration |-> d]
                  ELSE [type |-> "Seeked", generation |-> active.generation,
                        timeline |-> active.timeline, position |-> active.base]
  <2>1. events' = Append(events, e)
    BY <1>8 DEF DriveWrites
  <2>2. d \in Times
    BY <1>2, PositionFacts DEF IsTrack, Working
  <2> HIDE DEF d
  <2>3. active.timeline \in Nat /\ active.base \in Nat /\ active.info
    BY <1>1, <1>2 DEF IsTrack, Actives
  <2>4. /\ e.generation = active.generation /\ e.timeline = active.timeline
        /\ e.position = active.base
        /\ e.type = (IF active.notice = "Started" THEN "Started" ELSE "Seeked")
        /\ active.notice = "Started" => e.duration = d
    <3>1. CASE active.notice = "Started"
      BY <3>1
    <3>2. CASE active.notice # "Started"
      BY <3>2
    <3> QED
      BY <3>1, <3>2
  <2> HIDE DEF e
  <2>5. IsEvent(e)
    BY <2>2, <2>3, <2>4 DEF IsEvent, EventTypes
  <2>6. Announces(e)
    BY <1>1, <1>6, <1>8, <2>1, <2>3, <2>4 DEF Announces
  <2> QED
    BY <1>1, <1>2, <1>5, <2>1, <2>5, <2>6 DEF Sound, Worked, EventsGrow
<1> QED
  BY <1>7, <1>8

LEMMA ReadyWorks ==
  ASSUME Working, DriveReady
  PROVE  Sound /\ (Readies \/ \E e : Drops(e))
<1> DEFINE now == Published(active, FALSE)
           start == StartOf(active.entry, active.base)
           known == DurationOf[active.entry]
<1>1. /\ IsActive /\ positionLane' = PublishedLane(active, FALSE)
      /\ UNCHANGED <<commands, seekLane>>
      /\ \/ /\ active' = [now EXCEPT !.info = TRUE, !.base = start, !.reported = start,
                                     !.duration = IF known # NoTime THEN known ELSE @]
            /\ UNCHANGED <<events, pendingSeek>>
         \/ StopActive("Failed", active.generation)
  BY DEF DriveReady, Polls, Drives, Driven, DriveKept, CommandLaneKept, StartOf
<1>2. /\ Republished(active, now) /\ positionLane' \in Reports \cup {NoReport}
      /\ IsTrack(active)
  BY <1>1, DriveFacts
<1>3. known \in Times /\ start \in Nat
  <2>1. active.base \in Nat /\ active.entry \in Entries
    BY <1>2 DEF IsTrack, Actives
  <2>2. known \in Times
    BY <2>1 DEF Working, Assumptions, PlayerAssumption, Times
  <2> DEFINE p == IF known = NoTime THEN active.base ELSE Lower(active.base, known)
  <2>3. p \in Nat
    BY <2>1, <2>2 DEF Lower, Times
  <2>4. start = DecoderPosition(p)
    BY DEF StartOf
  <2> HIDE DEF p, start
  <2>5. start \in Nat
    BY <2>3, <2>4, DecoderPositionFacts DEF Working, Assumptions
  <2> QED
    BY <2>2, <2>5
<1> HIDE DEF now
<1>4. CASE /\ active' = [now EXCEPT !.info = TRUE, !.base = start, !.reported = start,
                                    !.duration = IF known # NoTime THEN known ELSE @]
           /\ UNCHANGED <<events, pendingSeek>>
  <2>1. now \in Actives /\ now.duration \in {NoTime, DurationOf[now.entry]}
        /\ now.entry = active.entry
    BY <1>2 DEF Republished, IsTrack
  <2> DEFINE d == IF known # NoTime THEN known ELSE now.duration
  <2>2. active' = [now EXCEPT !.info = TRUE, !.base = start, !.reported = start,
                              !.duration = d]
    BY <1>4
  <2>3. d \in Times /\ d \in {NoTime, known}
    BY <1>3, <2>1 DEF Actives
  <2>4. d = IF DurationOf[active.entry] # NoTime
            THEN DurationOf[active.entry] ELSE active.duration
    BY <1>2 DEF Republished
  <2>5. known = DurationOf[active.entry] /\ start = StartOf(active.entry, active.base)
    OBVIOUS
  <2> HIDE DEF d, start, known
  <2>6. /\ active' \in Actives
        /\ active'.generation = now.generation /\ active'.entry = now.entry
        /\ active'.muted = now.muted /\ active'.paused = now.paused
        /\ active'.notice = now.notice /\ active'.started = now.started
        /\ active'.info = TRUE /\ active'.base = start /\ active'.duration = d
    BY <1>3, <2>1, <2>2, <2>3 DEF Actives
  <2>7. IsTrack(active')
    BY <2>1, <2>3, <2>5, <2>6 DEF IsTrack
  <2>8. Readies
    BY <1>1, <1>2, <1>4, <2>4, <2>5, <2>6 DEF Readies, Republished, SamePlay
  <2> QED
    BY <1>2, <1>4, <2>7, <2>8 DEF Sound, Worked, EventsGrow
<1>5. CASE StopActive("Failed", active.generation)
  BY <1>1, <1>2, <1>5, StopDrops DEF Sound
<1> QED
  BY <1>1, <1>4, <1>5

LEMMA DecodeWorks ==
  ASSUME Working, DriveDecodes
  PROVE  Sound /\ Continues
<1> DEFINE now == Published(active, FALSE)
           end == Exhausted(active)
<1>1. /\ IsActive /\ active.info /\ positionLane' = PublishedLane(active, FALSE)
      /\ active' = [now EXCEPT !.pending = ~end, !.ended = end]
      /\ UNCHANGED <<commands, events, seekLane, pendingSeek>>
  BY DEF DriveDecodes, Polls, Drives, Driven, DriveKept, CommandLaneKept
<1>2. /\ Republished(active, now) /\ positionLane' \in Reports \cup {NoReport}
      /\ IsTrack(active)
  BY <1>1, DriveFacts
<1>3. end \in BOOLEAN
  BY DEF Exhausted
<1> HIDE DEF now, end
<1>4. /\ now \in Actives /\ now.duration \in {NoTime, DurationOf[now.entry]}
      /\ now.info = active.info
  BY <1>2 DEF Republished, IsTrack
<1> DEFINE waits == ~end
<1>5. waits \in BOOLEAN
  OBVIOUS
<1>6. active' = [now EXCEPT !.pending = waits, !.ended = end]
  BY <1>1
<1> HIDE DEF waits
<1>7. /\ active' \in Actives
      /\ active'.generation = now.generation /\ active'.entry = now.entry
      /\ active'.muted = now.muted /\ active'.paused = now.paused
      /\ active'.notice = now.notice /\ active'.started = now.started
      /\ active'.info = now.info /\ active'.base = now.base /\ active'.duration = now.duration
  BY <1>3, <1>4, <1>5, <1>6 DEF Actives
<1>8. IsTrack(active')
  BY <1>1, <1>4, <1>7 DEF IsTrack
<1>9. Continues
  BY <1>1, <1>2, <1>7 DEF Republished, SamePlay, SameStart, Continues
<1> QED
  BY <1>1, <1>2, <1>8, <1>9 DEF Sound, Worked, EventsGrow

LEMMA DrainWorks ==
  ASSUME Working, DriveFinishes
  PROVE  Sound /\ \E e : Drops(e)
<1> DEFINE end == InfoDuration(active)
           played == IF active.started
                     THEN Report(active, IF end # NoTime THEN end ELSE PositionFor(active), end)
                     ELSE Report(active, IF active.duration # NoTime THEN active.duration
                                         ELSE active.base, active.duration)
           type == IF ~active.started /\ active.notice = "Started" THEN "Failed" ELSE "Finished"
<1>1. /\ IsActive /\ StopActive(type, active.generation)
      /\ positionLane' \in {played, PublishedLane(active, FALSE)}
  BY DEF DriveFinishes, Drives
<1>2. /\ PublishedLane(active, FALSE) \in Reports \cup {NoReport} /\ IsTrack(active)
  BY <1>1, DriveFacts
<1>3. type \in {"Stopped", "Finished", "Failed"}
  OBVIOUS
<1>4. played \in Reports
  <2>1. PositionFor(active) \in Nat /\ end \in Times
    BY <1>2, PositionFacts DEF IsTrack, Working
  <2>2. /\ active.generation \in Nat /\ active.timeline \in Nat
        /\ active.base \in Nat /\ active.duration \in Times
    BY <1>2 DEF IsTrack, Actives
  <2> HIDE DEF end
  <2>3. ASSUME NEW p \in Nat, NEW d \in Times PROVE Report(active, p, d) \in Reports
    BY <2>2, <2>3 DEF Report, Reports
  <2>4. (IF end # NoTime THEN end ELSE PositionFor(active)) \in Nat
    BY <2>1 DEF Times
  <2>5. (IF active.duration # NoTime THEN active.duration ELSE active.base) \in Nat
    BY <2>2 DEF Times
  <2> QED
    BY <2>1, <2>2, <2>3, <2>4, <2>5
<1> HIDE DEF played, type
<1>5. Worked' /\ EventsGrow /\ pendingSeek' = NoSeek /\ \E e : Drops(e)
  BY <1>1, <1>3, StopDrops
<1> QED
  BY <1>1, <1>2, <1>4, <1>5 DEF Sound

LEMMA DeviceWorks ==
  ASSUME Working, DevicePlays
  PROVE  Sound /\ Continues
<1>1. /\ IsActive /\ active.ring > 0
      /\ active' = [active EXCEPT !.ring = @ - 1, !.consumed = @ + 1]
      /\ UNCHANGED <<commands, events, seekLane, pendingSeek, positionLane>>
  BY DEF DevicePlays, DriveKept, CommandLaneKept
<1>2. IsTrack(active) /\ positionLane \in Reports \cup {NoReport}
  BY <1>1, DriveFacts
<1> DEFINE ring == active.ring - 1
           consumed == active.consumed + 1
<1>3. ring \in Nat /\ consumed \in Nat
  BY <1>1, <1>2 DEF IsTrack, Actives
<1>4. active' = [active EXCEPT !.ring = ring, !.consumed = consumed]
  BY <1>1
<1> HIDE DEF ring, consumed
<1>5. IsTrack(active') /\ SamePlay /\ SameStart
  BY <1>2, <1>3, <1>4 DEF IsTrack, Actives, SamePlay, SameStart
<1> QED
  BY <1>1, <1>2, <1>5 DEF Sound, Worked, EventsGrow, Continues

(* The worker's thread ends. *)
Exits ==
  /\ ~commandsOpen \/ (commands # <<>> /\ Head(commands).type = "Shutdown")
  /\ active' = NoActive /\ pendingSeek' = NoSeek /\ seekLane' = NoSeek
  /\ UNCHANGED <<commands, events>>

LEMMA ExitWorks ==
  ASSUME Working, WorkerExits
  PROVE  Sound /\ Exits /\ commandsOpen' = commandsOpen
BY DEF WorkerExits, Exits, Sound, Worked, EventsGrow, Working, Messages

LEMMA WorkerWorks ==
  ASSUME Working, EndInv, WorkerNext
  PROVE  /\ Sound /\ (Works \/ Exits) /\ commandsOpen' = commandsOpen
         /\ seekLane' \in {seekLane, NoSeek}
         /\ commands' = commands \/ (commands # <<>> /\ commands' = Tail(commands))
<1>1. CASE ReceiveCommand
  <2>1. Sound /\ Receives(Head(commands)) /\ commandsOpen' = commandsOpen
    BY <1>1, CommandWorks
  <2> QED
    BY <2>1 DEF Works, Receives
<1>2. CASE ReceiveSeek
  BY <1>2, SeekWorks DEF ReceiveSeek
<1>3. CASE SettleSeek
  BY <1>3, SettleWorks DEF SettleSeek, CommandLaneKept
<1>4. CASE WorkerExits
  BY <1>4, ExitWorks DEF Exits
<1>5. CASE Drive \/ DevicePlays
  <2>1. DriveKept
    BY <1>5 DEF Drive, DrivePublishes, DriveFails, DriveWrites, DriveReady, DriveDecodes,
                DriveFinishes, DevicePlays
  <2>2. commands' = commands /\ commandsOpen' = commandsOpen /\ seekLane' = seekLane
    BY <2>1 DEF DriveKept, CommandLaneKept
  <2>3. Sound /\ (Continues \/ Readies \/ (\E e : Announces(e)) \/ (\E e : Drops(e)))
    BY <1>5, PublishWorks, FailWorks, WriteWorks, ReadyWorks, DecodeWorks, DrainWorks,
       DeviceWorks DEF Drive
  <2> QED
    BY <2>2, <2>3 DEF Works
<1> QED
  BY <1>1, <1>2, <1>3, <1>4, <1>5 DEF WorkerNext

-----------------------------------------------------------------------------
(* What holds of the player in every state: its types, with the queue sound. *)

PlayerTyped ==
  /\ AppInv /\ playback.generation <= MaxPlaybackGen
  /\ Messages /\ Worked
  /\ loop \in {"closing", "closed"} => ~commandsOpen

TypesInv == PlayerTyped /\ EndInv

LEMMA InitShown ==
  ASSUME Assumptions, PlaybackInit
  PROVE  AppInv /\ playback.generation = 0
<1>0. QueueAssumption
  BY DEF Assumptions
<1>1. repeat \in RepeatMode /\ muted \in BOOLEAN
  BY DEF PlaybackInit, RepeatMode
<1>2. NewPlayback \in PlaybackStates
  BY DEF NewPlayback, PlaybackStates, NoTime, Times
<1>3. ASSUME EmptyQueue, playback = NewPlayback
      PROVE  AppInv /\ playback.generation = 0
  <2>1. QueueInv
    BY <1>0, <1>3, EmptyQueueInv
  <2>2. Shown /\ playback.generation = 0
    BY <1>2, <1>3 DEF Shown, NewPlayback, HasTrackStatus
  <2> QED
    BY <1>1, <2>1, <2>2 DEF AppInv
<1>4. ASSUME NEW saved \in Sessions, NEW position \in Positions, NEW i \in DOMAIN saved,
             RestoredQueue(saved, i),
             playback = [NewPlayback EXCEPT
                           !.current = items[selection], !.hint = selection,
                           !.position = IF RestoredCurrent(items, saved, i) # 0
                                        THEN position ELSE 0]
      PROVE  AppInv /\ playback.generation = 0
  <2>1. QueueInv
    BY <1>0, <1>4, RestoredQueueInv
  <2>2. items # <<>>
    <3> DEFINE n == Cardinality(Restorable(saved))
    <3>1. saved \in Seq(Entries \cup {Gone})
      BY <1>0 DEF QueueAssumption
    <3>2. /\ IsFiniteSet(Restorable(saved)) /\ n \in Nat
          /\ Restorable(saved) # {}
      <4>1. Cardinality(Restorable(saved)) \in 0 .. Len(saved) /\ Len(saved) \in Nat
        BY <1>0, <3>1, RestorableFacts, LenProperties
      <4> QED
        BY <1>0, <1>4, <3>1, <4>1, RestorableFacts DEF RestoredQueue
    <3>3. n # 0
      BY <3>2, FS_EmptySet
    <3>4. PICK pick : items = [k \in 1 .. n |-> [id |-> k, entry |-> saved[pick[k]]]]
      BY <1>4 DEF RestoredQueue
    <3> HIDE DEF n
    <3>5. 1 \in DOMAIN items
      BY <3>2, <3>3, <3>4
    <3> QED
      BY <3>5, EmptyLane
  <2>3. selection \in 1 .. Len(items) /\ items[selection] \in Item
    BY <1>0, <2>1, <2>2, RowFacts
  <2> DEFINE p == IF RestoredCurrent(items, saved, i) # 0 THEN position ELSE 0
             item == items[selection]
  <2>4. p \in Nat /\ selection \in Nat \ {0}
    <3>1. position \in Nat
      BY <1>4 DEF Assumptions, PlaybackAssumption, LanesAssumption
    <3>2. selection \in Nat \ {0}
      BY <1>0, <2>1, RowFacts
    <3> QED
      BY <3>1, <3>2
  <2>5. playback = [NewPlayback EXCEPT !.current = item, !.hint = selection, !.position = p]
    BY <1>4
  <2> HIDE DEF p, item
  <2>6. /\ playback \in PlaybackStates /\ playback.generation = 0
        /\ playback.status = "Stopped" /\ playback.seekTarget = NoTime
    <3>1. item \in Item
      BY <2>3 DEF item
    <3>2. playback = [generation |-> 0, status |-> "Stopped", seekRevision |-> 0,
                      current |-> item, hint |-> selection, timeline |-> 0,
                      seekTarget |-> NoTime, position |-> p, duration |-> NoTime,
                      request |-> "Play", finished |-> FALSE]
      BY <2>5 DEF NewPlayback
    <3> QED
      BY <2>4, <3>1, <3>2 DEF PlaybackStates, Times
  <2>7. Shown
    BY <2>6 DEF Shown, HasTrackStatus
  <2> QED
    BY <1>1, <2>1, <2>6, <2>7 DEF AppInv
<1> QED
  BY <1>3, <1>4 DEF PlaybackInit

LEMMA InitTypes == Assumptions /\ Init => TypesInv
<1> SUFFICES ASSUME Assumptions, Init PROVE TypesInv
  OBVIOUS
<1>1. AppInv /\ playback.generation = 0
  BY InitShown DEF Init
<1>2. /\ commands = <<>> /\ events = <<>> /\ seekLane = NoSeek /\ positionLane = NoReport
      /\ active = NoActive /\ pendingSeek = NoSeek /\ loop = "positions"
  BY DEF Init, LanesInit, WorkerInit
<1>3. Messages /\ Worked
  BY <1>2, EmptyLane DEF Messages, Worked
<1>4. playback.generation <= MaxPlaybackGen
  BY <1>1 DEF Assumptions, PlaybackAssumption
<1>5. EndInv
  BY InitEnd
<1> QED
  BY <1>1, <1>2, <1>3, <1>4, <1>5 DEF TypesInv, PlayerTyped

-----------------------------------------------------------------------------
(* The steps of the event loop keep the messages typed. *)

SendsTyped ==
  /\ playback'.generation \in Nat /\ playback'.generation >= playback.generation
  /\ playback'.generation <= MaxPlaybackGen
  /\ commands' = commands \/ \E c : commands' = Append(commands, c) /\ IsCommand(c)
  /\ seekLane' \in SeekRequests \cup {seekLane, NoSeek}

LEMMA StartsSends ==
  ASSUME AppTyped, NEW paused \in BOOLEAN, Starts(paused)
  PROVE  SendsTyped
<1>1. PICK c : /\ commands' = Append(commands, c)
               /\ IsLoad(c, paused)
  BY DEF Starts
<1>2. playback'.current.entry \in Entries /\ muted \in BOOLEAN
  BY DEF Starts, Item, AppTyped, AppInv
<1>3. IsCommand(c)
  BY <1>1, <1>2 DEF IsLoad, IsCommand
<1>4. playback.generation \in Nat /\ MaxPlaybackGen \in Nat
  BY DEF AppTyped, AppInv, Shown, PlaybackStates, Assumptions, PlaybackAssumption
<1>5. /\ playback'.generation = playback.generation + 1 /\ seekLane' = seekLane
      /\ playback.generation < MaxPlaybackGen
  BY DEF Starts
<1> QED
  BY <1>1, <1>3, <1>4, <1>5 DEF SendsTyped

LEMMA MovesSends ==
  ASSUME AppTyped, Moves, muted' \in BOOLEAN
  PROVE  SendsTyped
<1>1. /\ playback.generation \in Nat /\ playback.generation <= MaxPlaybackGen
      /\ MaxPlaybackGen \in Nat
  BY DEF AppTyped, AppInv, Shown, PlaybackStates, Assumptions, PlaybackAssumption
<1>2. ASSUME playback'.generation = playback.generation, NEW c, IsCommand(c),
             commands' = Append(commands, c), seekLane' = seekLane
      PROVE  SendsTyped
  BY <1>1, <1>2 DEF SendsTyped
<1>3. CASE Same
  BY <1>1, <1>3 DEF Same, SameTrack, SendsTyped
<1>4. ASSUME NEW mode, NEW type, Asks(mode, type) PROVE SendsTyped
  <2> DEFINE c == [type |-> type, generation |-> playback.generation]
  <2>1. type \in {"Pause", "Resume", "Stop"}
    BY <1>4 DEF Asks
  <2>2. IsCommand(c)
    BY <2>1 DEF IsCommand
  <2>3. commands' = Append(commands, c)
    BY <1>4 DEF Asks
  <2> HIDE DEF c
  <2> QED
    BY <1>2, <1>4, <2>2, <2>3 DEF Asks, SameTrack
<1>5. CASE Leaves
  BY <1>1, <1>5 DEF Leaves, SendsTyped
<1>6. ASSUME NEW target, SeeksIn(target) PROVE SendsTyped
  <2>1. playback.generation # 0
    BY <1>6 DEF SeeksIn, AppTyped, AppInv, Shown
  <2>2. seekLane' \in SeekRequests
    BY <1>1, <1>6, <2>1 DEF SeeksIn, SeekRequests
  <2> QED
    BY <1>1, <1>6, <2>2 DEF SeeksIn, SameTrack, SendsTyped
<1>7. CASE Mutes
  <2> DEFINE c == [type |-> "SetGain", generation |-> playback.generation, muted |-> muted']
  <2>1. IsCommand(c)
    BY DEF IsCommand
  <2>2. /\ commands' = commands \/ commands' = Append(commands, c)
        /\ UNCHANGED <<playback, seekLane>>
    BY <1>7 DEF Mutes
  <2> HIDE DEF c
  <2> QED
    BY <1>1, <1>2, <2>1, <2>2 DEF SendsTyped
<1> QED
  BY <1>3, <1>4, <1>5, <1>6, <1>7, StartsSends DEF Moves

LEMMA TakesSends ==
  ASSUME AppTyped, NEW e, Takes(e)
  PROVE  SendsTyped /\ commandsOpen' = commandsOpen
<1>1. /\ playback.generation \in Nat /\ playback.generation <= MaxPlaybackGen
  BY DEF AppTyped, AppInv, Shown, PlaybackStates
<1>2. CASE Same /\ commandsOpen' = commandsOpen
  BY <1>1, <1>2 DEF Same, SameTrack, SendsTyped
<1>3. CASE Starts(RequestedStatus = "Paused") /\ UNCHANGED commandsOpen
  BY <1>3, StartsSends
<1>4. CASE playback'.generation = playback.generation /\ SendsNothing
  BY <1>1, <1>4 DEF SendsTyped, SendsNothing
<1>5. Telling(e) => playback'.generation = playback.generation /\ SendsNothing
  BY DEF Telling
<1>6. Ending(e) => \/ playback'.generation = playback.generation /\ SendsNothing
                   \/ Starts(RequestedStatus = "Paused") /\ UNCHANGED commandsOpen
  BY DEF Ending, SameTrack
<1> QED
  BY <1>2, <1>3, <1>4, <1>5, <1>6 DEF Takes

(* Every command of the lane, and every event, is one from before or a new
   one. *)
LEMMA MessagesKept ==
  ASSUME Messages, playback.generation \in Nat, EndInv, SendsTyped,
         events' = events \/ (events # <<>> /\ events' = Tail(events)),
         pendingSeek' = pendingSeek, positionLane' \in {positionLane, NoReport}
  PROVE  Messages'
<1>1. IsSeq(commands) /\ IsSeq(events)
  BY DEF EndInv, InLanes
<1>2. ASSUME NEW i \in DOMAIN commands' PROVE IsCommand(commands'[i])
  <2>1. CASE commands' = commands
    BY <1>2, <2>1 DEF Messages
  <2>2. ASSUME NEW c, commands' = Append(commands, c), IsCommand(c)
        PROVE  IsCommand(commands'[i])
    <3> DEFINE n == Len(commands)
    <3>1. /\ n \in Nat /\ DOMAIN commands = 1 .. n /\ DOMAIN commands' = 1 .. n + 1
          /\ \A k \in 1 .. n : commands'[k] = commands[k]
          /\ commands'[n + 1] = c
      BY <1>1, <2>2, AppendedLane
    <3> HIDE DEF n
    <3>2. CASE i \in 1 .. n
      BY <3>1, <3>2 DEF Messages
    <3>3. CASE i = n + 1
      BY <2>2, <3>1, <3>3
    <3> QED
      BY <1>2, <3>1, <3>2, <3>3
  <2> QED
    BY <2>1, <2>2 DEF SendsTyped
<1>3. ASSUME NEW k \in DOMAIN events' PROVE IsEvent(events'[k])
  <2>1. CASE events' = events
    BY <1>3, <2>1 DEF Messages
  <2>2. CASE events # <<>> /\ events' = Tail(events)
    <3> DEFINE n == Len(events)
    <3>1. /\ n \in Nat \ {0} /\ DOMAIN events = 1 .. n /\ DOMAIN events' = 1 .. n - 1
          /\ \A i \in 1 .. n - 1 : events'[i] = events[i + 1]
      BY <1>1, <2>2, TailOfLane
    <3> HIDE DEF n
    <3>2. events'[k] = events[k + 1] /\ k + 1 \in DOMAIN events
      BY <1>3, <3>1
    <3> QED
      BY <3>2 DEF Messages
  <2> QED
    BY <2>1, <2>2
<1>4. ASSUME NEW r, r \in SeekRequests PROVE r \in SeekRequests'
  <2>1. playback'.generation \in Nat /\ playback'.generation >= playback.generation
    BY DEF SendsTyped
  <2>2. SeekRequests' = [generation : 1 .. playback'.generation,
                         position : {p \in Nat : DecoderPosition(p) = p}]
    BY DEF SeekRequests
  <2>3. 1 .. playback.generation \subseteq 1 .. playback'.generation
    BY <2>1
  <2> QED
    BY <1>4, <2>2, <2>3 DEF SeekRequests
<1>5. seekLane' \in SeekRequests' \cup {NoSeek} /\ pendingSeek' \in SeekRequests' \cup {NoSeek}
  BY <1>4 DEF SendsTyped, Messages
<1>6. positionLane' \in Reports \cup {NoReport}
  BY DEF Messages
<1> QED
  BY <1>2, <1>3, <1>5, <1>6 DEF Messages

-----------------------------------------------------------------------------
(* The steps of the event loop. *)

LoopShape ==
  \/ Moves /\ UNCHANGED <<commandsOpen, events, active, pendingSeek>>
  \/ /\ events # <<>> /\ events' = Tail(events) /\ Takes(Head(events))
     /\ UNCHANGED <<active, pendingSeek>>
  \/ ~commandsOpen'

LoopKeeps == PlayerTyped' /\ TimelineKept /\ LoopShape /\ (commandsOpen' => commandsOpen)

LEMMA ControlKeeps ==
  ASSUME Assumptions, TypesInv, Moved, UserControl \/ QueueEdit,
         loop' \in {"positions", "input"}, UNCHANGED workerVars
  PROVE  LoopKeeps
<1>1. AppTyped /\ playback.generation \in Nat /\ Worked /\ Messages /\ EndInv
  BY DEF AppTyped, TypesInv, PlayerTyped, AppInv, Shown, PlaybackStates
<1>2. UNCHANGED <<active, pendingSeek>> /\ events' = events
  BY ControlsKeepEvents DEF workerVars
<1>3. positionLane' = positionLane
  <2>1. PlayPause \/ Play \/ Pause \/ StopPlayback => positionLane' = positionLane
    BY DEF PlayPause, Play, Pause, StopPlayback, Kept, SettingsKept
  <2>2. OtherControl => positionLane' = positionLane
    BY DEF OtherControl, NextTrack, PreviousTrack, SeekRelative, SeekAbsolute, ToggleMute,
           ToggleShuffle, SetRepeat, Kept, SettingsKept, laneVars
  <2>3. QueueEdit => positionLane' = positionLane
    BY DEF QueueEdit, QueueEntries, RemoveQueueItem, ClearQueue, MoveQueueItem, SelectQueueItem,
           EditKept, SettingsKept, laneVars
  <2> QED
    BY <2>1, <2>2, <2>3 DEF UserControl
<1>4. /\ AppInv' /\ Moves /\ TimelineKept /\ commandsOpen' = commandsOpen
  BY DEF Moved
<1>5. SendsTyped
  BY <1>1, <1>4, MovesSends DEF AppInv
<1>6. Messages'
  BY <1>1, <1>2, <1>3, <1>5, MessagesKept
<1>7. Worked'
  BY <1>1, <1>2 DEF Worked, IsTrack
<1>8. PlayerTyped'
  BY <1>4, <1>5, <1>6, <1>7 DEF PlayerTyped, SendsTyped
<1> QED
  BY <1>2, <1>4, <1>8 DEF LoopKeeps, LoopShape

LEMMA PositionKeeps ==
  ASSUME Assumptions, TypesInv, TakePosition
  PROVE  LoopKeeps
<1>1. AppTyped /\ playback.generation \in Nat /\ Worked /\ Messages /\ EndInv
  BY DEF AppTyped, TypesInv, PlayerTyped, AppInv, Shown, PlaybackStates
<1>2. /\ UNCHANGED <<commands, commandsOpen, seekLane, events, active, pendingSeek, muted, repeat>>
      /\ UNCHANGED queueVars /\ loop' = "positions" /\ loop = "positions"
      /\ positionLane # NoReport /\ PositionReported(positionLane) /\ positionLane' = NoReport
  BY DEF TakePosition, workerVars
<1>3. positionLane \in Reports
  BY <1>1, <1>2 DEF Messages
<1>4. /\ positionLane.timeline \in Nat /\ positionLane.position \in Nat
      /\ positionLane.duration \in Times
  BY <1>3 DEF Reports
<1>5. Shown' /\ Same /\ TimelineKept
  BY <1>1, <1>2, <1>4, PositionReports
<1>6. AppInv'
  BY <1>1, <1>2, <1>5 DEF AppInv, AppTyped, queueVars, QueueInv
<1>7. Moves
  BY <1>5 DEF Moves
<1>8. SendsTyped
  BY <1>1, <1>6, <1>7, MovesSends DEF AppInv
<1>9. Messages'
  BY <1>1, <1>2, <1>8, MessagesKept
<1>10. Worked'
  BY <1>1, <1>2 DEF Worked, IsTrack
<1>11. PlayerTyped'
  BY <1>2, <1>6, <1>8, <1>9, <1>10 DEF PlayerTyped, SendsTyped
<1> QED
  BY <1>2, <1>5, <1>7, <1>11 DEF LoopKeeps, LoopShape

LEMMA EventKeeps ==
  ASSUME Assumptions, TypesInv, TakeEvent
  PROVE  LoopKeeps
<1> DEFINE e == Head(events)
<1>1. AppTyped /\ playback.generation \in Nat /\ Worked /\ Messages /\ EndInv
  BY DEF AppTyped, TypesInv, PlayerTyped, AppInv, Shown, PlaybackStates
<1>2. /\ UNCHANGED <<positionLane, active, pendingSeek, loop>> /\ loop = "events"
      /\ events # <<>> /\ EventHandled(e) /\ events' = Tail(events)
  BY DEF TakeEvent, workerVars
<1>3. e = events[1] /\ 1 \in DOMAIN events
  <2>1. IsSeq(events)
    BY <1>1 DEF EndInv, InLanes
  <2> QED
    BY <1>2, <2>1, TailOfLane
<1>4. IsEvent(e) /\ e.generation # 0
  BY <1>1, <1>3 DEF Messages, EndInv, Generations
<1> HIDE DEF e
<1>5. Reported(e) /\ QueueKept /\ UNCHANGED <<repeat, muted>>
  BY <1>1, <1>2, <1>4, EventReports
<1>6. QueueInv'
  BY <1>1, <1>5, ReordersKeeps DEF Reported, SelectionKept, AppTyped, AppInv, Assumptions
<1>7. AppInv'
  BY <1>1, <1>5, <1>6 DEF AppInv, AppTyped, Reported
<1>8. SendsTyped /\ commandsOpen' = commandsOpen
  BY <1>1, <1>5, TakesSends DEF Reported
<1>9. Messages'
  BY <1>1, <1>2, <1>8, MessagesKept
<1>10. Worked'
  BY <1>1, <1>2 DEF Worked, IsTrack
<1>11. PlayerTyped'
  BY <1>2, <1>7, <1>8, <1>9, <1>10 DEF PlayerTyped, SendsTyped
<1>12. LoopShape
  BY <1>2, <1>5 DEF LoopShape, Reported, e
<1> QED
  BY <1>5, <1>8, <1>11, <1>12 DEF LoopKeeps, Reported

(* Nothing happens to the track and to what is in flight. *)
LEMMA StutterKeeps ==
  ASSUME Assumptions, TypesInv, UNCHANGED <<appVars, laneVars, active, pendingSeek>>,
         loop' \in {"closing", "closed"} => ~commandsOpen
  PROVE  LoopKeeps
<1>1. AppTyped /\ playback.generation \in Nat /\ Worked /\ Messages /\ EndInv
  BY DEF AppTyped, TypesInv, PlayerTyped, AppInv, Shown, PlaybackStates
<1>2. /\ UNCHANGED <<queueVars, playback, repeat, muted>>
      /\ UNCHANGED <<commands, commandsOpen, seekLane, events, positionLane>>
      /\ UNCHANGED <<active, pendingSeek>>
  BY DEF appVars, laneVars
<1>3. Shown' /\ Same /\ TimelineKept /\ commandsOpen' = commandsOpen
  BY <1>1, <1>2, StaysAsIs
<1>4. AppInv'
  BY <1>1, <1>2, <1>3 DEF AppInv, AppTyped, queueVars, QueueInv
<1>5. Messages' /\ Worked'
  BY <1>1, <1>2 DEF Messages, SeekRequests, Worked, IsTrack
<1>6. PlayerTyped'
  BY <1>1, <1>2, <1>4, <1>5 DEF PlayerTyped, AppTyped
<1> QED
  BY <1>2, <1>3, <1>6 DEF LoopKeeps, LoopShape, Moves

LEMMA QuitKeeps ==
  ASSUME Assumptions, TypesInv, Quit
  PROVE  LoopKeeps
<1>1. AppTyped /\ playback.generation \in Nat /\ Worked /\ Messages /\ EndInv
  BY DEF AppTyped, TypesInv, PlayerTyped, AppInv, Shown, PlaybackStates
<1> DEFINE c == [type |-> "Shutdown"]
<1>2. /\ UNCHANGED <<queueVars, playback, repeat, muted>>
      /\ UNCHANGED <<events, positionLane, active, pendingSeek>>
      /\ commandsOpen' = FALSE /\ commandsOpen /\ seekLane' = NoSeek
      /\ commands' = commands \/ commands' = Append(commands, c)
  BY DEF Quit, CloseLanes, appVars, workerVars
<1>3. IsCommand(c)
  BY DEF IsCommand
<1> HIDE DEF c
<1>4. SendsTyped
  BY <1>1, <1>2, <1>3 DEF SendsTyped, AppTyped
<1>5. Messages'
  BY <1>1, <1>2, <1>4, MessagesKept
<1>6. AppInv'
  BY <1>1, <1>2 DEF AppInv, AppTyped, queueVars, QueueInv, Shown
<1>7. Worked'
  BY <1>1, <1>2 DEF Worked, IsTrack
<1>8. PlayerTyped'
  BY <1>1, <1>2, <1>5, <1>6, <1>7 DEF PlayerTyped, AppTyped
<1>9. TimelineKept
  BY <1>1, <1>2 DEF TimelineKept, AppTyped, AppInv, Shown, PlaybackStates
<1> QED
  BY <1>2, <1>8, <1>9 DEF LoopKeeps, LoopShape

LEMMA JoinedKeeps ==
  ASSUME Assumptions, TypesInv, WorkerJoined
  PROVE  LoopKeeps
<1>1. AppTyped /\ playback.generation \in Nat /\ Worked /\ Messages /\ EndInv /\ ~commandsOpen
  BY DEF AppTyped, TypesInv, PlayerTyped, AppInv, Shown, PlaybackStates, WorkerJoined
<1>2. /\ UNCHANGED <<queueVars, repeat, muted, active, pendingSeek>>
      /\ UNCHANGED <<commands, commandsOpen, seekLane, events, positionLane>>
      /\ playback' = [playback EXCEPT !.status = "Stopped", !.seekTarget = NoTime]
  BY DEF WorkerJoined, laneVars, workerVars
<1>3. /\ playback' \in PlaybackStates
      /\ playback'.generation = playback.generation
      /\ playback'.status = "Stopped" /\ playback'.seekTarget = NoTime
  BY <1>1, <1>2 DEF PlaybackStates, AppTyped, AppInv, Shown, Times
<1>4. Shown' /\ TimelineKept
  BY <1>3 DEF Shown, HasTrackStatus, TimelineKept
<1>5. AppInv'
  BY <1>1, <1>2, <1>4 DEF AppInv, AppTyped, queueVars, QueueInv
<1>6. Messages' /\ Worked'
  BY <1>1, <1>2, <1>3 DEF Messages, SeekRequests, Worked, IsTrack
<1>7. PlayerTyped'
  BY <1>1, <1>2, <1>3, <1>5, <1>6 DEF PlayerTyped, AppTyped
<1> QED
  BY <1>1, <1>2, <1>4, <1>7 DEF LoopKeeps, LoopShape

LEMMA LoopStepKeeps ==
  ASSUME Assumptions, TypesInv, EventLoop \/ TakeInput \/ Quit \/ UNCHANGED vars
  PROVE  LoopKeeps
<1>1. CASE TakeInput
  <2>1. /\ UserControl \/ QueueEdit
        /\ loop = "input" /\ UNCHANGED workerVars /\ loop' \in {"positions", "input"}
    BY <1>1 DEF TakeInput, Input
  <2>2. AppTyped
    BY DEF AppTyped, TypesInv, PlayerTyped
  <2>3. Moved
    BY <2>1, <2>2, ControlMoved, EditMoved
  <2> QED
    BY <2>1, <2>3, ControlKeeps
<1>2. CASE PositionsDrained \/ EventsDrained \/ LoopAgain \/ UNCHANGED vars
  <2>1. /\ UNCHANGED <<appVars, laneVars, active, pendingSeek>>
        /\ loop' = loop \/ loop' \notin {"closing", "closed"}
    BY <1>2 DEF PositionsDrained, EventsDrained, LoopAgain, vars, workerVars
  <2> QED
    BY <2>1, StutterKeeps DEF TypesInv, PlayerTyped
<1> QED
  BY <1>1, <1>2, PositionKeeps, EventKeeps, QuitKeeps, JoinedKeeps DEF EventLoop

(* What the worker's steps keep. *)
LEMMA WorkerKeepsTypes ==
  ASSUME Assumptions, TypesInv, WorkerStep
  PROVE  PlayerTyped'
<1>1. /\ AppTyped /\ playback.generation \in Nat /\ Messages /\ EndInv /\ Working
      /\ loop \in {"closing", "closed"} => ~commandsOpen
  BY DEF AppTyped, TypesInv, PlayerTyped, AppInv, Shown, PlaybackStates, Working
<1>2. /\ UNCHANGED <<queueVars, playback, repeat, muted>> /\ loop' = loop /\ WorkerNext
  BY DEF WorkerStep, appVars
<1>3. /\ Sound /\ commandsOpen' = commandsOpen
      /\ seekLane' \in {seekLane, NoSeek}
      /\ commands' = commands \/ (commands # <<>> /\ commands' = Tail(commands))
  BY <1>1, <1>2, WorkerWorks
<1>4. AppInv'
  BY <1>1, <1>2 DEF AppInv, AppTyped, queueVars, QueueInv, Shown
<1>5. IsSeq(commands) /\ IsSeq(events)
  BY <1>1 DEF EndInv, InLanes
<1>6. ASSUME NEW i \in DOMAIN commands' PROVE IsCommand(commands'[i])
  <2>1. CASE commands' = commands
    BY <1>1, <1>6, <2>1 DEF Messages
  <2>2. CASE commands # <<>> /\ commands' = Tail(commands)
    <3> DEFINE n == Len(commands)
    <3>1. /\ n \in Nat \ {0} /\ DOMAIN commands = 1 .. n /\ DOMAIN commands' = 1 .. n - 1
          /\ \A k \in 1 .. n - 1 : commands'[k] = commands[k + 1]
      BY <1>5, <2>2, TailOfLane
    <3> HIDE DEF n
    <3>2. commands'[i] = commands[i + 1] /\ i + 1 \in DOMAIN commands
      BY <1>6, <3>1
    <3> QED
      BY <1>1, <3>2 DEF Messages
  <2> QED
    BY <1>3, <2>1, <2>2
<1>7. ASSUME NEW k \in DOMAIN events' PROVE IsEvent(events'[k])
  <2>1. CASE events' = events
    BY <1>1, <1>7, <2>1 DEF Messages
  <2>2. ASSUME NEW e, events' = Append(events, e), IsEvent(e) PROVE IsEvent(events'[k])
    <3> DEFINE n == Len(events)
    <3>1. /\ n \in Nat /\ DOMAIN events = 1 .. n /\ DOMAIN events' = 1 .. n + 1
          /\ \A i \in 1 .. n : events'[i] = events[i]
          /\ events'[n + 1] = e
      BY <1>5, <2>2, AppendedLane
    <3> HIDE DEF n
    <3>2. CASE k \in 1 .. n
      BY <1>1, <3>1, <3>2 DEF Messages
    <3>3. CASE k = n + 1
      BY <2>2, <3>1, <3>3
    <3> QED
      BY <1>7, <3>1, <3>2, <3>3
  <2> QED
    BY <1>3, <2>1, <2>2 DEF Sound, EventsGrow
<1>8. SeekRequests' = SeekRequests
  BY <1>2 DEF SeekRequests
<1>9. Messages'
  BY <1>1, <1>3, <1>6, <1>7, <1>8 DEF Messages, Sound
<1> QED
  BY <1>1, <1>2, <1>3, <1>4, <1>9 DEF PlayerTyped, AppTyped, Sound

LEMMA NextTypes == Assumptions /\ TypesInv /\ [Next]_vars => TypesInv'
<1> SUFFICES ASSUME Assumptions, TypesInv, [Next]_vars PROVE TypesInv'
  OBVIOUS
<1>1. EndInv'
  BY NextEnd DEF TypesInv
<1>2. CASE EventLoop \/ TakeInput \/ Quit \/ UNCHANGED vars
  BY <1>1, <1>2, LoopStepKeeps DEF LoopKeeps, TypesInv
<1>3. CASE WorkerStep
  BY <1>1, <1>3, WorkerKeepsTypes DEF TypesInv
<1> QED
  BY <1>2, <1>3 DEF Next

LEMMA Assumed == Assumptions
BY QueueAssumption, LanesAssumption, PlaybackAssumption, WorkerAssumption, PlayerAssumption
DEF Assumptions

-----------------------------------------------------------------------------
(* Whatever the event loop of src/src/terminal.rs and the worker of
   src/src/audio/mod.rs do, in any order, with any failure: the queue stays
   sound under playback, what is shown is a state of a track (a target of a
   seek only for one that plays, at a place where a decoder can start), and
   messages, seeks and the worker's track are of their types, with the duration
   of the header or none. *)
THEOREM PlayerTypesHold == Spec => []TypesInv
<1>1. Init => TypesInv
  BY Assumed, InitTypes
<1>2. TypesInv /\ [Next]_vars => TypesInv'
  BY Assumed, NextTypes
<1> QED
  BY <1>1, <1>2, PTL DEF Spec

(* What is shown of a track never goes back to an earlier timeline: neither a
   position report nor an event from before a seek overwrites one from after
   it (`audio_position', `apply_event_position' of src/src/app/playback.rs). *)
THEOREM TimelineNeverBack == Spec => TimelineMonotone
<1>1. TypesInv /\ [Next]_vars =>
        [playback'.generation = playback.generation /\ playback'.status # "Stopped"
           => playback'.timeline >= playback.timeline]_vars
  <2> SUFFICES ASSUME TypesInv, [Next]_vars,
                      playback'.generation = playback.generation, playback'.status # "Stopped"
               PROVE  playback'.timeline >= playback.timeline
    OBVIOUS
  <2>1. CASE EventLoop \/ TakeInput \/ Quit \/ UNCHANGED vars
    BY <2>1, Assumed, LoopStepKeeps DEF LoopKeeps, TimelineKept
  <2>2. CASE WorkerStep
    <3>1. playback' = playback /\ playback.timeline \in Nat
      BY <2>2 DEF WorkerStep, appVars, TypesInv, PlayerTyped, AppInv, Shown, PlaybackStates
    <3> QED
      BY <3>1
  <2> QED
    BY <2>1, <2>2 DEF Next
<1> QED
  BY <1>1, PlayerTypesHold, PTL DEF Spec, TimelineMonotone

(* Under playback, with loads, reports and edits interleaved, the queue keeps
   what it keeps on its own: ids and assets are queued once, and the shuffle
   order is a permutation of the queue with the cursor in it. *)
THEOREM QueueSoundUnderPlayback ==
  Spec => [](IdsUnique /\ MembershipExact /\ ShuffleOrderExact /\ CursorInOrder)
<1>1. TypesInv => IdsUnique /\ MembershipExact /\ ShuffleOrderExact /\ CursorInOrder
  BY QueueAssumption, QueueInvImplies DEF TypesInv, PlayerTyped, AppInv
<1> QED
  BY <1>1, PlayerTypesHold, PTL

-----------------------------------------------------------------------------
(***************************************************************************)
(* Theorems about the player and its listener: once nothing is in flight   *)
(* display and worker agree, and the listener is obeyed.  They hold for    *)
(* lanes, rings, queues and tracks of any size, whatever the listener does *)
(* and whatever fails.                                                     *)
(*                                                                         *)
(* While messages are in flight display and worker differ.  The invariant  *)
(* says that what is wrong is put right by something still on its way: a   *)
(* command, an event, a seek.                                              *)
(***************************************************************************)

(* While the lanes are open, what is in flight makes up for every difference
   between what is shown, what the worker has and what was asked for. *)

(* Commands are in the order of their generations, and a load starts a new
   one. *)
LaneOrder ==
  /\ \A i \in DOMAIN commands :
       commands[i].type # "Shutdown" /\ commands[i].generation \in 1 .. playback.generation
  /\ \A i, j \in DOMAIN commands :
       i < j /\ Loads(commands[j]) => commands[i].generation < commands[j].generation

Coming(h) ==
  \E i \in DOMAIN commands : commands[i].type = "Play" /\ commands[i].generation = h

(* Once the commands in flight are obeyed, unless something fails, the worker
   has generation h. *)
Stays(h) ==
  /\ h # 0
  /\ active.generation = h \/ Coming(h)
  /\ \A i \in DOMAIN commands :
       /\ ~(commands[i].type = "Stop" /\ commands[i].generation = h)
       /\ ~(Loads(commands[i]) /\ commands[i].generation > h)

Remains == Stays(playback.generation)

(* Only the track on display stays, and it is shown as one. *)
OneStays == \A h \in Nat : Stays(h) => h = playback.generation

StaysShown ==
  Remains =>
    /\ WorkerHasTrack /\ playback.request # "Stop"
    /\ active.generation = playback.generation => active.entry = playback.current.entry
    /\ \A i \in DOMAIN commands :
         commands[i].type = "Play" /\ commands[i].generation = playback.generation =>
           /\ commands[i].entry = playback.current.entry
           /\ playback.status = "Loading"
           /\ playback.seekTarget = NoTime
           /\ seekLane.generation # playback.generation

(* A track that is shown is one that the worker has, gets, or tells the end
   of; so is one that the worker tells of. *)
Told ==
  WorkerHasTrack /\ GenerationsLeft =>
    \/ active.generation = playback.generation
    \/ \E i \in DOMAIN commands :
         Loads(commands[i]) /\ commands[i].generation = playback.generation
    \/ \E k \in DOMAIN events :
         Ends(events[k]) /\ events[k].generation = playback.generation

EndTold ==
  \A k \in DOMAIN events :
    events[k].generation = playback.generation =>
      \/ active.generation = playback.generation
      \/ Ends(events[k])
      \/ \E l \in DOMAIN events :
           l > k /\ Ends(events[l]) /\ events[l].generation = playback.generation

(* Of the settings that reach the track, the last one is what was asked for. *)
SetsGain(c) == c.generation = playback.generation /\ c.type \in {"Play", "SetGain"}

SetsPause(c) == c.generation = playback.generation /\ c.type \in {"Play", "Pause", "Resume"}

PauseOf(c) == IF c.type = "Play" THEN c.paused ELSE c.type = "Pause"

WantsPause == playback.request = "Pause"

GainFollows ==
  Remains =>
    /\ \A i \in DOMAIN commands :
         SetsGain(commands[i]) /\ commands[i].muted # muted =>
           \E j \in DOMAIN commands :
             j > i /\ SetsGain(commands[j]) /\ commands[j].muted = muted
    /\ active.generation = playback.generation /\ active.muted # muted =>
         \E j \in DOMAIN commands : SetsGain(commands[j]) /\ commands[j].muted = muted

PauseFollows ==
  Remains =>
    /\ \A i \in DOMAIN commands :
         SetsPause(commands[i]) /\ ~(PauseOf(commands[i]) <=> WantsPause) =>
           \E j \in DOMAIN commands :
             j > i /\ SetsPause(commands[j]) /\ (PauseOf(commands[j]) <=> WantsPause)
    /\ active.generation = playback.generation /\ ~(active.paused <=> WantsPause) =>
         \E j \in DOMAIN commands :
           SetsPause(commands[j]) /\ (PauseOf(commands[j]) <=> WantsPause)

(* What is shown of the worker's pause is about to be corrected. *)
Toggles ==
  \E i \in DOMAIN commands :
    SetsPause(commands[i]) /\ ~(PauseOf(commands[i]) <=> active.paused)

Tells(e) ==
  /\ e.generation = playback.generation
  /\ e.type \in {"Started", IF active.paused THEN "Paused" ELSE "Resumed"}

Mistells(e) ==
  /\ e.generation = playback.generation
  /\ e.type = IF active.paused THEN "Resumed" ELSE "Paused"

DisplayFollows ==
  Remains /\ active.generation = playback.generation =>
    /\ playback.status = (IF active.paused THEN "Playing" ELSE "Paused") =>
         Toggles \/ \E k \in DOMAIN events : Tells(events[k])
    /\ \A k \in DOMAIN events : Mistells(events[k]) =>
         Toggles \/ \E l \in DOMAIN events : l > k /\ Tells(events[l])

(* The target on display is on its way: in the lane, held back, where the
   decoder starts, or told of. *)
Arrives(e) ==
  /\ e.generation = playback.generation
  /\ e.type = "Started" \/ (e.type = "Seeked" /\ e.position = playback.seekTarget)

SeeksFollow ==
  Remains /\ playback.seekTarget # NoTime =>
    IF seekLane.generation = playback.generation
    THEN seekLane.position = playback.seekTarget
    ELSE IF pendingSeek.generation = playback.generation
    THEN pendingSeek.position = playback.seekTarget
    ELSE \/ /\ ~active.started
            /\ \/ active.notice = "Started"
               \/ /\ active.base = playback.seekTarget
                  /\ StartOf(active.entry, playback.seekTarget) = playback.seekTarget
         \/ \E k \in DOMAIN events : Arrives(events[k])

(* A track that was sought has had its header read. *)
DurationKnown ==
  /\ Remains /\ active.generation = playback.generation
  /\ \/ active.info \/ active.notice = "Seeked"
     \/ seekLane.generation = playback.generation
     \/ pendingSeek.generation = playback.generation
     \/ playback.status \in {"Playing", "Paused"}
     \/ \E k \in DOMAIN events :
          events[k].generation = playback.generation /\ events[k].type = "Started"
  => active.duration = DurationOf[active.entry]

Follow ==
  /\ OneStays /\ StaysShown /\ GainFollows /\ PauseFollows
  /\ DisplayFollows /\ SeeksFollow /\ DurationKnown

Agreement == LaneOrder /\ Told /\ EndTold /\ Follow

OpenInv == commandsOpen => Agreement

-----------------------------------------------------------------------------
(* Numbers, and lanes that a message is added to or taken from. *)

Bounds ==
  /\ playback.generation \in Nat /\ active.generation \in 0 .. playback.generation
  /\ DOMAIN commands \subseteq Nat \ {0} /\ DOMAIN events \subseteq Nat \ {0}
  /\ \A k \in DOMAIN events : events[k].generation \in 1 .. playback.generation
  /\ \A i \in DOMAIN commands : Loads(commands[i]) =>
       /\ commands[i].generation \in 1 .. playback.generation
       /\ active.generation < commands[i].generation
       /\ \A k \in DOMAIN events : events[k].generation < commands[i].generation
  /\ seekLane.generation \in 0 .. playback.generation
  /\ pendingSeek.generation \in 0 .. playback.generation
  /\ WorkerHasTrack => playback.generation # 0

LEMMA BoundsFacts == ASSUME TypesInv PROVE Bounds
<1>1. EndInv /\ Messages /\ AppInv
  BY DEF TypesInv, PlayerTyped
<1>2. /\ playback.generation \in Nat /\ active.generation \in 0 .. playback.generation
      /\ \A k \in DOMAIN events : events[k].generation \in 1 .. playback.generation
      /\ \A i \in DOMAIN commands :
           Loads(commands[i]) => commands[i].generation \in 1 .. playback.generation
  BY <1>1 DEF EndInv, Generations
<1>3. \A i \in DOMAIN commands : Loads(commands[i]) =>
        /\ active.generation < commands[i].generation
        /\ \A k \in DOMAIN events : events[k].generation < commands[i].generation
  BY <1>1 DEF EndInv, LoadsNewer
<1>4. DOMAIN commands \subseteq Nat \ {0} /\ DOMAIN events \subseteq Nat \ {0}
  <2>1. IsSeq(commands) /\ IsSeq(events)
    BY <1>1 DEF EndInv, InLanes
  <2>2. /\ DOMAIN commands = 1 .. Len(commands) /\ Len(commands) \in Nat
        /\ DOMAIN events = 1 .. Len(events) /\ Len(events) \in Nat
    BY <2>1, LenProperties DEF IsSeq
  <2> QED
    BY <2>2
<1>5. ASSUME NEW r \in SeekRequests \cup {NoSeek} PROVE r.generation \in 0 .. playback.generation
  BY <1>2 DEF SeekRequests, NoSeek
<1>6. /\ seekLane.generation \in 0 .. playback.generation
      /\ pendingSeek.generation \in 0 .. playback.generation
  BY <1>1, <1>5 DEF Messages
<1>7. WorkerHasTrack => playback.generation # 0
  BY <1>1 DEF WorkerHasTrack, HasTrackStatus, AppInv, Shown
<1> QED
  BY <1>2, <1>3, <1>4, <1>6, <1>7 DEF Bounds

(* The lane t is s with c behind it; or without the first. *)
Added(s, t, c) ==
  \E m \in DOMAIN t :
    /\ t[m] = c
    /\ m \in Nat /\ DOMAIN s \subseteq Nat
    /\ \A i \in DOMAIN s : i \in DOMAIN t /\ t[i] = s[i] /\ i < m
    /\ \A i \in DOMAIN t : i \in DOMAIN s \/ i = m

Taken(s, t) ==
  /\ 1 \in DOMAIN s /\ DOMAIN s \subseteq Nat \ {0} /\ DOMAIN t \subseteq Nat \ {0}
  /\ \A i \in DOMAIN t : i + 1 \in DOMAIN s /\ t[i] = s[i + 1]
  /\ \A i \in DOMAIN s : i = 1 \/ (i > 1 /\ i - 1 \in DOMAIN t /\ t[i - 1] = s[i])

LEMMA AddedFacts ==
  ASSUME NEW s, IsSeq(s), NEW c, NEW t, t = Append(s, c)
  PROVE  Added(s, t, c)
<1> DEFINE n == Len(s)
<1>1. /\ n \in Nat /\ DOMAIN s = 1 .. n /\ DOMAIN t = 1 .. n + 1
      /\ \A i \in 1 .. n : t[i] = s[i]
      /\ t[n + 1] = c
  BY AppendedLane
<1> HIDE DEF n
<1>2. n + 1 \in DOMAIN t /\ n + 1 \in Nat /\ DOMAIN s \subseteq Nat
  BY <1>1
<1>3. \A i \in DOMAIN s : i \in DOMAIN t /\ t[i] = s[i] /\ i < n + 1
  BY <1>1
<1>4. \A i \in DOMAIN t : i \in DOMAIN s \/ i = n + 1
  BY <1>1
<1> QED
  BY <1>1, <1>2, <1>3, <1>4 DEF Added

LEMMA TakenFacts ==
  ASSUME NEW s, IsSeq(s), s # <<>>, NEW t, t = Tail(s)
  PROVE  Taken(s, t) /\ Head(s) = s[1]
<1> DEFINE n == Len(s)
<1>1. /\ n \in Nat \ {0} /\ DOMAIN s = 1 .. n /\ DOMAIN t = 1 .. n - 1
      /\ \A i \in 1 .. n - 1 : t[i] = s[i + 1]
      /\ Head(s) = s[1] /\ 1 \in DOMAIN s
  BY TailOfLane
<1> HIDE DEF n
<1>2. DOMAIN s \subseteq Nat \ {0} /\ DOMAIN t \subseteq Nat \ {0}
  BY <1>1
<1>3. \A i \in DOMAIN t : i + 1 \in DOMAIN s /\ t[i] = s[i + 1]
  BY <1>1
<1>4. ASSUME NEW i \in DOMAIN s, i # 1
      PROVE  i > 1 /\ i - 1 \in DOMAIN t /\ t[i - 1] = s[i]
  BY <1>1, <1>4
<1> QED
  BY <1>1, <1>2, <1>3, <1>4 DEF Taken

LEMMA InitAgrees == Init => OpenInv
<1> SUFFICES ASSUME Init PROVE Agreement
  BY DEF OpenInv
<1>1. /\ commands = <<>> /\ events = <<>> /\ active.generation = 0
  BY DEF Init, LanesInit, WorkerInit, NoActive
<1>2. DOMAIN commands = {} /\ DOMAIN events = {}
  BY <1>1, EmptyLane
<1>3. \A h : ~Stays(h)
  BY <1>1, <1>2 DEF Stays, Coming
<1>4. playback.status = "Stopped"
  <2>1. CASE playback = NewPlayback
    BY <2>1 DEF NewPlayback
  <2>2. CASE playback # NewPlayback
    <3>1. PICK saved \in Sessions, position \in Positions : \E i \in DOMAIN saved :
            playback = [NewPlayback EXCEPT
                          !.current = items[selection], !.hint = selection,
                          !.position = IF RestoredCurrent(items, saved, i) # 0
                                       THEN position ELSE 0]
      BY <2>2 DEF Init, PlaybackInit
    <3> QED
      BY <3>1 DEF NewPlayback
  <2> QED
    BY <2>1, <2>2
<1>5. LaneOrder /\ EndTold
  BY <1>2 DEF LaneOrder, EndTold
<1>6. Told
  BY <1>4 DEF Told, WorkerHasTrack, HasTrackStatus
<1>7. Follow
  BY <1>3 DEF Follow, OneStays, Remains, StaysShown, GainFollows, PauseFollows, DisplayFollows,
              SeeksFollow, DurationKnown
<1> QED
  BY <1>5, <1>6, <1>7 DEF Agreement

-----------------------------------------------------------------------------
(* The steps of the event loop keep the agreement. *)

Agreeing == Assumptions /\ TypesInv /\ Agreement

(* Where no track stays, nothing need follow it. *)
LEMMA NothingStays ==
  ASSUME playback'.generation \in Nat, \A h \in Nat : ~(Stays(h)')
  PROVE  Follow'
<1>1. ~(Remains')
  BY DEF Remains, Stays, Coming
<1> QED
  BY <1>1 DEF Follow, OneStays, StaysShown, GainFollows, PauseFollows, DisplayFollows,
              SeeksFollow, DurationKnown

LEMMA AgreeingFacts ==
  ASSUME Agreeing
  PROVE  /\ Bounds /\ AppTyped /\ IsSeq(commands) /\ IsSeq(events)
         /\ LaneOrder /\ Told /\ EndTold /\ Follow
         /\ WorkerHasTrack <=> playback.status \in HasTrackStatus
<1>1. EndInv /\ AppTyped
  BY DEF Agreeing, TypesInv, PlayerTyped, AppTyped
<1>2. IsSeq(commands) /\ IsSeq(events)
  BY <1>1 DEF EndInv, InLanes
<1>3. WorkerHasTrack <=> playback.status \in HasTrackStatus
  BY <1>1, RequestedFacts
<1> QED
  BY <1>1, <1>2, <1>3, BoundsFacts DEF Agreeing, Agreement

LEMMA SameAgrees ==
  ASSUME Agreeing, Same, UNCHANGED <<events, active, pendingSeek>>
  PROVE  Agreement'
<1>1. /\ playback'.generation = playback.generation
      /\ playback'.status = playback.status
      /\ playback'.current = playback.current
      /\ playback'.request = playback.request
      /\ playback'.seekTarget = playback.seekTarget
      /\ UNCHANGED <<commands, seekLane, muted, events, active, pendingSeek>>
  BY DEF Same, SameTrack
<1>2. LaneOrder /\ Told /\ EndTold /\ Follow
  BY DEF Agreeing, Agreement
<1>3. LaneOrder' /\ EndTold'
  BY <1>1, <1>2 DEF LaneOrder, EndTold
<1>4. Told'
  BY <1>1, <1>2 DEF Told, WorkerHasTrack, GenerationsLeft
<1>5. \A h : Stays(h)' <=> Stays(h)
  BY <1>1 DEF Stays, Coming
<1>6. OneStays' /\ StaysShown'
  BY <1>1, <1>2 DEF Follow, OneStays, StaysShown, Remains, Stays, Coming, WorkerHasTrack
<1>7. Remains' <=> Remains
  BY <1>1 DEF Remains, Stays, Coming
<1>8. GainFollows'
  BY <1>1, <1>2, <1>7 DEF Follow, GainFollows, SetsGain
<1>9. PauseFollows'
  BY <1>1, <1>2, <1>7 DEF Follow, PauseFollows, SetsPause, PauseOf, WantsPause
<1>10. DisplayFollows'
  BY <1>1, <1>2, <1>7 DEF Follow, DisplayFollows, Toggles, SetsPause, PauseOf, Tells, Mistells
<1>11. SeeksFollow' /\ DurationKnown'
  BY <1>1, <1>2, <1>7 DEF Follow, SeeksFollow, DurationKnown, Arrives
<1> QED
  BY <1>3, <1>4, <1>6, <1>8, <1>9, <1>10, <1>11 DEF Agreement, Follow

(* What of the agreement is about the worker and the display alone. *)
LEMMA LeavesAgrees ==
  ASSUME Agreeing, Leaves, UNCHANGED <<events, active, pendingSeek>>
  PROVE  Agreement'
<1>1. /\ Bounds /\ AppTyped /\ LaneOrder /\ Told /\ EndTold /\ Follow
      /\ WorkerHasTrack <=> playback.status \in HasTrackStatus
  BY AgreeingFacts
<1>2. /\ ~Given
      /\ playback'.generation \in {playback.generation, playback.generation + 1}
      /\ playback'.status \notin HasTrackStatus
      /\ UNCHANGED <<commands, seekLane, muted, events, active, pendingSeek>>
  BY DEF Leaves
<1>3. playback.generation \in Nat /\ playback'.generation \in Nat
  BY <1>1, <1>2 DEF Bounds
<1>4. \A h \in Nat : ~(Stays(h)')
  <2>1. ~Remains
    BY <1>1, <1>2 DEF Follow, StaysShown, Given
  <2>2. \A h \in Nat : ~Stays(h)
    BY <1>1, <2>1 DEF Follow, OneStays, Remains
  <2> QED
    BY <1>2, <2>2 DEF Stays, Coming
<1>5. Follow'
  BY <1>3, <1>4, NothingStays
<1>6. LaneOrder'
  BY <1>1, <1>2, <1>3 DEF LaneOrder
<1>7. Told'
  BY <1>2 DEF Told, WorkerHasTrack
<1>8. EndTold'
  BY <1>1, <1>2, <1>3 DEF EndTold, Bounds
<1> QED
  BY <1>5, <1>6, <1>7, <1>8 DEF Agreement

(* A load is the last command: only what it loads stays. *)
LEMMA StartsAgrees ==
  ASSUME Agreeing, NEW paused \in BOOLEAN, Starts(paused), Shown',
         UNCHANGED <<active, pendingSeek>>,
         events' = events \/ (events # <<>> /\ events' = Tail(events))
  PROVE  Agreement'
<1> DEFINE n == playback.generation + 1
<1>1. /\ Bounds /\ LaneOrder /\ Told /\ EndTold /\ Follow
      /\ IsSeq(commands) /\ IsSeq(events)
  BY AgreeingFacts
<1>2. /\ playback'.generation = n
      /\ playback'.status = "Loading"
      /\ playback'.current \in Item
      /\ playback'.request = IF paused THEN "Pause" ELSE "Play"
      /\ playback'.seekTarget = NoTime
      /\ UNCHANGED <<seekLane, muted, active, pendingSeek>>
  BY DEF Starts
<1>3. PICK c : /\ commands' = Append(commands, c)
               /\ c.generation = n
               /\ IsLoad(c, paused)
  BY DEF Starts
<1>4. Added(commands, commands', c)
  BY <1>1, <1>3, AddedFacts
<1>5. PICK m \in DOMAIN commands' :
        /\ commands'[m] = c
        /\ m \in Nat /\ DOMAIN commands \subseteq Nat
        /\ \A i \in DOMAIN commands : i \in DOMAIN commands' /\ commands'[i] = commands[i] /\ i < m
        /\ \A i \in DOMAIN commands' : i \in DOMAIN commands \/ i = m
  BY <1>4 DEF Added
<1>6. /\ playback.generation \in Nat /\ active.generation \in 0 .. playback.generation
      /\ seekLane.generation \in 0 .. playback.generation
      /\ pendingSeek.generation \in 0 .. playback.generation
      /\ n \in Nat /\ n > playback.generation
  BY <1>1 DEF Bounds
<1> HIDE DEF n
<1>7. \A k \in DOMAIN events' : events'[k].generation \in 1 .. playback.generation
  <2>1. \A k \in DOMAIN events : events[k].generation \in 1 .. playback.generation
    BY <1>1 DEF Bounds
  <2>2. CASE events' = events
    BY <2>1, <2>2
  <2>3. CASE events # <<>> /\ events' = Tail(events)
    <3>1. Taken(events, events')
      BY <1>1, <2>3, TakenFacts
    <3> QED
      BY <2>1, <3>1 DEF Taken
  <2> QED
    BY <2>2, <2>3
<1>8. \A i \in DOMAIN commands :
        /\ commands[i].type # "Shutdown"
        /\ commands[i].generation \in 1 .. playback.generation
  BY <1>1 DEF LaneOrder
<1>9. c.type \in {"Play", "LoadFailed"} /\ Loads(c)
  BY <1>3 DEF IsLoad, Loads
<1>10. LaneOrder'
  <2>1. \A i \in DOMAIN commands' :
          commands'[i].type # "Shutdown" /\ commands'[i].generation \in 1 .. n
    BY <1>3, <1>5, <1>6, <1>8, <1>9
  <2>2. \A i, j \in DOMAIN commands' : i < j /\ Loads(commands'[j]) =>
          commands'[i].generation < commands'[j].generation
    <3> SUFFICES ASSUME NEW i \in DOMAIN commands', NEW j \in DOMAIN commands', i < j,
                        Loads(commands'[j])
                 PROVE  commands'[i].generation < commands'[j].generation
      OBVIOUS
    <3>1. i \in DOMAIN commands
      BY <1>5
    <3>2. CASE j \in DOMAIN commands
      BY <1>1, <1>5, <3>1, <3>2 DEF LaneOrder
    <3>3. CASE j = m
      BY <1>3, <1>5, <1>6, <1>8, <3>1, <3>3
    <3> QED
      BY <1>5, <3>2, <3>3
  <2> QED
    BY <1>2, <2>1, <2>2 DEF LaneOrder
<1>11. EndTold'
  BY <1>2, <1>6, <1>7 DEF EndTold
<1>12. Told'
  BY <1>2, <1>3, <1>5, <1>9 DEF Told
<1>13. \A h \in Nat : Stays(h)' => h = n /\ c.type = "Play"
  <2> SUFFICES ASSUME NEW h \in Nat, Stays(h)' PROVE h = n /\ c.type = "Play"
    OBVIOUS
  <2>1. /\ active.generation = h \/ \E i \in DOMAIN commands' :
             commands'[i].type = "Play" /\ commands'[i].generation = h
        /\ ~(c.generation > h)
    BY <1>2, <1>5, <1>9 DEF Stays, Coming
  <2>2. h >= n
    BY <1>3, <1>6, <2>1
  <2>3. active.generation # h
    BY <1>6, <2>2
  <2> QED
    BY <1>3, <1>5, <1>6, <1>8, <2>1, <2>2, <2>3
<1>14. CASE c.type # "Play"
  <2>1. Follow'
    BY <1>2, <1>6, <1>13, <1>14, NothingStays
  <2> QED
    BY <1>10, <1>11, <1>12, <2>1 DEF Agreement
<1>15. CASE c.type = "Play"
  <2>0. /\ c.entry = playback'.current.entry /\ c.paused = paused /\ c.muted = muted
    BY <1>3, <1>15 DEF IsLoad
  <2>1. OneStays'
    BY <1>2, <1>13 DEF OneStays, Stays, Coming
  <2>2. \A i \in DOMAIN commands' : commands'[i].generation = n => i = m
    BY <1>5, <1>6, <1>8
  <2>3. WorkerHasTrack'
    BY <1>2 DEF Shown, WorkerHasTrack, HasTrackStatus
  <2>4. StaysShown'
    BY <1>2, <1>5, <1>6, <2>0, <2>2, <2>3 DEF StaysShown
  <2>5. GainFollows'
    BY <1>2, <1>5, <1>6, <2>0, <2>2 DEF GainFollows, SetsGain
  <2>6. PauseFollows'
    BY <1>2, <1>5, <1>6, <1>15, <2>0, <2>2 DEF PauseFollows, SetsPause, PauseOf, WantsPause
  <2>7. DisplayFollows' /\ SeeksFollow' /\ DurationKnown'
    BY <1>2, <1>6 DEF DisplayFollows, SeeksFollow, DurationKnown
  <2>8. Follow'
    BY <2>1, <2>4, <2>5, <2>6, <2>7 DEF Follow
  <2> QED
    BY <1>10, <1>11, <1>12, <2>8 DEF Agreement
<1> QED
  BY <1>14, <1>15

(* A command for the track on display that is not a load. *)
Commands(c) ==
  /\ IsSeq(commands) /\ commands' = Append(commands, c)
  /\ c.generation = playback.generation /\ c.type \in {"Pause", "Resume", "Stop", "SetGain"}
  /\ playback.generation # 0
  /\ SameTrack /\ playback'.seekTarget = playback.seekTarget
  /\ UNCHANGED <<seekLane, events, active, pendingSeek>>

LEMMA CommandAgrees ==
  ASSUME Agreeing, NEW c, Commands(c)
  PROVE  /\ Added(commands, commands', c)
         /\ LaneOrder' /\ Told' /\ EndTold'
         /\ \A h \in Nat : Stays(h)' <=> Stays(h) /\ ~(c.type = "Stop" /\ h = playback.generation)
<1>1. /\ Bounds /\ LaneOrder /\ Told /\ EndTold /\ IsSeq(commands)
      /\ playback.generation \in Nat \ {0}
  BY AgreeingFacts DEF Bounds, Commands
<1>2. /\ playback'.generation = playback.generation /\ playback'.status = playback.status
      /\ playback'.current = playback.current
      /\ UNCHANGED <<seekLane, events, active, pendingSeek>>
      /\ commands' = Append(commands, c)
      /\ c.generation = playback.generation /\ c.type \in {"Pause", "Resume", "Stop", "SetGain"}
  BY DEF Commands, SameTrack
<1>3. Added(commands, commands', c)
  BY <1>1, <1>2, AddedFacts
<1>4. PICK m \in DOMAIN commands' :
        /\ commands'[m] = c
        /\ m \in Nat /\ DOMAIN commands \subseteq Nat
        /\ \A i \in DOMAIN commands : i \in DOMAIN commands' /\ commands'[i] = commands[i] /\ i < m
        /\ \A i \in DOMAIN commands' : i \in DOMAIN commands \/ i = m
  BY <1>3 DEF Added
<1>5. ~Loads(c) /\ c.type # "Play"
  BY <1>2 DEF Loads
<1>6. LaneOrder'
  <2>1. \A i \in DOMAIN commands' :
          commands'[i].type # "Shutdown" /\ commands'[i].generation \in 1 .. playback.generation
    BY <1>1, <1>2, <1>4 DEF LaneOrder
  <2>2. \A i, j \in DOMAIN commands' : i < j /\ Loads(commands'[j]) =>
          commands'[i].generation < commands'[j].generation
    <3> SUFFICES ASSUME NEW i \in DOMAIN commands', NEW j \in DOMAIN commands', i < j,
                        Loads(commands'[j])
                 PROVE  commands'[i].generation < commands'[j].generation
      OBVIOUS
    <3>1. i \in DOMAIN commands /\ j \in DOMAIN commands
      BY <1>4, <1>5
    <3> QED
      BY <1>1, <1>4, <3>1 DEF LaneOrder
  <2> QED
    BY <1>2, <2>1, <2>2 DEF LaneOrder
<1>7. Told' /\ EndTold'
  BY <1>1, <1>2, <1>4 DEF Told, EndTold, WorkerHasTrack, GenerationsLeft
<1>8. \A h \in Nat : Stays(h)' <=> Stays(h) /\ ~(c.type = "Stop" /\ h = playback.generation)
  BY <1>2, <1>4, <1>5 DEF Stays, Coming
<1> QED
  BY <1>3, <1>6, <1>7, <1>8

(* What follows the track when such a command does not change it. *)
LEMMA CommandFollows ==
  ASSUME Agreeing, NEW c, Commands(c), c.type # "Stop", playback'.request # "Stop"
  PROVE  /\ Remains' <=> Remains
         /\ OneStays' /\ StaysShown' /\ DisplayFollows' /\ SeeksFollow' /\ DurationKnown'
<1>1. /\ playback'.generation = playback.generation /\ playback'.status = playback.status
      /\ playback'.current = playback.current /\ playback'.seekTarget = playback.seekTarget
      /\ UNCHANGED <<seekLane, events, active, pendingSeek>>
  BY DEF Commands, SameTrack
<1>2. /\ Added(commands, commands', c)
      /\ \A h \in Nat : Stays(h)' <=> Stays(h)
  BY CommandAgrees
<1>3. Follow /\ playback.generation \in Nat
  BY AgreeingFacts DEF Bounds
<1>4. PICK m \in DOMAIN commands' :
        /\ commands'[m] = c
        /\ \A i \in DOMAIN commands : i \in DOMAIN commands' /\ commands'[i] = commands[i]
        /\ \A i \in DOMAIN commands' : i \in DOMAIN commands \/ i = m
  BY <1>2 DEF Added
<1>5. c.type # "Play"
  BY DEF Commands
<1>6. Remains' <=> Remains
  BY <1>1, <1>2, <1>3 DEF Remains, Stays, Coming
<1>7. OneStays'
  BY <1>1, <1>2, <1>3 DEF Follow, OneStays
<1>8. StaysShown'
  BY <1>1, <1>3, <1>4, <1>5, <1>6 DEF Follow, StaysShown, WorkerHasTrack
<1>9. DisplayFollows'
  <2>1. Toggles => Toggles'
    BY <1>1, <1>4 DEF Toggles, SetsPause, PauseOf
  <2> QED
    BY <1>1, <1>3, <1>6, <2>1 DEF Follow, DisplayFollows, Tells, Mistells
<1>10. SeeksFollow' /\ DurationKnown'
  BY <1>1, <1>3, <1>6 DEF Follow, SeeksFollow, DurationKnown, Arrives
<1> QED
  BY <1>6, <1>7, <1>8, <1>9, <1>10

LEMMA AsksAgrees ==
  ASSUME Agreeing, NEW mode, NEW type, Asks(mode, type), UNCHANGED <<events, active, pendingSeek>>
  PROVE  Agreement'
<1> DEFINE c == [type |-> type, generation |-> playback.generation]
<1>1. /\ c.type = type /\ c.generation = playback.generation /\ commands' = Append(commands, c)
      /\ playback.generation \in Nat
      /\ playback.generation # 0 /\ IsSeq(commands) /\ Follow
      /\ type \in {"Pause", "Resume", "Stop"}
      /\ playback'.request = mode /\ muted' = muted /\ SameTrack
      /\ type = "Stop" <=> mode = "Stop"
      /\ type = "Pause" <=> mode = "Pause"
  BY AgreeingFacts DEF Asks, Bounds
<1> HIDE DEF c
<1>2. Commands(c)
  BY <1>1 DEF Commands, Asks
<1>3. /\ Added(commands, commands', c)
      /\ LaneOrder' /\ Told' /\ EndTold'
      /\ \A h \in Nat : Stays(h)' <=> Stays(h) /\ ~(c.type = "Stop" /\ h = playback.generation)
  BY <1>2, CommandAgrees
<1>4. CASE type = "Stop"
  <2>1. \A h \in Nat : ~(Stays(h)')
    BY <1>1, <1>3, <1>4 DEF Follow, OneStays
  <2>2. Follow'
    BY <1>1, <2>1, NothingStays DEF SameTrack
  <2> QED
    BY <1>3, <2>2 DEF Agreement
<1>5. CASE type # "Stop"
  <2>1. /\ Remains' <=> Remains
        /\ OneStays' /\ StaysShown' /\ DisplayFollows' /\ SeeksFollow' /\ DurationKnown'
    BY <1>1, <1>2, <1>5, CommandFollows
  <2>2. PICK m \in DOMAIN commands' :
          /\ commands'[m] = c
          /\ \A i \in DOMAIN commands :
               i \in DOMAIN commands' /\ commands'[i] = commands[i] /\ i < m
          /\ \A i \in DOMAIN commands' : i \in DOMAIN commands \/ i = m
    BY <1>3 DEF Added
  <2>3. GainFollows'
    BY <1>1, <2>1, <2>2 DEF Follow, GainFollows, SetsGain, SameTrack, Asks
  <2>4. PauseFollows'
    <3>1. c.type = "Pause" <=> playback'.request = "Pause"
      BY <1>1
    <3> QED
      BY <1>1, <1>5, <2>2, <3>1 DEF PauseFollows, SetsPause, PauseOf, WantsPause, SameTrack
  <2> QED
    BY <1>3, <2>1, <2>3, <2>4 DEF Agreement, Follow
<1> QED
  BY <1>4, <1>5

LEMMA MutesAgrees ==
  ASSUME Agreeing, Mutes, UNCHANGED <<events, active, pendingSeek>>
  PROVE  Agreement'
<1>1. /\ Bounds /\ AppTyped /\ LaneOrder /\ Told /\ EndTold /\ Follow /\ IsSeq(commands)
      /\ UNCHANGED <<playback, seekLane, events, active, pendingSeek>>
  BY AgreeingFacts DEF Mutes
<1>2. CASE WorkerHasTrack
  <2> DEFINE c == [type |-> "SetGain", generation |-> playback.generation, muted |-> muted']
  <2>1. /\ c.type = "SetGain" /\ c.generation = playback.generation /\ c.muted = muted'
        /\ commands' = Append(commands, c)
    BY <1>2 DEF Mutes
  <2>2. playback.generation # 0
    BY <1>1, <1>2 DEF Bounds
  <2> HIDE DEF c
  <2>3. Commands(c)
    BY <1>1, <2>1, <2>2 DEF Commands, SameTrack
  <2>4. /\ Added(commands, commands', c) /\ LaneOrder' /\ Told' /\ EndTold'
        /\ \A h \in Nat : Stays(h)' <=> Stays(h)
    BY <2>1, <2>3, CommandAgrees
  <2>5. PICK m \in DOMAIN commands' :
          /\ commands'[m] = c
          /\ \A i \in DOMAIN commands :
               i \in DOMAIN commands' /\ commands'[i] = commands[i] /\ i < m
          /\ \A i \in DOMAIN commands' : i \in DOMAIN commands \/ i = m
    BY <2>4 DEF Added
  <2>6. CASE ~Remains
    <3>1. \A h \in Nat : ~(Stays(h)')
      BY <1>1, <2>4, <2>6 DEF Follow, OneStays, Remains
    <3>2. Follow'
      BY <1>1, <3>1, NothingStays DEF Bounds
    <3> QED
      BY <2>4, <3>2 DEF Agreement
  <2>7. CASE Remains
    <3>1. playback'.request # "Stop"
      BY <1>1, <2>7 DEF Follow, StaysShown
    <3>2. /\ Remains' <=> Remains
          /\ OneStays' /\ StaysShown' /\ DisplayFollows' /\ SeeksFollow' /\ DurationKnown'
      BY <2>1, <2>3, <3>1, CommandFollows
    <3>3. GainFollows'
      BY <1>1, <2>1, <2>5 DEF GainFollows, SetsGain
    <3>4. PauseFollows'
      BY <1>1, <2>1, <2>5, <3>2 DEF Follow, PauseFollows, SetsPause, PauseOf, WantsPause
    <3> QED
      BY <2>4, <3>2, <3>3, <3>4 DEF Agreement, Follow
  <2> QED
    BY <2>6, <2>7
<1>3. CASE ~WorkerHasTrack
  <2>1. commands' = commands /\ ~Remains
    BY <1>1, <1>3 DEF Mutes, Follow, StaysShown
  <2>2. \A h \in Nat : ~(Stays(h)')
    BY <1>1, <2>1 DEF Follow, OneStays, Remains, Stays, Coming
  <2>3. Follow'
    BY <1>1, <2>2, NothingStays DEF Bounds
  <2>4. LaneOrder' /\ Told' /\ EndTold'
    BY <1>1, <2>1 DEF LaneOrder, Told, EndTold, WorkerHasTrack, GenerationsLeft
  <2> QED
    BY <2>3, <2>4 DEF Agreement
<1> QED
  BY <1>2, <1>3

LEMMA SeeksInAgrees ==
  ASSUME Agreeing, NEW target, SeeksIn(target), UNCHANGED <<events, active, pendingSeek>>
  PROVE  Agreement'
<1>1. LaneOrder /\ Told /\ EndTold /\ Follow
  BY AgreeingFacts
<1>2. /\ playback.status \in {"Playing", "Paused"}
      /\ playback'.generation = playback.generation /\ playback'.status = playback.status
      /\ playback'.current = playback.current /\ playback'.request = playback.request
      /\ playback'.seekTarget = target
      /\ seekLane'.generation = playback.generation /\ seekLane'.position = target
      /\ UNCHANGED <<commands, muted, events, active, pendingSeek>>
  BY DEF SeeksIn, SameTrack
<1>3. LaneOrder' /\ EndTold' /\ Told'
  BY <1>1, <1>2 DEF LaneOrder, EndTold, Told, WorkerHasTrack, GenerationsLeft
<1>4. Remains' <=> Remains
  BY <1>2 DEF Remains, Stays, Coming
<1>5. OneStays' /\ StaysShown'
  BY <1>1, <1>2 DEF Follow, OneStays, StaysShown, Remains, Stays, Coming, WorkerHasTrack
<1>6. GainFollows' /\ PauseFollows'
  BY <1>1, <1>2, <1>4 DEF Follow, GainFollows, SetsGain, PauseFollows, SetsPause, PauseOf,
                          WantsPause
<1>7. DisplayFollows'
  BY <1>1, <1>2, <1>4 DEF Follow, DisplayFollows, Toggles, SetsPause, PauseOf, Tells, Mistells
<1>8. SeeksFollow' /\ DurationKnown'
  BY <1>1, <1>2, <1>4 DEF Follow, SeeksFollow, DurationKnown
<1> QED
  BY <1>3, <1>5, <1>6, <1>7, <1>8 DEF Agreement, Follow

LEMMA MovesAgree ==
  ASSUME Agreeing, Moves, Shown', UNCHANGED <<events, active, pendingSeek>>
  PROVE  Agreement'
<1>1. \A paused \in BOOLEAN : Starts(paused) => Agreement'
  BY StartsAgrees
<1>2. \A target : SeeksIn(target) => Agreement'
  BY SeeksInAgrees
<1>3. \A mode, type : Asks(mode, type) => Agreement'
  BY AsksAgrees
<1> QED
  BY <1>1, <1>2, <1>3, SameAgrees, LeavesAgrees, MutesAgrees DEF Moves

-----------------------------------------------------------------------------
(* An event is taken. *)

Taking(e) == events # <<>> /\ events' = Tail(events) /\ e = Head(events)

LEMMA TakingFacts ==
  ASSUME Agreeing, NEW e, Taking(e)
  PROVE  /\ Taken(events, events') /\ e = events[1] /\ 1 \in DOMAIN events
         /\ e.generation \in 1 .. playback.generation
         /\ \A i \in DOMAIN commands : Loads(commands[i]) => e.generation < commands[i].generation
<1>1. IsSeq(events) /\ Bounds
  BY AgreeingFacts
<1>2. Taken(events, events') /\ e = events[1]
  BY <1>1, TakenFacts DEF Taking
<1>3. 1 \in DOMAIN events
  BY <1>2 DEF Taken
<1> QED
  BY <1>1, <1>2, <1>3 DEF Bounds

(* The end of a track that is told of is not taken before what came first. *)
LEMMA EndToldTaken ==
  ASSUME Agreeing, NEW e, Taking(e), playback'.generation = playback.generation, active' = active
  PROVE  EndTold'
<1>1. Taken(events, events') /\ EndTold
  BY TakingFacts, AgreeingFacts
<1>2. /\ 1 \in DOMAIN events
      /\ DOMAIN events \subseteq Nat \ {0} /\ DOMAIN events' \subseteq Nat \ {0}
      /\ \A i \in DOMAIN events' : i + 1 \in DOMAIN events /\ events'[i] = events[i + 1]
      /\ \A i \in DOMAIN events :
           i = 1 \/ (i > 1 /\ i - 1 \in DOMAIN events' /\ events'[i - 1] = events[i])
  BY <1>1 DEF Taken
<1> SUFFICES ASSUME NEW k \in DOMAIN events', events'[k].generation = playback.generation,
                    active.generation # playback.generation, ~Ends(events'[k])
             PROVE  \E l \in DOMAIN events' :
                      l > k /\ Ends(events'[l]) /\ events'[l].generation = playback.generation
  BY DEF EndTold
<1>3. k + 1 \in DOMAIN events /\ events'[k] = events[k + 1] /\ k \in Nat \ {0}
  BY <1>2
<1>4. PICK l \in DOMAIN events :
        l > k + 1 /\ Ends(events[l]) /\ events[l].generation = playback.generation
  BY <1>1, <1>3 DEF EndTold
<1>5. l - 1 \in DOMAIN events' /\ events'[l - 1] = events[l] /\ l - 1 > k
  BY <1>2, <1>3, <1>4
<1> QED
  BY <1>4, <1>5

(* Of an event that is not the one looked for, the lane keeps what it had. *)
LEMMA DroppedAgrees ==
  ASSUME Agreeing, NEW e, Taking(e), Same, UNCHANGED <<active, pendingSeek>>,
         e.generation # playback.generation \/ ~WorkerHasTrack
  PROVE  Agreement'
<1>1. /\ Taken(events, events') /\ e = events[1]
      /\ Bounds /\ LaneOrder /\ Told /\ EndTold /\ Follow
  BY TakingFacts, AgreeingFacts
<1>2. /\ playback'.generation = playback.generation
      /\ playback'.status = playback.status
      /\ playback'.current = playback.current
      /\ playback'.request = playback.request
      /\ playback'.seekTarget = playback.seekTarget
      /\ UNCHANGED <<commands, seekLane, muted, active, pendingSeek>>
  BY DEF Same, SameTrack
<1>3. /\ 1 \in DOMAIN events
      /\ DOMAIN events \subseteq Nat \ {0} /\ DOMAIN events' \subseteq Nat \ {0}
      /\ \A i \in DOMAIN events' : i + 1 \in DOMAIN events /\ events'[i] = events[i + 1]
      /\ \A i \in DOMAIN events :
           i = 1 \/ (i > 1 /\ i - 1 \in DOMAIN events' /\ events'[i - 1] = events[i])
  BY <1>1 DEF Taken
<1>4. LaneOrder'
  BY <1>1, <1>2 DEF LaneOrder
<1>5. EndTold'
  BY <1>2, EndToldTaken
<1>6. CASE ~WorkerHasTrack
  <2>1. ~Remains
    BY <1>1, <1>6 DEF Follow, StaysShown
  <2>2. \A h \in Nat : ~(Stays(h)')
    BY <1>1, <1>2, <2>1 DEF Follow, OneStays, Remains, Stays, Coming
  <2>3. Follow'
    BY <1>1, <1>2, <2>2, NothingStays DEF Bounds
  <2>4. Told'
    BY <1>2, <1>6 DEF Told, WorkerHasTrack
  <2> QED
    BY <1>4, <1>5, <2>3, <2>4 DEF Agreement
<1>7. CASE e.generation # playback.generation
  <2>1. \A k \in DOMAIN events : events[k].generation = playback.generation =>
          k > 1 /\ k - 1 \in DOMAIN events' /\ events'[k - 1] = events[k]
    BY <1>1, <1>3, <1>7
  <2>2. Told'
    BY <1>1, <1>2, <2>1 DEF Told, WorkerHasTrack, GenerationsLeft
  <2>3. Remains' <=> Remains
    BY <1>2 DEF Remains, Stays, Coming
  <2>4. OneStays' /\ StaysShown'
    BY <1>1, <1>2 DEF Follow, OneStays, StaysShown, Remains, Stays, Coming, WorkerHasTrack
  <2>5. GainFollows' /\ PauseFollows'
    BY <1>1, <1>2, <2>3 DEF Follow, GainFollows, SetsGain, PauseFollows, SetsPause, PauseOf,
                          WantsPause
  <2>6. DisplayFollows'
    <3> SUFFICES ASSUME Remains, active.generation = playback.generation, ~Toggles
                 PROVE  /\ playback.status = (IF active.paused THEN "Playing" ELSE "Paused") =>
                             \E k \in DOMAIN events' : Tells(events'[k])
                        /\ \A k \in DOMAIN events' : Mistells(events'[k]) =>
                             \E l \in DOMAIN events' : l > k /\ Tells(events'[l])
      BY <1>2, <2>3 DEF DisplayFollows, Toggles, SetsPause, PauseOf, Tells, Mistells
    <3>1. \A k \in DOMAIN events : Tells(events[k]) =>
            k > 1 /\ k - 1 \in DOMAIN events' /\ events'[k - 1] = events[k]
      BY <2>1 DEF Tells
    <3>2. playback.status = (IF active.paused THEN "Playing" ELSE "Paused") =>
             \E k \in DOMAIN events' : Tells(events'[k])
      BY <1>1, <3>1 DEF Follow, DisplayFollows
    <3>3. ASSUME NEW k \in DOMAIN events', Mistells(events'[k])
          PROVE  \E l \in DOMAIN events' : l > k /\ Tells(events'[l])
      <4>1. k + 1 \in DOMAIN events /\ events'[k] = events[k + 1] /\ k \in Nat \ {0}
        BY <1>3
      <4>2. PICK l \in DOMAIN events : l > k + 1 /\ Tells(events[l])
        BY <1>1, <3>3, <4>1 DEF Follow, DisplayFollows
      <4>3. l - 1 \in DOMAIN events' /\ events'[l - 1] = events[l] /\ l - 1 > k
        BY <1>3, <3>1, <4>1, <4>2
      <4> QED
        BY <4>2, <4>3
    <3> QED
      BY <3>2, <3>3
  <2>7. SeeksFollow'
    <3>1. (\E k \in DOMAIN events : Arrives(events[k]))
            => \E k \in DOMAIN events' : Arrives(events'[k])
      BY <2>1 DEF Arrives
    <3> QED
      BY <1>1, <1>2, <2>3, <3>1 DEF Follow, SeeksFollow, Arrives
  <2>8. DurationKnown'
    BY <1>1, <1>2, <1>3, <2>3 DEF Follow, DurationKnown
  <2> QED
    BY <1>4, <1>5, <2>2, <2>4, <2>5, <2>6, <2>7, <2>8 DEF Agreement, Follow
<1> QED
  BY <1>6, <1>7

(* The others change what is shown; no load waits behind them. *)
LEMMA TellingAgrees ==
  ASSUME Agreeing, NEW e, Taking(e), Telling(e), e.generation = playback.generation,
         UNCHANGED <<active, pendingSeek>>
  PROVE  Agreement'
<1>1. /\ Taken(events, events') /\ e = events[1]
      /\ Bounds /\ LaneOrder /\ Told /\ EndTold /\ Follow
      /\ WorkerHasTrack <=> playback.status \in HasTrackStatus
      /\ \A i \in DOMAIN commands : Loads(commands[i]) => e.generation < commands[i].generation
  BY TakingFacts, AgreeingFacts
<1>2. /\ playback'.generation = playback.generation
      /\ playback'.current = playback.current
      /\ playback'.request = playback.request
      /\ Starting(e) \/ Toggling(e) \/ Seeking(e)
      /\ UNCHANGED <<commands, seekLane, muted, active, pendingSeek>>
  BY DEF Telling, SendsNothing
<1>3. /\ 1 \in DOMAIN events
      /\ DOMAIN events \subseteq Nat \ {0} /\ DOMAIN events' \subseteq Nat \ {0}
      /\ \A i \in DOMAIN events' : i + 1 \in DOMAIN events /\ events'[i] = events[i + 1]
      /\ \A i \in DOMAIN events :
           i = 1 \/ (i > 1 /\ i - 1 \in DOMAIN events' /\ events'[i - 1] = events[i])
  BY <1>1 DEF Taken
<1>4. \A i \in DOMAIN commands : ~Loads(commands[i])
  <2>1. playback.generation \in Nat
    BY <1>1 DEF Bounds
  <2>2. \A i \in DOMAIN commands : commands[i].generation \in 1 .. playback.generation
    BY <1>1 DEF LaneOrder
  <2> QED
    BY <1>1, <2>1, <2>2
<1>5. ~Ends(e)
  BY <1>2 DEF Starting, Toggling, Seeking, Ends
<1>6. LaneOrder'
  BY <1>1, <1>2 DEF LaneOrder
<1>7. EndTold'
  BY <1>2, EndToldTaken
<1>8. Told'
  <2>1. \/ active.generation = playback.generation
        \/ \E l \in DOMAIN events :
             l > 1 /\ Ends(events[l]) /\ events[l].generation = playback.generation
    BY <1>1, <1>3, <1>5 DEF EndTold
  <2>2. \A l \in DOMAIN events : l > 1 => l - 1 \in DOMAIN events' /\ events'[l - 1] = events[l]
    BY <1>3
  <2> QED
    BY <1>2, <2>1, <2>2 DEF Told
<1>9. Remains' <=> Remains
  BY <1>2 DEF Remains, Stays, Coming
<1>10. Remains => WorkerHasTrack /\ WorkerHasTrack'
  <2>1. Remains => WorkerHasTrack
    BY <1>1 DEF Follow, StaysShown
  <2>2. ASSUME WorkerHasTrack PROVE playback'.status \in HasTrackStatus
    BY <1>1, <1>2, <2>2 DEF Starting, Toggling, Seeking, HasTrackStatus
  <2> QED
    BY <1>2, <2>1, <2>2 DEF WorkerHasTrack
<1>11. OneStays'
  BY <1>1, <1>2 DEF Follow, OneStays, Stays, Coming
<1>12. StaysShown'
  <2>1. \A i \in DOMAIN commands : commands[i].type # "Play"
    BY <1>4 DEF Loads
  <2> QED
    BY <1>1, <1>2, <1>9, <1>10, <2>1 DEF Follow, StaysShown
<1>13. GainFollows' /\ PauseFollows'
  BY <1>1, <1>2, <1>9 DEF Follow, GainFollows, SetsGain, PauseFollows, SetsPause, PauseOf,
                          WantsPause
<1>14. DisplayFollows'
  <2> SUFFICES ASSUME Remains, active.generation = playback.generation, ~Toggles
               PROVE  /\ playback'.status = (IF active.paused THEN "Playing" ELSE "Paused") =>
                           \E k \in DOMAIN events' : Tells(events'[k])
                      /\ \A k \in DOMAIN events' : Mistells(events'[k]) =>
                           \E l \in DOMAIN events' : l > k /\ Tells(events'[l])
    BY <1>2, <1>9 DEF DisplayFollows, Toggles, SetsPause, PauseOf, Tells, Mistells
  <2>1. ASSUME NEW l \in DOMAIN events, l > 1, Tells(events[l])
        PROVE  \E k \in DOMAIN events' : Tells(events'[k])
    BY <1>3, <2>1
  <2>2. DisplayFollows /\ PauseFollows
    BY <1>1 DEF Follow
  <2>3. CASE Starting(e)
    <3>1. active.paused <=> WantsPause
      BY <2>2 DEF PauseFollows, Toggles
    <3>2. playback'.status # (IF active.paused THEN "Playing" ELSE "Paused")
      BY <1>2, <2>3, <3>1 DEF Starting, WantsPause
    <3> QED
      BY <3>2, <1>3, <2>2 DEF DisplayFollows
  <2>4. CASE Toggling(e)
    <3>1. ASSUME playback'.status = (IF active.paused THEN "Playing" ELSE "Paused")
          PROVE  Mistells(e)
      BY <1>1, <2>4, <3>1 DEF Toggling, Mistells
    <3> QED
      BY <1>1, <1>3, <2>1, <2>2, <3>1 DEF DisplayFollows
  <2>5. CASE Seeking(e)
    <3>1. ~Tells(e)
      BY <2>5 DEF Seeking, Tells
    <3> QED
      BY <1>1, <1>3, <2>1, <2>2, <2>5, <3>1 DEF DisplayFollows, Seeking
  <2> QED
    BY <1>2, <2>3, <2>4, <2>5
<1>15. SeeksFollow'
  <2>1. CASE playback'.seekTarget = NoTime
    BY <2>1 DEF SeeksFollow
  <2>2. CASE playback'.seekTarget # NoTime
    <3>1. playback'.seekTarget = playback.seekTarget /\ ~Arrives(e)
      BY <1>2, <2>2 DEF Starting, Toggling, Seeking, Arrives
    <3>2. (\E k \in DOMAIN events : Arrives(events[k]))
            => \E k \in DOMAIN events' : Arrives(events'[k])
      BY <1>1, <1>3, <3>1
    <3> QED
      BY <1>1, <1>2, <1>9, <3>1, <3>2 DEF Follow, SeeksFollow, Arrives
  <2> QED
    BY <2>1, <2>2
<1>16. DurationKnown'
  <2> SUFFICES ASSUME Remains, active.generation = playback.generation,
                      \/ active.info \/ active.notice = "Seeked"
                      \/ seekLane.generation = playback.generation
                      \/ pendingSeek.generation = playback.generation
                      \/ playback'.status \in {"Playing", "Paused"}
                      \/ \E k \in DOMAIN events' :
                           /\ events'[k].generation = playback.generation
                           /\ events'[k].type = "Started"
               PROVE  active.duration = DurationOf[active.entry]
    BY <1>2, <1>9 DEF DurationKnown
  <2>1. ASSUME playback'.status \in {"Playing", "Paused"}
        PROVE  playback.status \in {"Playing", "Paused"} \/ e.type = "Started"
    BY <1>1, <1>2, <1>10, <2>1 DEF Starting, Toggling, Seeking, HasTrackStatus
  <2> QED
    BY <1>1, <1>3, <2>1 DEF Follow, DurationKnown
<1> QED
  BY <1>6, <1>7, <1>8, <1>11, <1>12, <1>13, <1>14, <1>15, <1>16 DEF Agreement, Follow

(* The end of the track on display: nothing of it stays. *)
LEMMA EndingAgrees ==
  ASSUME Agreeing, NEW e, Taking(e), Ending(e), e.generation = playback.generation, Shown',
         UNCHANGED <<active, pendingSeek>>
  PROVE  Agreement'
<1>1. /\ Taken(events, events') /\ e = events[1]
      /\ Bounds /\ LaneOrder /\ Told /\ EndTold /\ Follow /\ IsSeq(events)
      /\ \A i \in DOMAIN commands : Loads(commands[i]) => e.generation < commands[i].generation
      /\ playback.generation \in Nat
      /\ 1 \in DOMAIN events
  BY TakingFacts, AgreeingFacts DEF Bounds
<1>2. CASE Starts(RequestedStatus = "Paused")
  BY <1>2, StartsAgrees DEF Taking
<1>3. CASE /\ playback'.generation = playback.generation
           /\ playback'.status \notin HasTrackStatus \/ playback.generation = MaxPlaybackGen
           /\ SendsNothing
  <2>1. UNCHANGED <<commands, seekLane, muted, active, pendingSeek>>
    BY <1>3 DEF SendsNothing
  <2>2. \A i \in DOMAIN commands : ~Loads(commands[i])
    <3>1. \A i \in DOMAIN commands : commands[i].generation \in 1 .. playback.generation
      BY <1>1 DEF LaneOrder
    <3> QED
      BY <1>1, <3>1
  <2>3. active.generation # playback.generation
    <3>1. EndedOnce
      BY DEF Agreeing, TypesInv, EndInv
    <3> QED
      BY <1>1, <3>1 DEF EndedOnce, Ending
  <2>4. \A h \in Nat : ~(Stays(h)')
    <3> SUFFICES ASSUME NEW h \in Nat, Stays(h) PROVE FALSE
      BY <2>1 DEF Stays, Coming
    <3>1. h = playback.generation
      BY <1>1 DEF Follow, OneStays
    <3> QED
      BY <2>2, <2>3, <3>1 DEF Stays, Coming, Loads
  <2>5. Follow'
    BY <1>1, <1>3, <2>4, NothingStays
  <2>6. LaneOrder'
    BY <1>1, <1>3, <2>1 DEF LaneOrder
  <2>7. Told'
    BY <1>1, <1>3 DEF Told, WorkerHasTrack, GenerationsLeft
  <2>8. EndTold'
    BY <1>3, <2>1, EndToldTaken
  <2> QED
    BY <2>5, <2>6, <2>7, <2>8 DEF Agreement
<1> QED
  BY <1>2, <1>3 DEF Ending, SameTrack

LEMMA TakesAgree ==
  ASSUME Agreeing, NEW e, Taking(e), Takes(e), Shown', UNCHANGED <<active, pendingSeek>>
  PROVE  Agreement'
BY DroppedAgrees, TellingAgrees, EndingAgrees DEF Takes

-----------------------------------------------------------------------------
(* The steps of the worker keep the agreement. *)

Receiving(c) == commands # <<>> /\ commands' = Tail(commands) /\ c = Head(commands)

LEMMA ReceivingFacts ==
  ASSUME Agreeing, NEW c, Receiving(c)
  PROVE  /\ c = commands[1] /\ 1 \in DOMAIN commands
         /\ DOMAIN commands \subseteq Nat \ {0} /\ DOMAIN commands' \subseteq Nat \ {0}
         /\ \A i \in DOMAIN commands' : i + 1 \in DOMAIN commands /\ commands'[i] = commands[i + 1]
         /\ \A i \in DOMAIN commands :
              i = 1 \/ (i > 1 /\ i - 1 \in DOMAIN commands' /\ commands'[i - 1] = commands[i])
         /\ c.type # "Shutdown" /\ c.generation \in 1 .. playback.generation
         /\ \A i \in DOMAIN commands' :
              Loads(commands'[i]) => c.generation < commands'[i].generation
<1>1. IsSeq(commands) /\ LaneOrder
  BY AgreeingFacts
<1>2. Taken(commands, commands') /\ c = commands[1]
  BY <1>1, TakenFacts DEF Receiving
<1>3. /\ 1 \in DOMAIN commands
      /\ DOMAIN commands \subseteq Nat \ {0} /\ DOMAIN commands' \subseteq Nat \ {0}
      /\ \A i \in DOMAIN commands' : i + 1 \in DOMAIN commands /\ commands'[i] = commands[i + 1]
      /\ \A i \in DOMAIN commands :
              i = 1 \/ (i > 1 /\ i - 1 \in DOMAIN commands' /\ commands'[i - 1] = commands[i])
  BY <1>2 DEF Taken
<1>4. c.type # "Shutdown" /\ c.generation \in 1 .. playback.generation
  BY <1>1, <1>2, <1>3 DEF LaneOrder
<1>5. ASSUME NEW i \in DOMAIN commands', Loads(commands'[i])
      PROVE  c.generation < commands'[i].generation
  <2>1. i + 1 \in DOMAIN commands /\ commands'[i] = commands[i + 1] /\ 1 < i + 1
    BY <1>3
  <2> QED
    BY <1>1, <1>2, <1>3, <1>5, <2>1 DEF LaneOrder
<1> QED
  BY <1>2, <1>3, <1>4, <1>5

LEMMA ReceivingKeeps ==
  ASSUME Agreeing, NEW c, Receiving(c), playback' = playback,
         \/ active'.generation = 0
         \/ c.type = "Play" /\ active'.generation = c.generation
         \/ /\ active'.generation = active.generation
            /\ ~Loads(c) /\ ~(c.type = "Stop" /\ c.generation = active.generation)
  PROVE  LaneOrder' /\ \A h \in Nat : Stays(h)' => Stays(h)
<1>1. /\ c = commands[1] /\ 1 \in DOMAIN commands
      /\ DOMAIN commands \subseteq Nat \ {0} /\ DOMAIN commands' \subseteq Nat \ {0}
      /\ \A i \in DOMAIN commands' : i + 1 \in DOMAIN commands /\ commands'[i] = commands[i + 1]
      /\ \A i \in DOMAIN commands :
           i = 1 \/ (i > 1 /\ i - 1 \in DOMAIN commands' /\ commands'[i - 1] = commands[i])
      /\ c.generation \in 1 .. playback.generation
      /\ \A i \in DOMAIN commands' : Loads(commands'[i]) => c.generation < commands'[i].generation
  BY ReceivingFacts
<1>2. LaneOrder /\ playback.generation \in Nat
  BY AgreeingFacts DEF Bounds
<1>3. LaneOrder'
  <2>1. \A i \in DOMAIN commands' :
          commands'[i].type # "Shutdown" /\ commands'[i].generation \in 1 .. playback.generation
    BY <1>1, <1>2 DEF LaneOrder
  <2>2. ASSUME NEW i \in DOMAIN commands', NEW j \in DOMAIN commands', i < j, Loads(commands'[j])
        PROVE  commands'[i].generation < commands'[j].generation
    <3>1. /\ i + 1 \in DOMAIN commands /\ commands'[i] = commands[i + 1]
          /\ j + 1 \in DOMAIN commands /\ commands'[j] = commands[j + 1]
          /\ i + 1 < j + 1
      BY <1>1, <2>2
    <3> QED
      BY <1>2, <2>2, <3>1 DEF LaneOrder
  <2> QED
    BY <2>1, <2>2 DEF LaneOrder
<1>4. ASSUME NEW h \in Nat, Stays(h)' PROVE Stays(h)
  <2>1. /\ h # 0
        /\ active'.generation = h \/ \E i \in DOMAIN commands' :
             commands'[i].type = "Play" /\ commands'[i].generation = h
        /\ \A i \in DOMAIN commands' :
             /\ ~(commands'[i].type = "Stop" /\ commands'[i].generation = h)
             /\ ~(Loads(commands'[i]) /\ commands'[i].generation > h)
    BY <1>4 DEF Stays, Coming
  <2>2. /\ active.generation = h \/ Coming(h)
        /\ ~(c.type = "Stop" /\ c.generation = h)
        /\ ~(Loads(c) /\ c.generation > h)
    <3>1. CASE \E i \in DOMAIN commands' : commands'[i].type = "Play" /\ commands'[i].generation = h
      <4>1. PICK i \in DOMAIN commands' : commands'[i].type = "Play" /\ commands'[i].generation = h
        BY <3>1
      <4>2. Coming(h) /\ c.generation < h
        BY <1>1, <4>1 DEF Coming, Loads
      <4> QED
        BY <1>1, <1>2, <4>2
    <3>2. CASE active'.generation = h /\ c.type = "Play" /\ active'.generation = c.generation
      BY <1>1, <1>2, <3>2 DEF Coming
    <3>3. CASE /\ active'.generation = h /\ active'.generation = active.generation
               /\ ~Loads(c) /\ ~(c.type = "Stop" /\ c.generation = active.generation)
      BY <3>3
    <3> QED
      BY <2>1, <3>1, <3>2, <3>3
  <2>3. ASSUME NEW i \in DOMAIN commands
        PROVE  /\ ~(commands[i].type = "Stop" /\ commands[i].generation = h)
               /\ ~(Loads(commands[i]) /\ commands[i].generation > h)
    <3>1. CASE i = 1
      BY <1>1, <2>2, <3>1
    <3>2. CASE i - 1 \in DOMAIN commands' /\ commands'[i - 1] = commands[i]
      BY <2>1, <3>2
    <3> QED
      BY <1>1, <3>1, <3>2
  <2> QED
    BY <2>1, <2>2, <2>3 DEF Stays
<1> QED
  BY <1>3, <1>4

(* The track goes on as it is heard, and the lane waits. *)
GoesOn ==
  /\ SamePlay
  /\ UNCHANGED <<playback, muted, commands>>
  /\ seekLane' \in {seekLane, NoSeek}
  /\ \/ events' = events
     \/ \E e : /\ events' = Append(events, e) /\ e.generation = active.generation
               /\ e.type \in {"Started", "Seeked"}

LEMMA EventsStay ==
  ASSUME Agreeing, events' = events \/ \E e : events' = Append(events, e)
  PROVE  \A k \in DOMAIN events : k \in DOMAIN events' /\ events'[k] = events[k]
<1>1. IsSeq(events)
  BY AgreeingFacts
<1>2. ASSUME NEW e, events' = Append(events, e)
      PROVE  \A k \in DOMAIN events : k \in DOMAIN events' /\ events'[k] = events[k]
  BY <1>1, <1>2, AddedFacts DEF Added
<1> QED
  BY <1>2

LEMMA GoesOnAgrees ==
  ASSUME Agreeing, GoesOn, SeeksFollow', DurationKnown'
  PROVE  Agreement'
<1>1. LaneOrder /\ Told /\ EndTold /\ Follow /\ Bounds /\ IsSeq(events)
  BY AgreeingFacts
<1>2. /\ active'.generation = active.generation /\ active'.entry = active.entry
      /\ active'.muted = active.muted /\ active'.paused = active.paused
      /\ UNCHANGED <<playback, muted, commands>>
  BY DEF GoesOn, SamePlay
<1>3. \A k \in DOMAIN events : k \in DOMAIN events' /\ events'[k] = events[k]
  BY EventsStay DEF GoesOn
<1>4. \A k \in DOMAIN events' :
        k \in DOMAIN events \/ (/\ events'[k].generation = active.generation
                                /\ events'[k].type \in {"Started", "Seeked"})
  <2>1. ASSUME NEW e, events' = Append(events, e), e.generation = active.generation,
               e.type \in {"Started", "Seeked"}
        PROVE  \A k \in DOMAIN events' :
                 k \in DOMAIN events \/ (/\ events'[k].generation = active.generation
                                         /\ events'[k].type \in {"Started", "Seeked"})
    <3>1. Added(events, events', e)
      BY <1>1, <2>1, AddedFacts
    <3> QED
      BY <2>1, <3>1 DEF Added
  <2> QED
    BY <2>1 DEF GoesOn
<1>5. LaneOrder' /\ Told'
  BY <1>1, <1>2, <1>3 DEF LaneOrder, Told, WorkerHasTrack, GenerationsLeft
<1>6. EndTold'
  BY <1>1, <1>2, <1>3, <1>4 DEF EndTold
<1>7. Remains' <=> Remains
  BY <1>2 DEF Remains, Stays, Coming
<1>8. OneStays'
  BY <1>1, <1>2 DEF Follow, OneStays, Stays, Coming
<1>9. StaysShown'
  <2>1. Remains => playback.generation # 0
    BY DEF Remains, Stays
  <2>2. Remains /\ seekLane.generation # playback.generation =>
          seekLane'.generation # playback.generation
    BY <2>1 DEF GoesOn, NoSeek
  <2> QED
    BY <1>1, <1>2, <1>7, <2>2 DEF Follow, StaysShown, WorkerHasTrack
<1>10. GainFollows' /\ PauseFollows'
  BY <1>1, <1>2, <1>7 DEF Follow, GainFollows, SetsGain, PauseFollows, SetsPause, PauseOf,
                          WantsPause
<1>11. DisplayFollows'
  <2>1. Toggles' <=> Toggles
    BY <1>2 DEF Toggles, SetsPause, PauseOf
  <2>2. \A k \in DOMAIN events' : events'[k].type \in {"Paused", "Resumed"} => k \in DOMAIN events
    BY <1>4
  <2> QED
    BY <1>1, <1>2, <1>3, <1>7, <2>1, <2>2 DEF Follow, DisplayFollows, Tells, Mistells
<1> QED
  BY <1>5, <1>6, <1>8, <1>9, <1>10, <1>11 DEF Agreement, Follow

(* A target that is shown is one of the track that the worker has. *)
LEMMA TargetHad ==
  ASSUME Agreeing, Remains, playback.seekTarget # NoTime
  PROVE  /\ ~Coming(playback.generation) /\ active.generation = playback.generation
         /\ playback.generation # 0 /\ SeeksFollow
         /\ playback.seekTarget \in Nat
         /\ DecoderPosition(playback.seekTarget) = playback.seekTarget
<1>1. Follow
  BY AgreeingFacts
<1>2. ~Coming(playback.generation)
  BY <1>1 DEF Follow, StaysShown, Coming
<1>3. active.generation = playback.generation /\ playback.generation # 0
  BY <1>2 DEF Remains, Stays
<1>4. Shown
  BY DEF Agreeing, TypesInv, PlayerTyped, AppInv
<1> QED
  BY <1>1, <1>2, <1>3, <1>4 DEF Follow, Shown, PlaybackStates, Times

LEMMA ContinuesAgrees ==
  ASSUME Agreeing, Continues, UNCHANGED <<playback, muted>>
  PROVE  Agreement'
<1>1. /\ active'.generation = active.generation /\ active'.entry = active.entry
      /\ active'.started = active.started /\ active'.notice = active.notice
      /\ active'.info = active.info /\ active'.base = active.base
      /\ active'.duration = active.duration
      /\ UNCHANGED <<commands, events, seekLane, pendingSeek, playback, muted>>
  BY DEF Continues, SamePlay, SameStart
<1>2. SeeksFollow /\ DurationKnown
  BY AgreeingFacts DEF Follow
<1>3. Remains' <=> Remains
  BY <1>1 DEF Remains, Stays, Coming
<1>4. SeeksFollow' /\ DurationKnown'
  BY <1>1, <1>2, <1>3 DEF SeeksFollow, Arrives, DurationKnown
<1> QED
  BY <1>1, <1>4, GoesOnAgrees DEF GoesOn, Continues

LEMMA ReadiesAgrees ==
  ASSUME Agreeing, Readies, UNCHANGED <<playback, muted>>
  PROVE  Agreement'
<1>1. /\ active'.generation = active.generation /\ active'.entry = active.entry
      /\ active'.started = active.started /\ active'.notice = active.notice
      /\ active'.base = StartOf(active.entry, active.base)
      /\ active'.duration = IF DurationOf[active.entry] # NoTime
                            THEN DurationOf[active.entry] ELSE active.duration
      /\ UNCHANGED <<commands, events, seekLane, pendingSeek, playback, muted>>
      /\ IsActive
  BY DEF Readies, SamePlay
<1>2. SeeksFollow /\ DurationKnown
  BY AgreeingFacts DEF Follow
<1>3. Remains' <=> Remains
  BY <1>1 DEF Remains, Stays, Coming
<1>4. SeeksFollow'
  BY <1>1, <1>2, <1>3 DEF SeeksFollow, Arrives
<1>5. active.duration \in {NoTime, DurationOf[active.entry]}
  BY <1>1, WorkedFacts DEF Agreeing, TypesInv, PlayerTyped, IsTrack
<1>6. DurationKnown'
  BY <1>1, <1>5 DEF DurationKnown
<1> QED
  BY <1>1, <1>4, <1>6, GoesOnAgrees DEF GoesOn, Readies

LEMMA AnnouncesAgrees ==
  ASSUME Agreeing, NEW e, Announces(e), UNCHANGED <<playback, muted>>
  PROVE  Agreement'
<1>1. /\ active'.generation = active.generation /\ active'.entry = active.entry
      /\ active.info /\ active'.duration = active.duration
      /\ events' = Append(events, e) /\ e.generation = active.generation
      /\ IF active.notice = "Started" THEN e.type = "Started"
         ELSE e.type = "Seeked" /\ e.position = active.base
      /\ UNCHANGED <<commands, seekLane, pendingSeek, playback, muted>>
  BY DEF Announces, SamePlay
<1>2. SeeksFollow /\ DurationKnown /\ IsSeq(events)
  BY AgreeingFacts DEF Follow
<1>3. Remains' <=> Remains
  BY <1>1 DEF Remains, Stays, Coming
<1>4. PICK m \in DOMAIN events' :
        /\ events'[m] = e
        /\ \A k \in DOMAIN events : k \in DOMAIN events' /\ events'[k] = events[k]
  BY <1>1, <1>2, AddedFacts DEF Added
<1>5. SeeksFollow'
  <2> SUFFICES ASSUME Remains, playback.seekTarget # NoTime,
                      seekLane.generation # playback.generation,
                      pendingSeek.generation # playback.generation
               PROVE  \E k \in DOMAIN events' : Arrives(events'[k])
    BY <1>1, <1>2, <1>3 DEF SeeksFollow, Arrives
  <2>1. active.generation = playback.generation
    BY TargetHad
  <2>2. CASE \E k \in DOMAIN events : Arrives(events[k])
    BY <1>4, <2>2
  <2>3. CASE ~\E k \in DOMAIN events : Arrives(events[k])
    <3>1. active.notice = "Started" \/ active.base = playback.seekTarget
      BY <1>2, <2>3 DEF SeeksFollow
    <3>2. Arrives(e)
      BY <1>1, <2>1, <3>1 DEF Arrives
    <3> QED
      BY <1>4, <3>2
  <2> QED
    BY <2>2, <2>3
<1>6. DurationKnown'
  BY <1>1, <1>2, <1>3 DEF DurationKnown
<1>7. e.type \in {"Started", "Seeked"}
  BY <1>1
<1> QED
  BY <1>1, <1>5, <1>6, <1>7, GoesOnAgrees DEF GoesOn, Announces

LEMMA RestartsAgrees ==
  ASSUME Agreeing, NEW request, RestartsAt(request), UNCHANGED <<playback, muted>>,
         \/ request = seekLane /\ seekLane' = NoSeek
         \/ request = pendingSeek /\ seekLane' = seekLane
  PROVE  Agreement'
<1> DEFINE target == playback.seekTarget
<1>1. /\ request.generation = active.generation
      /\ active'.generation = active.generation /\ active'.entry = active.entry
      /\ active'.started = FALSE /\ active'.notice = "Seeked" /\ active'.info = FALSE
      /\ active'.base = request.position /\ active'.duration = active.duration
      /\ pendingSeek' = NoSeek
      /\ UNCHANGED <<commands, events, playback, muted>>
      /\ ~ReachesEnd(request.position)
      /\ IsActive
  BY DEF RestartsAt, SamePlay
<1>2. SeeksFollow /\ DurationKnown
  BY AgreeingFacts DEF Follow
<1>3. Remains' <=> Remains
  BY <1>1 DEF Remains, Stays, Coming
<1>4. Remains => playback.generation # 0
  BY DEF Remains, Stays
<1>5. Remains /\ active.generation = playback.generation =>
        active.duration = DurationOf[active.entry]
  BY <1>1, <1>2 DEF DurationKnown
<1>6. DurationKnown'
  BY <1>1, <1>3, <1>5 DEF DurationKnown
<1>7. SeeksFollow'
  <2> SUFFICES ASSUME Remains, target # NoTime, seekLane'.generation # playback.generation
               PROVE  /\ pendingSeek'.generation # playback.generation
                      /\ active'.base = target
                      /\ StartOf(active.entry, target) = target
    BY <1>1, <1>2, <1>3, <1>4 DEF SeeksFollow, NoSeek
  <2>1. /\ active.generation = playback.generation /\ target \in Nat
        /\ DecoderPosition(target) = target
    BY TargetHad
  <2>2. request.position = target
    BY <1>1, <1>2, <2>1 DEF SeeksFollow
  <2>3. StartOf(active.entry, target) = target
    <3> DEFINE d == DurationOf[active.entry]
    <3>1. active.entry \in Entries
      BY <1>1, WorkedFacts DEF Agreeing, TypesInv, PlayerTyped, IsTrack, Actives
    <3>2. d \in Nat \cup {NoTime}
      BY <3>1 DEF Agreeing, Assumptions, PlayerAssumption
    <3>3. active.duration = d
      BY <1>5, <2>1
    <3>4. d # NoTime => ~(target >= d)
      BY <1>1, <2>2, <3>3 DEF ReachesEnd
    <3> HIDE DEF d, target
    <3>5. d # NoTime => Lower(target, d) = target
      BY <2>1, <3>2, <3>4 DEF Lower
    <3> QED
      BY <2>1, <3>5 DEF StartOf, d
  <2> QED
    BY <1>1, <1>4, <2>2, <2>3 DEF NoSeek
<1>8. GoesOn
  BY <1>1 DEF GoesOn, RestartsAt
<1> QED
  BY <1>6, <1>7, <1>8, GoesOnAgrees

LEMMA SeeksAgree ==
  ASSUME Agreeing, Seeks, UNCHANGED <<playback, muted>>
  PROVE  Agreement'
<1>1. SeeksFollow /\ DurationKnown
  BY AgreeingFacts DEF Follow
<1>2. CASE /\ seekLane.generation = active.generation /\ seekLane # NoSeek
           /\ pendingSeek' = seekLane /\ seekLane' = NoSeek
           /\ UNCHANGED <<active, commands, events>>
  <2>1. Remains' <=> Remains
    BY <1>2 DEF Remains, Stays, Coming
  <2>2. SeeksFollow'
    <3> SUFFICES ASSUME Remains, playback.seekTarget # NoTime
                 PROVE  /\ seekLane'.generation # playback.generation
                        /\ pendingSeek'.generation = playback.generation
                        /\ pendingSeek'.position = playback.seekTarget
      BY <2>1 DEF SeeksFollow
    <3>1. active.generation = playback.generation /\ playback.generation # 0
      BY TargetHad
    <3> QED
      BY <1>1, <1>2, <3>1 DEF SeeksFollow, NoSeek
  <2>3. DurationKnown'
    <3>1. Remains => playback.generation # 0
      BY DEF Remains, Stays
    <3> QED
      BY <1>1, <1>2, <2>1, <3>1 DEF DurationKnown, NoSeek
  <2> QED
    BY <1>2, <2>2, <2>3, GoesOnAgrees DEF GoesOn, SamePlay
<1>3. CASE /\ seekLane.generation # active.generation
           /\ seekLane' = NoSeek
           /\ UNCHANGED <<active, commands, events, pendingSeek>>
  <2>1. Remains' <=> Remains
    BY <1>3 DEF Remains, Stays, Coming
  <2>2. SeeksFollow'
    <3> SUFFICES ASSUME Remains, playback.seekTarget # NoTime
                 PROVE  /\ seekLane'.generation # playback.generation
                        /\ seekLane.generation # playback.generation
      BY <1>1, <1>3, <2>1 DEF SeeksFollow, Arrives
    <3>1. active.generation = playback.generation /\ playback.generation # 0
      BY TargetHad
    <3> QED
      BY <1>3, <3>1 DEF NoSeek
  <2>3. DurationKnown'
    <3>1. Remains => playback.generation # 0
      BY DEF Remains, Stays
    <3> QED
      BY <1>1, <1>3, <2>1, <3>1 DEF DurationKnown, NoSeek
  <2> QED
    BY <1>3, <2>2, <2>3, GoesOnAgrees DEF GoesOn, SamePlay
<1>4. CASE /\ pendingSeek.generation # active.generation
           /\ pendingSeek' = NoSeek
           /\ UNCHANGED <<active, commands, events, seekLane>>
  <2>1. Remains' <=> Remains
    BY <1>4 DEF Remains, Stays, Coming
  <2>2. SeeksFollow'
    <3> SUFFICES ASSUME Remains, playback.seekTarget # NoTime
                 PROVE  /\ pendingSeek'.generation # playback.generation
                        /\ pendingSeek.generation # playback.generation
      BY <1>1, <1>4, <2>1 DEF SeeksFollow, Arrives
    <3>1. active.generation = playback.generation /\ playback.generation # 0
      BY TargetHad
    <3> QED
      BY <1>4, <3>1 DEF NoSeek
  <2>3. DurationKnown'
    <3>1. Remains => playback.generation # 0
      BY DEF Remains, Stays
    <3> QED
      BY <1>1, <1>4, <2>1, <3>1 DEF DurationKnown, NoSeek
  <2> QED
    BY <1>4, <2>2, <2>3, GoesOnAgrees DEF GoesOn, SamePlay
<1>5. CASE RestartsAt(seekLane) /\ pendingSeek = NoSeek /\ seekLane' = NoSeek
  BY <1>5, RestartsAgrees
<1>6. CASE RestartsAt(pendingSeek) /\ seekLane' = seekLane
  BY <1>6, RestartsAgrees
<1> QED
  BY <1>2, <1>3, <1>4, <1>5, <1>6 DEF Seeks

(* The lane, or what is left of it once its head is received. *)
Lane == commands' = commands \/ \E c : Receiving(c)

LEMMA LaneRest ==
  ASSUME Agreeing, Lane
  PROVE  /\ \A i \in DOMAIN commands' : \E j \in DOMAIN commands : commands'[i] = commands[j]
         /\ Remains =>
              \A i \in DOMAIN commands' :
                /\ SetsGain(commands'[i]) /\ commands'[i].muted # muted =>
                     \E j \in DOMAIN commands' :
                       j > i /\ SetsGain(commands'[j]) /\ commands'[j].muted = muted
                /\ SetsPause(commands'[i]) /\ ~(PauseOf(commands'[i]) <=> WantsPause) =>
                     \E j \in DOMAIN commands' :
                       j > i /\ SetsPause(commands'[j]) /\ (PauseOf(commands'[j]) <=> WantsPause)
<1>1. Follow
  BY AgreeingFacts
<1>2. CASE commands' = commands
  BY <1>1, <1>2 DEF Follow, GainFollows, PauseFollows
<1>3. ASSUME NEW c, Receiving(c)
      PROVE  /\ DOMAIN commands \subseteq Nat \ {0} /\ DOMAIN commands' \subseteq Nat \ {0}
             /\ \A i \in DOMAIN commands' :
                  i + 1 \in DOMAIN commands /\ commands'[i] = commands[i + 1]
             /\ \A i \in DOMAIN commands :
                  i = 1 \/ (i > 1 /\ i - 1 \in DOMAIN commands' /\ commands'[i - 1] = commands[i])
  BY <1>3, ReceivingFacts
<1>4. ASSUME NEW c, Receiving(c), NEW i \in DOMAIN commands', Remains
      PROVE  /\ SetsGain(commands'[i]) /\ commands'[i].muted # muted =>
                  \E j \in DOMAIN commands' :
                    j > i /\ SetsGain(commands'[j]) /\ commands'[j].muted = muted
             /\ SetsPause(commands'[i]) /\ ~(PauseOf(commands'[i]) <=> WantsPause) =>
                  \E j \in DOMAIN commands' :
                    j > i /\ SetsPause(commands'[j]) /\ (PauseOf(commands'[j]) <=> WantsPause)
  <2>1. /\ i + 1 \in DOMAIN commands /\ commands'[i] = commands[i + 1] /\ i \in Nat \ {0}
        /\ \A j \in DOMAIN commands : j > i + 1 =>
             j - 1 \in DOMAIN commands' /\ commands'[j - 1] = commands[j] /\ j - 1 > i
    BY <1>3, <1>4
  <2>2. ASSUME SetsGain(commands'[i]), commands'[i].muted # muted
        PROVE  \E j \in DOMAIN commands' :
                 j > i /\ SetsGain(commands'[j]) /\ commands'[j].muted = muted
    <3>1. PICK j \in DOMAIN commands :
            j > i + 1 /\ SetsGain(commands[j]) /\ commands[j].muted = muted
      BY <1>1, <1>4, <2>1, <2>2 DEF Follow, GainFollows
    <3> QED
      BY <2>1, <3>1
  <2>3. ASSUME SetsPause(commands'[i]), ~(PauseOf(commands'[i]) <=> WantsPause)
        PROVE  \E j \in DOMAIN commands' :
                 j > i /\ SetsPause(commands'[j]) /\ (PauseOf(commands'[j]) <=> WantsPause)
    <3>1. PICK j \in DOMAIN commands :
            j > i + 1 /\ SetsPause(commands[j]) /\ (PauseOf(commands[j]) <=> WantsPause)
      BY <1>1, <1>4, <2>1, <2>3 DEF Follow, PauseFollows
    <3> QED
      BY <2>1, <3>1
  <2> QED
    BY <2>2, <2>3
<1> QED
  BY <1>2, <1>3, <1>4 DEF Lane

(* Without a track, only what a load in the lane brings stays. *)
LEMMA LostAgrees ==
  ASSUME Agreeing, Lane, active' = NoActive, seekLane' \in {seekLane, NoSeek},
         UNCHANGED <<playback, muted>>, \A h \in Nat : Stays(h)' => Stays(h),
         LaneOrder', Told', EndTold'
  PROVE  Agreement'
<1>1. Follow /\ playback.generation \in Nat
  BY AgreeingFacts DEF Bounds
<1>2. /\ \A i \in DOMAIN commands' : \E j \in DOMAIN commands : commands'[i] = commands[j]
      /\ Remains =>
           \A i \in DOMAIN commands' :
             /\ SetsGain(commands'[i]) /\ commands'[i].muted # muted =>
                  \E j \in DOMAIN commands' :
                    j > i /\ SetsGain(commands'[j]) /\ commands'[j].muted = muted
             /\ SetsPause(commands'[i]) /\ ~(PauseOf(commands'[i]) <=> WantsPause) =>
                  \E j \in DOMAIN commands' :
                    j > i /\ SetsPause(commands'[j]) /\ (PauseOf(commands'[j]) <=> WantsPause)
  BY LaneRest
<1>3. active'.generation = 0 /\ playback' = playback /\ muted' = muted
  BY DEF NoActive
<1>4. OneStays'
  BY <1>1, <1>3 DEF Follow, OneStays
<1>5. Remains' => Remains /\ playback.generation # 0
  BY <1>1, <1>3 DEF Remains, Stays, Coming
<1>6. Remains' => Coming(playback.generation)
  BY <1>1, <1>2, <1>3 DEF Remains, Stays, Coming
<1>7. Remains' => playback.seekTarget = NoTime /\ seekLane.generation # playback.generation
  BY <1>1, <1>5, <1>6 DEF Follow, StaysShown, Coming
<1>8. StaysShown'
  <2>1. Remains' => seekLane'.generation # playback.generation
    BY <1>5, <1>7 DEF NoSeek
  <2> QED
    BY <1>1, <1>2, <1>3, <1>5, <2>1 DEF Follow, StaysShown, WorkerHasTrack
<1>9. GainFollows' /\ PauseFollows'
  BY <1>2, <1>3, <1>5 DEF GainFollows, SetsGain, PauseFollows, SetsPause, PauseOf, WantsPause
<1>10. DisplayFollows' /\ SeeksFollow' /\ DurationKnown'
  BY <1>3, <1>5, <1>7 DEF DisplayFollows, SeeksFollow, DurationKnown
<1> QED
  BY <1>4, <1>8, <1>9, <1>10 DEF Agreement, Follow

(* The track ends by itself, or by a command that is not a load. *)
LEMMA DropsAgrees ==
  ASSUME Agreeing, NEW e, Drops(e), UNCHANGED <<playback, muted>>,
         seekLane' \in {seekLane, NoSeek},
         commands' = commands \/ \E c : Receiving(c) /\ ~Loads(c)
  PROVE  Agreement'
<1>1. LaneOrder /\ Told /\ EndTold /\ Bounds /\ IsSeq(events)
  BY AgreeingFacts
<1>2. /\ active' = NoActive /\ active'.generation = 0 /\ active.generation # 0
      /\ events' = Append(events, e) /\ Ends(e) /\ e.generation = active.generation
  BY DEF Drops, NoActive, IsActive
<1>3. PICK m \in DOMAIN events' :
        /\ events'[m] = e
        /\ \A k \in DOMAIN events : k \in DOMAIN events' /\ events'[k] = events[k] /\ k < m
        /\ \A k \in DOMAIN events' : k \in DOMAIN events \/ k = m
  BY <1>1, <1>2, AddedFacts DEF Added
<1>4. EndTold'
  BY <1>1, <1>2, <1>3 DEF EndTold
<1>5. LaneOrder' /\ \A h \in Nat : Stays(h)' => Stays(h)
  <2>1. CASE commands' = commands
    BY <1>1, <1>2, <2>1 DEF LaneOrder, Stays, Coming
  <2>2. ASSUME NEW c, Receiving(c) PROVE LaneOrder' /\ \A h \in Nat : Stays(h)' => Stays(h)
    BY <1>2, <2>2, ReceivingKeeps
  <2> QED
    BY <2>1, <2>2
<1>6. \A i \in DOMAIN commands : Loads(commands[i]) =>
        \E j \in DOMAIN commands' : commands'[j] = commands[i]
  <2>1. CASE commands' = commands
    BY <2>1
  <2>2. ASSUME NEW c, Receiving(c), ~Loads(c), NEW i \in DOMAIN commands, Loads(commands[i])
        PROVE  \E j \in DOMAIN commands' : commands'[j] = commands[i]
    BY <2>2, ReceivingFacts
  <2> QED
    BY <2>1, <2>2
<1>7. Told'
  BY <1>1, <1>2, <1>3, <1>6 DEF Told, WorkerHasTrack, GenerationsLeft
<1> QED
  BY <1>2, <1>4, <1>5, <1>7, LostAgrees DEF Lane

(* A load of a file that cannot be opened, or that fails. *)
LEMMA FailsAgrees ==
  ASSUME Agreeing, NEW c, Receiving(c), NEW e, FailsIt(c, e), seekLane' = seekLane,
         UNCHANGED <<playback, muted>>
  PROVE  Agreement'
<1>1. LaneOrder /\ Told /\ EndTold /\ Bounds /\ IsSeq(events)
  BY AgreeingFacts
<1>2. /\ active' = NoActive /\ active'.generation = 0
      /\ events' = Append(events, e) /\ Ends(e) /\ e.generation = c.generation /\ Loads(c)
  BY DEF FailsIt, NoActive
<1>3. PICK m \in DOMAIN events' :
        /\ events'[m] = e
        /\ \A k \in DOMAIN events : k \in DOMAIN events' /\ events'[k] = events[k] /\ k < m
        /\ \A k \in DOMAIN events' : k \in DOMAIN events \/ k = m
  BY <1>1, <1>2, AddedFacts DEF Added
<1>4. /\ c = commands[1] /\ 1 \in DOMAIN commands
      /\ \A i \in DOMAIN commands :
           i = 1 \/ (i > 1 /\ i - 1 \in DOMAIN commands' /\ commands'[i - 1] = commands[i])
      /\ c.generation \in 1 .. playback.generation
  BY ReceivingFacts
<1>5. /\ active.generation # playback.generation
      /\ \A k \in DOMAIN events : events[k].generation # playback.generation
  BY <1>1, <1>2, <1>4 DEF Bounds
<1>6. EndTold'
  BY <1>2, <1>3, <1>5 DEF EndTold
<1>7. Told'
  BY <1>1, <1>2, <1>3, <1>4, <1>5 DEF Told, WorkerHasTrack, GenerationsLeft
<1>8. LaneOrder' /\ \A h \in Nat : Stays(h)' => Stays(h)
  BY <1>2, ReceivingKeeps
<1> QED
  BY <1>2, <1>6, <1>7, <1>8, LostAgrees DEF Lane

LEMMA LoadsAgrees ==
  ASSUME Agreeing, NEW c, Receiving(c), LoadsIt(c), seekLane' = seekLane,
         UNCHANGED <<playback, muted>>
  PROVE  Agreement'
<1>1. LaneOrder /\ Told /\ EndTold /\ Follow /\ Bounds
  BY AgreeingFacts
<1>2. /\ c.type = "Play" /\ Loads(c)
      /\ active'.generation = c.generation /\ active'.entry = c.entry
      /\ active'.muted = c.muted /\ active'.paused = c.paused
      /\ active'.started = FALSE /\ active'.notice = "Started" /\ active'.info = FALSE
      /\ pendingSeek' = NoSeek /\ events' = events
      /\ UNCHANGED <<playback, muted, seekLane>>
  BY DEF LoadsIt, Loads
<1>3. /\ c = commands[1] /\ 1 \in DOMAIN commands
      /\ DOMAIN commands \subseteq Nat \ {0} /\ DOMAIN commands' \subseteq Nat \ {0}
      /\ \A i \in DOMAIN commands' : i + 1 \in DOMAIN commands /\ commands'[i] = commands[i + 1]
      /\ \A i \in DOMAIN commands :
           i = 1 \/ (i > 1 /\ i - 1 \in DOMAIN commands' /\ commands'[i - 1] = commands[i])
      /\ c.generation \in 1 .. playback.generation
  BY ReceivingFacts
<1>4. /\ active.generation # playback.generation
      /\ \A k \in DOMAIN events : events[k].generation # playback.generation
      /\ playback.generation \in Nat
  BY <1>1, <1>2, <1>3 DEF Bounds
<1>5. EndTold'
  BY <1>2, <1>4 DEF EndTold
<1>6. Told'
  BY <1>1, <1>2, <1>3, <1>4 DEF Told, WorkerHasTrack, GenerationsLeft
<1>7. LaneOrder' /\ \A h \in Nat : Stays(h)' => Stays(h)
  BY <1>2, ReceivingKeeps
<1>8. OneStays'
  BY <1>1, <1>2, <1>7 DEF Follow, OneStays
<1>9. Remains' => Remains /\ playback.generation # 0
  BY <1>2, <1>4, <1>7 DEF Remains, Stays, Coming
<1>10. Remains => Coming(playback.generation)
  BY <1>4 DEF Remains, Stays
<1>11. Remains => /\ playback.seekTarget = NoTime /\ seekLane.generation # playback.generation
                  /\ playback.status = "Loading"
                  /\ c.generation = playback.generation => c.entry = playback.current.entry
  BY <1>1, <1>2, <1>3, <1>10 DEF Follow, StaysShown, Coming
<1>12. StaysShown'
  BY <1>1, <1>2, <1>3, <1>9, <1>11 DEF Follow, StaysShown, WorkerHasTrack
<1>13. Remains =>
         \A i \in DOMAIN commands' :
           /\ SetsGain(commands'[i]) /\ commands'[i].muted # muted =>
                \E j \in DOMAIN commands' :
                  j > i /\ SetsGain(commands'[j]) /\ commands'[j].muted = muted
           /\ SetsPause(commands'[i]) /\ ~(PauseOf(commands'[i]) <=> WantsPause) =>
                \E j \in DOMAIN commands' :
                  j > i /\ SetsPause(commands'[j]) /\ (PauseOf(commands'[j]) <=> WantsPause)
  BY LaneRest DEF Lane
<1>14. GainFollows'
  <2>1. ASSUME Remains, c.generation = playback.generation, c.muted # muted
        PROVE  \E j \in DOMAIN commands' : SetsGain(commands'[j]) /\ commands'[j].muted = muted
    <3>1. SetsGain(commands[1])
      BY <1>2, <1>3, <2>1 DEF SetsGain
    <3>2. PICK j \in DOMAIN commands : j > 1 /\ SetsGain(commands[j]) /\ commands[j].muted = muted
      BY <1>1, <1>3, <2>1, <3>1 DEF Follow, GainFollows
    <3> QED
      BY <1>3, <3>2
  <2> QED
    BY <1>2, <1>9, <1>13, <2>1 DEF GainFollows, SetsGain
<1>15. PauseFollows'
  <2>1. ASSUME Remains, c.generation = playback.generation, ~(c.paused <=> WantsPause)
        PROVE  \E j \in DOMAIN commands' :
                 SetsPause(commands'[j]) /\ (PauseOf(commands'[j]) <=> WantsPause)
    <3>1. SetsPause(commands[1]) /\ ~(PauseOf(commands[1]) <=> WantsPause)
      BY <1>2, <1>3, <2>1 DEF SetsPause, PauseOf
    <3>2. PICK j \in DOMAIN commands :
            j > 1 /\ SetsPause(commands[j]) /\ (PauseOf(commands[j]) <=> WantsPause)
      BY <1>1, <1>3, <2>1, <3>1 DEF Follow, PauseFollows
    <3> QED
      BY <1>3, <3>2
  <2> QED
    BY <1>2, <1>9, <1>13, <2>1 DEF PauseFollows, SetsPause, PauseOf, WantsPause
<1>16. DisplayFollows'
  BY <1>2, <1>4, <1>9, <1>11 DEF DisplayFollows, Mistells
<1>17. SeeksFollow' /\ DurationKnown'
  BY <1>2, <1>4, <1>9, <1>11 DEF SeeksFollow, DurationKnown, NoSeek
<1> QED
  BY <1>5, <1>6, <1>7, <1>8, <1>12, <1>14, <1>15, <1>16, <1>17 DEF Agreement, Follow

LEMMA ObeysAgrees ==
  ASSUME Agreeing, NEW c, Receiving(c), Obeys(c), seekLane' = seekLane,
         UNCHANGED <<playback, muted>>
  PROVE  Agreement'
<1>1. LaneOrder /\ Told /\ EndTold /\ Follow /\ Bounds /\ IsSeq(events)
  BY AgreeingFacts
<1>2. /\ ~Loads(c) /\ c.type # "Play"
      /\ ~(c.type = "Stop" /\ Matches(c.generation))
      /\ active'.generation = active.generation /\ active'.entry = active.entry
      /\ active'.started = active.started /\ active'.notice = active.notice
      /\ active'.info = active.info /\ active'.base = active.base
      /\ active'.duration = active.duration
      /\ UNCHANGED <<playback, muted, seekLane, pendingSeek>>
  BY DEF Obeys, Loads, SameStart
<1>3. /\ c = commands[1] /\ 1 \in DOMAIN commands
      /\ DOMAIN commands \subseteq Nat \ {0} /\ DOMAIN commands' \subseteq Nat \ {0}
      /\ \A i \in DOMAIN commands' : i + 1 \in DOMAIN commands /\ commands'[i] = commands[i + 1]
      /\ \A i \in DOMAIN commands :
           i = 1 \/ (i > 1 /\ i - 1 \in DOMAIN commands' /\ commands'[i - 1] = commands[i])
      /\ c.generation \in 1 .. playback.generation
  BY ReceivingFacts
<1>4. /\ \A k \in DOMAIN events : k \in DOMAIN events' /\ events'[k] = events[k]
      /\ \/ events' = events /\ active'.paused = active.paused
         \/ \E m \in DOMAIN events' :
              /\ events'[m].generation = active.generation
              /\ events'[m].type = IF active'.paused THEN "Paused" ELSE "Resumed"
              /\ \A k \in DOMAIN events : k < m
              /\ \A k \in DOMAIN events' : k \in DOMAIN events \/ k = m
  <2>1. CASE events' = events /\ active'.paused = active.paused
    BY <2>1
  <2>2. CASE events' = Append(events, [type |-> IF active'.paused THEN "Paused" ELSE "Resumed",
                                       generation |-> active.generation])
    <3> DEFINE e == [type |-> IF active'.paused THEN "Paused" ELSE "Resumed",
                     generation |-> active.generation]
    <3>1. /\ e.type = IF active'.paused THEN "Paused" ELSE "Resumed"
          /\ e.generation = active.generation
          /\ events' = Append(events, e)
      BY <2>2
    <3> HIDE DEF e
    <3>2. Added(events, events', e)
      BY <1>1, <3>1, AddedFacts
    <3> QED
      BY <3>1, <3>2 DEF Added
  <2> QED
    BY <2>1, <2>2 DEF Obeys
<1>5. EndTold'
  BY <1>1, <1>2, <1>4 DEF EndTold
<1>6. Told'
  BY <1>1, <1>2, <1>3, <1>4 DEF Told, WorkerHasTrack, GenerationsLeft
<1>7. LaneOrder' /\ \A h \in Nat : Stays(h)' => Stays(h)
  <2>1. ~(c.type = "Stop" /\ c.generation = active.generation)
    BY <1>2, <1>3 DEF Matches, IsActive
  <2> QED
    BY <1>2, <2>1, ReceivingKeeps
<1>8. playback.generation \in Nat
  BY <1>1 DEF Bounds
<1>9. OneStays'
  BY <1>1, <1>2, <1>7 DEF Follow, OneStays
<1>10. Remains' => Remains /\ playback.generation # 0
  BY <1>2, <1>7, <1>8 DEF Remains, Stays, Coming
<1>11. StaysShown'
  BY <1>1, <1>2, <1>3, <1>10 DEF Follow, StaysShown, WorkerHasTrack
<1>12. Remains =>
         \A i \in DOMAIN commands' :
           /\ SetsGain(commands'[i]) /\ commands'[i].muted # muted =>
                \E j \in DOMAIN commands' :
                  j > i /\ SetsGain(commands'[j]) /\ commands'[j].muted = muted
           /\ SetsPause(commands'[i]) /\ ~(PauseOf(commands'[i]) <=> WantsPause) =>
                \E j \in DOMAIN commands' :
                  j > i /\ SetsPause(commands'[j]) /\ (PauseOf(commands'[j]) <=> WantsPause)
  BY LaneRest DEF Lane
<1>13. active.generation = playback.generation /\ playback.generation # 0 =>
         /\ active'.muted = IF SetsGain(c) THEN c.muted ELSE active.muted
         /\ active'.paused = IF SetsPause(c) THEN PauseOf(c) ELSE active.paused
  BY <1>2 DEF Obeys, Matches, IsActive, SetsGain, SetsPause, PauseOf
<1>14. GainFollows'
  <2>1. ASSUME Remains, playback.generation # 0, active.generation = playback.generation,
               active'.muted # muted
        PROVE  \E j \in DOMAIN commands' : SetsGain(commands'[j]) /\ commands'[j].muted = muted
    <3>1. CASE SetsGain(c)
      <4>1. PICK j \in DOMAIN commands : j > 1 /\ SetsGain(commands[j]) /\ commands[j].muted = muted
        BY <1>1, <1>3, <1>13, <2>1, <3>1 DEF Follow, GainFollows
      <4> QED
        BY <1>3, <4>1
    <3>2. CASE ~SetsGain(c)
      <4>1. PICK j \in DOMAIN commands : SetsGain(commands[j]) /\ commands[j].muted = muted
        BY <1>1, <1>13, <2>1, <3>2 DEF Follow, GainFollows
      <4> QED
        BY <1>3, <3>2, <4>1
    <3> QED
      BY <3>1, <3>2
  <2> QED
    BY <1>2, <1>10, <1>12, <2>1 DEF GainFollows, SetsGain
<1>15. PauseFollows'
  <2>1. ASSUME Remains, playback.generation # 0, active.generation = playback.generation,
               ~(active'.paused <=> WantsPause)
        PROVE  \E j \in DOMAIN commands' :
                 SetsPause(commands'[j]) /\ (PauseOf(commands'[j]) <=> WantsPause)
    <3>1. CASE SetsPause(c)
      <4>1. ~(PauseOf(c) <=> WantsPause)
        BY <1>13, <2>1, <3>1
      <4>2. PICK j \in DOMAIN commands :
              j > 1 /\ SetsPause(commands[j]) /\ (PauseOf(commands[j]) <=> WantsPause)
        BY <1>1, <1>3, <2>1, <3>1, <4>1 DEF Follow, PauseFollows
      <4> QED
        BY <1>3, <4>2
    <3>2. CASE ~SetsPause(c)
      <4>1. ~(active.paused <=> WantsPause)
        BY <1>13, <2>1, <3>2
      <4>2. PICK j \in DOMAIN commands :
              SetsPause(commands[j]) /\ (PauseOf(commands[j]) <=> WantsPause)
        BY <1>1, <2>1, <4>1 DEF Follow, PauseFollows
      <4> QED
        BY <1>3, <3>2, <4>2
    <3> QED
      BY <3>1, <3>2
  <2> QED
    BY <1>2, <1>10, <1>12, <2>1 DEF PauseFollows, SetsPause, PauseOf, WantsPause
<1>16. DisplayFollows'
  <2> DEFINE Corrects == \E i \in DOMAIN commands' :
               SetsPause(commands'[i]) /\ ~(PauseOf(commands'[i]) <=> active'.paused)
             Right(e) == /\ e.generation = playback.generation
                         /\ e.type \in {"Started", IF active'.paused THEN "Paused" ELSE "Resumed"}
             Wrong(e) == /\ e.generation = playback.generation
                         /\ e.type = IF active'.paused THEN "Resumed" ELSE "Paused"
  <2> SUFFICES ASSUME Remains, playback.generation # 0, active.generation = playback.generation,
                      ~Corrects
               PROVE  /\ playback.status = (IF active'.paused THEN "Playing" ELSE "Paused") =>
                           \E k \in DOMAIN events' : Right(events'[k])
                      /\ \A k \in DOMAIN events' : Wrong(events'[k]) =>
                           \E l \in DOMAIN events' : l > k /\ Right(events'[l])
    BY <1>2, <1>10 DEF DisplayFollows, Toggles, SetsPause, PauseOf, Tells, Mistells
  <2>1. CASE events' = events /\ active'.paused = active.paused
    <3>1. ASSUME Toggles PROVE FALSE
      <4>1. PICK i \in DOMAIN commands :
              SetsPause(commands[i]) /\ ~(PauseOf(commands[i]) <=> active.paused)
        BY <3>1 DEF Toggles
      <4>2. i = 1
        BY <1>3, <2>1, <4>1
      <4> QED
        BY <1>3, <1>13, <2>1, <4>1, <4>2
    <3> QED
      BY <1>1, <2>1, <3>1 DEF Follow, DisplayFollows, Tells, Mistells
  <2>2. ASSUME NEW m \in DOMAIN events',
               /\ events'[m].generation = active.generation
               /\ events'[m].type = IF active'.paused THEN "Paused" ELSE "Resumed"
               /\ \A k \in DOMAIN events : k < m
               /\ \A k \in DOMAIN events' : k \in DOMAIN events \/ k = m
        PROVE  /\ playback.status = (IF active'.paused THEN "Playing" ELSE "Paused") =>
                    \E k \in DOMAIN events' : Right(events'[k])
               /\ \A k \in DOMAIN events' : Wrong(events'[k]) =>
                    \E l \in DOMAIN events' : l > k /\ Right(events'[l])
    <3>1. Right(events'[m]) /\ ~Wrong(events'[m])
      BY <2>2
    <3> QED
      BY <2>2, <3>1
  <2> QED
    BY <1>4, <2>1, <2>2
<1>17. SeeksFollow'
  BY <1>1, <1>2, <1>4, <1>10 DEF Follow, SeeksFollow, Arrives
<1>18. DurationKnown'
  <2>1. \A k \in DOMAIN events' : events'[k].type = "Started" =>
          k \in DOMAIN events /\ events'[k] = events[k]
    BY <1>4
  <2> QED
    BY <1>1, <1>2, <1>10, <2>1 DEF Follow, DurationKnown
<1> QED
  BY <1>5, <1>6, <1>7, <1>9, <1>11, <1>14, <1>15, <1>16, <1>17, <1>18 DEF Agreement, Follow

LEMMA ReceivesAgrees ==
  ASSUME Agreeing, NEW c, c = Head(commands), Receives(c), UNCHANGED <<playback, muted>>
  PROVE  Agreement'
<1>1. Receiving(c) /\ seekLane' = seekLane
  BY DEF Receives, Receiving
<1>2. \A e : FailsIt(c, e) => Agreement'
  BY <1>1, FailsAgrees
<1>3. ~Loads(c) => \A e : Drops(e) => Agreement'
  BY <1>1, DropsAgrees
<1> QED
  BY <1>1, <1>2, <1>3, LoadsAgrees, ObeysAgrees DEF Receives

LEMMA WorksAgree ==
  ASSUME Agreeing, Works, UNCHANGED <<playback, muted>>
  PROVE  Agreement'
<1>1. \A e : Announces(e) => Agreement'
  BY AnnouncesAgrees
<1>2. commands' = commands /\ seekLane' \in {seekLane, NoSeek} => \A e : Drops(e) => Agreement'
  BY DropsAgrees
<1>3. Receives(Head(commands)) => Agreement'
  BY ReceivesAgrees
<1> QED
  BY <1>1, <1>2, <1>3, ContinuesAgrees, ReadiesAgrees, SeeksAgree DEF Works

(* With its lanes open the worker does not exit. *)
LEMMA WorkerGoesOn ==
  ASSUME Assumptions, TypesInv, OpenInv, WorkerStep, commandsOpen'
  PROVE  Agreeing /\ Works /\ UNCHANGED <<playback, muted>>
<1>1. UNCHANGED <<playback, muted>> /\ WorkerNext
  BY DEF WorkerStep, appVars
<1>2. Working /\ EndInv
  BY DEF Working, TypesInv, PlayerTyped
<1>3. (Works \/ Exits) /\ commandsOpen' = commandsOpen
  BY <1>1, <1>2, WorkerWorks
<1>4. Agreeing /\ commandsOpen
  BY <1>3 DEF Agreeing, OpenInv
<1>5. LaneOrder /\ IsSeq(commands)
  BY <1>4, AgreeingFacts
<1>6. commands # <<>> => Head(commands) = commands[1] /\ 1 \in DOMAIN commands
  BY <1>5, TailOfLane
<1>7. ~Exits
  BY <1>4, <1>5, <1>6 DEF Exits, LaneOrder
<1> QED
  BY <1>1, <1>3, <1>4, <1>7

LEMMA NextAgrees == Assumptions /\ TypesInv /\ OpenInv /\ [Next]_vars => OpenInv'
<1> SUFFICES ASSUME Assumptions, TypesInv, OpenInv, [Next]_vars, commandsOpen'
             PROVE  Agreement'
  BY DEF OpenInv
<1>1. CASE EventLoop \/ TakeInput \/ Quit \/ UNCHANGED vars
  <2>1. LoopKeeps
    BY <1>1, LoopStepKeeps
  <2>2. Agreeing /\ Shown'
    BY <2>1 DEF LoopKeeps, OpenInv, Agreeing, PlayerTyped, AppInv
  <2>3. \/ Moves /\ UNCHANGED <<commandsOpen, events, active, pendingSeek>>
        \/ /\ Taking(Head(events)) /\ Takes(Head(events))
           /\ UNCHANGED <<active, pendingSeek>>
    BY <2>1 DEF LoopKeeps, LoopShape, Taking
  <2> QED
    BY <2>2, <2>3, MovesAgree, TakesAgree
<1>2. CASE WorkerStep
  BY <1>2, WorkerGoesOn, WorksAgree
<1> QED
  BY <1>1, <1>2 DEF Next

LEMMA AgreementHolds == Spec => []OpenInv
<1>1. TypesInv /\ OpenInv /\ [Next]_vars => OpenInv'
  BY Assumed, NextAgrees
<1> QED
  BY <1>1, InitAgrees, PlayerTypesHold, PTL DEF Spec

LEMMA QuietAgrees == TypesInv /\ OpenInv => QuietAgreement
<1> SUFFICES ASSUME TypesInv, OpenInv, Quiet, GenerationsLeft
             PROVE  /\ WorkerHasTrack <=> IsActive
                    /\ WorkerHasTrack =>
                         /\ active.generation = playback.generation
                         /\ active.entry = playback.current.entry
                         /\ active.muted = muted
                         /\ playback.request # "Stop"
                         /\ active.paused = (playback.request = "Pause")
                         /\ playback.status = "Paused" => active.paused
                         /\ playback.status = "Playing" => ~active.paused
                    /\ seekLane = NoSeek /\ pendingSeek = NoSeek /\ (IsActive => active.started)
                         => playback.seekTarget = NoTime
  BY DEF QuietAgreement, WorkerHasTrack, IsActive
<1>1. Agreeing
  BY Assumed DEF Agreeing, OpenInv, Quiet
<1>2. DOMAIN commands = {} /\ DOMAIN events = {}
  BY EmptyLane DEF Quiet
<1>3. /\ Bounds /\ Told /\ Follow
      /\ WorkerHasTrack <=> playback.status \in HasTrackStatus
  BY <1>1, AgreeingFacts
<1>4. WorkerHasTrack => active.generation = playback.generation /\ playback.generation # 0
  BY <1>2, <1>3 DEF Told, Bounds
<1>5. IsActive => active.generation = playback.generation /\ Remains
  <2>1. IsActive => Stays(active.generation) /\ active.generation \in Nat
    BY <1>2, <1>3 DEF Stays, IsActive, Bounds
  <2> QED
    BY <1>3, <2>1 DEF Follow, OneStays, Remains
<1>6. WorkerHasTrack <=> IsActive
  BY <1>3, <1>4, <1>5 DEF IsActive, Follow, StaysShown
<1>7. ASSUME WorkerHasTrack
      PROVE  /\ active.generation = playback.generation
             /\ active.entry = playback.current.entry
             /\ active.muted = muted
             /\ playback.request # "Stop"
             /\ active.paused <=> (playback.request = "Pause")
             /\ playback.status = "Paused" => active.paused
             /\ playback.status = "Playing" => ~active.paused
  <2>1. Remains /\ active.generation = playback.generation
    BY <1>4, <1>5, <1>6, <1>7
  <2>2. active.entry = playback.current.entry /\ playback.request # "Stop"
    BY <1>3, <2>1 DEF Follow, StaysShown
  <2>3. active.muted = muted
    BY <1>2, <1>3, <2>1 DEF Follow, GainFollows
  <2>4. active.paused <=> (playback.request = "Pause")
    BY <1>2, <1>3, <2>1 DEF Follow, PauseFollows, WantsPause
  <2>5. playback.status # (IF active.paused THEN "Playing" ELSE "Paused")
    BY <1>2, <1>3, <2>1 DEF Follow, DisplayFollows, Toggles
  <2> QED
    BY <2>1, <2>2, <2>3, <2>4, <2>5
<1>8. WorkerHasTrack => active.paused \in BOOLEAN
  BY <1>6, WorkedFacts DEF TypesInv, PlayerTyped, IsTrack, Actives
<1>9. ASSUME seekLane = NoSeek, pendingSeek = NoSeek, IsActive => active.started
      PROVE  playback.seekTarget = NoTime
  <2> SUFFICES ASSUME playback.seekTarget # NoTime PROVE FALSE
    OBVIOUS
  <2>1. Shown
    BY DEF TypesInv, PlayerTyped, AppInv
  <2>2. WorkerHasTrack /\ Remains /\ IsActive
    BY <1>3, <1>5, <1>6, <2>1 DEF Shown
  <2>3. seekLane.generation = 0 /\ pendingSeek.generation = 0
    BY <1>9 DEF NoSeek
  <2>4. playback.generation # 0
    BY <2>2, <1>4
  <2> QED
    BY <1>2, <1>3, <1>9, <2>2, <2>3, <2>4 DEF Follow, SeeksFollow
<1> QED
  BY <1>6, <1>7, <1>8, <1>9

(* Once nothing is in flight, display and worker agree: `audio_event' and the
   controls of src/src/app/playback.rs never lose or misapply a command, an
   event or a seek, whatever they interleave with and whatever fails. *)
THEOREM DisplayAndWorkerAgree == Spec => []QuietAgreement
BY QuietAgrees, AgreementHolds, PlayerTypesHold, PTL

-----------------------------------------------------------------------------
(* The listener. *)

(* Nothing more comes of the generation on display. *)
Dead ==
  /\ active.generation # playback.generation
  /\ \A i \in DOMAIN commands :
       Loads(commands[i]) => commands[i].generation # playback.generation
  /\ \A k \in DOMAIN events : events[k].generation # playback.generation

Obeyed ==
  /\ asked = "Play" => playback.request # "Pause"
  /\ asked = "Pause" => IF WorkerHasTrack THEN WantsPause ELSE Dead

ObeyedOpen == commandsOpen /\ GenerationsLeft => Obeyed

LEMMA DeadKept ==
  ASSUME Agreeing, Dead, UNCHANGED <<commands, events, active>>,
         playback'.generation \in {playback.generation, playback.generation + 1}
  PROVE  Dead'
<1>1. /\ playback.generation \in Nat /\ active.generation \in 0 .. playback.generation
      /\ \A i \in DOMAIN commands :
           Loads(commands[i]) => commands[i].generation \in 1 .. playback.generation
      /\ \A k \in DOMAIN events : events[k].generation \in 1 .. playback.generation
  BY AgreeingFacts DEF Bounds
<1> QED
  BY <1>1 DEF Dead

LEMMA StartShown ==
  ASSUME NEW paused \in BOOLEAN, Starts(paused), Shown' PROVE WorkerHasTrack'
BY DEF Starts, Shown, WorkerHasTrack, HasTrackStatus

LEMMA SameObeys ==
  ASSUME Obeyed, Same, asked' = asked, UNCHANGED <<events, active>>
  PROVE  Obeyed'
BY DEF Obeyed, Same, SameTrack, WorkerHasTrack, WantsPause, Dead

(* The controls other than play and pause: a track that starts is as paused as
   the last one, and one that leaves is one that nothing more comes of. *)
LEMMA FollowsObeys ==
  ASSUME Agreeing, Obeyed, Follows, Shown', UNCHANGED <<events, active>>,
         asked' = IF playback'.request = "Stop" THEN "Stop" ELSE asked
  PROVE  Obeyed'
<1> SUFFICES ASSUME playback'.request # "Stop", asked' = asked PROVE Obeyed'
  BY DEF Obeyed
<1>1. CASE Starts(playback.request = "Pause") /\ Given
  <2>1. playback'.request = IF playback.request = "Pause" THEN "Pause" ELSE "Play"
    BY <1>1 DEF Starts
  <2>2. WorkerHasTrack'
    <3>1. (playback.request = "Pause") \in BOOLEAN
      OBVIOUS
    <3> QED
      BY <1>1, <3>1, StartShown
  <2> QED
    BY <1>1, <2>1, <2>2 DEF Obeyed, WantsPause, Given
<1>2. CASE Leaves /\ playback'.request \in {"Play", playback.request}
  <2>1. /\ UNCHANGED <<commands, events, active>>
        /\ playback'.generation \in {playback.generation, playback.generation + 1}
        /\ ~(WorkerHasTrack')
    BY <1>2 DEF Leaves, WorkerHasTrack
  <2>2. Dead => Dead'
    BY <2>1, DeadKept
  <2>3. asked = "Pause" => Dead
    BY <1>2 DEF Obeyed, Leaves, Given, WantsPause
  <2> QED
    BY <1>2, <2>1, <2>2, <2>3 DEF Obeyed
<1>3. CASE \E target : SeeksIn(target)
  BY <1>3 DEF SeeksIn, SameTrack, Obeyed, WorkerHasTrack, WantsPause, Dead
<1>4. CASE Mutes
  <2>1. playback' = playback
    BY <1>4 DEF Mutes
  <2>2. Dead => Dead'
    <3> SUFFICES ASSUME Dead, NEW i \in DOMAIN commands', Loads(commands'[i])
                 PROVE  commands'[i].generation # playback.generation
      BY <2>1 DEF Dead, Loads
    <3> DEFINE c == [type |-> "SetGain", generation |-> playback.generation, muted |-> muted']
    <3>1. CASE commands' = commands
      BY <3>1 DEF Dead
    <3>2. CASE commands' = Append(commands, c)
      <4>1. IsSeq(commands) /\ c.type = "SetGain"
        BY AgreeingFacts
      <4> HIDE DEF c
      <4>2. Added(commands, commands', c)
        BY <3>2, <4>1, AddedFacts
      <4> QED
        BY <4>1, <4>2 DEF Added, Dead, Loads
    <3> QED
      BY <1>4, <3>1, <3>2 DEF Mutes
  <2> QED
    BY <2>1, <2>2 DEF Obeyed, WorkerHasTrack, WantsPause
<1> QED
  BY <1>1, <1>2, <1>3, <1>4, SameObeys DEF Follows, Asks

(* Play and pause. *)
LEMMA PlayObeys ==
  ASSUME Agreeing, Play, Shown', GenerationsLeft', asked' = "Play"
  PROVE  Obeyed'
<1>1. AppTyped
  BY AgreeingFacts
<1>2. /\ \/ RequestedStatus = "Paused" /\ RequestResume
         \/ StartSelected
      /\ muted' = muted
  BY DEF Play, Kept, SettingsKept
<1>3. CASE RequestedStatus = "Paused" /\ RequestResume
  <2>1. Given /\ playback.request = "Pause"
    BY <1>1, <1>3, RequestedFacts DEF Given
  <2>2. Asks("Play", "Resume")
    BY <1>1, <1>2, <1>3, <2>1, RequestPlays DEF RequestResume
  <2> QED
    BY <2>2 DEF Asks, Obeyed
<1>4. CASE StartSelected
  <2>1. Starts(FALSE) \/ (playback.generation = MaxPlaybackGen /\ Same)
    BY <1>1, <1>2, <1>4, StartSelectedPlays
  <2>2. MaxPlaybackGen \in Nat
    BY DEF Agreeing, Assumptions, PlaybackAssumption
  <2>3. ~(playback.generation = MaxPlaybackGen /\ Same)
    BY <2>2 DEF Same, SameTrack, GenerationsLeft
  <2>4. playback'.request = "Play"
    BY <2>1, <2>3 DEF Starts
  <2> QED
    BY <2>4 DEF Obeyed
<1> QED
  BY <1>2, <1>3, <1>4

LEMMA PauseObeys ==
  ASSUME Agreeing, Pause, asked' = "Pause"
  PROVE  Obeyed'
<1>1. RequestedStatus = "Playing" /\ RequestPause /\ muted' = muted
  BY DEF Pause, Kept, SettingsKept
<1>2. AppTyped /\ Given /\ playback.request = "Play"
  BY <1>1, AgreeingFacts, RequestedFacts DEF Given
<1>3. Asks("Pause", "Pause")
  BY <1>1, <1>2, RequestPlays DEF RequestPause
<1> QED
  BY <1>3 DEF Asks, SameTrack, Obeyed, WorkerHasTrack, WantsPause

LEMMA EditObeys ==
  ASSUME Agreeing, Obeyed, QueueEdit, UNCHANGED <<events, active>>,
         asked' = IF playback'.generation # playback.generation THEN "Play" ELSE asked
  PROVE  Obeyed'
<1>1. AppTyped /\ playback.generation \in Nat
  BY AgreeingFacts DEF Bounds
<1>2. Same \/ Starts(FALSE)
  BY <1>1, EditMoved
<1>3. CASE Same
  BY <1>3, SameObeys DEF Same, SameTrack
<1>4. CASE Starts(FALSE)
  BY <1>1, <1>4 DEF Starts, Obeyed
<1> QED
  BY <1>2, <1>3, <1>4

(* The reports of the worker. *)
LEMMA TakesObeys ==
  ASSUME Agreeing, Obeyed, NEW e, Taking(e), Takes(e), Shown', GenerationsLeft',
         active' = active, asked' = asked
  PROVE  Obeyed'
<1>1. /\ Taken(events, events') /\ e = events[1] /\ 1 \in DOMAIN events
      /\ \A i \in DOMAIN commands : Loads(commands[i]) => e.generation < commands[i].generation
      /\ IsSeq(events) /\ AppTyped
      /\ playback.generation \in Nat
      /\ \A i \in DOMAIN commands :
           Loads(commands[i]) => commands[i].generation \in 1 .. playback.generation
      /\ WorkerHasTrack <=> playback.status \in HasTrackStatus
  BY TakingFacts, AgreeingFacts DEF Bounds
<1>2. /\ DOMAIN events' \subseteq Nat \ {0}
      /\ \A k \in DOMAIN events' : k + 1 \in DOMAIN events /\ events'[k] = events[k + 1]
  BY <1>1 DEF Taken
<1>3. CASE Same
  BY <1>2, <1>3 DEF Obeyed, Same, SameTrack, WorkerHasTrack, WantsPause, Dead
<1>4. CASE e.generation = playback.generation /\ Telling(e)
  <2>1. ~Dead
    BY <1>1, <1>4 DEF Dead
  <2>2. /\ playback'.generation = playback.generation
        /\ playback'.current = playback.current
        /\ playback'.request = playback.request
    BY <1>4 DEF Telling
  <2>3. asked = "Pause" => WorkerHasTrack /\ WantsPause
    BY <2>1 DEF Obeyed
  <2>4. WorkerHasTrack => playback'.status \in HasTrackStatus
    BY <1>4 DEF Telling, Starting, Toggling, Seeking, WorkerHasTrack, HasTrackStatus
  <2> QED
    BY <2>2, <2>3, <2>4 DEF Obeyed, WorkerHasTrack, WantsPause
<1>5. CASE e.generation = playback.generation /\ Ending(e)
  <2>1. asked = "Pause" => WorkerHasTrack /\ WantsPause
    BY <1>1, <1>5 DEF Obeyed, Dead
  <2>2. CASE Starts(RequestedStatus = "Paused")
    <3>1. (RequestedStatus = "Paused") \in BOOLEAN
      OBVIOUS
    <3>2. WorkerHasTrack'
      BY <2>2, <3>1, StartShown
    <3>3. playback'.request = IF RequestedStatus = "Paused" THEN "Pause" ELSE "Play"
      BY <2>2 DEF Starts
    <3>4. WorkerHasTrack /\ WantsPause <=> RequestedStatus = "Paused"
      BY <1>1, RequestedFacts DEF RequestedStatus, WantsPause
    <3> QED
      BY <2>1, <3>2, <3>3, <3>4 DEF Obeyed, WantsPause
  <2>3. CASE /\ playback'.generation = playback.generation
             /\ playback'.status \notin HasTrackStatus
             /\ playback'.request = playback.request
             /\ SendsNothing
    <3>1. EndedOnce
      BY DEF Agreeing, TypesInv, EndInv
    <3>2. active.generation # playback.generation
      BY <1>1, <1>5, <3>1 DEF EndedOnce, Ending
    <3>3. \A k \in DOMAIN events' : events'[k].generation # playback.generation
      <4> SUFFICES ASSUME NEW k \in DOMAIN events' PROVE events'[k].generation # playback.generation
        OBVIOUS
      <4>1. k + 1 \in 2 .. Len(events) /\ events'[k] = events[k + 1]
        BY <1>1, <1>2, TailOfLane DEF Taking
      <4> QED
        BY <1>1, <1>5, <3>1, <4>1 DEF EndedOnce, Ending
    <3>4. Dead'
      BY <1>1, <1>5, <2>3, <3>2, <3>3 DEF Dead, SendsNothing, Loads
    <3> QED
      BY <2>3, <3>4 DEF Obeyed, WorkerHasTrack
  <2>4. MaxPlaybackGen \in Nat
    BY DEF Agreeing, Assumptions, PlaybackAssumption
  <2> QED
    BY <1>5, <2>2, <2>3, <2>4 DEF Ending, SameTrack, GenerationsLeft
<1> QED
  BY <1>3, <1>4, <1>5 DEF Takes

LEMMA LoopTells ==
  ASSUME Agreeing, EventLoop, commandsOpen'
  PROVE  /\ Shown' /\ active' = active
         /\ \/ Same /\ events' = events
            \/ Taking(Head(events)) /\ Takes(Head(events))
<1>1. AppTyped
  BY AgreeingFacts
<1>2. LoopKeeps
  BY LoopStepKeeps DEF Agreeing
<1>3. Shown' /\ commandsOpen
  BY <1>2 DEF LoopKeeps, PlayerTyped, AppInv
<1>4. CASE TakePosition
  <2>1. /\ UNCHANGED <<commands, commandsOpen, seekLane, events, active, muted>>
        /\ positionLane # NoReport /\ PositionReported(positionLane)
    BY <1>4 DEF TakePosition, workerVars
  <2>2. positionLane \in Reports
    BY <2>1 DEF Agreeing, TypesInv, PlayerTyped, Messages
  <2> QED
    BY <1>1, <1>3, <2>1, <2>2, PositionReports DEF Reports
<1>5. CASE PositionsDrained \/ EventsDrained \/ LoopAgain
  <2>1. UNCHANGED <<playback, muted, commands, commandsOpen, seekLane, events, active>>
    BY <1>5 DEF PositionsDrained, EventsDrained, LoopAgain, appVars, laneVars, workerVars
  <2> QED
    BY <1>1, <1>3, <2>1, StaysAsIs
<1>6. CASE TakeEvent
  <2>1. /\ active' = active /\ events # <<>> /\ events' = Tail(events)
        /\ EventHandled(Head(events))
    BY <1>6 DEF TakeEvent, workerVars
  <2>2. Head(events) = events[1] /\ 1 \in DOMAIN events
    BY <2>1, AgreeingFacts, TailOfLane
  <2>3. IsEvent(Head(events)) /\ Head(events).generation # 0
    BY <2>2 DEF Agreeing, TypesInv, PlayerTyped, Messages, EndInv, Generations
  <2>4. Takes(Head(events))
    BY <1>1, <2>1, <2>3, EventReports DEF Reported
  <2> QED
    BY <1>3, <2>1, <2>4 DEF Taking
<1>7. ~WorkerJoined
  BY <1>3 DEF WorkerJoined, Agreeing, TypesInv, PlayerTyped
<1> QED
  BY <1>4, <1>5, <1>6, <1>7 DEF EventLoop

(* The worker, whose track and events are of the generations it had or gets. *)
LEMMA WorksDead ==
  ASSUME Agreeing, Dead, Works, playback' = playback
  PROVE  Dead'
<1>1. /\ playback.generation \in Nat /\ active.generation \in 0 .. playback.generation
      /\ IsSeq(commands) /\ IsSeq(events)
  BY AgreeingFacts DEF Bounds
<1>2. playback.generation # 0
  BY <1>1 DEF Dead
<1>3. commands' = commands \/ Receiving(Head(commands))
  BY DEF Works, Continues, Readies, Announces, Seeks, RestartsAt, Receives, Receiving
<1>4. \A i \in DOMAIN commands' : \E j \in DOMAIN commands : commands'[i] = commands[j]
  BY <1>3, LaneRest DEF Lane
<1>5. commands # <<>> => Head(commands) = commands[1] /\ 1 \in DOMAIN commands
  BY <1>1, TailOfLane
<1>6. Receives(Head(commands)) /\ Loads(Head(commands)) =>
        Head(commands).generation # playback.generation
  BY <1>5 DEF Dead, Receives
<1>7. active'.generation # playback.generation
  <2>1. active' = NoActive => active'.generation = 0
    BY DEF NoActive
  <2>2. CASE Receives(Head(commands))
    BY <1>2, <1>6, <2>1, <2>2 DEF Receives, LoadsIt, Loads, FailsIt, Drops, Obeys, Dead
  <2>3. CASE ~Receives(Head(commands))
    BY <1>2, <2>1, <2>3 DEF Works, Continues, Readies, Announces, Drops, Seeks, RestartsAt,
                            SamePlay, Dead
  <2> QED
    BY <2>2, <2>3
<1>8. events' = events \/ \E e : events' = Append(events, e) /\ e.generation # playback.generation
  <2>1. CASE Receives(Head(commands))
    <3>1. CASE Obeys(Head(commands))
      BY <3>1 DEF Obeys, Dead
    <3> QED
      BY <1>6, <2>1, <3>1 DEF Receives, LoadsIt, FailsIt, Drops, Dead
  <2>2. CASE ~Receives(Head(commands))
    BY <2>2 DEF Works, Continues, Readies, Announces, Drops, Seeks, RestartsAt, Dead
  <2> QED
    BY <2>1, <2>2
<1>9. \A k \in DOMAIN events' : events'[k].generation # playback.generation
  <2>1. CASE events' = events
    BY <2>1 DEF Dead
  <2>2. ASSUME NEW e, events' = Append(events, e), e.generation # playback.generation
        PROVE  \A k \in DOMAIN events' : events'[k].generation # playback.generation
    <3>1. Added(events, events', e)
      BY <1>1, <2>2, AddedFacts
    <3> QED
      BY <2>2, <3>1 DEF Added, Dead
  <2> QED
    BY <1>8, <2>1, <2>2
<1> QED
  BY <1>4, <1>7, <1>9 DEF Dead, Loads

LEMMA InputObeys ==
  ASSUME Agreeing, Obeyed, AskedInput, GenerationsLeft', Shown'
  PROVE  Obeyed'
<1>1. CASE Input(OtherControl) /\ asked' = IF playback'.request = "Stop" THEN "Stop" ELSE asked
  <2>1. OtherControl /\ active' = active /\ events' = events
    BY <1>1, ControlsKeepEvents DEF Input, workerVars, UserControl
  <2>2. Follows
    BY <2>1, OtherMoved, AgreeingFacts
  <2> QED
    BY <1>1, <2>1, <2>2, FollowsObeys
<1>2. CASE /\ Input(QueueEdit)
           /\ asked' = IF playback'.generation # playback.generation THEN "Play" ELSE asked
  <2>1. QueueEdit /\ active' = active /\ events' = events
    BY <1>2, ControlsKeepEvents DEF Input, workerVars
  <2> QED
    BY <1>2, <2>1, EditObeys
<1>3. CASE Input("transport" \in inputs /\ Play) /\ asked' = "Play"
  BY <1>3, PlayObeys DEF Input
<1>4. CASE Input("transport" \in inputs /\ Pause) /\ asked' = "Pause"
  BY <1>4, PauseObeys DEF Input
<1>5. asked' \in {"Stop", "Any"} => Obeyed'
  BY DEF Obeyed
<1> QED
  BY <1>1, <1>2, <1>3, <1>4, <1>5 DEF AskedInput

LEMMA AskedIsNext == [AskedNext]_<<vars, asked>> => [Next]_vars
<1>1. AskedInput => TakeInput
  BY DEF AskedInput, TakeInput, Input, UserControl
<1> QED
  BY <1>1 DEF AskedNext, Next

(* Generations go up, and closed lanes stay closed. *)
LEMMA LoopGoesUp ==
  ASSUME Assumptions, TypesInv, EventLoop \/ TakeInput \/ Quit \/ UNCHANGED vars, commandsOpen'
  PROVE  commandsOpen /\ (GenerationsLeft' => GenerationsLeft)
<1>1. LoopKeeps
  BY LoopStepKeeps
<1>2. AppTyped /\ muted' \in BOOLEAN /\ commandsOpen
  BY <1>1 DEF LoopKeeps, PlayerTyped, AppInv, TypesInv, AppTyped
<1>3. SendsTyped
  BY <1>1, <1>2, MovesSends, TakesSends DEF LoopKeeps, LoopShape
<1>4. MaxPlaybackGen \in Nat /\ playback.generation \in Nat
  BY <1>2 DEF AppTyped, AppInv, Shown, PlaybackStates, Assumptions, PlaybackAssumption
<1> QED
  BY <1>2, <1>3, <1>4 DEF SendsTyped, GenerationsLeft

LEMMA AskedObeys ==
  Assumptions /\ TypesInv /\ TypesInv' /\ OpenInv /\ ObeyedOpen /\ [AskedNext]_<<vars, asked>>
    => ObeyedOpen'
<1> SUFFICES ASSUME Assumptions, TypesInv, TypesInv', OpenInv, ObeyedOpen,
                    [AskedNext]_<<vars, asked>>, commandsOpen', GenerationsLeft'
             PROVE  Obeyed'
  BY DEF ObeyedOpen
<1>1. Shown'
  BY DEF TypesInv, PlayerTyped, AppInv
<1>2. ASSUME EventLoop \/ TakeInput \/ UNCHANGED vars
      PROVE  Agreeing /\ Obeyed
  <2>1. commandsOpen /\ GenerationsLeft
    BY <1>2, LoopGoesUp
  <2> QED
    BY <2>1 DEF Agreeing, OpenInv, ObeyedOpen
<1>3. CASE EventLoop /\ UNCHANGED asked
  <2>1. /\ active' = active
        /\ \/ Same /\ events' = events
           \/ Taking(Head(events)) /\ Takes(Head(events))
    BY <1>2, <1>3, LoopTells
  <2> QED
    BY <1>1, <1>2, <1>3, <2>1, SameObeys, TakesObeys
<1>4. CASE AskedInput
  <2>1. TakeInput
    BY <1>4 DEF AskedInput, TakeInput, Input, UserControl
  <2> QED
    BY <1>1, <1>2, <1>4, <2>1, InputObeys
<1>5. CASE WorkerStep /\ UNCHANGED asked
  <2>1. Agreeing /\ Works /\ UNCHANGED <<playback, muted>>
    BY <1>5, WorkerGoesOn
  <2>2. commandsOpen' = commandsOpen
    BY <1>5, WorkerWorks DEF WorkerStep, Working, TypesInv, PlayerTyped
  <2>3. Obeyed
    BY <2>1, <2>2 DEF ObeyedOpen, GenerationsLeft
  <2>4. Dead => Dead'
    BY <2>1, WorksDead
  <2> QED
    BY <1>5, <2>1, <2>3, <2>4 DEF Obeyed, WorkerHasTrack, WantsPause
<1>6. CASE UNCHANGED <<vars, asked>>
  <2>1. UNCHANGED <<playback, commands, events, active, asked>>
    BY <1>6 DEF vars, appVars, laneVars, workerVars
  <2> QED
    BY <1>2, <1>6, <2>1 DEF Obeyed, WorkerHasTrack, WantsPause, Dead
<1> QED
  BY <1>3, <1>4, <1>5, <1>6 DEF AskedNext

LEMMA AskedIsPlayer == AskedSpec => Spec
<1>1. AskedInit => Init
  BY DEF AskedInit
<1> QED
  BY <1>1, AskedIsNext, PTL DEF AskedSpec, Spec

LEMMA ObeyedHolds == AskedSpec => []ObeyedOpen
<1>1. AskedInit => ObeyedOpen
  BY DEF AskedInit, ObeyedOpen, Obeyed
<1>2. TypesInv /\ TypesInv' /\ OpenInv /\ ObeyedOpen /\ [AskedNext]_<<vars, asked>> => ObeyedOpen'
  BY Assumed, AskedObeys
<1> QED
  BY <1>1, <1>2, AskedIsPlayer, PlayerTypesHold, AgreementHolds, PTL DEF AskedSpec

(* A listener's pause or play stands once nothing is in flight.  Next, previous,
   automatic advance, queue edits and the worker's own reports are what may
   rewrite `PlaybackState::request' (src/src/app/playback.rs): none of them
   leaves the worker with a track that plays after a pause, or that is paused
   after a play. *)
THEOREM ListenerIsObeyed == AskedSpec => []ListenerObeyed
<1>1. TypesInv /\ QuietAgreement /\ ObeyedOpen => ListenerObeyed
  <2> SUFFICES ASSUME TypesInv, QuietAgreement, ObeyedOpen, Quiet, GenerationsLeft, IsActive
               PROVE  /\ asked = "Pause" => active.paused
                      /\ asked = "Play" => ~active.paused
    BY DEF ListenerObeyed
  <2>1. WorkerHasTrack = IsActive /\ Obeyed
    BY DEF QuietAgreement, ObeyedOpen, Quiet
  <2>2. WorkerHasTrack
    BY <2>1
  <2>3. active.paused = (playback.request = "Pause")
    BY <2>2 DEF QuietAgreement
  <2> QED
    BY <2>1, <2>2, <2>3 DEF Obeyed, WantsPause
<1> QED
  BY <1>1, AskedIsPlayer, PlayerTypesHold, DisplayAndWorkerAgree, ObeyedHolds, PTL

-----------------------------------------------------------------------------
(* The place of the current track: what Next and Previous have before them. *)

Here == playback.current.id \in Ids(items)

(* The hint is the row of the current track, or the row it was removed from. *)
PlaceInv ==
  /\ playback.hint <= Len(items) + 1
  /\ playback.current.id < nextItemId
  /\ Here => playback.hint <= Len(items) /\ items[playback.hint].id = playback.current.id

(* How many tracks Previous can still reach. *)
Before ==
  IF ~shuffle THEN playback.hint - 1
  ELSE IF Here THEN shuffleCursor - 1 ELSE shuffleCursor

(* The current track comes right behind them, for as long as it is queued. *)
Placed ==
  /\ Before \in 0 .. Len(items)
  /\ Here => Before < Len(items) /\ PlayOrder[Before + 1] = playback.current.id

(* The place of the first track that Next has before it. *)
Ahead == IF Here THEN Before + 2 ELSE Before + 1

LEMMA ElementsOf ==
  ASSUME NEW s \in Seq(Nat), NEW a \in 1 .. Len(s) + 1, NEW b \in 0 .. Len(s), a <= b + 1
  PROVE  ToSet(SubSeq(s, a, b)) = {s[i] : i \in a .. b}
<1> DEFINE p == SubSeq(s, a, b)
<1>1. Len(s) \in Nat /\ a \in Nat /\ b \in Nat /\ \A i \in 1 .. Len(s) : s[i] \in Nat
  BY LenProperties, ElementOfSeq
<1>2. \A i \in a .. b : s[i] \in Nat
  BY <1>1
<1>3. /\ p \in Seq(Nat)
      /\ Len(p) = IF a <= b THEN b - a + 1 ELSE 0
      /\ \A i \in 1 .. b - a + 1 : p[i] = s[a + i - 1]
  BY <1>1, <1>2, SubSeqProperties
<1> HIDE DEF p
<1>4. Len(p) = b - a + 1
  BY <1>1, <1>3
<1>5. DOMAIN p = 1 .. b - a + 1
  BY <1>3, <1>4, LenProperties
<1>6. \A i \in a .. b : i - a + 1 \in 1 .. b - a + 1 /\ p[i - a + 1] = s[i]
  <2> SUFFICES ASSUME NEW i \in a .. b
               PROVE  i - a + 1 \in 1 .. b - a + 1 /\ p[i - a + 1] = s[i]
    OBVIOUS
  <2>1. i - a + 1 \in 1 .. b - a + 1 /\ a + (i - a + 1) - 1 = i
    BY <1>1
  <2> QED
    BY <1>3, <2>1
<1>7. \A i \in 1 .. b - a + 1 : a + i - 1 \in a .. b
  BY <1>1
<1>8. ToSet(p) = {p[j] : j \in 1 .. b - a + 1}
  BY <1>5 DEF ToSet
<1>9. ASSUME NEW j \in 1 .. b - a + 1 PROVE p[j] \in {s[i] : i \in a .. b}
  <2>1. p[j] = s[a + j - 1] /\ a + j - 1 \in a .. b
    BY <1>3, <1>7
  <2> QED
    BY <2>1
<1>10. ASSUME NEW i \in a .. b PROVE s[i] \in {p[j] : j \in 1 .. b - a + 1}
  BY <1>6
<1> QED
  BY <1>8, <1>9, <1>10 DEF p

(* The order of play lists every queued id once. *)
LEMMA PlayOrderFacts ==
  ASSUME AppTyped
  PROVE  /\ Len(items) \in Nat /\ DOMAIN items = 1 .. Len(items)
         /\ items = <<>> <=> Len(items) = 0
         /\ PlayOrder \in Seq(Nat) /\ Len(PlayOrder) = Len(items)
         /\ DOMAIN PlayOrder = 1 .. Len(items)
         /\ IsInjective(PlayOrder)
         /\ ToSet(PlayOrder) = Ids(items)
         /\ \A i \in 1 .. Len(items) :
              /\ PlayOrder[i] \in Ids(items)
              /\ OrderPosition(PlayOrder, PlayOrder[i]) = i
              /\ ItemPosition(items, PlayOrder[i]) \in 1 .. Len(items)
              /\ items[ItemPosition(items, PlayOrder[i])].id = PlayOrder[i]
<1> DEFINE n == Len(items)
           p == PlayOrder
<1>0. QueueAssumption /\ QueueInv /\ items \in Seq(Item)
  BY DEF AppTyped, AppInv, Assumptions, QueueInv, ItemsOK
<1>1. /\ n \in Nat /\ DOMAIN items = 1 .. n /\ (items = <<>> <=> n = 0)
      /\ \A i \in 1 .. n : items[i].id \in Nat
  BY <1>0, PlacesFacts, ItemsFacts DEF QueueInv
<1>2. p \in Seq(Nat) /\ Len(p) = n /\ IsInjective(p) /\ ToSet(p) = Ids(items)
  <2>1. CASE shuffle
    <3>1. p = shuffleOrder
      BY <2>1 DEF PlayOrder
    <3> QED
      BY <1>0, <2>1, <3>1, OrderLength DEF QueueInv, OrderOK
  <2>2. CASE ~shuffle
    <3>1. p = [i \in 1 .. n |-> items[i].id]
      BY <1>1, <2>2 DEF PlayOrder
    <3>2. \A i, j \in 1 .. n : items[i].id = items[j].id => i = j
      BY <1>0, <1>1 DEF QueueInv, ItemsOK
    <3> HIDE DEF p
    <3>3. p \in [1 .. n -> Nat] /\ DOMAIN p = 1 .. n /\ \A i \in 1 .. n : p[i] = items[i].id
      BY <1>1, <3>1
    <3>4. p \in Seq(Nat) /\ Len(p) = n
      BY <1>1, <3>3
    <3>5. IsInjective(p)
      BY <3>2, <3>3 DEF IsInjective
    <3>6. ToSet(p) = Ids(items)
      BY <1>1, <3>3 DEF ToSet, Ids
    <3> QED
      BY <3>4, <3>5, <3>6
  <2> QED
    BY <2>1, <2>2
<1>3. DOMAIN p = 1 .. n
  BY <1>2, LenProperties
<1> HIDE DEF p
<1>4. ASSUME NEW i \in 1 .. n
      PROVE  /\ p[i] \in Ids(items)
             /\ OrderPosition(p, p[i]) = i
             /\ ItemPosition(items, p[i]) \in 1 .. n
             /\ items[ItemPosition(items, p[i])].id = p[i]
  <2>1. p[i] \in Ids(items) /\ p[i] \in ToSet(p)
    BY <1>2, <1>3 DEF ToSet
  <2>2. OrderPosition(p, p[i]) = CHOOSE j \in DOMAIN p : p[j] = p[i]
    BY <2>1 DEF OrderPosition
  <2>3. OrderPosition(p, p[i]) \in DOMAIN p /\ p[OrderPosition(p, p[i])] = p[i]
    BY <1>3, <2>2
  <2>4. OrderPosition(p, p[i]) = i
    BY <1>2, <1>3, <2>3 DEF IsInjective
  <2>5. /\ ItemPosition(items, p[i]) \in 0 .. n
        /\ ItemPosition(items, p[i]) # 0 => items[ItemPosition(items, p[i])].id = p[i]
        /\ ItemPosition(items, p[i]) # 0
    BY <1>0, <2>1, ItemPositionFacts
  <2> QED
    BY <1>1, <2>1, <2>4, <2>5
<1> QED
  BY <1>1, <1>2, <1>3, <1>4 DEF p

LEMMA CurrentFacts ==
  ASSUME AppTyped, PlaceInv
  PROVE  /\ playback.hint \in 1 .. Len(items) + 1 /\ playback.current.id \in Nat
         /\ CurrentPosition(items, playback.current, playback.hint)
              = IF Here THEN playback.hint ELSE 0
<1>1. playback.hint \in Nat \ {0} /\ playback.current.id \in Nat
  BY DEF AppTyped, AppInv, Shown, PlaybackStates, Item, NoItem
<1>2. Len(items) \in Nat /\ DOMAIN items = 1 .. Len(items)
  BY PlayOrderFacts
<1>3. CASE Here
  <2>1. playback.hint \in DOMAIN items /\ items[playback.hint].id = playback.current.id
    BY <1>1, <1>2, <1>3 DEF PlaceInv
  <2> QED
    BY <1>1, <1>2, <1>3, <2>1 DEF CurrentPosition
<1>4. CASE ~Here
  <2>1. \A i \in DOMAIN items : items[i].id # playback.current.id
    BY <1>4 DEF Here, Ids
  <2>2. ItemPosition(items, playback.current.id) = 0
    BY <1>4 DEF ItemPosition, Here
  <2> QED
    BY <1>1, <1>2, <1>4, <2>1, <2>2 DEF CurrentPosition, PlaceInv
<1> QED
  BY <1>3, <1>4

(* The track is between what is behind and what is to come. *)
LEMMA BeforeFacts ==
  ASSUME AppTyped, PlaceInv, CursorOnCurrent
  PROVE  Placed
<1> SUFFICES /\ Before \in 0 .. Len(items)
             /\ Here => Before < Len(items) /\ PlayOrder[Before + 1] = playback.current.id
  BY DEF Placed
<1>1. /\ Len(items) \in Nat /\ DOMAIN PlayOrder = 1 .. Len(items)
      /\ ToSet(PlayOrder) = Ids(items)
  BY PlayOrderFacts
<1>2. CASE ~shuffle
  <2>1. PlayOrder = [i \in 1 .. Len(items) |-> items[i].id] /\ Before = playback.hint - 1
    BY <1>2, PlayOrderFacts DEF PlayOrder, Before
  <2>2. Before \in 0 .. Len(items) /\ playback.hint \in Nat \ {0}
    BY <1>1, <2>1, CurrentFacts
  <2>3. ASSUME Here PROVE Before < Len(items) /\ PlayOrder[Before + 1] = playback.current.id
    <3>1. playback.hint \in 1 .. Len(items) /\ items[playback.hint].id = playback.current.id
      BY <1>1, <2>2, <2>3 DEF PlaceInv
    <3>2. Before + 1 = playback.hint /\ Before < Len(items)
      BY <1>1, <2>1, <3>1
    <3> QED
      BY <2>1, <3>1, <3>2
  <2> QED
    BY <2>2, <2>3
<1>3. CASE shuffle
  <2>1. PlayOrder = shuffleOrder /\ shuffleCursor \in 0 .. Len(items)
    <3>1. shuffleCursor \in 0 .. Len(shuffleOrder)
      BY <1>3 DEF AppTyped, AppInv, QueueInv, OrderOK
    <3> QED
      BY <1>3, <3>1, PlayOrderFacts DEF PlayOrder
  <2>2. CASE ~Here
    BY <1>1, <1>3, <2>1, <2>2 DEF Before
  <2>3. CASE Here
    <3>1. \E i \in DOMAIN PlayOrder : PlayOrder[i] = playback.current.id
      BY <1>1, <2>3 DEF Here, ToSet
    <3>2. PICK i \in 1 .. Len(items) : PlayOrder[i] = playback.current.id
      BY <1>1, <3>1
    <3>3. OrderPosition(shuffleOrder, playback.current.id) = i
      BY <2>1, <3>2, PlayOrderFacts
    <3>4. shuffleCursor = i
      BY <1>1, <1>3, <3>2, <3>3 DEF CursorOnCurrent
    <3>5. Before = i - 1
      BY <1>3, <2>3, <3>4 DEF Before
    <3>6. Before \in 0 .. Len(items) /\ Before < Len(items) /\ Before + 1 = i
      BY <1>1, <3>2, <3>5
    <3> QED
      BY <3>2, <3>6
  <2> QED
    BY <2>2, <2>3
<1> QED
  BY <1>2, <1>3

(* Next and Previous read the order of play at the places around the track. *)
LEMMA NextPlace ==
  ASSUME AppTyped, PlaceInv, Placed, playback.current.id # 0
  PROVE  /\ Ahead \in 1 .. Len(items) + 1
         /\ NextPosition(playback.current, playback.hint, FALSE) =
              IF Ahead <= Len(items) THEN ItemPosition(items, PlayOrder[Ahead]) ELSE 0
<1>1. /\ Len(items) \in Nat /\ (items = <<>> <=> Len(items) = 0)
      /\ DOMAIN items = 1 .. Len(items) /\ DOMAIN PlayOrder = 1 .. Len(items)
      /\ Len(PlayOrder) = Len(items) /\ ToSet(PlayOrder) = Ids(items)
  BY PlayOrderFacts
<1>2. Before \in 0 .. Len(items) /\ (Here => Before < Len(items))
  BY DEF Placed
<1>3. Ahead \in 1 .. Len(items) + 1
  BY <1>1, <1>2 DEF Ahead
<1>4. CASE items = <<>>
  BY <1>1, <1>3, <1>4 DEF NextPosition
<1>5. CASE items # <<>> /\ ~shuffle
  <2> DEFINE position == CurrentPosition(items, playback.current, playback.hint)
             next == IF position # 0 THEN position + 1
                     ELSE AtMost(playback.hint, Len(items) + 1)
  <2>1. /\ playback.hint \in 1 .. Len(items) + 1
        /\ position = IF Here THEN playback.hint ELSE 0
    BY CurrentFacts
  <2>2. Before = playback.hint - 1
    BY <1>5 DEF Before
  <2> HIDE DEF position
  <2>3. next = Ahead
    BY <1>1, <2>1, <2>2 DEF Ahead, AtMost
  <2>4. NextPosition(playback.current, playback.hint, FALSE) =
          IF next <= Len(items) THEN next ELSE 0
    BY <1>5 DEF NextPosition, position
  <2> HIDE DEF next
  <2>5. Ahead <= Len(items) => ItemPosition(items, PlayOrder[Ahead]) = Ahead
    <3> SUFFICES ASSUME Ahead <= Len(items)
                 PROVE  ItemPosition(items, PlayOrder[Ahead]) = Ahead
      OBVIOUS
    <3>1. Ahead \in 1 .. Len(items)
      BY <1>1, <1>3
    <3>2. PlayOrder[Ahead] = items[Ahead].id
      BY <1>1, <1>5, <3>1 DEF PlayOrder
    <3> DEFINE row == ItemPosition(items, PlayOrder[Ahead])
    <3>3. row \in 1 .. Len(items) /\ items[row].id = PlayOrder[Ahead]
      BY <3>1, PlayOrderFacts
    <3> HIDE DEF row
    <3>4. row = Ahead
      BY <3>1, <3>2, <3>3 DEF AppTyped, AppInv, QueueInv, ItemsOK
    <3> QED
      BY <3>4 DEF row
  <2> QED
    BY <1>3, <2>3, <2>4, <2>5
<1>6. CASE items # <<>> /\ shuffle
  <2> DEFINE place == OrderPosition(shuffleOrder, playback.current.id)
             next == OrPlace(place, shuffleCursor) + 1
  <2>1. PlayOrder = shuffleOrder /\ shuffleCursor \in Nat
    <3>1. shuffleCursor \in 0 .. Len(shuffleOrder)
      BY DEF AppTyped, AppInv, QueueInv, OrderOK
    <3>2. PlayOrder = shuffleOrder
      BY <1>6 DEF PlayOrder
    <3> QED
      BY <1>1, <3>1, <3>2
  <2>2. place = IF Here THEN Before + 1 ELSE 0
    <3>1. CASE Here
      <4>1. Before + 1 \in 1 .. Len(items) /\ PlayOrder[Before + 1] = playback.current.id
        BY <1>1, <1>2, <3>1 DEF Placed
      <4> QED
        BY <2>1, <3>1, <4>1, PlayOrderFacts
    <3>2. CASE ~Here
      <4>1. playback.current.id \notin ToSet(shuffleOrder)
        BY <1>1, <2>1, <3>2 DEF Here
      <4> QED
        BY <3>2, <4>1 DEF OrderPosition
    <3> QED
      BY <3>1, <3>2
  <2>3. ~Here => Before = shuffleCursor
    BY <1>6 DEF Before
  <2> HIDE DEF place
  <2>4. next = Ahead
    BY <1>1, <1>2, <2>1, <2>2, <2>3 DEF Ahead, OrPlace
  <2>5. NextPosition(playback.current, playback.hint, FALSE) =
          IF next <= Len(shuffleOrder) THEN ItemPosition(items, shuffleOrder[next]) ELSE 0
    BY <1>6 DEF NextPosition, place
  <2> HIDE DEF next
  <2> QED
    BY <1>1, <1>3, <2>1, <2>4, <2>5
<1> QED
  BY <1>3, <1>4, <1>5, <1>6

LEMMA PreviousPlaceFacts ==
  ASSUME AppTyped, PlaceInv, Placed, playback.current.id # 0
  PROVE  PreviousPosition(playback.current, playback.hint, FALSE) =
           IF Before >= 1 THEN ItemPosition(items, PlayOrder[Before]) ELSE 0
<1>1. /\ Len(items) \in Nat /\ (items = <<>> <=> Len(items) = 0)
      /\ DOMAIN items = 1 .. Len(items) /\ DOMAIN PlayOrder = 1 .. Len(items)
      /\ Len(PlayOrder) = Len(items) /\ ToSet(PlayOrder) = Ids(items)
  BY PlayOrderFacts
<1>2. Before \in 0 .. Len(items) /\ (Here => Before < Len(items))
  BY DEF Placed
<1>4. CASE items = <<>>
  BY <1>1, <1>2, <1>4 DEF PreviousPosition
<1>5. CASE items # <<>> /\ ~shuffle
  <2> DEFINE position == CurrentPosition(items, playback.current, playback.hint)
             before == IF position # 0 THEN position - 1
                       ELSE IF playback.current.id # 0
                            THEN AtMost(playback.hint, Len(items) + 1) - 1
                            ELSE selection - 1
  <2>1. /\ playback.hint \in 1 .. Len(items) + 1
        /\ position = IF Here THEN playback.hint ELSE 0
    BY CurrentFacts
  <2>2. Before = playback.hint - 1
    BY <1>5 DEF Before
  <2> HIDE DEF position
  <2>3. before = Before
    BY <1>1, <2>1, <2>2 DEF AtMost
  <2>4. PreviousPosition(playback.current, playback.hint, FALSE) = OrPlace(before, 0)
    BY <1>5 DEF PreviousPosition, position
  <2> HIDE DEF before
  <2>5. Before >= 1 => ItemPosition(items, PlayOrder[Before]) = Before
    <3> SUFFICES ASSUME Before >= 1
                 PROVE  ItemPosition(items, PlayOrder[Before]) = Before
      OBVIOUS
    <3>1. Before \in 1 .. Len(items)
      BY <1>1, <1>2
    <3>2. PlayOrder[Before] = items[Before].id
      BY <1>1, <1>5, <3>1 DEF PlayOrder
    <3> DEFINE row == ItemPosition(items, PlayOrder[Before])
    <3>3. row \in 1 .. Len(items) /\ items[row].id = PlayOrder[Before]
      BY <3>1, PlayOrderFacts
    <3> HIDE DEF row
    <3>4. row = Before
      BY <3>1, <3>2, <3>3 DEF AppTyped, AppInv, QueueInv, ItemsOK
    <3> QED
      BY <3>4 DEF row
  <2>6. Before >= 1 <=> Before # 0
    BY <1>2
  <2> QED
    BY <2>3, <2>4, <2>5, <2>6 DEF OrPlace
<1>6. CASE items # <<>> /\ shuffle
  <2> DEFINE place == OrderPosition(shuffleOrder, playback.current.id)
             before == IF place # 0 THEN place - 1 ELSE shuffleCursor
  <2>1. PlayOrder = shuffleOrder
    BY <1>6 DEF PlayOrder
  <2>2. place = IF Here THEN Before + 1 ELSE 0
    <3>1. CASE Here
      <4>1. Before + 1 \in 1 .. Len(items) /\ PlayOrder[Before + 1] = playback.current.id
        BY <1>1, <1>2, <3>1 DEF Placed
      <4> QED
        BY <2>1, <3>1, <4>1, PlayOrderFacts
    <3>2. CASE ~Here
      <4>1. playback.current.id \notin ToSet(shuffleOrder)
        BY <1>1, <2>1, <3>2 DEF Here
      <4> QED
        BY <3>2, <4>1 DEF OrderPosition
    <3> QED
      BY <3>1, <3>2
  <2>3. ~Here => Before = shuffleCursor
    BY <1>6 DEF Before
  <2> HIDE DEF place
  <2>4. before = Before
    BY <1>1, <1>2, <2>2, <2>3
  <2>5. PreviousPlace(playback.current, FALSE) = OrPlace(before, 0)
    BY DEF PreviousPlace, place
  <2>6. PreviousPosition(playback.current, playback.hint, FALSE) =
          IF PreviousPlace(playback.current, FALSE) = 0 THEN 0
          ELSE ItemPosition(items, shuffleOrder[PreviousPlace(playback.current, FALSE)])
    BY <1>6 DEF PreviousPosition
  <2> HIDE DEF before
  <2>7. Before >= 1 <=> Before # 0
    BY <1>2
  <2> QED
    BY <2>1, <2>4, <2>5, <2>6, <2>7 DEF OrPlace
<1> QED
  BY <1>4, <1>5, <1>6

(* So what is behind is the part of the order before the track, and what is to
   come is all of the queue but that part and the track. *)
LEMMA PlaceSplits ==
  ASSUME AppTyped, PlaceInv, Placed, playback.current.id # 0
  PROVE  /\ Behind = SubSeq(PlayOrder, 1, Before)
         /\ ToSet(Behind) \subseteq Ids(items)
         /\ ToSet(Upcoming) = Ids(items) \ (ToSet(Behind) \cup {playback.current.id})
<1> DEFINE n == Len(items)
           p == PlayOrder
           b == Before
           cid == playback.current.id
<1>1. /\ n \in Nat /\ p \in Seq(Nat) /\ Len(p) = n /\ DOMAIN p = 1 .. n
      /\ IsInjective(p) /\ ToSet(p) = Ids(items)
      /\ \A i \in 1 .. n : /\ OrderPosition(p, p[i]) = i
                           /\ ItemPosition(items, p[i]) \in 1 .. n
                           /\ items[ItemPosition(items, p[i])].id = p[i]
  BY PlayOrderFacts
<1>2. b \in 0 .. n /\ (Here => b < n /\ p[b + 1] = cid) /\ (~Here => cid \notin Ids(items))
  BY DEF Placed, Here
<1>3. /\ Ahead \in 1 .. n + 1 /\ Ahead = (IF Here THEN b + 2 ELSE b + 1)
      /\ NextPosition(playback.current, playback.hint, FALSE) =
           IF Ahead <= n THEN ItemPosition(items, p[Ahead]) ELSE 0
  BY NextPlace DEF Ahead
<1>4. PreviousPosition(playback.current, playback.hint, FALSE) =
        IF b >= 1 THEN ItemPosition(items, p[b]) ELSE 0
  BY PreviousPlaceFacts
<1>5. Behind = SubSeq(p, 1, b)
  <2>1. CASE b >= 1
    <3>1. b \in 1 .. n
      BY <1>1, <1>2, <2>1
    <3> DEFINE row == ItemPosition(items, p[b])
    <3>2. row # 0 /\ items[row].id = p[b]
      BY <1>1, <3>1
    <3>3. PreviousPosition(playback.current, playback.hint, FALSE) = row
      BY <1>4, <2>1
    <3> QED
      BY <1>1, <3>1, <3>2, <3>3 DEF Behind
  <2>2. CASE ~(b >= 1)
    <3>1. b = 0
      BY <1>1, <1>2, <2>2
    <3>2. Len(SubSeq(p, 1, b)) = 0 /\ SubSeq(p, 1, b) \in Seq(Nat)
      BY <1>1, <1>2, <3>1, PrefixFacts
    <3>3. SubSeq(p, 1, b) = <<>>
      BY <3>2, EmptySeq
    <3> QED
      BY <1>4, <2>2, <3>3 DEF Behind
  <2> QED
    BY <2>1, <2>2
<1>6. ToSet(Upcoming) = {p[i] : i \in Ahead .. n}
  <2>1. CASE Ahead <= n
    <3>1. Ahead \in 1 .. n
      BY <1>1, <1>3, <2>1
    <3> DEFINE row == ItemPosition(items, p[Ahead])
    <3>2. row # 0 /\ items[row].id = p[Ahead]
      BY <1>1, <3>1
    <3>3. NextPosition(playback.current, playback.hint, FALSE) = row
      BY <1>3, <2>1
    <3>4. Upcoming = SubSeq(p, Ahead, n)
      BY <1>1, <3>1, <3>2, <3>3 DEF Upcoming
    <3>5. Ahead \in 1 .. Len(p) + 1 /\ n \in 0 .. Len(p) /\ Ahead <= n + 1
      BY <1>1, <3>1
    <3> QED
      BY <1>1, <3>4, <3>5, ElementsOf
  <2>2. CASE ~(Ahead <= n)
    <3>1. Upcoming = <<>>
      BY <1>3, <2>2 DEF Upcoming
    <3>2. Ahead .. n = {}
      BY <1>1, <1>3, <2>2
    <3> QED
      BY <3>1, <3>2, EmptySeq DEF ToSet
  <2> QED
    BY <2>1, <2>2
<1>7. ToSet(Behind) = {p[i] : i \in 1 .. b}
  <2>1. 1 \in 1 .. Len(p) + 1 /\ b \in 0 .. Len(p) /\ 1 <= b + 1
    BY <1>1, <1>2
  <2> QED
    BY <1>1, <1>5, <2>1, ElementsOf
<1> HIDE DEF n, p, b, cid
<1>8. Ids(items) = {p[i] : i \in 1 .. n} /\ \A i, j \in 1 .. n : p[i] = p[j] => i = j
  BY <1>1 DEF ToSet, IsInjective
<1>9. \A i \in 1 .. n : p[i] = cid <=> Here /\ i = b + 1
  <2>1. CASE Here
    <3>1. b + 1 \in 1 .. n /\ p[b + 1] = cid
      BY <1>1, <1>2, <2>1
    <3> QED
      BY <1>8, <2>1, <3>1
  <2>2. CASE ~Here
    BY <1>2, <1>8, <2>2
  <2> QED
    BY <2>1, <2>2
<1>10. \A i \in 1 .. n : i \in Ahead .. n <=> ~(i \in 1 .. b) /\ ~(Here /\ i = b + 1)
  BY <1>1, <1>2, <1>3
<1>11. \A i \in 1 .. b : i \in 1 .. n
  BY <1>1, <1>2
<1>12. \A i \in 1 .. n : p[i] \in ToSet(Behind) <=> i \in 1 .. b
  BY <1>7, <1>8, <1>11
<1>13. ToSet(Behind) \subseteq Ids(items)
  BY <1>7, <1>8, <1>11
<1>14. \A i \in Ahead .. n : i \in 1 .. n
  BY <1>1, <1>3
<1>15. ASSUME NEW x PROVE x \in ToSet(Upcoming) <=>
                           x \in Ids(items) /\ x \notin ToSet(Behind) /\ x # cid
  <2>1. ASSUME x \in ToSet(Upcoming)
        PROVE  x \in Ids(items) /\ x \notin ToSet(Behind) /\ x # cid
    <3>1. PICK i \in Ahead .. n : x = p[i]
      BY <1>6, <2>1
    <3>2. i \in 1 .. n
      BY <1>14
    <3>3. ~(i \in 1 .. b) /\ ~(Here /\ i = b + 1)
      BY <1>10, <3>2
    <3> QED
      BY <1>8, <1>9, <1>12, <3>1, <3>2, <3>3
  <2>2. ASSUME x \in Ids(items), x \notin ToSet(Behind), x # cid
        PROVE  x \in ToSet(Upcoming)
    <3>1. PICK i \in 1 .. n : x = p[i]
      BY <1>8, <2>2
    <3>2. ~(i \in 1 .. b) /\ ~(Here /\ i = b + 1)
      BY <1>9, <1>12, <2>2, <3>1
    <3>3. i \in Ahead .. n
      BY <1>10, <3>2
    <3> QED
      BY <1>6, <3>1, <3>3
  <2> QED
    BY <2>1, <2>2
<1> QED
  BY <1>5, <1>13, <1>15 DEF n, p, b, cid

(* What is not an edit shows another track at its row, or the same one at the
   same place. *)
Shows ==
  /\ UNCHANGED <<items, nextItemId>>
  /\ \/ playback'.current = playback.current /\ playback'.hint = playback.hint
     \/ \E i \in 1 .. Len(items) : playback'.current = items[i] /\ playback'.hint = i

LEMMA ShowsPlace ==
  ASSUME AppTyped, PlaceInv, Shows
  PROVE  PlaceInv'
<1>0. QueueAssumption /\ QueueInv /\ items' = items /\ nextItemId' = nextItemId
  BY DEF AppTyped, AppInv, Assumptions, Shows
<1>1. CASE playback'.current = playback.current /\ playback'.hint = playback.hint
  BY <1>0, <1>1 DEF PlaceInv, Here
<1>2. ASSUME NEW i \in 1 .. Len(items), playback'.current = items[i], playback'.hint = i
      PROVE  PlaceInv'
  <2>1. /\ Len(items) \in Nat /\ DOMAIN items = 1 .. Len(items)
        /\ items[i].id \in 1 .. nextItemId - 1
    BY <1>0, ItemsFacts DEF QueueInv
  <2>2. nextItemId \in Nat
    BY <1>0 DEF QueueInv, ItemsOK, QueueAssumption
  <2>3. /\ playback'.hint <= Len(items') + 1 /\ playback'.hint <= Len(items')
        /\ playback'.current.id < nextItemId'
        /\ items'[playback'.hint].id = playback'.current.id
    BY <1>0, <1>2, <2>1, <2>2
  <2> QED
    BY <2>3 DEF PlaceInv
<1> QED
  BY <1>1, <1>2 DEF Shows

LEMMA SameShows ==
  ASSUME UNCHANGED <<items, nextItemId>>, UNCHANGED playback
  PROVE  Shows
BY DEF Shows

LEMMA ChosenPlace ==
  ASSUME NEW item, NEW index, NEW position, NEW generation, NEW chosen,
         chosen = Selected(item, index, position, generation)
  PROVE  /\ chosen.current = item /\ chosen.hint = index
         /\ \A status, request :
              LET loaded == [chosen EXCEPT !.status = status, !.request = request]
              IN  loaded.current = item /\ loaded.hint = index
<1>1. chosen = [generation |-> generation, status |-> "Stopped",
                seekRevision |-> playback.seekRevision, current |-> item,
                hint |-> index, timeline |-> 0, seekTarget |-> NoTime, position |-> position,
                duration |-> NoTime, request |-> "Play", finished |-> FALSE]
  BY DEF Selected, NewPlayback
<1> QED
  BY <1>1

LEMMA LoadTrackPlace ==
  ASSUME NEW its, NEW index, NEW position, NEW paused, NEW newRound,
         LoadTrack(its, index, position, paused, newRound)
  PROVE  playback'.current = its[index] /\ playback'.hint = index
<1> DEFINE chosen == Selected(its[index], index, position, NextGeneration)
           request == IF paused THEN "Pause" ELSE "Play"
<1>1. playback' = [chosen EXCEPT !.status = "Loading", !.request = request]
  BY DEF LoadTrack
<1>2. \A status, r :
        LET loaded == [chosen EXCEPT !.status = status, !.request = r]
        IN  loaded.current = its[index] /\ loaded.hint = index
  BY ChosenPlace
<1> HIDE DEF chosen, request
<1> QED
  BY <1>1, <1>2

LEMMA LoadShows ==
  ASSUME UNCHANGED <<items, nextItemId>>, NEW index \in 1 .. Len(items), NEW position,
         NEW paused, NEW newRound, LoadOrExhausted(index, position, paused, newRound)
  PROVE  Shows
<1>1. CASE LoadTrack(items, index, position, paused, newRound)
  <2>1. playback'.current = items[index] /\ playback'.hint = index
    BY <1>1, LoadTrackPlace
  <2> QED
    BY <2>1 DEF Shows
<1>2. CASE UNCHANGED playback
  BY <1>2, SameShows
<1> QED
  BY <1>1, <1>2 DEF LoadOrExhausted

LEMMA SelectStoppedShows ==
  ASSUME UNCHANGED <<items, nextItemId>>, NEW index \in 1 .. Len(items), SelectStopped(index)
  PROVE  Shows
<1>1. CASE UNCHANGED playback
  BY <1>1, SameShows
<1>2. ASSUME NEW generation, playback' = Selected(items[index], index, 0, generation)
      PROVE  Shows
  <2>1. playback'.current = items[index] /\ playback'.hint = index
    BY <1>2, ChosenPlace
  <2> QED
    BY <2>1 DEF Shows
<1> QED
  BY <1>1, <1>2 DEF SelectStopped

LEMMA NavigateToShows ==
  ASSUME AppTyped, UNCHANGED <<items, nextItemId>>, NEW index \in 1 .. Len(items),
         NavigateTo(index)
  PROVE  Shows
<1>1. RequestedStatus \in {"Playing", "Paused", "Stopped", "Error"}
  BY RequestedFacts
<1>2. CASE RequestedStatus = "Paused"
  BY <1>2, LoadShows DEF NavigateTo
<1>3. CASE RequestedStatus \in {"Stopped", "Error"}
  BY <1>3, SelectStoppedShows DEF NavigateTo
<1>4. CASE RequestedStatus = "Playing"
  BY <1>4, LoadShows DEF NavigateTo
<1> QED
  BY <1>1, <1>2, <1>3, <1>4

LEMMA StartSelectedShows ==
  ASSUME AppTyped, UNCHANGED <<items, nextItemId>>, StartSelected
  PROVE  Shows
<1> DEFINE index == AtMost(selection, Len(items))
<1>1. \E position : LoadOrExhausted(index, position, FALSE, TRUE) /\ items # <<>>
  BY DEF StartSelected
<1>2. items # <<>> => selection \in 1 .. Len(items) /\ Len(items) \in Nat
  BY RowFacts DEF AppTyped, AppInv, Assumptions
<1>3. items # <<>> => index \in 1 .. Len(items)
  BY <1>2 DEF AtMost
<1> HIDE DEF index
<1> QED
  BY <1>1, <1>3, LoadShows

(* What changes other fields of the playback state leaves the place alone. *)
LEMMA RequestShows ==
  ASSUME AppTyped, UNCHANGED <<items, nextItemId>>,
         NEW mode, NEW command, Request(mode, command)
  PROVE  Shows
<1>1. playback \in PlaybackStates /\ playback' = [playback EXCEPT !.request = mode]
  BY DEF AppTyped, AppInv, Shown, Request
<1>2. playback'.current = playback.current /\ playback'.hint = playback.hint
  BY <1>1 DEF PlaybackStates
<1> QED
  BY <1>2 DEF Shows

LEMMA StopTrackShows ==
  ASSUME AppTyped, UNCHANGED <<items, nextItemId>>, StopTrack
  PROVE  Shows
<1>1. CASE playback' = [playback EXCEPT !.status = "Stopped", !.seekTarget = NoTime]
  <2>1. playback \in PlaybackStates
    BY DEF AppTyped, AppInv, Shown
  <2>2. playback'.current = playback.current /\ playback'.hint = playback.hint
    BY <1>1, <2>1 DEF PlaybackStates
  <2> QED
    BY <2>2 DEF Shows
<1>2. CASE RequestStop
  BY <1>2, RequestShows DEF RequestStop
<1> QED
  BY <1>1, <1>2 DEF StopTrack

LEMMA EndOfQueueShows ==
  ASSUME AppTyped, UNCHANGED <<items, nextItemId>>, EndOfQueue
  PROVE  Shows
<1>1. CASE playback' = [playback EXCEPT !.status = "Stopped"]
  <2>1. playback \in PlaybackStates
    BY DEF AppTyped, AppInv, Shown
  <2>2. playback'.current = playback.current /\ playback'.hint = playback.hint
    BY <1>1, <2>1 DEF PlaybackStates
  <2> QED
    BY <2>2 DEF Shows
<1>2. CASE RequestStop
  BY <1>2, RequestShows DEF RequestStop
<1>3. CASE UNCHANGED playback
  BY <1>3, SameShows
<1> QED
  BY <1>1, <1>2, <1>3 DEF EndOfQueue

LEMMA NextTrackShows ==
  ASSUME AppTyped, UNCHANGED <<items, nextItemId>>, NextTrackMoves
  PROVE  Shows
<1>1. CASE items = <<>>
  BY <1>1, StopTrackShows DEF NextTrackMoves
<1>2. CASE items # <<>> /\ NextIndex = 0
  BY <1>2, EndOfQueueShows DEF NextTrackMoves
<1>3. CASE items # <<>> /\ NextIndex # 0
  <2>1. NextIndex \in 0 .. Len(items) /\ Len(items) \in Nat
    BY NavigationFacts, RowFacts
    DEF NextIndex, AppTyped, AppInv, Assumptions, Shown, PlaybackStates
  <2>2. NextIndex \in 1 .. Len(items)
    BY <1>3, <2>1
  <2>3. NavigateTo(NextIndex)
    BY <1>3 DEF NextTrackMoves
  <2> QED
    BY <2>2, <2>3, NavigateToShows
<1> QED
  BY <1>1, <1>2, <1>3

LEMMA PreviousTrackShows ==
  ASSUME AppTyped, UNCHANGED <<items, nextItemId>>, PreviousTrack
  PROVE  Shows
<1>1. CASE items = <<>>
  BY <1>1, StopTrackShows DEF PreviousTrack
<1>2. CASE items # <<>>
  <2> DEFINE here == OrPlace(CurrentIndex,
                             IF playback.current.id # 0 THEN playback.hint ELSE selection)
             previous == AtMost(OrPlace(PreviousIndex, here), Len(items))
  <2>1. /\ CurrentIndex \in 0 .. Len(items) /\ PreviousIndex \in 0 .. Len(items)
        /\ Len(items) \in Nat /\ selection \in 1 .. Len(items)
        /\ playback.hint \in Nat \ {0}
    BY <1>2, NavigationFacts, RowFacts
    DEF CurrentIndex, PreviousIndex, AppTyped, AppInv, Assumptions, Shown, PlaybackStates
  <2>2. here \in Nat \ {0}
    BY <2>1 DEF OrPlace
  <2>3. previous \in 1 .. Len(items)
    <3> HIDE DEF here
    <3> QED
      BY <2>1, <2>2 DEF OrPlace, AtMost
  <2>4. NavigateTo(previous)
    BY <1>2 DEF PreviousTrack
  <2> HIDE DEF previous
  <2> QED
    BY <2>3, <2>4, NavigateToShows
<1> QED
  BY <1>1, <1>2

LEMMA SeekToShows ==
  ASSUME AppTyped, UNCHANGED <<items, nextItemId>>, NEW position, SeekTo(position)
  PROVE  Shows
<1>1. /\ playback \in PlaybackStates
      /\ playback' = [playback EXCEPT !.seekTarget = position, !.position = position]
  BY DEF AppTyped, AppInv, Shown, SeekTo
<1>2. playback'.current = playback.current /\ playback'.hint = playback.hint
  BY <1>1 DEF PlaybackStates
<1> QED
  BY <1>2 DEF Shows

LEMMA ControlShows ==
  ASSUME AppTyped, UserControl
  PROVE  Shows
<1>1. ASSUME QueueKept PROVE UNCHANGED <<items, nextItemId>>
  BY <1>1 DEF QueueKept
<1>2. CASE PlayPause \/ Play \/ Pause \/ StopPlayback
  <2>1. UNCHANGED <<items, nextItemId>>
    BY <1>1, <1>2 DEF PlayPause, Play, Pause, StopPlayback, Kept
  <2>2. RequestPause \/ RequestResume \/ StartSelected \/ StopTrack
    BY <1>2 DEF PlayPause, Play, Pause, StopPlayback
  <2> QED
    BY <2>1, <2>2, RequestShows, StartSelectedShows, StopTrackShows
    DEF RequestPause, RequestResume
<1>3. CASE NextTrack
  BY <1>1, <1>3, NextTrackShows DEF NextTrack, Kept
<1>4. CASE PreviousTrack
  BY <1>1, <1>4, PreviousTrackShows DEF PreviousTrack, Kept
<1>5. ASSUME NEW forward \in BOOLEAN, SeekRelative(forward) PROVE Shows
  <2>1. UNCHANGED <<items, nextItemId>>
    BY <1>1, <1>5 DEF SeekRelative, Kept
  <2>2. NextTrackMoves \/ \E position : SeekTo(position)
    BY <1>5 DEF SeekRelative
  <2> QED
    BY <2>1, <2>2, NextTrackShows, SeekToShows
<1>6. ASSUME NEW position \in Positions, SeekAbsolute(position) PROVE Shows
  <2>1. UNCHANGED <<items, nextItemId>> /\ SeekTo(DecoderPosition(position))
    BY <1>1, <1>6 DEF SeekAbsolute, Kept
  <2> QED
    BY <2>1, SeekToShows
<1>7. CASE ToggleMute
  BY <1>1, <1>7, SameShows DEF ToggleMute
<1>8. CASE ToggleShuffle
  BY <1>8, SameShows DEF ToggleShuffle, SetShuffle
<1>9. ASSUME NEW mode \in RepeatMode, SetRepeat(mode) PROVE Shows
  BY <1>9, SameShows DEF SetRepeat, queueVars
<1> QED
  BY <1>2, <1>3, <1>4, <1>5, <1>6, <1>7, <1>8, <1>9 DEF UserControl, OtherControl

(* The reports. *)
LEMMA EventShows ==
  ASSUME AppTyped, NEW e, IsEvent(e), e.generation # 0, EventHandled(e)
  PROVE  Shows
<1>0. UNCHANGED <<items, nextItemId>> /\ playback \in PlaybackStates
  BY DEF EventHandled, QueueKept, AppTyped, AppInv, Shown
<1>1. ASSUME playback'.current = playback.current, playback'.hint = playback.hint
      PROVE  Shows
  BY <1>0, <1>1 DEF Shows
<1>2. CASE UNCHANGED playback
  BY <1>0, <1>2, SameShows
<1>3. CASE AdvanceAfterFinish
  <2> DEFINE again == IF repeat = "One" THEN CurrentIndex ELSE 0
             next == OrPlace(again, NextIndex)
             settled == [playback EXCEPT !.seekTarget = NoTime, !.status = "Stopped"]
  <2>1. /\ NextIndex \in 0 .. Len(items) /\ CurrentIndex \in 0 .. Len(items)
        /\ Len(items) \in Nat
    BY NavigationFacts, RowFacts
    DEF NextIndex, CurrentIndex, AppTyped, AppInv, Assumptions, Shown, PlaybackStates
  <2>2. next \in 0 .. Len(items)
    BY <2>1 DEF OrPlace
  <2>3. \/ playback' = [settled EXCEPT !.position = 0]
        \/ playback' = [settled EXCEPT
                          !.position = IF playback.duration # NoTime
                                       THEN playback.duration ELSE @,
                          !.finished = TRUE]
        \/ playback' = [playback EXCEPT !.seekTarget = NoTime]
        \/ next # 0 /\ \E paused : LoadTrack(items, next, 0, paused, FALSE)
    BY <1>3 DEF AdvanceAfterFinish
  <2> HIDE DEF next
  <2>4. ASSUME NEW paused, next # 0, LoadTrack(items, next, 0, paused, FALSE) PROVE Shows
    <3>1. next \in 1 .. Len(items)
      BY <2>1, <2>2, <2>4
    <3>2. playback'.current = items[next] /\ playback'.hint = next
      BY <2>4, LoadTrackPlace
    <3> QED
      BY <1>0, <3>1, <3>2 DEF Shows
  <2>5. CASE \/ playback' = [settled EXCEPT !.position = 0]
             \/ playback' = [settled EXCEPT
                               !.position = IF playback.duration # NoTime
                                            THEN playback.duration ELSE @,
                               !.finished = TRUE]
             \/ playback' = [playback EXCEPT !.seekTarget = NoTime]
    <3>1. playback'.current = playback.current /\ playback'.hint = playback.hint
      BY <1>0, <2>5 DEF PlaybackStates
    <3> QED
      BY <1>1, <3>1
  <2> QED
    BY <2>3, <2>4, <2>5
<1>4. CASE playback' = EventApplied(e) /\ e.type # "Finished"
  <2>0. e.type \in EventTypes
    BY DEF IsEvent
  <2>1. CASE e.type = "Started"
    <3> DEFINE pb == [playback EXCEPT
                        !.status = IF playback.request = "Pause" THEN "Paused" ELSE "Playing",
                        !.seekTarget = NoTime,
                        !.duration = e.duration]
    <3>1. pb.current = playback.current /\ pb.hint = playback.hint /\ DOMAIN pb = DOMAIN playback
      BY <1>0 DEF PlaybackStates
    <3>2. playback' = AtTimeline(pb, e.timeline, e.position)
      BY <1>4, <2>1 DEF EventApplied, Started
    <3>3. DOMAIN playback = {"generation", "status", "seekRevision", "current", "hint",
                             "timeline", "seekTarget", "position", "duration", "request",
                             "finished"}
      BY <1>0 DEF PlaybackStates
    <3> HIDE DEF pb
    <3>4. playback'.current = pb.current /\ playback'.hint = pb.hint
      BY <3>1, <3>2, <3>3 DEF AtTimeline
    <3> QED
      BY <1>1, <3>1, <3>4
  <2>2. CASE e.type = "Seeked"
    <3>1. CASE playback.seekTarget \notin {NoTime, e.position}
      <4>1. playback' = [playback EXCEPT !.timeline = AtLeast(@, e.timeline)]
        BY <1>4, <2>2, <3>1 DEF EventApplied, Seeked
      <4>2. playback'.current = playback.current /\ playback'.hint = playback.hint
        BY <1>0, <4>1 DEF PlaybackStates
      <4> QED
        BY <1>1, <4>2
    <3>2. CASE ~(playback.seekTarget \notin {NoTime, e.position})
      <4> DEFINE pb == [playback EXCEPT !.seekTarget = NoTime]
                 at == AtTimeline(pb, e.timeline, e.position)
      <4>1. playback' = [at EXCEPT !.seekRevision = @ + 1]
        BY <1>4, <2>2, <3>2 DEF EventApplied, Seeked
      <4>2. pb \in PlaybackStates /\ pb.current = playback.current /\ pb.hint = playback.hint
        BY <1>0 DEF PlaybackStates, Times
      <4>3. DOMAIN pb = {"generation", "status", "seekRevision", "current", "hint",
                         "timeline", "seekTarget", "position", "duration", "request",
                         "finished"}
        BY <4>2 DEF PlaybackStates
      <4> HIDE DEF pb
      <4>4. /\ at.current = pb.current /\ at.hint = pb.hint
            /\ DOMAIN at = DOMAIN pb
        BY <4>2, <4>3 DEF AtTimeline
      <4> HIDE DEF at
      <4>5. playback'.current = at.current /\ playback'.hint = at.hint
        BY <4>1, <4>3, <4>4
      <4> QED
        BY <1>1, <4>2, <4>4, <4>5
    <3> QED
      BY <3>1, <3>2
  <2>3. CASE e.type \in {"Paused", "Resumed", "Stopped", "Failed"}
    <3>1. \/ playback' = playback
          \/ playback' = [playback EXCEPT !.status = "Paused"]
          \/ playback' = [playback EXCEPT !.status = "Playing"]
          \/ playback' = [playback EXCEPT !.status = "Stopped", !.seekTarget = NoTime,
                                          !.position = 0]
          \/ playback' = [playback EXCEPT !.status = "Error", !.seekTarget = NoTime]
      BY <1>4, <2>3 DEF EventApplied
    <3>2. playback'.current = playback.current /\ playback'.hint = playback.hint
      BY <1>0, <3>1 DEF PlaybackStates
    <3> QED
      BY <1>1, <3>2
  <2>4. e.type # "Finished" => \/ e.type \in {"Paused", "Resumed", "Stopped", "Failed"}
                               \/ e.type \in {"Started", "Seeked"}
    BY <2>0 DEF EventTypes
  <2> QED
    BY <1>4, <2>1, <2>2, <2>3, <2>4
<1> QED
  BY <1>2, <1>3, <1>4 DEF EventHandled

LEMMA PositionShows ==
  ASSUME AppTyped, NEW report, PositionReported(report), UNCHANGED <<items, nextItemId>>
  PROVE  Shows
<1>1. playback \in PlaybackStates
  BY DEF AppTyped, AppInv, Shown
<1>2. playback'.current = playback.current /\ playback'.hint = playback.hint
  BY <1>1 DEF PositionReported, PlaybackStates
<1> QED
  BY <1>2 DEF Shows

-----------------------------------------------------------------------------
(* The edits. *)

(* Where a queue has the track, if it has it: at that place and no other. *)
LEMMA OnePlace ==
  ASSUME NEW its \in Seq(Item), NEW id, NEW k \in 1 .. Len(its), its[k].id = id,
         \A i, j \in 1 .. Len(its) : its[i].id = its[j].id => i = j
  PROVE  ItemPosition(its, id) = k /\ id \in Ids(its)
<1>1. DOMAIN its = 1 .. Len(its)
  BY LenProperties
<1>2. id \in Ids(its)
  BY <1>1 DEF Ids
<1>3. /\ ItemPosition(its, id) \in 1 .. Len(its)
      /\ its[ItemPosition(its, id)].id = id
  <2>1. ItemPosition(its, id) = CHOOSE i \in DOMAIN its : its[i].id = id
    BY <1>2 DEF ItemPosition
  <2> QED
    BY <1>1, <2>1
<1> QED
  BY <1>2, <1>3

(* A hint is moved onto the track or, once that has left, onto a row or the end. *)
LEMMA ReconciledPlace ==
  ASSUME NEW its \in Seq(Item), \A i, j \in 1 .. Len(its) : its[i].id = its[j].id => i = j,
         NEW pb \in PlaybackStates, NEW next, next = Reconciled(its, pb)
  PROVE  /\ next.current = pb.current
         /\ pb.current.id \in Ids(its) =>
              next.hint \in 1 .. Len(its) /\ its[next.hint].id = pb.current.id
         /\ pb.current.id \notin Ids(its) => next.hint = AtMost(pb.hint, Len(its) + 1)
<1> DEFINE index == CurrentPosition(its, pb.current, pb.hint)
           hint == IF index # 0 THEN index ELSE AtMost(pb.hint, Len(its) + 1)
<1>1. DOMAIN its = 1 .. Len(its) /\ Len(its) \in Nat
  BY LenProperties
<1>2. next = [pb EXCEPT !.hint = hint]
  BY DEF Reconciled
<1>3. next.current = pb.current /\ next.hint = hint
  <2> HIDE DEF hint
  <2> QED
    BY <1>2 DEF PlaybackStates
<1>4. /\ ItemPosition(its, pb.current.id) \in 0 .. Len(its)
      /\ ItemPosition(its, pb.current.id) # 0 =>
           its[ItemPosition(its, pb.current.id)].id = pb.current.id
      /\ ItemPosition(its, pb.current.id) = 0 => pb.current.id \notin Ids(its)
  BY ItemPositionFacts
<1>5. CASE pb.hint \in 1 .. Len(its) /\ its[pb.hint].id = pb.current.id
  <2>1. index = pb.hint /\ index # 0
    BY <1>1, <1>5 DEF CurrentPosition
  <2>2. pb.current.id \in Ids(its)
    BY <1>1, <1>5 DEF Ids
  <2> QED
    BY <1>3, <1>5, <2>1, <2>2
<1>6. CASE ~(pb.hint \in 1 .. Len(its) /\ its[pb.hint].id = pb.current.id)
  <2>1. index = ItemPosition(its, pb.current.id)
    BY <1>1, <1>6 DEF CurrentPosition
  <2>2. CASE pb.current.id \in Ids(its)
    <3>1. index # 0 /\ index \in 1 .. Len(its) /\ its[index].id = pb.current.id
      BY <1>1, <1>4, <2>1, <2>2
    <3> QED
      BY <1>3, <2>2, <3>1
  <2>3. CASE pb.current.id \notin Ids(its)
    <3>1. index = 0
      BY <2>1, <2>3 DEF ItemPosition
    <3> QED
      BY <1>3, <2>3, <3>1
  <2> QED
    BY <2>2, <2>3
<1> QED
  BY <1>5, <1>6

LEMMA ReconciledKeeps ==
  ASSUME AppTyped, PlaceInv, QueueInv', nextItemId' = nextItemId,
         NEW pb \in PlaybackStates, pb.current = playback.current,
         playback' = Reconciled(items', pb)
  PROVE  PlaceInv'
<1>1. /\ items' \in Seq(Item) /\ Len(items') \in Nat
      /\ \A i, j \in 1 .. Len(items') : items'[i].id = items'[j].id => i = j
  BY LenProperties DEF QueueInv, ItemsOK
<1> DEFINE id == pb.current.id
<1>2. /\ playback'.current = pb.current
      /\ id \in Ids(items') =>
           playback'.hint \in 1 .. Len(items') /\ items'[playback'.hint].id = id
      /\ id \notin Ids(items') => playback'.hint = AtMost(pb.hint, Len(items') + 1)
  BY <1>1, ReconciledPlace
<1>3. pb.hint \in Nat
  BY DEF PlaybackStates
<1>4. playback'.hint <= Len(items') + 1
  <2>1. CASE id \in Ids(items')
    BY <1>1, <1>2, <2>1
  <2>2. CASE id \notin Ids(items')
    BY <1>1, <1>2, <1>3, <2>2 DEF AtMost
  <2> QED
    BY <2>1, <2>2
<1>5. playback'.current.id < nextItemId'
  BY <1>2 DEF PlaceInv
<1>6. playback'.current.id \in Ids(items') =>
        playback'.hint <= Len(items') /\ items'[playback'.hint].id = playback'.current.id
  BY <1>1, <1>2
<1> QED
  BY <1>4, <1>5, <1>6 DEF PlaceInv, Here

(* An append keeps every row, and what it adds is not the track. *)
LEMMA AppendPlace ==
  ASSUME AppTyped, PlaceInv, NEW batch \in Batches, AppendItems(batch), UNCHANGED playback
  PROVE  /\ PlaceInv'
         /\ Here' <=> Here
         /\ playback.current.id \notin Ids(items') \ Ids(items)
         /\ Len(items') \in Nat /\ Len(items) <= Len(items')
         /\ \A i \in 1 .. Len(items) : items'[i] = items[i]
<1>0. QueueAssumption /\ QueueInv
  BY DEF AppTyped, AppInv, Assumptions
<1>1. /\ ItemsOK(items', queuedAssets', nextItemId')
      /\ Ids(items') = Ids(items) \cup Ids(Appended(batch))
      /\ Len(items') = Len(items) + Len(batch)
  BY <1>0, AppendItemsEstablishes
<1>2. /\ items \in Seq(Item) /\ Len(items) \in Nat /\ DOMAIN items = 1 .. Len(items)
  BY <1>0, RowFacts
<1>3. batch \in Seq(Entries) /\ Len(batch) \in Nat /\ DOMAIN batch = 1 .. Len(batch)
  BY <1>0, LenProperties DEF QueueAssumption
<1>4. /\ nextItemId \in Nat /\ nextItemId' = nextItemId + Len(batch)
      /\ playback.current.id \in Nat
  BY <1>0, CurrentFacts DEF QueueInv, ItemsOK, AppendItems, QueueAssumption
<1>5. playback.current.id \notin Ids(Appended(batch))
  <2> DEFINE new == Appended(batch)
  <2>1. new = [k \in 1 .. Len(batch) |-> [id |-> nextItemId + k - 1, entry |-> batch[k]]]
    BY DEF Appended
  <2>2. DOMAIN new = 1 .. Len(batch) /\ \A k \in 1 .. Len(batch) : new[k].id = nextItemId + k - 1
    BY <2>1
  <2> HIDE DEF new
  <2>3. \A k \in 1 .. Len(batch) : new[k].id # playback.current.id
    BY <1>3, <1>4, <2>2 DEF PlaceInv
  <2>4. playback.current.id \notin Ids(new)
    BY <2>2, <2>3 DEF Ids
  <2> QED
    BY <2>4 DEF new
<1>6. \A i \in 1 .. Len(items) : items'[i] = items[i]
  <2> DEFINE new == Appended(batch)
             Row == [id : Int, entry : Entries]
  <2>1. new \in Seq(Row) /\ Len(new) = Len(batch)
    <3>1. \A k \in 1 .. Len(batch) : batch[k] \in Entries
      BY <1>3, ElementOfSeq
    <3>2. new \in [1 .. Len(batch) -> Row]
      BY <1>3, <1>4, <3>1 DEF Appended
    <3> HIDE DEF new, Row
    <3> QED
      BY <1>3, <3>2
  <2>2. items \in Seq(Row)
    <3>1. Item \subseteq Row
      BY DEF Item
    <3> HIDE DEF Row
    <3> QED
      BY <1>2, <3>1, SeqMonotonic
  <2>3. items' = items \o new
    BY DEF AppendItems
  <2> HIDE DEF new, Row
  <2>4. \A i \in 1 .. Len(items) + Len(new) :
          items'[i] = IF i <= Len(items) THEN items[i] ELSE new[i - Len(items)]
    BY <2>1, <2>2, <2>3, ConcatProperties
  <2> QED
    BY <1>2, <1>3, <2>1, <2>4
<1>7. Len(items') \in Nat /\ Len(items) <= Len(items')
  BY <1>1, <1>2, <1>3
<1>8. playback.current.id \in Ids(items') <=> playback.current.id \in Ids(items)
  BY <1>1, <1>5
<1>9. playback.hint \in Nat \ {0}
  BY OwnHint
<1>10. /\ playback.hint <= Len(items') + 1
       /\ playback.current.id < nextItemId'
       /\ Here => /\ playback.hint <= Len(items')
                  /\ items'[playback.hint].id = playback.current.id
  BY <1>2, <1>3, <1>4, <1>6, <1>7, <1>9 DEF PlaceInv
<1> QED
  BY <1>1, <1>5, <1>6, <1>7, <1>8, <1>10 DEF PlaceInv, Here

(* The row of the track after the k-th one is removed. *)
LEMMA RemovePlace ==
  ASSUME AppTyped, PlaceInv, RemoveQueueItem
  PROVE  /\ PlaceInv'
         /\ playback'.current = playback.current
         /\ playback'.hint =
              IF selection < playback.hint THEN playback.hint - 1 ELSE playback.hint
         /\ Ids(items') = Ids(items) \ {items[selection].id}
         /\ selection \in 1 .. Len(items)
         /\ Len(items') = Len(items) - 1
         /\ \A i \in 1 .. Len(items') :
              items'[i] = IF i < selection THEN items[i] ELSE items[i + 1]
<1> DEFINE n == Len(items)
           k == selection
           h == playback.hint
           cid == playback.current.id
           shifted == IF CurrentIndex = 0 /\ k < h THEN [playback EXCEPT !.hint = @ - 1]
                      ELSE playback
<1>0. QueueAssumption /\ QueueInv /\ playback \in PlaybackStates /\ RemoveSelected
  BY DEF AppTyped, AppInv, Assumptions, Shown, RemoveQueueItem
<1>1. /\ items \in Seq(Item) /\ n \in Nat /\ DOMAIN items = 1 .. n
      /\ \A i, j \in 1 .. n : items[i].id = items[j].id => i = j
  BY <1>0, RowFacts DEF QueueInv, ItemsOK
<1>2. k \in 1 .. n
  <2>1. items # <<>> => k \in 1 .. n
    BY <1>0, RowFacts
  <2>2. n = 0 <=> items = <<>>
    BY <1>0, RowFacts
  <2>3. k <= n /\ k \in Nat \ {0}
    BY <1>0, RowFacts DEF RemoveSelected
  <2> QED
    BY <1>1, <2>1, <2>2, <2>3
<1>3. QueueInv' /\ nextItemId' = nextItemId
  BY <1>0, RemoveSelectedInv DEF RemoveSelected
<1>4. /\ Ids(items') = Ids(items) \ {items[k].id}
      /\ Len(items') = n - 1
      /\ \A i \in 1 .. n - 1 : items'[i] = IF i < k THEN items[i] ELSE items[i + 1]
  <2>1. /\ items' = RemoveAt(items, k)
        /\ queuedAssets' = queuedAssets \ {AssetOf[items[k].entry]}
    BY <1>0 DEF RemoveSelected
  <2>2. ItemsOK(items, queuedAssets, nextItemId)
    BY <1>0 DEF QueueInv
  <2>3. Ids(items') = Ids(items) \ {items[k].id}
    BY <1>0, <1>2, <1>3, <2>1, <2>2, RemovalOfItem
  <2> QED
    BY <1>1, <1>2, <2>1, <2>3, RemoveAtProperties
<1>5. /\ h \in 1 .. n + 1
      /\ CurrentIndex = IF Here THEN h ELSE 0
      /\ Here => h \in 1 .. n /\ items[h].id = cid
  <2>1. h \in 1 .. n + 1 /\ CurrentIndex = IF Here THEN h ELSE 0
    BY CurrentFacts DEF CurrentIndex
  <2>2. Here => h <= n /\ items[h].id = cid
    BY DEF PlaceInv
  <2> QED
    BY <1>1, <2>1, <2>2
<1>6. playback' = Reconciled(items', shifted)
  BY DEF RemoveQueueItem
<1>7. /\ shifted \in PlaybackStates /\ shifted.current = playback.current
      /\ shifted.hint = IF ~Here /\ k < h THEN h - 1 ELSE h
  <2>1. CASE CurrentIndex = 0 /\ k < h
    <3>1. ~Here
      BY <1>5, <2>1
    <3>2. h - 1 \in Nat \ {0} /\ shifted = [playback EXCEPT !.hint = h - 1]
      BY <1>2, <1>5, <2>1
    <3> HIDE DEF shifted
    <3>3. /\ shifted \in PlaybackStates /\ shifted.current = playback.current
          /\ shifted.hint = h - 1
      BY <1>0, <3>2 DEF PlaybackStates
    <3> QED
      BY <2>1, <3>1, <3>3
  <2>2. CASE ~(CurrentIndex = 0 /\ k < h)
    <3>1. ~(~Here /\ k < h)
      BY <1>5, <2>2
    <3> QED
      BY <1>0, <2>2, <3>1
  <2> QED
    BY <2>1, <2>2
<1> HIDE DEF shifted
<1>8. PlaceInv'
  BY <1>3, <1>6, <1>7, ReconciledKeeps
<1>9. /\ items' \in Seq(Item)
      /\ \A i, j \in 1 .. Len(items') : items'[i].id = items'[j].id => i = j
  BY <1>3 DEF QueueInv, ItemsOK
<1>10. /\ playback'.current = playback.current
       /\ cid \in Ids(items') =>
            playback'.hint \in 1 .. Len(items') /\ items'[playback'.hint].id = cid
       /\ cid \notin Ids(items') => playback'.hint = AtMost(shifted.hint, Len(items') + 1)
  BY <1>6, <1>7, <1>9, ReconciledPlace
<1>11. playback'.hint = IF k < h THEN h - 1 ELSE h
  <2>1. CASE Here /\ h # k
    <3> DEFINE j == IF h < k THEN h ELSE h - 1
    <3>1. j \in 1 .. n - 1 /\ (IF j < k THEN j ELSE j + 1) = h /\ j = IF k < h THEN h - 1 ELSE h
      BY <1>1, <1>2, <1>5, <2>1
    <3>2. items'[j].id = cid
      BY <1>4, <1>5, <2>1, <3>1
    <3> HIDE DEF j
    <3>3. cid \in Ids(items') /\ ItemPosition(items', cid) = j
      BY <1>4, <1>9, <3>1, <3>2, OnePlace
    <3>4. playback'.hint = j
      BY <1>4, <1>9, <1>10, <3>1, <3>2, <3>3
    <3> QED
      BY <3>1, <3>4
  <2>2. CASE Here /\ h = k
    <3>1. cid \notin Ids(items')
      BY <1>4, <1>5, <2>2
    <3>2. shifted.hint = h
      BY <1>7, <2>2
    <3> QED
      BY <1>1, <1>4, <1>5, <1>10, <2>2, <3>1, <3>2 DEF AtMost
  <2>3. CASE ~Here
    <3>1. cid \notin Ids(items')
      BY <1>4, <2>3 DEF Here
    <3>2. shifted.hint = IF k < h THEN h - 1 ELSE h
      BY <1>7, <2>3
    <3>3. playback'.hint = AtMost(shifted.hint, n)
      <4>1. Len(items') + 1 = n
        BY <1>1, <1>4
      <4> QED
        BY <1>10, <3>1, <4>1
    <3>4. CASE k < h
      BY <1>1, <1>2, <1>5, <3>2, <3>3, <3>4 DEF AtMost
    <3>5. CASE ~(k < h)
      BY <1>1, <1>2, <1>5, <3>2, <3>3, <3>5 DEF AtMost
    <3> QED
      BY <3>4, <3>5
  <2> QED
    BY <2>1, <2>2, <2>3
<1> QED
  BY <1>2, <1>4, <1>8, <1>10, <1>11

(* What was behind the track and is kept stays behind it, in order. *)
LEMMA PrefixKept ==
  ASSUME NEW s \in Seq(Nat), NEW t \in Seq(Nat), NEW b \in 0 .. Len(s), b \in 0 .. Len(t),
         IsInjective(s), \A i \in 1 .. b : t[i] = s[i],
         NEW kept, \A i \in 1 .. b : s[i] \in kept
  PROVE  KeepsInOrder(SubSeq(s, 1, b), SubSeq(t, 1, b), kept)
<1> DEFINE p == SubSeq(s, 1, b)
           q == SubSeq(t, 1, b)
<1>1. Len(s) \in Nat /\ DOMAIN s = 1 .. Len(s) /\ b \in Nat
  BY LenProperties
<1>2. /\ DOMAIN p = 1 .. b /\ \A i \in 1 .. b : p[i] = s[i]
      /\ DOMAIN q = 1 .. b /\ \A i \in 1 .. b : q[i] = t[i]
  BY PrefixFacts
<1> HIDE DEF p, q
<1>3. \A i \in 1 .. b : p[i] = s[i] /\ q[i] = s[i] /\ i \in DOMAIN s
  <2> SUFFICES ASSUME NEW i \in 1 .. b
               PROVE  p[i] = s[i] /\ q[i] = s[i] /\ i \in DOMAIN s
    OBVIOUS
  <2>1. p[i] = s[i] /\ q[i] = t[i] /\ t[i] = s[i]
    BY <1>2
  <2>2. i \in DOMAIN s
    BY <1>1
  <2> QED
    BY <2>1, <2>2
<1>4. ToSet(q) = ToSet(p) \cap kept
  BY <1>2, <1>3 DEF ToSet
<1>5. ASSUME NEW i \in DOMAIN q, NEW j \in DOMAIN q, NEW m \in DOMAIN p, NEW n \in DOMAIN p,
             i < j, q[i] = p[m], q[j] = p[n]
      PROVE  m < n
  <2>1. i \in 1 .. b /\ j \in 1 .. b /\ m \in 1 .. b /\ n \in 1 .. b
    BY <1>2
  <2>2. s[i] = s[m] /\ s[j] = s[n]
    BY <1>3, <1>5, <2>1
  <2>3. i = m /\ j = n
    BY <1>3, <2>1, <2>2 DEF IsInjective
  <2> QED
    BY <1>5, <2>3
<1> QED
  BY <1>4, <1>5 DEF KeepsInOrder, p, q

LEMMA RemovalKept ==
  ASSUME NEW s \in Seq(Nat), NEW b \in 0 .. Len(s), NEW k \in 1 .. Len(s), IsInjective(s),
         NEW kept, \A i \in 1 .. Len(s) : s[i] \in kept <=> i # k
  PROVE  KeepsInOrder(SubSeq(s, 1, b),
                      SubSeq(RemoveAt(s, k), 1, IF k <= b THEN b - 1 ELSE b), kept)
<1> DEFINE r == RemoveAt(s, k)
           c == IF k <= b THEN b - 1 ELSE b
           p == SubSeq(s, 1, b)
           q == SubSeq(r, 1, c)
           at(i) == IF i < k THEN i ELSE i + 1
<1>1. Len(s) \in Nat /\ DOMAIN s = 1 .. Len(s) /\ b \in Nat /\ k \in Nat
  BY LenProperties
<1>2. /\ r \in Seq(Nat) /\ Len(r) = Len(s) - 1
      /\ \A i \in 1 .. Len(s) - 1 : r[i] = s[at(i)]
  BY RemoveAtProperties
<1> HIDE DEF r
<1>3. c \in 0 .. Len(r) /\ c \in Nat
  BY <1>1, <1>2
<1>4. /\ \A i \in 1 .. c : i \in 1 .. Len(s) - 1 /\ at(i) \in 1 .. b /\ at(i) # k
      /\ \A i, j \in 1 .. c : i < j => at(i) < at(j)
  BY <1>1
<1>5. \A m \in 1 .. b : m # k => \E i \in 1 .. c : at(i) = m
  <2> SUFFICES ASSUME NEW m \in 1 .. b, m # k PROVE \E i \in 1 .. c : at(i) = m
    OBVIOUS
  <2> DEFINE i == IF m < k THEN m ELSE m - 1
  <2>1. i \in 1 .. c /\ at(i) = m
    BY <1>1
  <2> QED
    BY <2>1
<1>6. \A m \in 1 .. b : m \in 1 .. Len(s)
  BY <1>1
<1> HIDE DEF c, at
<1>7. /\ DOMAIN p = 1 .. b /\ \A m \in 1 .. b : p[m] = s[m]
      /\ DOMAIN q = 1 .. c /\ \A i \in 1 .. c : q[i] = r[i]
  BY <1>2, <1>3, PrefixFacts
<1> HIDE DEF p, q
<1>8. \A i \in 1 .. c : q[i] = s[at(i)]
  BY <1>2, <1>4, <1>7
<1>9. ASSUME NEW x PROVE x \in ToSet(q) <=> x \in ToSet(p) /\ x \in kept
  <2>1. ASSUME NEW i \in 1 .. c, x = q[i] PROVE x \in ToSet(p) /\ x \in kept
    <3>1. at(i) \in 1 .. b /\ at(i) # k /\ at(i) \in 1 .. Len(s)
      BY <1>4, <1>6
    <3>2. x = s[at(i)] /\ x = p[at(i)]
      BY <1>7, <1>8, <2>1, <3>1
    <3> QED
      BY <1>7, <3>1, <3>2 DEF ToSet
  <2>2. ASSUME NEW m \in 1 .. b, x = p[m], x \in kept PROVE x \in ToSet(q)
    <3>1. m \in 1 .. Len(s) /\ x = s[m]
      BY <1>6, <1>7, <2>2
    <3>2. m # k
      BY <2>2, <3>1
    <3>3. PICK i \in 1 .. c : at(i) = m
      BY <1>5, <3>2
    <3>4. x = q[i]
      BY <1>8, <3>1, <3>3
    <3> QED
      BY <1>7, <3>4 DEF ToSet
  <2>3. /\ x \in ToSet(q) => \E i \in 1 .. c : x = q[i]
        /\ x \in ToSet(p) => \E m \in 1 .. b : x = p[m]
    BY <1>7 DEF ToSet
  <2> QED
    BY <2>1, <2>2, <2>3
<1>10. ASSUME NEW i \in DOMAIN q, NEW j \in DOMAIN q, NEW m \in DOMAIN p, NEW n \in DOMAIN p,
              i < j, q[i] = p[m], q[j] = p[n]
       PROVE  m < n
  <2>1. i \in 1 .. c /\ j \in 1 .. c /\ m \in 1 .. b /\ n \in 1 .. b
    BY <1>7
  <2>2. s[at(i)] = s[m] /\ s[at(j)] = s[n]
    BY <1>7, <1>8, <1>10, <2>1
  <2>3. /\ at(i) \in DOMAIN s /\ at(j) \in DOMAIN s
        /\ m \in DOMAIN s /\ n \in DOMAIN s
    BY <1>1, <1>4, <1>6, <2>1
  <2>4. at(i) = m /\ at(j) = n
    BY <2>2, <2>3 DEF IsInjective
  <2> QED
    BY <1>4, <1>10, <2>1, <2>4
<1>11. ToSet(q) = ToSet(p) \cap kept
  BY <1>9
<1>12. KeepsInOrder(p, q, kept)
  BY <1>10, <1>11 DEF KeepsInOrder
<1> QED
  BY <1>12 DEF p, q, r, c

(* The state lemmas once more, as facts about every state. *)
LEMMA PlayOrderAlways ==
  AppTyped => /\ Len(items) \in Nat /\ DOMAIN items = 1 .. Len(items)
              /\ PlayOrder \in Seq(Nat) /\ Len(PlayOrder) = Len(items)
              /\ ToSet(PlayOrder) = Ids(items)
BY PlayOrderFacts

LEMMA SplitsAlways ==
  AppTyped /\ PlaceInv /\ Placed /\ playback.current.id # 0 =>
    /\ Behind = SubSeq(PlayOrder, 1, Before)
    /\ ToSet(Behind) \subseteq Ids(items)
    /\ ToSet(Upcoming) = Ids(items) \ (ToSet(Behind) \cup {playback.current.id})
BY PlaceSplits

(* What an edit that keeps the track has to do with the queue. *)
KeptPlace ==
  /\ ToSet(Upcoming') = (ToSet(Upcoming) \cap Ids(items')) \cup (Ids(items') \ Ids(items))
  /\ KeepsInOrder(Behind, Behind', Ids(items'))

LEMMA KeepsPlace ==
  ASSUME AppTyped, PlaceInv, Placed, AppTyped', PlaceInv', Placed',
         playback.current.id # 0, playback'.current = playback.current,
         playback.current.id \notin Ids(items') \ Ids(items),
         KeepsInOrder(SubSeq(PlayOrder, 1, Before), SubSeq(PlayOrder', 1, Before'), Ids(items'))
  PROVE  KeptPlace
<1>1. /\ Behind = SubSeq(PlayOrder, 1, Before)
      /\ ToSet(Behind) \subseteq Ids(items)
      /\ ToSet(Upcoming) = Ids(items) \ (ToSet(Behind) \cup {playback.current.id})
  BY PlaceSplits
<1>2. /\ Behind' = SubSeq(PlayOrder', 1, Before')
      /\ ToSet(Upcoming') = Ids(items') \ (ToSet(Behind') \cup {playback'.current.id})
  <2>1. (AppTyped /\ PlaceInv /\ Placed /\ playback.current.id # 0 =>
           /\ Behind = SubSeq(PlayOrder, 1, Before)
           /\ ToSet(Behind) \subseteq Ids(items)
           /\ ToSet(Upcoming) = Ids(items) \ (ToSet(Behind) \cup {playback.current.id}))'
    BY SplitsAlways, PTL
  <2>2. playback'.current.id # 0
    OBVIOUS
  <2> QED
    BY <2>1, <2>2
<1>3. KeepsInOrder(Behind, Behind', Ids(items'))
  BY <1>1, <1>2
<1>4. ToSet(Behind') = ToSet(Behind) \cap Ids(items')
  BY <1>3 DEF KeepsInOrder
<1>5. ToSet(Upcoming') = (ToSet(Upcoming) \cap Ids(items')) \cup (Ids(items') \ Ids(items))
  BY <1>1, <1>2, <1>4
<1> QED
  BY <1>3, <1>5 DEF KeptPlace

(* Appending under a track adds behind its place. *)
LEMMA AppendKeepsPlace ==
  ASSUME AppTyped, AppTyped', PlaceInv, Placed, NEW batch \in Batches,
         AppendItems(batch), ExtendShuffleOrder(Ids(Appended(batch))), UNCHANGED playback,
         playback.current.id # 0
  PROVE  KeptPlace
<1> DEFINE reached == IF Here THEN Before + 1 ELSE Before
<1>0. QueueAssumption /\ QueueInv /\ shuffle' = shuffle
  BY DEF AppTyped, AppInv, Assumptions, AppendItems
<1>1. /\ PlaceInv'
      /\ Here' <=> Here
      /\ playback.current.id \notin Ids(items') \ Ids(items)
      /\ Len(items') \in Nat /\ Len(items) <= Len(items')
      /\ \A i \in 1 .. Len(items) : items'[i] = items[i]
  BY AppendPlace
<1>2. /\ Len(items) \in Nat /\ DOMAIN items = 1 .. Len(items)
      /\ PlayOrder \in Seq(Nat) /\ Len(PlayOrder) = Len(items) /\ IsInjective(PlayOrder)
      /\ ToSet(PlayOrder) = Ids(items) /\ DOMAIN PlayOrder = 1 .. Len(items)
  BY PlayOrderFacts
<1>3. /\ Len(items') \in Nat /\ DOMAIN items' = 1 .. Len(items')
      /\ PlayOrder' \in Seq(Nat) /\ Len(PlayOrder') = Len(items')
  <2>1. (AppTyped => /\ Len(items) \in Nat /\ DOMAIN items = 1 .. Len(items)
                     /\ PlayOrder \in Seq(Nat) /\ Len(PlayOrder) = Len(items)
                     /\ ToSet(PlayOrder) = Ids(items))'
    BY PlayOrderAlways, PTL
  <2> QED
    BY <2>1
<1>4. /\ Before \in 0 .. Len(items)
      /\ Here => Before < Len(items) /\ PlayOrder[Before + 1] = playback.current.id
  BY DEF Placed
<1>5. shuffleCursor' = shuffleCursor
  BY DEF ExtendShuffleOrder
<1>6. Before' = Before
  BY <1>0, <1>1, <1>5 DEF Before
<1>7. reached \in 0 .. Len(items) /\ (shuffle => reached = shuffleCursor)
  <2>1. shuffle => shuffleCursor \in Nat
    BY <1>0 DEF QueueInv, OrderOK
  <2>2. shuffle => Before = IF Here THEN shuffleCursor - 1 ELSE shuffleCursor
    BY DEF Before
  <2> QED
    BY <1>2, <1>4, <2>1, <2>2
<1> HIDE DEF reached
<1>8. \A i \in 1 .. reached : PlayOrder'[i] = PlayOrder[i]
  <2>1. CASE ~shuffle
    <3>1. /\ PlayOrder = [i \in 1 .. Len(items) |-> items[i].id]
          /\ PlayOrder' = [i \in 1 .. Len(items') |-> items'[i].id]
      BY <1>0, <1>2, <1>3, <2>1 DEF PlayOrder
    <3>2. \A i \in 1 .. reached : i \in 1 .. Len(items) /\ i \in 1 .. Len(items')
      BY <1>1, <1>2, <1>7
    <3> QED
      BY <1>1, <3>1, <3>2
  <2>2. CASE shuffle
    <3> DEFINE played == SubSeq(shuffleOrder, 1, shuffleCursor)
               new == {shuffleOrder[i] : i \in shuffleCursor + 1 .. Len(shuffleOrder)}
                        \cup Ids(Appended(batch))
    <3>1. PlayOrder = shuffleOrder /\ PlayOrder' = shuffleOrder'
      BY <1>0, <2>2 DEF PlayOrder
    <3>2. shuffleCursor \in 0 .. Len(shuffleOrder) /\ Len(shuffleOrder) \in Nat
      BY <1>0, <1>2, <3>1 DEF QueueInv, OrderOK
    <3>3. AtMost(shuffleCursor, Len(shuffleOrder)) = shuffleCursor
      BY <3>2 DEF AtMost
    <3>4. PICK rest \in Bijection(1 .. Cardinality(new), new) : shuffleOrder' = played \o rest
      BY <2>2, <3>3 DEF ExtendShuffleOrder, Orders
    <3>5. IsFiniteSet(new) /\ new \subseteq Nat
      <4>1. Ids(Appended(batch)) \subseteq Nat /\ IsFiniteSet(Ids(Appended(batch)))
        BY <1>0, AppendItemsEstablishes
      <4>2. IsFiniteSet(Ids(items)) /\ Ids(items) \subseteq Nat
        BY <1>0, ItemsFacts DEF QueueInv
      <4>3. \A i \in shuffleCursor + 1 .. Len(shuffleOrder) : i \in DOMAIN shuffleOrder
        BY <1>2, <3>1, <3>2
      <4>4. \A i \in DOMAIN shuffleOrder : shuffleOrder[i] \in Ids(items)
        BY <1>2, <3>1 DEF ToSet
      <4>5. new \subseteq Ids(items) \cup Ids(Appended(batch))
        BY <4>3, <4>4
      <4> HIDE DEF new
      <4>6. IsFiniteSet(Ids(items) \cup Ids(Appended(batch)))
        BY <4>1, <4>2, FS_Union
      <4> QED
        BY <4>1, <4>2, <4>5, <4>6, FS_Subset
    <3> HIDE DEF new
    <3>6. rest \in Seq(Nat)
      <4>1. rest \in Seq(new)
        BY <3>4, <3>5, ListingDistinct
      <4> QED
        BY <3>5, <4>1, SeqMonotonic
    <3>7. /\ played \in Seq(Nat) /\ Len(played) = shuffleCursor
          /\ \A i \in 1 .. shuffleCursor : played[i] = shuffleOrder[i]
      BY <1>2, <3>1, <3>2, PrefixFacts
    <3> HIDE DEF played
    <3>8. \A i \in 1 .. Len(played) + Len(rest) :
            shuffleOrder'[i] = IF i <= Len(played) THEN played[i] ELSE rest[i - Len(played)]
      BY <3>4, <3>6, <3>7, ConcatProperties
    <3>9. Len(rest) \in Nat
      BY <3>6, LenProperties
    <3>10. \A i \in 1 .. shuffleCursor : shuffleOrder'[i] = shuffleOrder[i]
      BY <3>2, <3>7, <3>8, <3>9
    <3> QED
      BY <1>7, <2>2, <3>1, <3>10
  <2> QED
    BY <2>1, <2>2
<1>9. Placed'
  <2>1. Before' \in 0 .. Len(items')
    BY <1>1, <1>2, <1>4, <1>6
  <2>2. ASSUME Here
        PROVE  Before' < Len(items') /\ PlayOrder'[Before' + 1] = playback'.current.id
    <3>1. reached = Before + 1 /\ reached \in 1 .. reached
      BY <1>4, <2>2 DEF reached
    <3>2. PlayOrder'[Before + 1] = playback.current.id
      BY <1>4, <1>8, <2>2, <3>1
    <3>3. Before < Len(items')
      BY <1>1, <1>2, <1>4, <2>2
    <3> QED
      BY <1>6, <3>2, <3>3
  <2> QED
    BY <1>1, <2>1, <2>2 DEF Placed
<1>10. \A i \in 1 .. Before : i \in 1 .. reached /\ i \in 1 .. Len(items)
  BY <1>2, <1>4 DEF reached
<1>11. KeepsInOrder(SubSeq(PlayOrder, 1, Before), SubSeq(PlayOrder', 1, Before'), Ids(items'))
  <2>1. \A i \in 1 .. Before : PlayOrder[i] \in Ids(items')
    <3>1. Ids(items) \subseteq Ids(items')
      BY <1>0, AppendItemsEstablishes
    <3>2. \A i \in 1 .. Len(items) : PlayOrder[i] \in Ids(items)
      BY <1>2 DEF ToSet
    <3> QED
      BY <1>10, <3>1, <3>2
  <2>2. /\ Before \in 0 .. Len(PlayOrder) /\ Before \in 0 .. Len(PlayOrder')
        /\ \A i \in 1 .. Before : PlayOrder'[i] = PlayOrder[i]
    BY <1>1, <1>2, <1>3, <1>4, <1>8, <1>10
  <2>3. PICK t \in Seq(Nat) : t = PlayOrder'
    BY <1>3
  <2>4. KeepsInOrder(SubSeq(PlayOrder, 1, Before), SubSeq(t, 1, Before), Ids(items'))
    BY <1>2, <2>1, <2>2, <2>3, PrefixKept
  <2> QED
    BY <1>6, <2>3, <2>4
<1> QED
  BY <1>1, <1>9, <1>11, KeepsPlace

(* Removing a track under another one, or under itself, takes it out of the order. *)
LEMMA RemoveKeepsOrder ==
  ASSUME AppTyped, AppTyped', PlaceInv, Placed, RemoveQueueItem
  PROVE  /\ Placed'
         /\ \E q \in 1 .. Len(items) :
              /\ PlayOrder[q] = items[selection].id
              /\ PlayOrder' = RemoveAt(PlayOrder, q)
              /\ Before' = IF q <= Before THEN Before - 1 ELSE Before
<1> DEFINE n == Len(items)
           k == selection
           h == playback.hint
           cid == playback.current.id
           b == Before
<1>0. QueueAssumption /\ QueueInv /\ RemoveSelected /\ shuffle' = shuffle
  BY DEF AppTyped, AppInv, Assumptions, RemoveQueueItem, RemoveSelected
<1>1. /\ PlaceInv'
      /\ playback'.current = playback.current
      /\ playback'.hint = IF k < h THEN h - 1 ELSE h
      /\ Ids(items') = Ids(items) \ {items[k].id}
      /\ k \in 1 .. n
      /\ Len(items') = n - 1
      /\ \A i \in 1 .. Len(items') :
           items'[i] = IF i < k THEN items[i] ELSE items[i + 1]
  BY RemovePlace
<1>2. /\ n \in Nat /\ DOMAIN items = 1 .. n
      /\ PlayOrder \in Seq(Nat) /\ Len(PlayOrder) = n /\ IsInjective(PlayOrder)
      /\ ToSet(PlayOrder) = Ids(items) /\ DOMAIN PlayOrder = 1 .. n
  BY PlayOrderFacts
<1>3. /\ DOMAIN items' = 1 .. n - 1
      /\ PlayOrder' \in Seq(Nat) /\ Len(PlayOrder') = n - 1
  <2>1. (AppTyped => /\ Len(items) \in Nat /\ DOMAIN items = 1 .. Len(items)
                     /\ PlayOrder \in Seq(Nat) /\ Len(PlayOrder) = Len(items)
                     /\ ToSet(PlayOrder) = Ids(items))'
    BY PlayOrderAlways, PTL
  <2> QED
    BY <1>1, <2>1
<1>4. b \in 0 .. n /\ (Here => b < n /\ PlayOrder[b + 1] = cid)
  BY DEF Placed
<1>5. h \in 1 .. n + 1 /\ (Here => h \in 1 .. n /\ items[h].id = cid)
  <2>1. h \in 1 .. n + 1
    BY CurrentFacts
  <2>2. Here => h <= n /\ items[h].id = cid
    BY DEF PlaceInv
  <2> QED
    BY <1>2, <2>1, <2>2
<1>6. Here' <=> Here /\ items[k].id # cid
  BY <1>1 DEF Here
<1>7. \A i, j \in 1 .. n : PlayOrder[i] = PlayOrder[j] => i = j
  BY <1>2 DEF IsInjective
<1>8. \E q \in 1 .. n :
        /\ PlayOrder[q] = items[k].id
        /\ PlayOrder' = RemoveAt(PlayOrder, q)
        /\ Before' = IF q <= b THEN b - 1 ELSE b
  <2>1. CASE ~shuffle
    <3>1. /\ \A i \in 1 .. n : PlayOrder[i] = items[i].id
          /\ PlayOrder' = [i \in 1 .. n - 1 |-> items'[i].id]
          /\ b = h - 1 /\ Before' = playback'.hint - 1
      BY <1>0, <1>2, <1>3, <2>1 DEF PlayOrder, Before
    <3> DEFINE r == RemoveAt(PlayOrder, k)
    <3>2. /\ r \in Seq(Nat) /\ Len(r) = n - 1
          /\ \A i \in 1 .. n - 1 : r[i] = IF i < k THEN PlayOrder[i] ELSE PlayOrder[i + 1]
      <4>1. PICK s \in Seq(Nat) : s = PlayOrder
        BY <1>2
      <4>2. Len(s) = n /\ k \in 1 .. Len(s)
        BY <1>1, <1>2, <4>1
      <4> HIDE DEF n, k
      <4>3. /\ RemoveAt(s, k) \in Seq(Nat) /\ Len(RemoveAt(s, k)) = n - 1
            /\ \A i \in 1 .. n - 1 : RemoveAt(s, k)[i] = IF i < k THEN s[i] ELSE s[i + 1]
        BY <4>2, RemoveAtProperties
      <4> QED
        BY <4>1, <4>3
    <3> HIDE DEF r
    <3>3. ASSUME NEW i \in 1 .. n - 1 PROVE PlayOrder'[i] = r[i]
      <4>1. i \in 1 .. n /\ i + 1 \in 1 .. n
        BY <1>2
      <4> QED
        BY <1>1, <3>1, <3>2, <4>1
    <3>4. PICK t \in Seq(Nat) : t = PlayOrder'
      BY <1>3
    <3>5. t = r
      BY <1>3, <3>2, <3>3, <3>4, SeqEqual
    <3>6. Before' = IF k <= b THEN b - 1 ELSE b
      <4>1. k \in Nat /\ h \in Nat
        BY <1>1, <1>2, <1>5
      <4>2. b = h - 1 /\ Before' = (IF k < h THEN h - 1 ELSE h) - 1
        BY <1>1, <3>1
      <4> HIDE DEF k, h, b
      <4> QED
        BY <4>1, <4>2
    <3> QED
      BY <1>1, <3>1, <3>4, <3>5, <3>6 DEF r
  <2>2. CASE shuffle
    <3> DEFINE id == items[k].id
               q == OrderPosition(shuffleOrder, id)
    <3>1. PlayOrder = shuffleOrder /\ PlayOrder' = shuffleOrder'
      BY <1>0, <2>2 DEF PlayOrder
    <3>2. id \in ToSet(shuffleOrder)
      BY <1>1, <1>2, <3>1 DEF Ids
    <3>3. q \in 1 .. n /\ shuffleOrder[q] = id
      <4>1. q = CHOOSE i \in DOMAIN shuffleOrder : shuffleOrder[i] = id
        BY <3>2 DEF OrderPosition
      <4>2. \E i \in DOMAIN shuffleOrder : shuffleOrder[i] = id
        BY <3>2 DEF ToSet
      <4>3. q \in DOMAIN shuffleOrder /\ shuffleOrder[q] = id
        BY <4>1, <4>2
      <4> QED
        BY <1>2, <3>1, <4>3
    <3>4. /\ shuffleOrder' = RemoveAt(shuffleOrder, q)
          /\ shuffleCursor' = IF q <= shuffleCursor THEN shuffleCursor - 1 ELSE shuffleCursor
      <4>1. RemoveFromShuffleOrder(id)
        BY <1>0 DEF RemoveSelected
      <4>2. q # 0
        BY <1>2, <3>3
      <4> QED
        BY <2>2, <4>1, <4>2 DEF RemoveFromShuffleOrder
    <3>5. shuffleCursor \in Nat
      BY <1>0, <1>2, <2>2, <3>1 DEF QueueInv, OrderOK
    <3>6. /\ b = IF Here THEN shuffleCursor - 1 ELSE shuffleCursor
          /\ Before' = IF Here' THEN shuffleCursor' - 1 ELSE shuffleCursor'
      BY <1>0, <2>2 DEF Before
    <3> HIDE DEF q
    <3>7. Here => (id = cid <=> q = b + 1)
      <4>1. Here => b + 1 \in 1 .. n
        BY <1>2, <1>4
      <4> QED
        BY <1>4, <1>7, <3>1, <3>3, <4>1
    <3> HIDE DEF id, b, n
    <3>8. Before' = IF q <= b THEN b - 1 ELSE b
      <4>1. CASE Here /\ id # cid
        BY <1>4, <1>6, <3>3, <3>4, <3>5, <3>6, <3>7, <4>1 DEF id
      <4>2. CASE Here /\ id = cid
        BY <1>4, <1>6, <3>3, <3>4, <3>5, <3>6, <3>7, <4>2 DEF id
      <4>3. CASE ~Here
        BY <1>6, <3>3, <3>4, <3>5, <3>6, <4>3
      <4> QED
        BY <4>1, <4>2, <4>3
    <3> QED
      BY <3>1, <3>3, <3>4, <3>8 DEF id
  <2> QED
    BY <2>1, <2>2
<1>9. PICK q \in 1 .. n :
        /\ PlayOrder[q] = items[k].id
        /\ PlayOrder' = RemoveAt(PlayOrder, q)
        /\ Before' = IF q <= b THEN b - 1 ELSE b
  BY <1>8
<1>10. Placed'
  <2> DEFINE r == RemoveAt(PlayOrder, q)
  <2>1. \A i \in 1 .. n - 1 : r[i] = IF i < q THEN PlayOrder[i] ELSE PlayOrder[i + 1]
    <3>1. PICK s \in Seq(Nat) : s = PlayOrder
      BY <1>2
    <3>2. Len(s) = n /\ q \in 1 .. Len(s)
      BY <1>2, <3>1
    <3> HIDE DEF n
    <3>3. \A i \in 1 .. n - 1 : RemoveAt(s, q)[i] = IF i < q THEN s[i] ELSE s[i + 1]
      BY <3>2, RemoveAtProperties
    <3> QED
      BY <3>1, <3>3
  <2> HIDE DEF r
  <2>2. Before' \in 0 .. n - 1
    <3>1. q <= n /\ q \in Nat \ {0}
      BY <1>2
    <3>2. b = n => q <= b
      BY <1>2, <3>1
    <3> HIDE DEF b, n
    <3> QED
      BY <1>2, <1>4, <1>9, <3>1, <3>2
  <2>3. ASSUME Here'
        PROVE  Before' < n - 1 /\ PlayOrder'[Before' + 1] = cid
    <3>1. Here /\ items[k].id # cid /\ b < n /\ PlayOrder[b + 1] = cid
      BY <1>4, <1>6, <2>3
    <3>2. q # b + 1
      BY <1>9, <3>1
    <3>3. b + 1 \in 1 .. n /\ q \in 1 .. n
      BY <1>2, <1>4, <3>1
    <3> HIDE DEF b, n
    <3>4. CASE q <= b
      <4>1. Before' = b - 1 /\ Before' + 1 = b /\ b \in 1 .. n - 1 /\ ~(b < q)
        BY <1>2, <1>4, <1>9, <3>3, <3>4
      <4>2. r[b] = PlayOrder[b + 1]
        BY <2>1, <4>1
      <4>3. b - 1 < n - 1
        BY <1>2, <4>1
      <4> QED
        BY <1>9, <3>1, <4>1, <4>2, <4>3 DEF r
    <3>5. CASE ~(q <= b)
      <4>1. Before' = b /\ b + 1 \in 1 .. n - 1 /\ b + 1 < q
        BY <1>2, <1>4, <1>9, <3>2, <3>3, <3>5
      <4>2. r[b + 1] = PlayOrder[b + 1]
        BY <2>1, <4>1
      <4>3. b < n - 1
        BY <1>2, <1>4, <4>1
      <4> QED
        BY <1>9, <3>1, <4>1, <4>2, <4>3 DEF r
    <3> QED
      BY <3>4, <3>5
  <2> QED
    BY <1>1, <2>2, <2>3 DEF Placed
<1> QED
  BY <1>8, <1>10

LEMMA RemoveKeepsBehind ==
  ASSUME AppTyped, AppTyped', PlaceInv, Placed, RemoveQueueItem, playback.current.id # 0
  PROVE  KeptPlace
<1>1. /\ PlaceInv'
      /\ playback'.current = playback.current
      /\ Ids(items') = Ids(items) \ {items[selection].id}
  BY RemovePlace
<1>2. Placed'
  BY RemoveKeepsOrder
<1>3. /\ PlayOrder \in Seq(Nat) /\ Len(PlayOrder) = Len(items) /\ IsInjective(PlayOrder)
      /\ ToSet(PlayOrder) = Ids(items) /\ DOMAIN PlayOrder = 1 .. Len(items)
      /\ Len(items) \in Nat
  BY PlayOrderFacts
<1>4. PICK q \in 1 .. Len(items) :
        /\ PlayOrder[q] = items[selection].id
        /\ PlayOrder' = RemoveAt(PlayOrder, q)
        /\ Before' = IF q <= Before THEN Before - 1 ELSE Before
  BY RemoveKeepsOrder
<1>5. PICK s \in Seq(Nat) : s = PlayOrder
  BY <1>3
<1>6. PICK b \in 0 .. Len(items) : b = Before
  BY DEF Placed
<1>7. PICK kept : kept = Ids(items')
  OBVIOUS
<1>8. \A i \in 1 .. Len(s) : s[i] \in kept <=> i # q
  <2> SUFFICES ASSUME NEW i \in 1 .. Len(s) PROVE s[i] \in kept <=> i # q
    OBVIOUS
  <2>1. i \in DOMAIN s /\ q \in DOMAIN s
    BY <1>3, <1>5
  <2>2. s[i] \in Ids(items)
    BY <1>3, <1>5, <2>1 DEF ToSet
  <2>3. s[i] = s[q] <=> i = q
    BY <1>3, <1>5, <2>1 DEF IsInjective
  <2> QED
    BY <1>1, <1>4, <1>5, <1>7, <2>2, <2>3
<1>9. KeepsInOrder(SubSeq(s, 1, b), SubSeq(RemoveAt(s, q), 1, IF q <= b THEN b - 1 ELSE b), kept)
  <2>1. b \in 0 .. Len(s) /\ q \in 1 .. Len(s) /\ IsInjective(s)
    BY <1>3, <1>5
  <2> QED
    BY <1>8, <2>1, RemovalKept
<1>10. KeepsInOrder(SubSeq(PlayOrder, 1, Before), SubSeq(PlayOrder', 1, Before'), Ids(items'))
  BY <1>4, <1>5, <1>6, <1>7, <1>9
<1> QED
  BY <1>1, <1>2, <1>10, KeepsPlace

(* Nothing is before or behind a track whose queue is gone. *)
LEMMA ClearKeeps ==
  ASSUME ClearQueue
  PROVE  KeptPlace
<1>1. items' = <<>>
  BY DEF ClearQueue, Clear
<1>2. Ids(items') = {}
  BY <1>1 DEF Ids
<1>3. Upcoming' = <<>> /\ Behind' = <<>>
  BY <1>1 DEF Upcoming, Behind, NextPosition, PreviousPosition
<1>4. ToSet(<<>>) = {} /\ DOMAIN <<>> = {}
  BY EmptyLane DEF ToSet
<1> QED
  BY <1>2, <1>3, <1>4 DEF KeptPlace, KeepsInOrder

(* A row that moves stays in the queue. *)
LEMMA MoveKeepsIds ==
  ASSUME QueueAssumption, QueueInv, NEW down \in BOOLEAN, MoveSelected(down)
  PROVE  Ids(items') = Ids(items)
<1> DEFINE n == Len(items)
           k == selection
           d == IF down THEN selection + 1 ELSE selection - 1
           at(i) == IF i = k THEN d ELSE IF i = d THEN k ELSE i
<1>1. /\ n \in Nat /\ DOMAIN items = 1 .. n /\ d \in 1 .. n /\ k \in Nat \ {0}
      /\ items # <<>> => k \in 1 .. n
  BY RowFacts DEF MoveSelected
<1>2. k \in 1 .. n
  <2>1. n = 0 <=> items = <<>>
    BY RowFacts
  <2>2. n # 0
    BY <1>1
  <2> QED
    BY <1>1, <2>1, <2>2
<1>3. items' = [items EXCEPT ![k] = items[d], ![d] = items[k]]
  BY DEF MoveSelected
<1> HIDE DEF n, k, d
<1>4. DOMAIN items' = 1 .. n /\ \A i \in 1 .. n : items'[i] = items[at(i)]
  BY <1>1, <1>2, <1>3
<1>5. \A i \in 1 .. n : at(i) \in 1 .. n /\ at(at(i)) = i
  BY <1>1, <1>2
<1> HIDE DEF at
<1>6. \A i \in 1 .. n : items'[i].id = items[at(i)].id /\ items[i].id = items'[at(i)].id
  BY <1>4, <1>5
<1> QED
  BY <1>1, <1>4, <1>5, <1>6 DEF Ids

LEMMA EditKeepsPlace ==
  ASSUME AppTyped, AppTyped', PlaceInv, CursorOnCurrent, WorkerHasTrack, QueueEdit,
         Ids(items') # Ids(items)
  PROVE  KeptPlace
<1>0. QueueAssumption /\ QueueInv /\ playback.current.id # 0 /\ Placed
  BY BeforeFacts DEF AppTyped, AppInv, Assumptions, WorkerHasTrack
<1>1. ASSUME NEW batch \in Batches, QueueEntries(batch) PROVE KeptPlace
  <2>1. ~AppendRejected(batch)
    BY DEF AppendRejected
  <2>2. /\ AppendItems(batch) /\ ExtendShuffleOrder(Ids(Appended(batch)))
        /\ UNCHANGED playback
    BY <1>1, <2>1 DEF QueueEntries
  <2> QED
    BY <1>0, <2>2, AppendKeepsPlace
<1>2. CASE RemoveQueueItem
  BY <1>0, <1>2, RemoveKeepsBehind
<1>3. CASE ClearQueue
  BY <1>3, ClearKeeps
<1>4. ASSUME NEW down \in BOOLEAN, MoveQueueItem(down) PROVE FALSE
  BY <1>0, <1>4, MoveKeepsIds DEF MoveQueueItem
<1>5. ASSUME NEW position \in 1 .. MaxItems, SelectQueueItem(position) PROVE FALSE
  BY <1>5 DEF SelectQueueItem, MoveSelection
<1> QED
  BY <1>1, <1>2, <1>3, <1>4, <1>5 DEF QueueEdit

-----------------------------------------------------------------------------
(* The place is kept by every step. *)

LEMMA EditPlace ==
  ASSUME AppTyped, PlaceInv, QueueEdit
  PROVE  PlaceInv'
<1>0. QueueAssumption /\ QueueInv /\ playback \in PlaybackStates
  BY DEF AppTyped, AppInv, Assumptions, Shown
<1>1. QueueInv'
  BY EditMoved DEF Moved, AppInv
<1>2. ASSUME NEW batch \in Batches, QueueEntries(batch) PROVE PlaceInv'
  <2>1. CASE AppendRejected(batch) /\ UNCHANGED playback
    <3>1. Shows
      BY <2>1, SameShows DEF AppendRejected
    <3> QED
      BY <3>1, ShowsPlace
  <2>2. CASE AppendItems(batch) /\ UNCHANGED playback
    BY <2>2, AppendPlace
  <2>3. CASE /\ AppendItems(batch) /\ selection' = Len(items) + 1
             /\ LoadTrack(items', selection', 0, FALSE, TRUE)
    <3>1. playback'.current = items'[selection'] /\ playback'.hint = selection'
      BY <2>3, LoadTrackPlace
    <3>2. /\ ItemsOK(items', queuedAssets', nextItemId')
          /\ Len(items') = Len(items) + Len(batch)
      BY <1>0, <2>3, AppendItemsEstablishes
    <3>3. Len(items) \in Nat /\ batch \in Seq(Entries) /\ batch # <<>>
      BY <1>0, <2>3, RowFacts DEF QueueAssumption, AppendItems
    <3>4. Len(batch) \in Nat \ {0}
      BY <3>3, EmptySeq, LenProperties
    <3>5. selection' \in 1 .. Len(items') /\ Len(items') \in Nat
      BY <2>3, <3>2, <3>3, <3>4
    <3>6. items'[selection'].id \in 1 .. nextItemId' - 1 /\ nextItemId' \in Nat
      BY <1>0, <3>2, <3>5, ItemsFacts DEF ItemsOK, QueueAssumption
    <3>7. /\ playback'.hint <= Len(items') + 1 /\ playback'.hint <= Len(items')
          /\ playback'.current.id < nextItemId'
          /\ items'[playback'.hint].id = playback'.current.id
      BY <3>1, <3>5, <3>6
    <3> QED
      BY <3>7 DEF PlaceInv
  <2> QED
    BY <1>2, <2>1, <2>2, <2>3 DEF QueueEntries
<1>3. CASE RemoveQueueItem
  BY <1>3, RemovePlace
<1>4. ASSUME nextItemId' = nextItemId, playback' = Reconciled(items', playback) PROVE PlaceInv'
  BY <1>0, <1>1, <1>4, ReconciledKeeps
<1>5. CASE ClearQueue
  BY <1>4, <1>5 DEF ClearQueue, Clear
<1>6. ASSUME NEW down \in BOOLEAN, MoveQueueItem(down) PROVE PlaceInv'
  BY <1>4, <1>6 DEF MoveQueueItem, MoveSelected
<1>7. ASSUME NEW position \in 1 .. MaxItems, SelectQueueItem(position) PROVE PlaceInv'
  <2>1. Shows
    BY <1>7, SameShows DEF SelectQueueItem, MoveSelection
  <2> QED
    BY <2>1, ShowsPlace
<1> QED
  BY <1>2, <1>3, <1>5, <1>6, <1>7 DEF QueueEdit

(* All but the edits show the same track or another one at its row. *)
LEMMA StepShows ==
  ASSUME Assumptions, TypesInv, [Next]_vars
  PROVE  Shows \/ QueueEdit
<1>0. AppTyped /\ playback \in PlaybackStates
  BY DEF TypesInv, PlayerTyped, AppTyped, AppInv, Shown
<1>1. CASE TakePosition
  BY <1>0, <1>1, PositionShows DEF TakePosition, queueVars
<1>2. CASE TakeEvent
  <2>1. events # <<>> /\ EventHandled(Head(events))
    BY <1>2 DEF TakeEvent
  <2>2. IsEvent(Head(events)) /\ Head(events).generation # 0
    <3>1. IsSeq(events) /\ 1 \in DOMAIN events /\ Head(events) = events[1]
      BY <2>1, TailOfLane DEF TypesInv, EndInv, InLanes
    <3> QED
      BY <3>1 DEF TypesInv, PlayerTyped, Messages, EndInv, Generations
  <2> QED
    BY <1>0, <2>1, <2>2, EventShows
<1>3. CASE WorkerJoined
  <2>1. /\ playback' = [playback EXCEPT !.status = "Stopped", !.seekTarget = NoTime]
        /\ UNCHANGED <<items, nextItemId>>
    BY <1>3 DEF WorkerJoined, queueVars
  <2>2. playback'.current = playback.current /\ playback'.hint = playback.hint
    BY <1>0, <2>1 DEF PlaybackStates
  <2> QED
    BY <2>1, <2>2 DEF Shows
<1>4. CASE PositionsDrained \/ EventsDrained \/ LoopAgain \/ Quit \/ WorkerStep \/ UNCHANGED vars
  <2>1. UNCHANGED <<queueVars, playback>>
    BY <1>4 DEF PositionsDrained, EventsDrained, LoopAgain, Quit, WorkerStep, vars, appVars
  <2> QED
    BY <2>1, SameShows DEF queueVars
<1>5. CASE TakeInput
  <2>1. UserControl \/ QueueEdit
    BY <1>5 DEF TakeInput, Input
  <2> QED
    BY <1>0, <2>1, ControlShows
<1> QED
  BY <1>1, <1>2, <1>3, <1>4, <1>5 DEF Next, EventLoop

LEMMA InitPlace == Assumptions /\ Init => PlaceInv
<1> SUFFICES ASSUME Assumptions, Init PROVE PlaceInv
  OBVIOUS
<1>1. AppTyped /\ QueueAssumption /\ QueueInv
  BY InitTypes DEF TypesInv, PlayerTyped, AppTyped, AppInv, Assumptions
<1>2. /\ Len(items) \in Nat /\ DOMAIN items = 1 .. Len(items)
      /\ (items = <<>> <=> Len(items) = 0)
      /\ items # <<>> => selection \in 1 .. Len(items)
      /\ \A i \in 1 .. Len(items) : items[i].id \in 1 .. nextItemId - 1
      /\ nextItemId \in Nat
  BY <1>1, RowFacts, ItemsFacts DEF QueueInv, ItemsOK, QueueAssumption
<1>3. CASE EmptyQueue /\ playback = NewPlayback
  <2>1. items = <<>> /\ nextItemId = 1 /\ playback.hint = 1 /\ playback.current.id = 0
    BY <1>3 DEF EmptyQueue, NewPlayback, NoItem
  <2>2. Ids(items) = {}
    BY <1>2, <2>1 DEF Ids
  <2> QED
    BY <1>2, <2>1, <2>2 DEF PlaceInv, Here
<1>4. ASSUME NEW saved \in Sessions, NEW i \in DOMAIN saved, NEW position,
             RestoredQueue(saved, i),
             playback = [NewPlayback EXCEPT
                           !.current = items[selection], !.hint = selection,
                           !.position = position]
      PROVE  PlaceInv
  <2>1. playback.current = items[selection] /\ playback.hint = selection
    BY <1>4 DEF NewPlayback
  <2>2. items # <<>>
    <3>1. IsFiniteSet(Restorable(saved)) /\ Restorable(saved) # {}
      BY <1>1, <1>4, RestorableFacts DEF RestoredQueue
    <3>2. Cardinality(Restorable(saved)) \in Nat \ {0}
      BY <3>1, FS_CardinalityType, FS_EmptySet
    <3>3. DOMAIN items = 1 .. Cardinality(Restorable(saved))
      BY <1>4 DEF RestoredQueue
    <3> QED
      BY <1>2, <3>2, <3>3
  <2>3. selection \in 1 .. Len(items) /\ items[selection].id \in 1 .. nextItemId - 1
    BY <1>2, <2>2
  <2> QED
    BY <1>2, <2>1, <2>3 DEF PlaceInv
<1> QED
  BY <1>3, <1>4 DEF Init, PlaybackInit

LEMMA PlaceHolds == Spec => []PlaceInv
<1>1. Init => PlaceInv
  BY Assumed, InitPlace
<1>2. TypesInv /\ PlaceInv /\ [Next]_vars => PlaceInv'
  <2> SUFFICES ASSUME TypesInv, PlaceInv, [Next]_vars PROVE PlaceInv'
    OBVIOUS
  <2>1. AppTyped
    BY Assumed DEF TypesInv, PlayerTyped, AppTyped
  <2> QED
    BY <2>1, Assumed, StepShows, ShowsPlace, EditPlace
<1> QED
  BY <1>1, <1>2, PlayerTypesHold, PTL DEF Spec

(* Whatever is edited under a track that the worker has (src/src/app/queue.rs
   under src/src/app/playback.rs), the track itself included, in any state the
   player reaches while the shuffle cursor is on it: Next still has all the
   tracks before it that it had, with the ones that were appended, and Previous
   has the ones it had, in the order it had them. *)
THEOREM EditsAlwaysKeepPlace == Spec => EditsKeepPlace
<1>1. /\ TypesInv /\ TypesInv' /\ PlaceInv /\ [Next]_vars
      => [ /\ Ids(items') # Ids(items)
           /\ WorkerHasTrack /\ CursorOnCurrent
           /\ playback'.current = playback.current
           => /\ ToSet(Upcoming') =
                   (ToSet(Upcoming) \cap Ids(items')) \cup (Ids(items') \ Ids(items))
              /\ KeepsInOrder(Behind, Behind', Ids(items')) ]_appVars
  <2> SUFFICES ASSUME TypesInv, TypesInv', PlaceInv, [Next]_vars,
                      Ids(items') # Ids(items), WorkerHasTrack, CursorOnCurrent
               PROVE  KeptPlace
    BY DEF KeptPlace
  <2>1. AppTyped /\ AppTyped'
    BY Assumed DEF TypesInv, PlayerTyped, AppTyped
  <2>2. ~Shows
    BY DEF Shows
  <2>3. QueueEdit
    BY <2>2, Assumed, StepShows
  <2> QED
    BY <2>1, <2>3, EditKeepsPlace
<1> QED
  BY <1>1, PlayerTypesHold, PlaceHolds, PTL DEF Spec, EditsKeepPlace

==============================================================================
