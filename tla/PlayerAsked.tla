------------------------------ MODULE PlayerAsked ------------------------------
(***************************************************************************)
(* The player with a memory of what its listener asked for.  The code only *)
(* keeps `PlaybackState::request', which several controls and every worker *)
(* event may rewrite; `asked' is the latest of Play, Pause and Stop that   *)
(* took effect, whatever became of it since.  Next at the end of the queue *)
(* asks for a stop too.                                                    *)
(***************************************************************************)
EXTENDS Player

VARIABLE asked      \* "Play", "Pause", "Stop", or "Any" after a toggle

AskedInit == Init /\ asked = "Any"

AskedInput ==
  \/ Input("transport" \in inputs /\ Play) /\ asked' = "Play"
  \/ Input("transport" \in inputs /\ Pause) /\ asked' = "Pause"
  \/ Input("transport" \in inputs /\ StopPlayback) /\ asked' = "Stop"
  \/ Input("transport" \in inputs /\ PlayPause) /\ asked' = "Any"
  \/ /\ Input(OtherControl)
     /\ asked' = IF playback'.request = "Stop" THEN "Stop" ELSE asked
  \/ /\ Input(QueueEdit)
     /\ asked' = IF playback'.generation # playback.generation THEN "Play" ELSE asked

AskedNext ==
  \/ AskedInput
  \/ EventLoop /\ UNCHANGED asked
  \/ WorkerStep /\ UNCHANGED asked

AskedSpec == AskedInit /\ [][AskedNext]_<<vars, asked>>

(* A pause survives everything but a newer control: next, previous, a finish
   that was already on its way and automatic advance all leave the worker with
   a paused track or none.  So does a play: no late acknowledgement of an older
   pause wins over it. *)
ListenerObeyed ==
  Quiet /\ GenerationsLeft /\ IsActive =>
    /\ asked = "Pause" => active.paused
    /\ asked = "Play" => ~active.paused

(* "a track ending before the Stop arrives must not advance": while stop is the
   latest request no report of the worker loads a track. *)
StopHolds ==
  [][ asked = "Stop" /\ loop = "events" => playback'.generation = playback.generation
    ]_<<vars, asked>>

=============================================================================
