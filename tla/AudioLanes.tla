------------------------------ MODULE AudioLanes ------------------------------
(***************************************************************************)
(* The lanes between the event loop and the audio worker                   *)
(* (src/src/audio/mod.rs): a bounded command lane whose sender waits for   *)
(* room, a slot that keeps only the newest seek, an unbounded event lane   *)
(* and a slot that keeps only the newest position.                         *)
(***************************************************************************)
EXTENDS Integers, Sequences

CONSTANTS
  CommandCapacity,  \* COMMAND_CAPACITY; 32 in the code
  MaxPosition,      \* the largest position the decoder protocol carries
  Grain             \* positions per whole microsecond

ASSUME LanesAssumption ==
  /\ CommandCapacity \in Nat \ {0}
  /\ Grain \in Nat \ {0}
  /\ MaxPosition \in Nat /\ (MaxPosition % Grain) = 0

VARIABLES
  commands,       \* AudioCommand values the worker has not received
  commandsOpen,   \* whether the event loop still holds the sender
  seekLane,       \* the newest seek request, or NoSeek
  events,         \* AudioEvent values the event loop has not received
  positionLane    \* the newest position report, or NoReport

laneVars == <<commands, commandsOpen, seekLane, events, positionLane>>

NoTime == -1            \* Option::None of a position or a duration
NoSeek == [generation |-> 0, position |-> NoTime]
NoReport == [generation |-> 0, timeline |-> 0, position |-> NoTime, duration |-> NoTime]

Lower(a, b) == IF a <= b THEN a ELSE b

(* `decoder_position': the decoder protocol carries whole microseconds. *)
DecoderPosition(p) == Lower(p - (p % Grain), MaxPosition)

LanesInit ==
  /\ commands = <<>>
  /\ commandsOpen = TRUE
  /\ seekLane = NoSeek
  /\ events = <<>>
  /\ positionLane = NoReport

(* `AudioRuntime::send': a seek replaces the one before it, any other command
   waits for room in the lane. *)
SendCommand(command) ==
  /\ Len(commands) < CommandCapacity
  /\ commands' = Append(commands, command)
  /\ UNCHANGED <<commandsOpen, seekLane>>

SendSeek(generation, position) ==
  /\ seekLane' = [generation |-> generation, position |-> position]
  /\ UNCHANGED <<commands, commandsOpen>>

SendNothing == UNCHANGED <<commands, commandsOpen, seekLane>>

(* Mutant: the sender stays open behind the shutdown command. *)
KeepsSender ==
  /\ commandsOpen
  /\ seekLane' = NoSeek
  /\ commands' = IF Len(commands) < CommandCapacity
                 THEN Append(commands, [type |-> "Shutdown"]) ELSE commands
  /\ UNCHANGED <<commandsOpen, events, positionLane>>

(* `AudioRuntime::stop' before it joins the worker: the shutdown command only
   goes out when there is room; dropping the sender is what counts. *)
CloseLanes ==
  /\ commandsOpen
  /\ commandsOpen' = FALSE
  /\ seekLane' = NoSeek
  /\ commands' = IF Len(commands) < CommandCapacity
                 THEN Append(commands, [type |-> "Shutdown"]) ELSE commands
  /\ UNCHANGED <<events, positionLane>>

=============================================================================
