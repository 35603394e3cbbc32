----------------------------- MODULE OutputProofs -----------------------------
(***************************************************************************)
(* Theorems about Output: for rings, buffers, ramps and tracks of any      *)
(* length and any delays that a device reports, no frame is lost, a track  *)
(* that is found drained has been heard, and no backend is paused with     *)
(* its ramp up.                                                            *)
(*                                                                         *)
(* None of these is inductive alone.  Heard rests on Draining (the         *)
(* deadline never runs ahead of the device), which rests on Counted (a     *)
(* callback can have nothing left to publish once all is consumed) and on  *)
(* Running (while the output plays no backend pause is due); StopsFaded on *)
(* SilentIsDown.                                                           *)
(***************************************************************************)
EXTENDS Output, TLAPS

Stages == {"none", "open", "prepared", "playing", "fading", "dropping"}

Progress ==
  [playing : BOOLEAN, muted : BOOLEAN, silent : BOOLEAN, consumed : Nat, delay : Nat,
   failure : BOOLEAN]

Callback ==
  [step : {"idle", "loaded", "frames", "consumed"}, audible : BOOLEAN, left : Nat, read : Nat]

Typed ==
  /\ stage \in Stages
  /\ started \in BOOLEAN /\ paused \in BOOLEAN /\ ended \in BOOLEAN
  /\ written \in 0 .. TrackFrames
  /\ drainDeadline \in Nat \cup {NoTime}
  /\ backendRunning \in BOOLEAN
  /\ pausedFor \in 0 .. PauseDelay \cup {NoTime}
  /\ shared \in Progress
  /\ ring \in 0 .. RingFrames
  /\ callback \in Callback
  /\ fade \in 0 .. FadeLength
  /\ unheard \in Nat
  /\ finished \in BOOLEAN /\ timedOut \in BOOLEAN

(* A stream that is not there, or not yet, has no callback and holds nothing. *)
Untouched ==
  /\ stage = "open" => ~started /\ written = 0
  /\ stage \in {"none", "open"} =>
       callback = IdleCallback /\ fade = 0 /\ ring = 0 /\ unheard = 0
  /\ callback.step = "idle" => callback = IdleCallback
  /\ callback.step = "loaded" => callback.read = 0

(* Every frame is in the ring, read by the callback that runs, or consumed. *)
Counted ==
  /\ shared.consumed <= written
  /\ stage \notin {"none", "open"} => shared.consumed + callback.read + ring = written

(* The flag is only set while the ramp is down and no callback renders. *)
SilentIsDown ==
  shared.silent => fade = 0 /\ callback.step \notin {"frames", "consumed"}

(* An output that plays has its backend running and no pause that is due. *)
Running ==
  stage = "playing" \/ (stage = "prepared" /\ shared.playing) =>
    backendRunning /\ pausedFor = NoTime

(* What is published of the delay covers what is not heard yet, and so does a
   drain deadline, which only exists when all was consumed. *)
Draining ==
  /\ unheard <= shared.delay
  /\ stage = "playing" => drainDeadline = NoTime
  /\ stage = "prepared" /\ drainDeadline # NoTime =>
       /\ shared.playing /\ shared.consumed = written
       /\ unheard <= drainDeadline

Heard ==
  finished =>
    /\ stage \in {"fading", "dropping", "none"}
    /\ shared.consumed = written /\ ring = 0 /\ unheard = 0

OutputInv ==
  /\ Typed /\ Untouched /\ Counted /\ SilentIsDown
  /\ Running /\ Draining /\ Heard

-----------------------------------------------------------------------------
(* The records of the two threads, field by field. *)

LEMMA ProgressFields ==
  ASSUME NEW p \in Progress
  PROVE  /\ p.playing \in BOOLEAN /\ p.muted \in BOOLEAN /\ p.silent \in BOOLEAN
         /\ p.consumed \in Nat /\ p.delay \in Nat /\ p.failure \in BOOLEAN
         /\ p = [playing |-> p.playing, muted |-> p.muted, silent |-> p.silent,
                 consumed |-> p.consumed, delay |-> p.delay, failure |-> p.failure]
BY DEF Progress

LEMMA CallbackFields ==
  ASSUME NEW c \in Callback
  PROVE  /\ c.step \in {"idle", "loaded", "frames", "consumed"} /\ c.audible \in BOOLEAN
         /\ c.left \in Nat /\ c.read \in Nat
BY DEF Callback

LEMMA SetPlaying ==
  ASSUME NEW p \in Progress, NEW value \in BOOLEAN, NEW q, q = [p EXCEPT !.playing = value]
  PROVE  /\ q \in Progress /\ q.playing = value
         /\ q.muted = p.muted /\ q.silent = p.silent /\ q.consumed = p.consumed
         /\ q.delay = p.delay /\ q.failure = p.failure
BY DEF Progress

LEMMA SetSilent ==
  ASSUME NEW p \in Progress, NEW value \in BOOLEAN, NEW q, q = [p EXCEPT !.silent = value]
  PROVE  /\ q \in Progress /\ q.silent = value
         /\ q.muted = p.muted /\ q.playing = p.playing /\ q.consumed = p.consumed
         /\ q.delay = p.delay /\ q.failure = p.failure
BY DEF Progress

LEMMA SetFlag ==
  ASSUME NEW p \in Progress, NEW q,
         q \in {[p EXCEPT !.muted = TRUE], [p EXCEPT !.failure = TRUE]}
  PROVE  /\ q \in Progress
         /\ q.playing = p.playing /\ q.silent = p.silent /\ q.consumed = p.consumed
         /\ q.delay = p.delay
BY DEF Progress

LEMMA SetDelay ==
  ASSUME NEW p \in Progress, NEW value \in Nat, NEW q, q = [p EXCEPT !.delay = value]
  PROVE  /\ q \in Progress /\ q.delay = value
         /\ q.muted = p.muted /\ q.playing = p.playing /\ q.consumed = p.consumed
         /\ q.silent = p.silent /\ q.failure = p.failure
BY DEF Progress

LEMMA SetConsumed ==
  ASSUME NEW p \in Progress, NEW value \in Nat, NEW q, q = [p EXCEPT !.consumed = value]
  PROVE  /\ q \in Progress /\ q.consumed = value
         /\ q.muted = p.muted /\ q.playing = p.playing /\ q.delay = p.delay
         /\ q.silent = p.silent /\ q.failure = p.failure
BY DEF Progress

LEMMA NewFields ==
  /\ NewProgress \in Progress /\ ~NewProgress.playing /\ ~NewProgress.silent
  /\ NewProgress.consumed = 0 /\ NewProgress.delay = 0
  /\ IdleCallback \in Callback /\ IdleCallback.step = "idle" /\ IdleCallback.read = 0
BY DEF NewProgress, Progress, IdleCallback, Callback

-----------------------------------------------------------------------------
(* One lemma per action: it keeps OutputInv. *)

LEMMA OpenInv ==
  ASSUME OutputAssumption, OutputInv, Open
  PROVE  OutputInv'
<1>1. /\ shared' = NewProgress /\ stage' = "open" /\ written' = 0
      /\ drainDeadline' = NoTime /\ ~finished'
      /\ UNCHANGED <<backendRunning, pausedFor, ring, callback, fade, unheard>>
  BY DEF Open
<1>2. Typed'
  <2>1. started' \in BOOLEAN /\ paused' \in BOOLEAN /\ ended' \in BOOLEAN
        /\ finished' \in BOOLEAN /\ timedOut' \in BOOLEAN
    BY DEF Open
  <2> QED
    BY <1>1, <2>1, NewFields DEF OutputAssumption, OutputInv, Typed, Stages
<1>3. Untouched' /\ unheard = 0
  BY <1>1 DEF Open, OutputInv, Untouched
<1> QED
  BY <1>1, <1>2, <1>3, NewFields
  DEF OutputInv, Typed, Counted, SilentIsDown, Running, Draining, Heard, IdleCallback

LEMMA PrepareInv ==
  ASSUME OutputAssumption, OutputInv, Prepare
  PROVE  OutputInv'
<1>1. /\ shared' \in Progress /\ ~shared'.playing
      /\ shared'.consumed = 0 /\ shared'.delay = 0
  <2>1. shared' = [NewProgress EXCEPT !.silent = TRUE]
    BY DEF Prepare
  <2> QED
    BY <2>1 DEF NewProgress, Progress
<1>2. /\ stage = "open" /\ stage' = "prepared" /\ written' = 0
      /\ drainDeadline' = NoTime /\ pausedFor' = NoTime /\ ~backendRunning'
      /\ UNCHANGED <<started, paused, ended, ring, callback, fade, unheard, finished, timedOut>>
  BY DEF Prepare
<1>3. Typed'
  <2>1. backendRunning' \in BOOLEAN
    BY DEF Prepare
  <2> QED
  BY <1>1, <1>2, <2>1 DEF OutputAssumption, OutputInv, Typed, Stages
<1>4. callback = IdleCallback /\ fade = 0 /\ ring = 0 /\ unheard = 0 /\ ~finished
  BY <1>2 DEF OutputInv, Typed, Untouched, Heard
<1> QED
  BY <1>1, <1>2, <1>3, <1>4, NewFields
  DEF OutputInv, Untouched, Counted, SilentIsDown, Running, Draining, Heard

(* Written frames go into the ring; a drain deadline does not survive them. *)
LEMMA WriteInv ==
  ASSUME OutputAssumption, OutputInv, Write
  PROVE  OutputInv'
<1>1. /\ shared' \in Progress
      /\ shared'.consumed = shared.consumed /\ shared'.delay = shared.delay
      /\ shared'.playing = shared.playing /\ (shared'.silent => shared.silent)
  BY SetSilent DEF Write, PlayBegins, OutputInv, Typed
<1>2. PICK frames \in 1 .. AtMost(Room, TrackFrames - written) :
        written' = written + frames /\ ring' = ring + frames
  BY DEF Write
<1>3. /\ stage = "prepared" /\ stage' \in {"prepared", "playing"} /\ drainDeadline' = NoTime
      /\ stage' = "prepared" => UNCHANGED <<backendRunning, pausedFor>>
      /\ stage' = "playing" => backendRunning' = TRUE /\ pausedFor' = NoTime
      /\ UNCHANGED <<paused, ended, callback, fade, unheard, finished, timedOut>>
  BY DEF Write, PlayBegins
<1>4. /\ frames \in Nat
      /\ written + frames <= TrackFrames /\ ring + frames <= RingFrames
  BY DEF AtMost, Room, OutputAssumption, OutputInv, Typed
<1>5. Typed'
  <2>1. started' \in BOOLEAN
    BY DEF Write
  <2>2. backendRunning' \in BOOLEAN /\ pausedFor' \in 0 .. PauseDelay \cup {NoTime}
    BY <1>3 DEF OutputInv, Typed
  <2>3. written' \in 0 .. TrackFrames /\ ring' \in 0 .. RingFrames
    BY <1>2, <1>4 DEF OutputAssumption, OutputInv, Typed
  <2> QED
    BY <1>1, <1>3, <2>1, <2>2, <2>3 DEF OutputInv, Typed, Stages
<1>6. Counted'
  BY <1>1, <1>2, <1>3, <1>4, CallbackFields, ProgressFields DEF OutputInv, Typed, Counted
<1> QED
  BY <1>1, <1>3, <1>5, <1>6
  DEF OutputInv, Typed, Untouched, SilentIsDown, Running, Draining, Heard

LEMMA ResumeInv ==
  ASSUME OutputAssumption, OutputInv, Resume
  PROVE  OutputInv'
<1>1. /\ shared' \in Progress
      /\ shared'.consumed = shared.consumed /\ shared'.delay = shared.delay
      /\ shared'.playing = shared.playing /\ (shared'.silent => shared.silent)
  BY SetSilent DEF Resume, PlayBegins, OutputInv, Typed
<1>2. CASE started
  <2>1. /\ stage = "prepared" /\ stage' = "playing" /\ drainDeadline' = NoTime
        /\ backendRunning' = TRUE /\ pausedFor' = NoTime /\ paused' = FALSE
        /\ UNCHANGED <<started, ended, written, ring, callback, fade, unheard, finished,
                       timedOut>>
    BY <1>2 DEF Resume, PlayBegins, OutputInv, Untouched
  <2> QED
    BY <1>1, <2>1, ProgressFields, NewFields
    DEF OutputInv, Typed, Stages, Untouched, Counted, SilentIsDown, Running, Draining, Heard
<1>3. CASE ~started
  BY <1>3
  DEF Resume, OutputInv, Typed, Stages, Untouched, Counted, SilentIsDown, Running, Draining,
      Heard
<1> QED
  BY <1>2, <1>3

LEMMA FinishInputInv ==
  ASSUME OutputAssumption, OutputInv, FinishInput
  PROVE  OutputInv'
BY DEF FinishInput, OutputAssumption,
   OutputInv, Typed, Stages, Untouched, Counted, SilentIsDown, Running, Draining, Heard

LEMMA PlayEndsInv ==
  ASSUME OutputAssumption, OutputInv, PlayEnds
  PROVE  OutputInv'
<1>1. /\ shared' \in Progress
      /\ shared'.consumed = shared.consumed /\ shared'.delay = shared.delay
      /\ shared'.silent = shared.silent
  BY SetPlaying DEF PlayEnds, OutputInv, Typed
<1> QED
  BY <1>1
  DEF PlayEnds, OutputInv, Typed, Stages, Untouched, Counted, SilentIsDown,
      Running, Draining, Heard

(* A pause takes the deadline back before its time starts. *)
LEMMA PauseInv ==
  ASSUME OutputAssumption, OutputInv, Pause
  PROVE  OutputInv'
<1>1. /\ shared' \in Progress
      /\ shared'.consumed = shared.consumed /\ shared'.delay = shared.delay
      /\ shared'.silent = shared.silent /\ (shared'.playing => shared.playing)
      /\ started => ~shared'.playing
  BY SetPlaying DEF Pause, OutputInv, Typed
<1> QED
  BY <1>1
  DEF Pause, PausedAt, OutputAssumption, OutputInv, Typed, Stages,
      Untouched, Counted, SilentIsDown, Running, Draining, Heard

LEMMA SilenceInv ==
  ASSUME OutputAssumption, OutputInv, Silence
  PROVE  OutputInv'
<1>1. /\ shared' \in Progress
      /\ shared'.consumed = shared.consumed /\ shared'.delay = shared.delay
      /\ shared'.playing = shared.playing /\ shared'.silent = shared.silent
  <2>1. shared \in Progress /\ shared' = [shared EXCEPT !.muted = TRUE]
    BY DEF Silence, OutputInv, Typed
  <2> QED
    BY <2>1, SetFlag
<1>2. UNCHANGED <<stage, started, paused, ended, written, drainDeadline, backendRunning,
                  pausedFor, ring, callback, fade, unheard, finished, timedOut>>
  BY DEF Silence, workerVars
<1> QED
  BY <1>1, <1>2
  DEF OutputInv, Typed, Untouched, Counted, SilentIsDown, Running, Draining, Heard

(* Only the pause of an output that does not play can be due. *)
LEMMA ServiceInv ==
  ASSUME OutputAssumption, OutputInv, Service
  PROVE  OutputInv'
<1>1. ~shared.playing
  BY DEF Service, BackendPauseDue, OutputInv, Running, OutputAssumption, NoTime
<1> QED
  BY <1>1
  DEF Service, OutputInv, Typed, Stages, Untouched, Counted, SilentIsDown, Running, Draining,
      Heard

(* A deadline is set when everything has been consumed, to what is still to be
   heard by then; when it has run out there is nothing left. *)
LEMMA CheckDrainedInv ==
  ASSUME OutputAssumption, OutputInv, CheckDrained
  PROVE  OutputInv'
<1>1. /\ shared \in Progress /\ callback \in Callback /\ stage = "prepared" /\ ~finished
      /\ shared.consumed <= written /\ written \in Nat /\ unheard \in Nat /\ ring \in Nat
      /\ shared.consumed + callback.read + ring = written
  BY DEF CheckDrained, OutputAssumption, OutputInv, Typed, Counted, Heard
<1>2. UNCHANGED <<started, paused, ended, written, backendRunning, pausedFor, ring, callback,
                  fade, unheard, timedOut>>
  BY DEF CheckDrained
<1>3. CASE ~shared.playing \/ shared.consumed < written
  <2>1. drainDeadline' = NoTime /\ UNCHANGED <<stage, shared, finished>>
    BY <1>3 DEF CheckDrained
  <2> QED
    BY <1>1, <1>2, <2>1
    DEF OutputInv, Typed, Untouched, Counted, SilentIsDown, Running, Draining, Heard
<1>4. CASE shared.playing /\ ~(shared.consumed < written) /\ drainDeadline # 0
  <2>1. drainDeadline' = Deadline /\ UNCHANGED <<stage, shared, finished>>
    BY <1>4 DEF CheckDrained
  <2>2. shared.consumed = written
    BY <1>1, <1>4, ProgressFields
  <2>3. Deadline \in Nat /\ unheard <= Deadline
    BY <1>1, <2>2, ProgressFields DEF Deadline, DrainDelay, OutputInv, Typed, Draining
  <2> QED
    BY <1>1, <1>2, <1>4, <2>1, <2>2, <2>3
    DEF OutputInv, Typed, Untouched, Counted, SilentIsDown, Running, Draining, Heard
<1>5. CASE shared.playing /\ ~(shared.consumed < written) /\ drainDeadline = 0
  <2>1. /\ finished' = TRUE /\ stage' = "fading" /\ drainDeadline' = drainDeadline
        /\ shared' = [shared EXCEPT !.playing = FALSE]
    BY <1>5 DEF CheckDrained
  <2>2. /\ shared' \in Progress /\ shared'.silent = shared.silent
        /\ shared'.consumed = shared.consumed /\ shared'.delay = shared.delay
    BY <1>1, <2>1, SetPlaying
  <2>3. shared.consumed = written /\ ring = 0 /\ unheard = 0
    BY <1>1, <1>5, ProgressFields, CallbackFields DEF OutputInv, Draining, NoTime
  <2> QED
    BY <1>1, <1>2, <2>1, <2>2, <2>3
    DEF OutputInv, Typed, Stages, Untouched, Counted, SilentIsDown, Running, Draining, Heard
<1> QED
  BY <1>3, <1>4, <1>5

LEMMA StopInv ==
  ASSUME OutputAssumption, OutputInv, Stop
  PROVE  OutputInv'
<1>1. /\ shared' \in Progress
      /\ shared'.consumed = shared.consumed /\ shared'.delay = shared.delay
      /\ shared'.silent = shared.silent
  BY SetPlaying DEF Stop, OutputInv, Typed
<1>2. shared.consumed + callback.read + ring = written
  <2>1. CASE stage = "open"
    BY <2>1, ProgressFields, NewFields DEF OutputInv, Typed, Untouched, Counted
  <2>2. CASE stage = "prepared"
    BY <2>2 DEF OutputInv, Counted
  <2> QED
    BY <2>1, <2>2 DEF Stop
<1>3. /\ stage \in {"open", "prepared"} /\ stage' = "fading"
      /\ UNCHANGED <<started, paused, ended, written, drainDeadline, backendRunning, pausedFor,
                     ring, callback, fade, unheard, finished, timedOut>>
  BY DEF Stop
<1>4. Typed' /\ Running'
  BY <1>1, <1>3 DEF OutputInv, Typed, Stages, Running
<1>5. Untouched' /\ SilentIsDown'
  BY <1>1, <1>3 DEF OutputInv, Untouched, SilentIsDown
<1>6. Counted' /\ Draining' /\ Heard'
  BY <1>1, <1>2, <1>3 DEF OutputInv, Counted, Draining, Heard
<1> QED
  BY <1>4, <1>5, <1>6 DEF OutputInv

LEMMA AwaitSilenceInv ==
  ASSUME OutputAssumption, OutputInv, AwaitSilence
  PROVE  OutputInv'
<1>1. /\ stage = "fading" /\ stage' = "dropping"
      /\ backendRunning' = FALSE /\ timedOut' \in BOOLEAN
      /\ UNCHANGED <<started, paused, ended, written, drainDeadline, pausedFor, shared,
                     ring, callback, fade, unheard, finished>>
  BY DEF AwaitSilence
<1>2. Typed' /\ Running'
  BY <1>1 DEF OutputInv, Typed, Stages, Running
<1>3. Untouched' /\ SilentIsDown'
  BY <1>1 DEF OutputInv, Untouched, SilentIsDown
<1>4. Counted' /\ Draining' /\ Heard'
  BY <1>1 DEF OutputInv, Counted, Draining, Heard
<1> QED
  BY <1>2, <1>3, <1>4 DEF OutputInv

LEMMA DropInv ==
  ASSUME OutputAssumption, OutputInv, Drop
  PROVE  OutputInv'
<1>1. /\ stage' = "none" /\ ring' = 0 /\ pausedFor' = NoTime /\ fade' = 0 /\ unheard' = 0
      /\ UNCHANGED <<started, paused, ended, written, drainDeadline, backendRunning, shared,
                     callback, finished, timedOut>>
  BY DEF Drop
<1>2. callback = IdleCallback
  BY DEF Drop, OutputInv, Untouched
<1>3. shared.delay \in Nat
  BY ProgressFields DEF OutputInv, Typed
<1>4. Typed'
  BY <1>1 DEF OutputAssumption, OutputInv, Typed, Stages
<1> QED
  BY <1>1, <1>2, <1>3, <1>4, NewFields
  DEF OutputInv, Untouched, Counted, SilentIsDown, Running, Draining, Heard

LEMMA CallbackBeginsInv ==
  ASSUME OutputAssumption, OutputInv, CallbackBegins
  PROVE  OutputInv'
<1>1. callback' \in Callback /\ callback'.step = "loaded" /\ callback'.read = 0
  BY ProgressFields
  DEF CallbackBegins, Audible, OutputAssumption, OutputInv, Typed, Callback
<1> QED
  BY <1>1, NewFields
  DEF CallbackBegins, CallbackKept, workerVars,
      OutputInv, Typed, Stages, Untouched, Counted, SilentIsDown, Running, Draining, Heard

LEMMA RenderSilenceInv ==
  ASSUME OutputAssumption, OutputInv, RenderSilence
  PROVE  OutputInv'
<1>1. /\ shared' \in Progress
      /\ shared'.consumed = shared.consumed /\ shared'.delay = shared.delay
      /\ shared'.playing = shared.playing /\ fade = 0
  BY SetSilent DEF RenderSilence, RendersSilence, OutputInv, Typed
<1> QED
  BY <1>1, NewFields
  DEF RenderSilence, CallbackKept, workerVars,
      OutputInv, Typed, Stages, Untouched, Counted, SilentIsDown, Running, Draining, Heard

LEMMA RenderBeginsInv ==
  ASSUME OutputAssumption, OutputInv, RenderBegins
  PROVE  OutputInv'
<1>1. /\ shared \in Progress /\ callback \in Callback /\ callback.step = "loaded"
      /\ shared' = [shared EXCEPT !.silent = FALSE]
      /\ callback' = [callback EXCEPT !.step = "frames"]
      /\ UNCHANGED <<stage, started, paused, ended, written, drainDeadline, backendRunning,
                     pausedFor, ring, fade, unheard, finished, timedOut>>
  BY DEF RenderBegins, CallbackKept, workerVars, OutputInv, Typed
<1>2. /\ shared' \in Progress
      /\ shared'.consumed = shared.consumed /\ shared'.delay = shared.delay
      /\ shared'.playing = shared.playing /\ ~shared'.silent
  BY <1>1, SetSilent
<1>3. callback' \in Callback /\ callback'.step = "frames" /\ callback'.read = callback.read
  BY <1>1 DEF Callback
<1>4. stage \notin {"none", "open"}
  BY <1>1, NewFields DEF OutputInv, Untouched
<1>5. Typed'
  BY <1>1, <1>2, <1>3 DEF OutputInv, Typed
<1> QED
  BY <1>1, <1>2, <1>3, <1>4, <1>5
  DEF OutputInv, Untouched, Counted, SilentIsDown, Running, Draining, Heard

(* A frame leaves the ring exactly when the callback counts it. *)
LEMMA RenderFrameInv ==
  ASSUME OutputAssumption, OutputInv, RenderFrame
  PROVE  OutputInv'
<1>1. /\ callback \in Callback /\ callback.step = "frames" /\ callback.left \in Nat \ {0}
      /\ callback.read \in Nat /\ ring \in Nat /\ ring <= RingFrames /\ RingFrames \in Nat
  BY CallbackFields DEF RenderFrame, OutputAssumption, OutputInv, Typed
<1>2. UNCHANGED <<stage, started, paused, ended, written, drainDeadline, backendRunning,
                  pausedFor, shared, unheard, finished, timedOut>>
  BY DEF RenderFrame, CallbackKept, workerVars
<1>3. /\ callback' \in Callback /\ callback'.step = "frames"
      /\ callback'.read + ring' = callback.read + ring /\ ring' \in 0 .. ring
  <2>1. CASE (~callback.audible /\ fade = 0) \/ ring = 0
    <3>1. ring' = ring /\ callback' = [callback EXCEPT !.left = @ - 1]
      BY <2>1 DEF RenderFrame
    <3>2. callback' \in Callback /\ callback'.step = "frames"
          /\ callback'.read = callback.read
      BY <1>1, <3>1 DEF Callback
    <3> QED
      BY <1>1, <3>1, <3>2
  <2>2. CASE ~((~callback.audible /\ fade = 0) \/ ring = 0)
    <3>1. ring' = ring - 1 /\ callback' = [callback EXCEPT !.left = @ - 1, !.read = @ + 1]
      BY <2>2 DEF RenderFrame
    <3>2. callback' \in Callback /\ callback'.step = "frames"
          /\ callback'.read = callback.read + 1
      <4> DEFINE shorter == [callback EXCEPT !.left = @ - 1]
      <4>1. /\ shorter \in Callback /\ shorter.step = "frames"
            /\ shorter.read = callback.read
        BY <1>1 DEF Callback
      <4>2. callback' = [shorter EXCEPT !.read = @ + 1]
        BY <1>1, <3>1 DEF Callback
      <4> HIDE DEF shorter
      <4>3. callback.read + 1 \in Nat
        BY <1>1
      <4> QED
        BY <4>1, <4>2, <4>3 DEF Callback
    <3> QED
      BY <1>1, <2>2, <3>1, <3>2
  <2> QED
    BY <2>1, <2>2
<1>4. fade' \in 0 .. FadeLength
  BY DEF RenderFrame, Advanced, AtMost, OutputAssumption, OutputInv, Typed
<1>5. stage \notin {"none", "open"}
  BY <1>1, NewFields DEF OutputInv, Untouched
<1>6. Typed'
  BY <1>1, <1>2, <1>3, <1>4 DEF OutputInv, Typed
<1>7. Counted'
  <2>1. shared.consumed \in Nat /\ written \in Nat /\ callback'.read \in Nat /\ ring' \in Nat
    BY <1>1, <1>3, ProgressFields, CallbackFields DEF OutputAssumption, OutputInv, Typed
  <2>2. shared.consumed + callback.read + ring = written
    BY <1>5 DEF OutputInv, Counted
  <2> QED
    BY <1>1, <1>2, <1>3, <2>1, <2>2 DEF OutputInv, Counted
<1>8. Untouched' /\ Running' /\ Draining'
  BY <1>2, <1>3, <1>5 DEF OutputInv, Untouched, Running, Draining
<1>9. SilentIsDown'
  BY <1>1, <1>2 DEF OutputInv, SilentIsDown
<1>10. Heard'
  BY <1>1, <1>2, <1>3 DEF OutputInv, Heard
<1> QED
  BY <1>6, <1>7, <1>8, <1>9, <1>10 DEF OutputInv

(* A delay is only published with frames that are not consumed yet: no deadline
   runs and nothing is finished. *)
LEMMA PublishDelayInv ==
  ASSUME OutputAssumption, OutputInv, PublishDelay
  PROVE  OutputInv'
<1>1. /\ callback \in Callback /\ callback.step = "frames" /\ callback.read \in Nat
      /\ shared \in Progress /\ shared.consumed \in Nat /\ written \in Nat /\ ring \in Nat
  BY CallbackFields, ProgressFields DEF PublishDelay, OutputAssumption, OutputInv, Typed
<1>2. UNCHANGED <<stage, started, paused, ended, written, drainDeadline, backendRunning,
                  pausedFor, ring, fade, finished, timedOut>>
  BY DEF PublishDelay, CallbackKept, workerVars
<1>3. shared.consumed + callback.read + ring = written /\ stage \notin {"none", "open"}
  BY <1>1, NewFields DEF OutputInv, Untouched, Counted
<1>4. CASE callback.read = 0
  <2>1. callback' = IdleCallback /\ UNCHANGED <<shared, unheard>>
    BY <1>4 DEF PublishDelay
  <2> QED
    BY <1>1, <1>2, <1>3, <1>4, <2>1, NewFields
    DEF OutputInv, Typed, Untouched, Counted, SilentIsDown, Running, Draining, Heard
<1>5. CASE callback.read # 0
  <2>1. PICK delay \in Delays :
          /\ shared' = [shared EXCEPT !.delay = delay + BufferFrames]
          /\ unheard' = delay + BufferFrames
          /\ callback' = [callback EXCEPT !.step = "consumed"]
    BY <1>5 DEF PublishDelay
  <2>2. delay + BufferFrames \in Nat
    BY DEF OutputAssumption
  <2>3. /\ shared' \in Progress /\ shared'.delay = unheard'
        /\ shared'.consumed = shared.consumed /\ shared'.playing = shared.playing
        /\ shared'.silent = shared.silent
    BY <1>1, <2>1, <2>2, SetDelay
  <2>4. callback' \in Callback /\ callback'.step = "consumed" /\ callback'.read = callback.read
    BY <1>1, <2>1 DEF Callback
  <2>5. ~finished /\ ~shared.silent
        /\ (stage = "prepared" => drainDeadline = NoTime)
    <3>1. shared.consumed # written
      BY <1>1, <1>3, <1>5
    <3>2. ~finished /\ (stage = "prepared" => drainDeadline = NoTime)
      BY <3>1 DEF OutputInv, Heard, Draining
    <3>3. ~shared.silent
      BY <1>1 DEF OutputInv, SilentIsDown
    <3> QED
      BY <3>2, <3>3
  <2>6. Typed'
    BY <1>2, <2>1, <2>2, <2>3, <2>4 DEF OutputInv, Typed
  <2>7. Untouched' /\ Counted' /\ Running'
    BY <1>1, <1>2, <1>3, <2>3, <2>4 DEF OutputInv, Untouched, Counted, Running
  <2>8. SilentIsDown' /\ Heard'
    BY <1>2, <2>3, <2>5 DEF OutputInv, SilentIsDown, Heard
  <2>9. Draining'
    BY <1>2, <2>1, <2>2, <2>3, <2>5 DEF OutputInv, Draining
  <2> QED
    BY <2>6, <2>7, <2>8, <2>9 DEF OutputInv
<1> QED
  BY <1>4, <1>5

LEMMA PublishConsumedInv ==
  ASSUME OutputAssumption, OutputInv, PublishConsumed
  PROVE  OutputInv'
<1>1. /\ shared' \in Progress /\ shared'.consumed = shared.consumed + callback.read
      /\ shared'.delay = shared.delay /\ shared'.playing = shared.playing
      /\ shared'.silent = shared.silent
  BY SetConsumed, CallbackFields, ProgressFields DEF PublishConsumed, OutputInv, Typed
<1> QED
  BY <1>1, NewFields, CallbackFields, ProgressFields
  DEF PublishConsumed, CallbackKept, workerVars, OutputAssumption,
      OutputInv, Typed, Stages, Untouched, Counted, SilentIsDown, Running, Draining, Heard

(* The device and the deadline count down together while the output plays. *)
LEMMA TickInv ==
  ASSUME OutputAssumption, OutputInv, Tick
  PROVE  OutputInv'
BY ProgressFields  DEF Tick, CountDown, AtMost, NoTime, OutputAssumption,
   OutputInv, Typed, Stages, Untouched, Counted, SilentIsDown, Running, Draining, Heard

LEMMA StreamErrorInv ==
  ASSUME OutputAssumption, OutputInv, StreamError
  PROVE  OutputInv'
<1>1. /\ shared' \in Progress
      /\ shared'.consumed = shared.consumed /\ shared'.delay = shared.delay
      /\ shared'.playing = shared.playing /\ shared'.silent = shared.silent
  BY SetFlag DEF StreamError, OutputInv, Typed
<1> QED
  BY <1>1
  DEF StreamError, workerVars, OutputInv, Typed, Stages, Untouched, Counted, SilentIsDown,
      Running, Draining, Heard

LEMMA InitInv == OutputAssumption /\ Init => OutputInv
<1> SUFFICES ASSUME OutputAssumption, Init PROVE OutputInv
  OBVIOUS
<1>1. Typed
  <2>1. TrackFrames \in Nat /\ RingFrames \in Nat /\ FadeLength \in Nat
    BY DEF OutputAssumption
  <2>2. /\ started \in BOOLEAN /\ paused \in BOOLEAN /\ ended \in BOOLEAN
        /\ backendRunning \in BOOLEAN /\ finished \in BOOLEAN /\ timedOut \in BOOLEAN
    BY DEF Init
  <2> QED
    BY <2>1, <2>2, NewFields DEF Init, Typed, Stages
<1> QED
  BY <1>1, NewFields
  DEF Init, OutputInv, Untouched, Counted, SilentIsDown, Running, Draining, Heard

LEMMA NextInv ==
  ASSUME OutputAssumption, OutputInv, [Next]_vars
  PROVE  OutputInv'
<1>1. CASE UNCHANGED vars
  BY <1>1
  DEF vars, workerVars, OutputInv, Typed, Untouched, Counted, SilentIsDown, Running, Draining,
      Heard
<1>2. CASE OutputFailed
  BY <1>2, StopInv DEF OutputFailed
<1>3. CASE CallbackStep
  BY <1>3, CallbackBeginsInv, RenderSilenceInv, RenderBeginsInv, RenderFrameInv,
     PublishDelayInv, PublishConsumedInv DEF CallbackStep
<1>4. CASE StopStep
  BY <1>4, AwaitSilenceInv, DropInv DEF StopStep
<1> QED
  BY <1>1, <1>2, <1>3, <1>4, OpenInv, PrepareInv, WriteInv, FinishInputInv, PlayEndsInv,
     PauseInv, ResumeInv, SilenceInv, ServiceInv, CheckDrainedInv, StopInv, TickInv,
     StreamErrorInv DEF Next

-----------------------------------------------------------------------------
(* The conjunction is an invariant, for every ring, buffer, ramp and track. *)
THEOREM OutputInvariant == Spec => []OutputInv
<1>1. Init => OutputInv
  BY OutputAssumption, InitInv
<1>2. OutputInv /\ [Next]_vars => OutputInv'
  BY OutputAssumption, NextInv
<1> QED
  BY <1>1, <1>2, PTL DEF Spec

(* Type correctness: neither the ring nor the ramp leaves its range, and nothing
   is consumed that was not written. *)
THEOREM OutputTypesHold == Spec => []OutputTypeOK
<1>1. OutputInv => OutputTypeOK
  BY OutputAssumption
  DEF OutputAssumption, OutputInv, Typed, Stages, Counted, OutputTypeOK, NoTime
<1> QED
  BY <1>1, OutputInvariant, PTL

(* No frame is lost or played twice by `render_output', whatever pauses, fades and
   underruns come between `write' and the device. *)
THEOREM FramesStayConserved == Spec => []FramesConserved
<1>1. OutputInv => FramesConserved
  BY DEF OutputInv, Counted, FramesConserved
<1> QED
  BY <1>1, OutputInvariant, PTL

(* `drained_at' never reports a track that the device still plays. *)
THEOREM FinishedStaysHeard == Spec => []FinishedIsHeard
<1>1. OutputInv => FinishedIsHeard
  BY DEF OutputInv, Heard, FinishedIsHeard
<1> QED
  BY <1>1, OutputInvariant, PTL

(* No backend is paused while the ramp is up, unless a stop gave up waiting: the
   flag of `render_output' is only set while it is down. *)
THEOREM StopsStayFaded == Spec => StopsFaded
<1>1. OutputInv /\ [Next]_vars =>
        [backendRunning /\ ~backendRunning' /\ ~timedOut' => fade = 0]_vars
  <2> SUFFICES ASSUME OutputInv, Next, backendRunning, ~backendRunning', ~timedOut'
               PROVE  fade = 0
    OBVIOUS
  <2>1. Prepare \/ Service \/ AwaitSilence
    BY DEF Next, Open, Prepare, Write, FinishInput, PlayEnds, Pause, Resume, Silence, Service,
           CheckDrained, Stop, OutputFailed, StopStep, AwaitSilence, Drop, CallbackStep,
           CallbackBegins, RenderSilence, RenderBegins, RenderFrame, PublishDelay,
           PublishConsumed, CallbackKept, Tick, StreamError, PlayBegins, workerVars
  <2>2. CASE Prepare
    BY <2>2 DEF Prepare, OutputInv, Untouched
  <2>3. CASE Service
    BY <2>3 DEF Service, BackendPauseDue, OutputInv, SilentIsDown
  <2>4. CASE AwaitSilence
    BY <2>4 DEF AwaitSilence, FadeAwaited, OutputInv, SilentIsDown
  <2> QED
    BY <2>1, <2>2, <2>3, <2>4
<1> QED
  BY <1>1, OutputInvariant, PTL DEF Spec, StopsFaded
===============================================================================
