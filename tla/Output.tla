-------------------------------- MODULE Output --------------------------------
(***************************************************************************)
(* One output stream after another: `CpalOutput' of                        *)
(* src/src/audio/output.rs, whose worker and whose device callback share a *)
(* ring of PCM frames and a few atomics.  Each atomic access of the        *)
(* callback is a step of its own, so is each of `play' and `stop'.         *)
(*                                                                         *)
(* The calls come as src/src/audio/mod.rs makes them.  Samples are         *)
(* abstracted to frames, gain to the step of the ramp, and the time until  *)
(* the device has played what it was handed to a few ticks.                *)
(***************************************************************************)
EXTENDS Integers, FiniteSets

CONSTANTS
  RingFrames,     \* the ring's capacity
  BufferFrames,   \* frames, and ticks, of one callback's buffer
  FadeLength,     \* frames of a gain ramp
  TrackFrames,    \* the longest track
  Delays,         \* the backend delays a callback may report, in ticks
  PauseDelay,     \* BACKEND_PAUSE_DELAY
  Faults          \* "device": the stream may fail, and call back too late

ASSUME OutputAssumption ==
  /\ {RingFrames, BufferFrames, FadeLength, TrackFrames} \subseteq Nat \ {0}
  /\ Delays \subseteq Nat /\ Delays # {}
  /\ PauseDelay \in Nat
  /\ Faults \subseteq {"device"}

VARIABLES
  stage,          \* "none", "open", "prepared", "playing" inside `play', "fading" and
                  \* "dropping" inside `stop'
  started, paused, ended,    \* the worker's flags of the active track
  written,        \* frames put into the ring
  drainDeadline,  \* ticks until the drain deadline
  backendRunning,
  pausedFor,      \* ticks since `paused_at'
  shared,         \* the atomics: OutputProgress and `failure'
  ring,           \* frames in the ring
  callback,       \* the device callback's local state
  fade,           \* the step of its gain ramp
  unheard,        \* ticks until the device has played the last frame it has
  finished,       \* history: the track was found drained
  timedOut        \* history: the fade-out of this stop was not awaited

workerVars == <<stage, started, paused, ended, written, drainDeadline, backendRunning,
                pausedFor>>
vars == <<workerVars, shared, ring, callback, fade, unheard, finished, timedOut>>

NoTime == -1
AtMost(n, bound) == IF n <= bound THEN n ELSE bound

NewProgress ==
  [playing |-> FALSE, muted |-> FALSE, silent |-> FALSE, consumed |-> 0, delay |-> 0,
   failure |-> FALSE]

IdleCallback == [step |-> "idle", audible |-> FALSE, left |-> 0, read |-> 0]

-----------------------------------------------------------------------------
(* The worker. *)

(* `with_metrics', for a track or for the restart of one that may be paused. *)
Open ==
  /\ stage = "none"
  /\ stage' = "open"
  /\ started' = FALSE /\ ended' = FALSE /\ paused' \in BOOLEAN
  /\ written' = 0
  /\ drainDeadline' = NoTime
  /\ shared' = NewProgress
  /\ finished' = FALSE /\ timedOut' = FALSE
  /\ UNCHANGED <<backendRunning, pausedFor, ring, callback, fade, unheard>>

(* `prepare' for the format the decoder has found, `renew_progress' included.  The
   worker reads nothing from the decoder while a seek settles. *)
Prepare ==
  /\ stage = "open" /\ ~shared.muted
  /\ stage' = "prepared"
  /\ shared' = [NewProgress EXCEPT !.silent = TRUE]
  /\ written' = 0
  /\ drainDeadline' = NoTime /\ pausedFor' = NoTime
  /\ backendRunning' = FALSE
  /\ UNCHANGED <<started, paused, ended, ring, callback, fade, unheard, finished, timedOut>>

(* `play' up to its store to `silent' ... *)
PlayBegins ==
  /\ stage' = "playing"
  /\ backendRunning' = TRUE
  /\ pausedFor' = NoTime
  /\ drainDeadline' = NoTime
  /\ shared' = [shared EXCEPT !.silent = FALSE]

(* ... and its store to `playing'. *)
PlayEnds ==
  /\ stage = "playing"
  /\ stage' = "prepared"
  /\ shared' = [shared EXCEPT !.playing = TRUE]
  /\ UNCHANGED <<started, paused, ended, written, drainDeadline, backendRunning, pausedFor,
                 ring, callback, fade, unheard, finished, timedOut>>

Room == RingFrames - ring

(* `write' as much as fits, and start a track with its first frames.  A settling
   seek feeds nothing. *)
Write ==
  /\ stage = "prepared" /\ ~ended /\ ~shared.muted
  /\ \E frames \in 1 .. AtMost(Room, TrackFrames - written) :
       /\ written' = written + frames
       /\ ring' = ring + frames
  /\ started' = TRUE
  /\ IF started \/ paused
     THEN /\ drainDeadline' = NoTime
          /\ UNCHANGED <<stage, backendRunning, pausedFor, shared>>
     ELSE PlayBegins
  /\ UNCHANGED <<paused, ended, callback, fade, unheard, finished, timedOut>>

(* `finish_input': the decoder has no more.  A track that ends before anything was
   written is stopped without a look at the output. *)
FinishInput ==
  /\ stage = "prepared" /\ ~ended /\ started /\ ~shared.muted
  /\ ended' = TRUE
  /\ UNCHANGED <<stage, started, paused, written, drainDeadline, backendRunning, pausedFor,
                 shared, ring, callback, fade, unheard, finished, timedOut>>

PausedAt == IF shared.playing THEN 0 ELSE pausedFor

Pause ==
  /\ stage \in {"open", "prepared"} /\ ~paused
  /\ paused' = TRUE
  /\ IF ~started
     THEN UNCHANGED <<drainDeadline, shared, pausedFor>>
     ELSE /\ drainDeadline' = NoTime
          /\ shared' = [shared EXCEPT !.playing = FALSE]
          /\ pausedFor' = PausedAt
  /\ UNCHANGED <<stage, started, ended, written, backendRunning, ring,
                 callback, fade, unheard, finished, timedOut>>

Resume ==
  /\ stage \in {"open", "prepared"} /\ paused
  /\ paused' = FALSE
  /\ IF started THEN PlayBegins
     ELSE UNCHANGED <<stage, backendRunning, pausedFor, drainDeadline, shared>>
  /\ UNCHANGED <<started, ended, written, ring, callback, fade, unheard, finished, timedOut>>

(* `silence', for a seek that is held. *)
Silence ==
  /\ stage \in {"open", "prepared"} /\ ~shared.muted
  /\ shared' = [shared EXCEPT !.muted = TRUE]
  /\ UNCHANGED <<workerVars, ring, callback, fade, unheard, finished, timedOut>>

(* `backend_pause_due' *)
BackendPauseDue == shared.silent /\ pausedFor = PauseDelay

Service ==
  /\ stage = "prepared"
  /\ BackendPauseDue
  /\ pausedFor' = NoTime
  /\ backendRunning' = FALSE
  /\ UNCHANGED <<stage, started, paused, ended, written, drainDeadline, shared, ring,
                 callback, fade, unheard, finished, timedOut>>

(* Mutant: the deadline does not count the last buffer. *)
DelayWithoutBuffer == shared.delay - BufferFrames

DrainDelay == shared.delay

(* Mutant: every look at the drain starts its deadline over. *)
RenewedDeadline == DrainDelay

Deadline == IF drainDeadline = NoTime THEN DrainDelay ELSE drainDeadline

(* `drained_at', and `stop' once it says so. *)
CheckDrained ==
  /\ stage = "prepared" /\ ended /\ ~shared.muted
  /\ IF ~shared.playing \/ shared.consumed < written
     THEN drainDeadline' = NoTime /\ UNCHANGED <<stage, shared, finished>>
     ELSE IF drainDeadline # 0
     THEN /\ drainDeadline' = Deadline
          /\ UNCHANGED <<stage, shared, finished>>
     ELSE /\ finished' = TRUE
          /\ stage' = "fading"
          /\ shared' = [shared EXCEPT !.playing = FALSE]
          /\ UNCHANGED drainDeadline
  /\ UNCHANGED <<started, paused, ended, written, backendRunning, pausedFor, ring, callback,
                 fade, unheard, timedOut>>

(* `stop' for whatever reason, up to its store to `playing' ... *)
Stop ==
  /\ stage \in {"open", "prepared"}
  /\ stage' = "fading"
  /\ shared' = [shared EXCEPT !.playing = FALSE]
  /\ UNCHANGED <<started, paused, ended, written, drainDeadline, backendRunning, pausedFor,
                 ring, callback, fade, unheard, finished, timedOut>>

(* ... the stop of a track whose output reports a failure ... *)
OutputFailed == shared.failure /\ Stop

FadeAwaited == ~backendRunning \/ shared.silent

(* ... `await_silence', within STOP_FADE_TIMEOUT, and `pause_backend' ... *)
AwaitSilence ==
  /\ stage = "fading"
  /\ \/ FadeAwaited /\ timedOut' = FALSE
     \/ ~FadeAwaited /\ "device" \in Faults /\ timedOut' = TRUE
  /\ stage' = "dropping"
  /\ backendRunning' = FALSE
  /\ UNCHANGED <<started, paused, ended, written, drainDeadline, pausedFor, shared,
                 ring, callback, fade, unheard, finished>>

(* ... and the end of the stream, which waits for a callback that is running. *)
Drop ==
  /\ stage = "dropping" /\ callback.step = "idle"
  /\ stage' = "none"
  /\ ring' = 0 /\ pausedFor' = NoTime /\ fade' = 0 /\ unheard' = 0
  /\ UNCHANGED <<started, paused, ended, written, drainDeadline, backendRunning, shared,
                 callback, finished, timedOut>>

-----------------------------------------------------------------------------
(* The device callback, `render_output'. *)

CallbackKept == UNCHANGED <<workerVars, finished, timedOut>>

(* Mutant: a pause silences the output and a held seek does not. *)
AudibleWhenMuted == shared.playing

Audible == shared.playing /\ ~shared.muted

(* The device calls back when it has room for another buffer; some backends do
   before they are told to pause. *)
CallbackBegins ==
  /\ callback.step = "idle" /\ stage \notin {"none", "open"}
  /\ backendRunning \/ ~started
  /\ ~shared.failure
  /\ \E delay \in Delays : delay >= unheard
  /\ callback' = [step |-> "loaded", audible |-> Audible, left |-> BufferFrames, read |-> 0]
  /\ UNCHANGED <<shared, ring, fade, unheard>> /\ CallbackKept

(* Mutant: every callback of a pause says that it was silent. *)
SilentWhilePaused == ~callback.audible

RendersSilence == ~callback.audible /\ fade = 0

RenderSilence ==
  /\ callback.step = "loaded" /\ RendersSilence
  /\ shared' = [shared EXCEPT !.silent = TRUE]
  /\ callback' = IdleCallback
  /\ UNCHANGED <<ring, fade, unheard>> /\ CallbackKept

RenderBegins ==
  /\ callback.step = "loaded" /\ ~RendersSilence
  /\ shared' = [shared EXCEPT !.silent = FALSE]
  /\ callback' = [callback EXCEPT !.step = "frames"]
  /\ UNCHANGED <<ring, fade, unheard>> /\ CallbackKept

(* `Fade::advance' *)
Advanced == IF callback.audible THEN AtMost(fade + 1, FadeLength)
            ELSE IF fade > 0 THEN fade - 1 ELSE 0

(* Mutant: PCM is taken from the ring after the fade-out too. *)
TakesAlways ==
  /\ callback.step = "frames" /\ callback.left > 0
  /\ fade' = Advanced
  /\ IF ring > 0
     THEN /\ ring' = ring - 1
          /\ callback' = [callback EXCEPT !.left = @ - 1,
                             !.read = IF ~callback.audible /\ fade = 0 THEN @ ELSE @ + 1]
     ELSE ring' = ring /\ callback' = [callback EXCEPT !.left = @ - 1]
  /\ UNCHANGED <<shared, unheard>> /\ CallbackKept

(* One frame: PCM if the ring has any, or silence. *)
RenderFrame ==
  /\ callback.step = "frames" /\ callback.left > 0
  /\ fade' = Advanced
  /\ IF (~callback.audible /\ fade = 0) \/ ring = 0
     THEN ring' = ring /\ callback' = [callback EXCEPT !.left = @ - 1]
     ELSE ring' = ring - 1 /\ callback' = [callback EXCEPT !.left = @ - 1, !.read = @ + 1]
  /\ UNCHANGED <<shared, unheard>> /\ CallbackKept

(* The buffer is played after the ones before it: first the delay is published ... *)
PublishDelay ==
  /\ callback.step = "frames" /\ callback.left = 0
  /\ IF callback.read = 0
     THEN callback' = IdleCallback /\ UNCHANGED <<shared, unheard>>
     ELSE \E delay \in Delays :
            /\ delay >= unheard
            /\ shared' = [shared EXCEPT !.delay = delay + BufferFrames]
            /\ unheard' = delay + BufferFrames
            /\ callback' = [callback EXCEPT !.step = "consumed"]
  /\ UNCHANGED <<ring, fade>> /\ CallbackKept

(* ... then the consumption that makes the worker look at it. *)
PublishConsumed ==
  /\ callback.step = "consumed"
  /\ shared' = [shared EXCEPT !.consumed = @ + callback.read]
  /\ callback' = IdleCallback
  /\ UNCHANGED <<ring, fade, unheard>> /\ CallbackKept

-----------------------------------------------------------------------------
(* Time and the device. *)

CountDown(ticks) == IF ticks > 0 THEN ticks - 1 ELSE ticks

(* A callback returns well within BACKEND_PAUSE_DELAY. *)
Tick ==
  /\ callback.step = "idle" \/ pausedFor + 1 < PauseDelay
  /\ unheard' = IF backendRunning THEN CountDown(unheard) ELSE unheard
  /\ drainDeadline' = CountDown(drainDeadline)
  /\ pausedFor' = IF pausedFor = NoTime THEN NoTime ELSE AtMost(pausedFor + 1, PauseDelay)
  /\ UNCHANGED <<stage, started, paused, ended, written, backendRunning, shared, ring,
                 callback, fade, finished, timedOut>>

(* `record_stream_error' of a fatal kind. *)
StreamError ==
  /\ "device" \in Faults
  /\ stage \notin {"none", "open"} /\ ~shared.failure
  /\ shared' = [shared EXCEPT !.failure = TRUE]
  /\ UNCHANGED <<workerVars, ring, callback, fade, unheard, finished, timedOut>>

-----------------------------------------------------------------------------
Init ==
  /\ stage = "none"
  /\ started = FALSE /\ paused = FALSE /\ ended = FALSE
  /\ written = 0 /\ ring = 0
  /\ drainDeadline = NoTime /\ pausedFor = NoTime
  /\ backendRunning = FALSE
  /\ shared = NewProgress
  /\ callback = IdleCallback /\ fade = 0
  /\ unheard = 0
  /\ finished = FALSE /\ timedOut = FALSE

CallbackStep ==
  \/ CallbackBegins \/ RenderSilence \/ RenderBegins \/ RenderFrame
  \/ PublishDelay \/ PublishConsumed

StopStep == AwaitSilence \/ Drop

Next ==
  \/ Open \/ Prepare \/ Write \/ FinishInput \/ PlayEnds
  \/ Pause \/ Resume \/ Silence \/ Service \/ CheckDrained
  \/ Stop \/ OutputFailed \/ StopStep
  \/ CallbackStep \/ Tick \/ StreamError

Spec == Init /\ [][Next]_vars

(* The device calls back while it runs and time passes.  The worker looks at a
   failure, at the pause and at the drain after every command it takes, however
   many there are. *)
Fairness ==
  /\ WF_vars(CallbackStep) /\ SF_vars(Tick)
  /\ WF_vars(PlayEnds) /\ WF_vars(Service) /\ WF_vars(CheckDrained)
  /\ SF_vars(OutputFailed) /\ WF_vars(StopStep)

FairSpec == Spec /\ Fairness

-----------------------------------------------------------------------------
OutputTypeOK ==
  /\ stage \in {"none", "open", "prepared", "playing", "fading", "dropping"}
  /\ written \in 0 .. TrackFrames /\ ring \in 0 .. RingFrames
  /\ fade \in 0 .. FadeLength
  /\ drainDeadline >= NoTime /\ pausedFor \in NoTime .. PauseDelay
  /\ shared.consumed <= written
  /\ unheard >= 0

(* No frame is lost or played twice, over any pauses, underruns and fades. *)
FramesConserved ==
  stage \in {"prepared", "playing", "fading"} =>
    shared.consumed + callback.read + ring = written

(* A track is only reported as finished when the device has played all of it:
   the deadline starts over after a pause, and counts the last buffer. *)
FinishedIsHeard == finished => unheard = 0 /\ ring = 0 /\ shared.consumed = written

(* `silent' never promises more than it says: while it is set the ramp is down,
   so a backend that is paused or stopped on it was silent by then. *)
StopsFaded ==
  [][ backendRunning /\ ~backendRunning' /\ ~timedOut' => fade = 0 ]_vars

(* A seek that is held is not heard again, whatever pauses and resumes come while
   it settles. *)
HeldSeekSilent == <>[]shared.muted => <>[](fade = 0)

(* Nothing is waited for in vain: the end of the input is the end of the track
   unless it is paused, sought in, stopped or fails first, a pause that lasts
   pauses the backend, and a stream that fails is taken down although no callback
   reports silence. *)
StreamSettles ==
  /\ (ended /\ stage = "prepared") ~>
       (finished \/ paused \/ shared.muted \/ stage \in {"fading", "dropping", "none"})
  /\ (stage = "prepared" /\ paused /\ started /\ shared.silent) ~>
       (~backendRunning \/ ~paused \/ stage = "fading")
  /\ shared.failure ~> stage = "none"

(* Output never cuts hard: unless a stop gave up waiting for the callback the
   last frame handed to the device was at the foot of the ramp. *)
NoHardCut ==
  stage = "dropping" /\ callback.step = "idle" /\ ~timedOut => fade = 0

=============================================================================
