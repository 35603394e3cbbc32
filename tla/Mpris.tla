--------------------------------- MODULE Mpris ---------------------------------
(***************************************************************************)
(* The desktop's side of the player: `MprisRuntime' and its worker of      *)
(* src/src/mpris.rs, between the event loop of src/src/terminal.rs and a   *)
(* desktop client on the session bus.                                      *)
(*                                                                         *)
(* Actions go to the loop through a bounded lane that never blocks the     *)
(* bus.  States go to the worker through a slot that keeps the newest; the *)
(* worker serves them and signals what has changed.  The player itself is  *)
(* reduced to what is published of it: a track, a status for everything    *)
(* that changes while it stays, and a count of seeks.                      *)
(***************************************************************************)
EXTENDS Integers, Sequences

CONSTANTS
  RequestCapacity,    \* REQUEST_CAPACITY
  Status,             \* the kinds of PlaybackStatus, "Stopped" among them
  MaxToken,           \* how many tracks are loaded
  MaxRevision,        \* how many seeks are acknowledged
  Faults              \* "bus": a signal may not be sent

ASSUME MprisAssumption ==
  /\ "Stopped" \in Status
  /\ RequestCapacity \in Nat \ {0}
  /\ {MaxToken, MaxRevision} \subseteq Nat
  /\ Faults \subseteq {"bus"}

VARIABLES
  loop,       \* "events", "actions" and "input", then "stopping", "join" and "over"
  app,        \* of AppState what is published, the track it seeks in and `should_quit'
  round,      \* actions taken in this pass of the loop
  lane,       \* `actions'
  latest,     \* the slot of the newest state, or Empty
  worker,     \* the worker: its step, the state it serves and the one before it
  stopping,   \* `shutdown' was sent
  view,       \* what the client knows from signals
  unsaid      \* history: a signal could not be sent

vars == <<loop, app, round, lane, latest, worker, stopping, view, unsaid>>
busVars == <<worker, view, unsaid>>

NoTrack == 0
Empty == [status |-> "none"]

(* `from_app' *)
Projection(state) ==
  [status |-> state.status, token |-> state.token,
   revision |-> state.revision]

CanSeek(state) == state.status # "Stopped"

Action(kind, token) == [kind |-> kind, token |-> token]

-----------------------------------------------------------------------------
(* The event loop. *)

Unsought == [app EXCEPT !.target = NoTrack, !.aimed = NoTrack]

(* `drain_audio_events', as far as what it leaves shows: a seek may have been
   acknowledged, a track loaded, started, paused or ended since the last pass. *)
AudioEvents ==
  /\ loop = "events"
  /\ loop' = "actions"
  /\ \E status \in Status, token \in app.token .. MaxToken,
        revision \in app.revision .. MaxRevision :
       /\ status # "Stopped" => token # NoTrack
       /\ token <= app.token + 1
       /\ revision = app.revision \/ (app.target # NoTrack /\ revision = app.revision + 1)
       /\ app' = [(IF status = "Stopped" \/ <<token, revision>> # <<app.token, app.revision>>
                   THEN Unsought ELSE app)
                  EXCEPT !.status = status, !.token = token, !.revision = revision]
  /\ UNCHANGED <<round, lane, latest, stopping, busVars>>

(* Mutant: an absolute seek is for whatever plays. *)
SeeksInCurrent(action) == app.token

SeeksIn(action) == IF action.kind = "SetPosition" THEN action.token ELSE app.token

(* History: the track that was named for the seek, if any. *)
Named(action) == IF action.kind = "SetPosition" THEN action.token ELSE NoTrack

(* `AppState::apply' *)
Applied(action) ==
  CASE action.kind \in {"Seek", "SetPosition"} ->
         IF CanSeek(app) /\ SeeksIn(action) = app.token
         THEN [app EXCEPT !.target = app.token, !.aimed = Named(action)] ELSE app
    [] action.kind = "Quit" -> [app EXCEPT !.quit = TRUE]

(* Mutant: actions are taken for as long as there are any. *)
DrainedWhenEmpty == lane = <<>>

Drained == lane = <<>> \/ round = RequestCapacity

(* `drain_mpris_actions' *)
TakeAction ==
  /\ loop = "actions" /\ ~Drained
  /\ lane' = Tail(lane)
  /\ app' = Applied(Head(lane))
  /\ round' = IF round < RequestCapacity THEN round + 1 ELSE round
  /\ UNCHANGED <<loop, latest, stopping, busVars>>

(* `publish_mpris' ... *)
Publish ==
  /\ loop = "actions" /\ Drained
  /\ loop' = "input" /\ round' = 0
  /\ latest' = Projection(app)
  /\ UNCHANGED <<app, lane, stopping, busVars>>

(* ... which a terminal event, or none, comes before, too. *)
TerminalEvent ==
  /\ loop = "input"
  /\ app' \in {app, [app EXCEPT !.quit = TRUE]}
  /\ latest' = Projection(app')
  /\ loop' = IF app'.quit THEN "stopping" ELSE "events"
  /\ UNCHANGED <<round, lane, stopping, busVars>>

(* `session_stopped', the last state, and `shutdown' of the runtime ... *)
ShutDown ==
  /\ loop = "stopping"
  /\ loop' = "join"
  /\ app' = [Unsought EXCEPT !.status = "Stopped"]
  /\ latest' = Projection(app')
  /\ stopping' = TRUE
  /\ UNCHANGED <<round, lane, busVars>>

(* ... which joins the worker. *)
Join ==
  /\ loop = "join" /\ worker.step = "down"
  /\ loop' = "over"
  /\ UNCHANGED <<app, round, lane, latest, stopping, busVars>>

-----------------------------------------------------------------------------
(* The worker, which looks at the shutdown and at the slot every WORKER_POLL. *)

WorkerKept == UNCHANGED <<loop, app, round, lane, stopping>>

(* The newest state replaces the one that is served, before its signals. *)
TakeLatest ==
  /\ worker.step \in {"idle", "last"} /\ latest # Empty
  /\ worker' = [worker EXCEPT !.state = latest, !.previous = worker.state,
                  !.final = worker.step = "last", !.step = "changed"]
  /\ latest' = Empty
  /\ UNCHANGED <<view, unsaid>> /\ WorkerKept

SeeShutdown ==
  /\ worker.step = "idle" /\ stopping
  /\ worker' = [worker EXCEPT !.step = "last"]
  /\ UNCHANGED <<latest, view, unsaid>> /\ WorkerKept

(* Mutant: the state that is left in the slot is not served. *)
StopsAtOnce == worker.step = "last"

NothingLeft == worker.step = "last" /\ latest = Empty

Down ==
  /\ NothingLeft
  /\ worker' = [worker EXCEPT !.step = "down"]
  /\ UNCHANGED <<latest, view, unsaid>> /\ WorkerKept

(* Back to polling, or the end of the connection. *)
Rest == [worker EXCEPT !.step = IF worker.final THEN "down" ELSE "idle",
                       !.previous = worker.state]

(* PropertiesChanged with the properties that differ.  A client reads the position
   of a new track itself. *)
Changed(old, new) ==
  [status |-> IF old.status # new.status THEN new.status ELSE view.status,
   token |-> IF old.token # new.token THEN new.token ELSE view.token,
   revision |-> IF old.token # new.token THEN new.revision ELSE view.revision]

Sought == worker.state.revision # worker.previous.revision

Differs ==
  \/ worker.state.status # worker.previous.status
  \/ worker.state.token # worker.previous.token

SameTrack == worker.previous.token = worker.state.token

(* A signal that cannot be sent leaves out the one after it. *)
SignalFails ==
  /\ "bus" \in Faults
  /\ \/ worker.step = "changed" /\ Differs
     \/ worker.step = "seeked" /\ SameTrack /\ Sought
  /\ unsaid' = TRUE
  /\ worker' = Rest
  /\ UNCHANGED <<latest, view>> /\ WorkerKept

EmitChanged ==
  /\ worker.step = "changed"
  /\ view' = Changed(worker.previous, worker.state)
  /\ worker' = [worker EXCEPT !.step = "seeked"]
  /\ UNCHANGED <<latest, unsaid>> /\ WorkerKept

EmitSeeked ==
  /\ worker.step = "seeked"
  /\ view' = IF SameTrack /\ Sought
             THEN [view EXCEPT !.revision = worker.state.revision] ELSE view
  /\ worker' = Rest
  /\ UNCHANGED <<latest, unsaid>> /\ WorkerKept

-----------------------------------------------------------------------------
(* The client.  A method looks at the state that is served and tries to send; the
   client hears of a full lane, but not of a method that does not apply.  Both are one
   step: what may happen between them may happen before the loop takes the action, too.
   A track that a client names is one it has heard of, perhaps long ago. *)

Allowed(action) == action.kind = "Seek" => CanSeek(worker.state)

Calls ==
  {Action(kind, NoTrack) : kind \in {"Seek", "Quit"}}
    \cup {Action("SetPosition", token) : token \in NoTrack + 1 .. view.token}

HasRoom == Len(lane) < RequestCapacity

(* `enqueue_if' *)
EnqueueIf ==
  /\ worker.step # "down" /\ HasRoom
  /\ \E action \in Calls : Allowed(action) /\ lane' = Append(lane, action)
  /\ UNCHANGED <<loop, app, round, latest, stopping, busVars>>

-----------------------------------------------------------------------------
Init ==
  /\ loop = "events"
  /\ app = [status |-> "Stopped", token |-> NoTrack, revision |-> 0,
            target |-> NoTrack, aimed |-> NoTrack, quit |-> FALSE]
  /\ round = 0
  /\ lane = <<>> /\ latest = Empty /\ stopping = FALSE
  /\ worker = [step |-> "idle", state |-> Projection(app), previous |-> Projection(app),
               final |-> FALSE]
  /\ view = Projection(app)
  /\ unsaid = FALSE

LoopStep ==
  AudioEvents \/ TakeAction \/ Publish \/ TerminalEvent \/ ShutDown \/ Join
WorkerStep ==
  TakeLatest \/ SeeShutdown \/ Down \/ EmitChanged \/ EmitSeeked \/ SignalFails

Next == LoopStep \/ WorkerStep \/ EnqueueIf

Spec == Init /\ [][Next]_vars

(* Both threads poll with a timeout; nothing is asked of the client. *)
FairSpec == Spec /\ WF_vars(LoopStep) /\ WF_vars(WorkerStep)

-----------------------------------------------------------------------------
(* However many states the slot has lost, between its signals a client knows
   exactly what is served, also that a seek has moved the position; and when the
   connection ends it knows the last state of the session. *)
ClientCurrent ==
  ~unsaid =>
    /\ worker.step \in {"idle", "last", "down"} => view = worker.state
    /\ worker.step = "down" => view = Projection(app)

(* A position that a client set in one track is never reached in another, however
   old the client's view is and however long the action has waited. *)
SeekInNamedTrack ==
  [][ app'.revision # app.revision /\ app.aimed # NoTrack => app.aimed = app.token ]_vars

(* A Quit that was accepted ends the session, whatever else the desktop sends. *)
QuitTaken ==
  (\E i \in DOMAIN lane : lane[i].kind = "Quit") ~> (loop = "over")

===============================================================================
