------------------------------ MODULE MprisProofs ------------------------------
(***************************************************************************)
(* Theorems about Mpris: for lanes of any capacity and any number of       *)
(* tracks and seeks, a client knows what is served although the slot loses *)
(* states, and a position set in one track is not reached in another.      *)
(***************************************************************************)
EXTENDS Mpris, SequenceTheorems, TLAPS

States == [status : Status, token : Nat, revision : Nat]
Kinds == {"Seek", "SetPosition", "Quit"}
Actions == [kind : Kinds, token : Nat]

Typed ==
  /\ app \in [status : Status, token : Nat, revision : Nat, target : Nat, aimed : Nat,
              quit : BOOLEAN]
  /\ lane \in Seq(Actions)
  /\ latest \in States \cup {Empty}
  /\ worker \in [step : {"idle", "changed", "seeked", "last", "down"},
                 state : States, previous : States, final : BOOLEAN]
  /\ view \in States
  /\ stopping \in BOOLEAN

(* A seek that names a track is under way in that track only. *)
Aimed == app.aimed # NoTrack => app.aimed = app.token

(* How far the client is with the state that is served. *)
Told ==
  ~unsaid =>
    /\ worker.step \in {"idle", "last", "down"} => view = worker.state
    /\ worker.step = "changed" => view = worker.previous
    /\ worker.step = "seeked" =>
         view = [worker.state EXCEPT
                   !.revision = IF SameTrack THEN worker.previous.revision ELSE @]

(* Once the session has stopped, its last state is in the slot or is served, and
   the worker only ends with the latter. *)
LastServed ==
  /\ stopping <=> loop \in {"join", "over"}
  /\ worker.step \in {"last", "down"} \/ worker.final => stopping
  /\ worker.step = "down" \/ worker.final => latest = Empty
  /\ stopping => (IF latest = Empty THEN worker.state ELSE latest) = Projection(app)

MprisInv == Typed /\ Aimed /\ Told /\ LastServed

-----------------------------------------------------------------------------
LEMMA EmptyIsNoState == Empty \notin States
<1>1. DOMAIN Empty = {"status"}
  BY DEF Empty
<1>2. \A s \in States : "token" \in DOMAIN s
  BY DEF States
<1> QED
  BY <1>1, <1>2

LEMMA ProjectionIsState ==
  ASSUME Typed
  PROVE  Projection(app) \in States
BY DEF Typed, Projection, States

LEMMA StateFields ==
  ASSUME NEW s \in States, NEW t \in States,
         s.status = t.status, s.token = t.token, s.revision = t.revision
  PROVE  s = t
BY DEF States

LEMMA InitInv == Init => MprisInv
<1> SUFFICES ASSUME Init PROVE MprisInv
  OBVIOUS
<1>1. Projection(app) \in States
  BY MprisAssumption DEF Init, Projection, States, NoTrack
<1>2. Typed
  BY <1>1, EmptySeq, MprisAssumption DEF Init, Typed, NoTrack
<1>3. Aimed /\ Told
  BY DEF Init, Aimed, Told
<1>4. LastServed
  BY DEF Init, LastServed
<1> QED
  BY <1>2, <1>3, <1>4 DEF MprisInv

(* Steps of the loop before the session stops publish what they like. *)
LEMMA LoopKeeps ==
  ASSUME MprisInv, Typed', Aimed', ~stopping, ~stopping', loop' \notin {"join", "over"},
         UNCHANGED <<worker, view, unsaid>>
  PROVE  MprisInv'
<1>1. Told'
  BY DEF MprisInv, Told, SameTrack
<1>2. LastServed'
  BY DEF MprisInv, LastServed
<1> QED
  BY <1>1, <1>2 DEF MprisInv

LEMMA AudioEventsInv ==
  ASSUME MprisInv, AudioEvents
  PROVE  MprisInv'
<1>1. /\ ~stopping /\ ~stopping' /\ loop' = "actions"
      /\ UNCHANGED <<worker, view, unsaid, lane, latest, stopping>>
  BY DEF MprisInv, LastServed, AudioEvents, busVars
<1>2. app \in [status : Status, token : Nat, revision : Nat, target : Nat, aimed : Nat,
               quit : BOOLEAN]
  BY DEF MprisInv, Typed
<1>3. PICK status \in Status, token \in app.token .. MaxToken,
           revision \in app.revision .. MaxRevision :
        app' = [(IF status = "Stopped" \/ <<token, revision>> # <<app.token, app.revision>>
                 THEN Unsought ELSE app)
                EXCEPT !.status = status, !.token = token, !.revision = revision]
  BY Zenon DEF AudioEvents
<1>4. token \in Nat /\ revision \in Nat
  BY <1>2, MprisAssumption
<1>5. /\ app' \in [status : Status, token : Nat, revision : Nat, target : Nat, aimed : Nat,
                   quit : BOOLEAN]
      /\ app'.aimed = NoTrack \/ (app'.aimed = app.aimed /\ app'.token = app.token)
  <2>1. CASE status = "Stopped" \/ <<token, revision>> # <<app.token, app.revision>>
    <3>1. app' = [Unsought EXCEPT !.status = status, !.token = token, !.revision = revision]
      BY <1>3, <2>1
    <3> QED
      BY <1>2, <1>4, <3>1 DEF Unsought, NoTrack
  <2>2. CASE ~(status = "Stopped" \/ <<token, revision>> # <<app.token, app.revision>>)
    <3>1. app' = [app EXCEPT !.status = status, !.token = token, !.revision = revision]
      BY <1>3, <2>2
    <3> QED
      BY <1>2, <1>4, <2>2, <3>1
  <2> QED
    BY <2>1, <2>2
<1>6. Typed'
  BY <1>1, <1>5 DEF MprisInv, Typed
<1>7. Aimed'
  BY <1>5 DEF MprisInv, Aimed
<1> QED
  BY <1>1, <1>6, <1>7, LoopKeeps

LEMMA TakeActionInv ==
  ASSUME MprisInv, TakeAction
  PROVE  MprisInv'
<1>1. /\ ~stopping /\ ~stopping' /\ loop' = "actions" /\ lane # <<>> /\ lane' = Tail(lane)
      /\ app' = Applied(Head(lane))
      /\ UNCHANGED <<worker, view, unsaid, latest, stopping>>
  BY DEF MprisInv, LastServed, TakeAction, Drained, busVars
<1>2. /\ app \in [status : Status, token : Nat, revision : Nat, target : Nat, aimed : Nat,
                  quit : BOOLEAN]
      /\ lane \in Seq(Actions)
  BY DEF MprisInv, Typed
<1>3. Head(lane) \in Actions /\ lane' \in Seq(Actions)
  BY <1>1, <1>2, HeadTailProperties
<1> DEFINE action == Head(lane)
<1>4. action.kind \in Kinds /\ action.token \in Nat
  BY <1>3 DEF Actions
<1> HIDE DEF action
<1>5. \/ app' = app
      \/ app' = [app EXCEPT !.quit = TRUE]
      \/ /\ SeeksIn(action) = app.token
         /\ app' = [app EXCEPT !.target = app.token, !.aimed = Named(action)]
  BY <1>1, <1>4 DEF Applied, Kinds, action
<1>6. Named(action) \in Nat /\ (Named(action) = NoTrack \/ Named(action) = SeeksIn(action))
  BY <1>4 DEF Named, SeeksIn, NoTrack
<1>7. app' \in [status : Status, token : Nat, revision : Nat, target : Nat, aimed : Nat,
                quit : BOOLEAN]
  BY <1>2, <1>5, <1>6
<1>8. app'.token = app.token /\ app'.aimed \in {app.aimed, NoTrack, app.token}
  BY <1>2, <1>5, <1>6
<1>9. Typed'
  BY <1>1, <1>3, <1>7 DEF MprisInv, Typed
<1>10. Aimed'
  BY <1>8 DEF MprisInv, Aimed
<1> QED
  BY <1>1, <1>9, <1>10, LoopKeeps

LEMMA PublishInv ==
  ASSUME MprisInv, Publish \/ TerminalEvent
  PROVE  MprisInv'
<1>1. /\ ~stopping /\ ~stopping' /\ loop' \notin {"join", "over"}
      /\ app' = app \/ app' = [app EXCEPT !.quit = TRUE]
      /\ latest' = Projection(app')
      /\ UNCHANGED <<worker, view, unsaid, lane, stopping>>
  <2>1. CASE Publish
    <3>1. latest' = Projection(app)
      BY <2>1 DEF Publish
    <3> QED
      BY <2>1, <3>1 DEF MprisInv, LastServed, Publish, busVars, Projection
  <2>2. CASE TerminalEvent
    BY <2>2 DEF MprisInv, LastServed, TerminalEvent, busVars
  <2> QED
    BY <2>1, <2>2
<1>2. app \in [status : Status, token : Nat, revision : Nat, target : Nat, aimed : Nat,
               quit : BOOLEAN]
  BY DEF MprisInv, Typed
<1>3. /\ app' \in [status : Status, token : Nat, revision : Nat, target : Nat, aimed : Nat,
                   quit : BOOLEAN]
      /\ app'.token = app.token /\ app'.aimed = app.aimed
  BY <1>1, <1>2
<1>4. latest' \in States
  BY <1>1, <1>3 DEF Projection, States
<1>5. Typed'
  BY <1>1, <1>3, <1>4 DEF MprisInv, Typed
<1>6. Aimed'
  BY <1>3 DEF MprisInv, Aimed
<1> QED
  BY <1>1, <1>5, <1>6, LoopKeeps

LEMMA ShutDownInv ==
  ASSUME MprisInv, ShutDown
  PROVE  MprisInv'
<1>1. /\ ~stopping /\ stopping' = TRUE /\ loop' = "join"
      /\ app' = [Unsought EXCEPT !.status = "Stopped"] /\ latest' = Projection(app')
      /\ UNCHANGED <<worker, view, unsaid, lane>>
  BY DEF MprisInv, LastServed, ShutDown, busVars
<1>2. app \in [status : Status, token : Nat, revision : Nat, target : Nat, aimed : Nat,
               quit : BOOLEAN]
  BY DEF MprisInv, Typed
<1>3. /\ app' \in [status : Status, token : Nat, revision : Nat, target : Nat, aimed : Nat,
                   quit : BOOLEAN]
      /\ app'.aimed = NoTrack
  BY <1>1, <1>2, MprisAssumption DEF Unsought, NoTrack
<1>4. latest' \in States
  BY <1>1, <1>3 DEF Projection, States
<1>5. Typed'
  BY <1>1, <1>3, <1>4 DEF MprisInv, Typed
<1>6. Aimed' /\ Told'
  BY <1>1, <1>3 DEF MprisInv, Aimed, Told, SameTrack
<1>7. LastServed'
  BY <1>1, <1>4, EmptyIsNoState DEF MprisInv, LastServed
<1> QED
  BY <1>5, <1>6, <1>7 DEF MprisInv

(* Steps that only the lane and the loop take part in. *)
LEMMA LaneKeeps ==
  ASSUME MprisInv, lane' \in Seq(Actions),
         loop' = loop \/ (loop = "join" /\ loop' = "over"),
         UNCHANGED <<app, latest, stopping, worker, view, unsaid>>
  PROVE  MprisInv'
<1>1. Typed' /\ Aimed' /\ Told'
  BY DEF MprisInv, Typed, Aimed, Told, SameTrack
<1>2. LastServed'
  BY DEF MprisInv, LastServed, Projection
<1> QED
  BY <1>1, <1>2 DEF MprisInv

LEMMA EnqueueIfInv ==
  ASSUME MprisInv, EnqueueIf
  PROVE  MprisInv'
<1>1. PICK action \in Calls : lane' = Append(lane, action)
  BY DEF EnqueueIf
<1>2. action \in Actions
  <2>1. view.token \in Nat
    BY DEF MprisInv, Typed, States
  <2> QED
    BY <2>1 DEF Calls, Action, Actions, Kinds, NoTrack
<1>3. lane' \in Seq(Actions)
  BY <1>1, <1>2, AppendProperties DEF MprisInv, Typed
<1> QED
  BY <1>3, LaneKeeps DEF EnqueueIf, busVars

-----------------------------------------------------------------------------
(* The worker. *)

LEMMA WorkerKeeps ==
  ASSUME MprisInv, WorkerKept,
         latest' \in States \cup {Empty}, view' \in States,
         worker' \in [step : {"idle", "changed", "seeked", "last", "down"},
                      state : States, previous : States, final : BOOLEAN]
  PROVE  /\ Typed' /\ Aimed' /\ (stopping' <=> loop' \in {"join", "over"})
         /\ Projection(app)' = Projection(app)
BY DEF MprisInv, Typed, Aimed, LastServed, Projection, WorkerKept

LEMMA TakeLatestInv ==
  ASSUME MprisInv, TakeLatest
  PROVE  MprisInv'
<1>1. /\ worker.step \in {"idle", "last"} /\ latest # Empty /\ latest' = Empty
      /\ UNCHANGED <<view, unsaid, stopping>> /\ WorkerKept
      /\ worker' = [worker EXCEPT !.state = latest, !.previous = worker.state,
                      !.final = worker.step = "last", !.step = "changed"]
  BY DEF TakeLatest, WorkerKept
<1>2. /\ worker \in [step : {"idle", "changed", "seeked", "last", "down"},
                     state : States, previous : States, final : BOOLEAN]
      /\ latest \in States /\ view \in States
  BY <1>1 DEF MprisInv, Typed
<1> DEFINE ending == worker.step = "last"
<1>3. ending \in BOOLEAN
  OBVIOUS
<1>4. worker' = [worker EXCEPT !.state = latest, !.previous = worker.state,
                   !.final = ending, !.step = "changed"]
  BY <1>1
<1>5. ending => worker.step = "last"
  OBVIOUS
<1> HIDE DEF ending
<1>6. /\ worker' \in [step : {"idle", "changed", "seeked", "last", "down"},
                      state : States, previous : States, final : BOOLEAN]
      /\ worker'.step = "changed" /\ worker'.state = latest
      /\ worker'.previous = worker.state /\ worker'.final = ending
  BY <1>2, <1>3, <1>4
<1>7. /\ Typed' /\ Aimed' /\ (stopping' <=> loop' \in {"join", "over"})
      /\ Projection(app)' = Projection(app)
  BY <1>1, <1>2, <1>6, WorkerKeeps
<1>8. Told'
  BY <1>1, <1>6 DEF MprisInv, Told
<1>9. LastServed'
  <2>1. ending => stopping
    BY <1>5 DEF MprisInv, LastServed
  <2>2. stopping => latest = Projection(app)
    BY <1>1 DEF MprisInv, LastServed
  <2> QED
    BY <1>1, <1>6, <1>7, <2>1, <2>2 DEF LastServed
<1> QED
  BY <1>7, <1>8, <1>9 DEF MprisInv

LEMMA StopInv ==
  ASSUME MprisInv, SeeShutdown \/ Down
  PROVE  MprisInv'
<1>1. /\ UNCHANGED <<latest, view, unsaid, stopping>> /\ WorkerKept
      /\ \/ worker.step = "idle" /\ stopping /\ worker' = [worker EXCEPT !.step = "last"]
         \/ /\ worker.step = "last" /\ latest = Empty
            /\ worker' = [worker EXCEPT !.step = "down"]
  BY DEF SeeShutdown, Down, NothingLeft, WorkerKept
<1>2. /\ worker \in [step : {"idle", "changed", "seeked", "last", "down"},
                     state : States, previous : States, final : BOOLEAN]
      /\ latest \in States \cup {Empty} /\ view \in States
  BY DEF MprisInv, Typed
<1>3. /\ worker' \in [step : {"idle", "changed", "seeked", "last", "down"},
                      state : States, previous : States, final : BOOLEAN]
      /\ worker'.state = worker.state /\ worker'.final = worker.final
      /\ worker.step \in {"idle", "last"} /\ worker'.step \in {"last", "down"}
      /\ worker'.step = "down" => latest = Empty
      /\ stopping
  BY <1>1, <1>2 DEF MprisInv, LastServed
<1>4. /\ Typed' /\ Aimed' /\ (stopping' <=> loop' \in {"join", "over"})
      /\ Projection(app)' = Projection(app)
  BY <1>1, <1>2, <1>3, WorkerKeeps
<1>5. Told'
  BY <1>1, <1>3 DEF MprisInv, Told
<1>6. LastServed'
  BY <1>1, <1>3, <1>4 DEF MprisInv, LastServed
<1> QED
  BY <1>4, <1>5, <1>6 DEF MprisInv

(* The worker goes back to polling, or down when it has served the last state. *)
LEMMA RestInv ==
  ASSUME MprisInv, WorkerKept, worker' = Rest, latest' = latest, view' \in States,
         unsaid' \/ view' = worker.state,
         worker.step \in {"changed", "seeked"}
  PROVE  MprisInv'
<1>1. /\ worker \in [step : {"idle", "changed", "seeked", "last", "down"},
                     state : States, previous : States, final : BOOLEAN]
      /\ latest \in States \cup {Empty}
  BY DEF MprisInv, Typed
<1>2. /\ worker' \in [step : {"idle", "changed", "seeked", "last", "down"},
                      state : States, previous : States, final : BOOLEAN]
      /\ worker'.state = worker.state /\ worker'.final = worker.final
      /\ worker'.step = IF worker.final THEN "down" ELSE "idle"
  BY <1>1 DEF Rest
<1>3. /\ Typed' /\ Aimed' /\ (stopping' <=> loop' \in {"join", "over"})
      /\ Projection(app)' = Projection(app)
  BY <1>1, <1>2, WorkerKeeps
<1>4. Told'
  BY <1>2 DEF Told
<1>5. LastServed'
  BY <1>2, <1>3 DEF MprisInv, LastServed, WorkerKept
<1> QED
  BY <1>3, <1>4, <1>5 DEF MprisInv

LEMMA EmitChangedInv ==
  ASSUME MprisInv, EmitChanged
  PROVE  MprisInv'
<1>1. /\ worker.step = "changed" /\ view' = Changed(worker.previous, worker.state)
      /\ worker' = [worker EXCEPT !.step = "seeked"]
      /\ UNCHANGED <<latest, unsaid, stopping>> /\ WorkerKept
  BY DEF EmitChanged, WorkerKept
<1>2. /\ worker \in [step : {"idle", "changed", "seeked", "last", "down"},
                     state : States, previous : States, final : BOOLEAN]
      /\ latest \in States \cup {Empty} /\ view \in States
  BY DEF MprisInv, Typed
<1>3. /\ worker' \in [step : {"idle", "changed", "seeked", "last", "down"},
                      state : States, previous : States, final : BOOLEAN]
      /\ worker'.state = worker.state /\ worker'.previous = worker.previous
      /\ worker'.step = "seeked" /\ worker'.final = worker.final
  BY <1>1, <1>2
<1>4. view' \in States
  BY <1>1, <1>2 DEF Changed, States
<1>5. /\ Typed' /\ Aimed' /\ (stopping' <=> loop' \in {"join", "over"})
      /\ Projection(app)' = Projection(app)
  BY <1>1, <1>2, <1>3, <1>4, WorkerKeeps
<1>6. Told'
  <2> DEFINE told == [worker.state EXCEPT
                        !.revision = IF SameTrack THEN worker.previous.revision ELSE @]
  <2>1. ASSUME ~unsaid PROVE view' = told
    <3>1. view = worker.previous /\ worker.previous \in States /\ worker.state \in States
      BY <1>1, <1>2, <2>1 DEF MprisInv, Told
    <3>2. told \in States /\ told.status = worker.state.status /\ told.token = worker.state.token
      BY <3>1 DEF States
    <3>3. told.revision = IF SameTrack THEN worker.previous.revision ELSE worker.state.revision
      BY <3>1 DEF States
    <3>4. view'.status = told.status /\ view'.token = told.token
      BY <1>1, <3>1, <3>2 DEF Changed
    <3>5. view'.revision = told.revision
      BY <1>1, <3>1, <3>3 DEF Changed, SameTrack
    <3> HIDE DEF told
    <3> QED
      BY <1>4, <3>2, <3>4, <3>5, StateFields
  <2> QED
    BY <1>1, <1>3, <2>1 DEF Told, SameTrack
<1>7. LastServed'
  BY <1>1, <1>3, <1>5 DEF MprisInv, LastServed
<1> QED
  BY <1>5, <1>6, <1>7 DEF MprisInv

LEMMA EmitSeekedInv ==
  ASSUME MprisInv, EmitSeeked
  PROVE  MprisInv'
<1>1. /\ worker.step = "seeked" /\ worker' = Rest /\ UNCHANGED <<latest, unsaid>> /\ WorkerKept
      /\ view' = IF SameTrack /\ Sought
                 THEN [view EXCEPT !.revision = worker.state.revision] ELSE view
  BY DEF EmitSeeked
<1>2. view \in States /\ worker.state \in States /\ worker.previous \in States
  BY DEF MprisInv, Typed
<1>3. view' \in States
  BY <1>1, <1>2 DEF States
<1>4. ASSUME ~unsaid PROVE view' = worker.state
  <2>1. view = [worker.state EXCEPT
                  !.revision = IF SameTrack THEN worker.previous.revision ELSE @]
    BY <1>1, <1>4 DEF MprisInv, Told
  <2>2. /\ view.status = worker.state.status /\ view.token = worker.state.token
        /\ view.revision =
             IF SameTrack THEN worker.previous.revision ELSE worker.state.revision
    BY <1>2, <2>1 DEF States
  <2>3. view'.status = worker.state.status /\ view'.token = worker.state.token
    BY <1>1, <1>2, <2>2 DEF States
  <2>4. view'.revision = worker.state.revision
    BY <1>1, <1>2, <2>2 DEF States, Sought
  <2> QED
    BY <1>2, <1>3, <2>3, <2>4, StateFields
<1> QED
  BY <1>1, <1>3, <1>4, RestInv

LEMMA SignalFailsInv ==
  ASSUME MprisInv, SignalFails
  PROVE  MprisInv'
<1>1. /\ worker.step \in {"changed", "seeked"} /\ unsaid' /\ worker' = Rest
      /\ latest' = latest /\ view' = view /\ WorkerKept
  BY DEF SignalFails
<1>2. view' \in States
  BY <1>1 DEF MprisInv, Typed
<1> QED
  BY <1>1, <1>2, RestInv

LEMMA NextInv == MprisInv /\ [Next]_vars => MprisInv'
<1> SUFFICES ASSUME MprisInv, [Next]_vars PROVE MprisInv'
  OBVIOUS
<1>1. CASE LoopStep
  <2>1. CASE Join
    <3>1. lane' \in Seq(Actions)
      BY <2>1 DEF MprisInv, Typed, Join
    <3> QED
      BY <2>1, <3>1, LaneKeeps DEF Join, busVars
  <2> QED
    BY <1>1, <2>1, AudioEventsInv, TakeActionInv, PublishInv, ShutDownInv DEF LoopStep
<1>2. CASE WorkerStep
  BY <1>2, TakeLatestInv, StopInv, EmitChangedInv, EmitSeekedInv, SignalFailsInv DEF WorkerStep
<1>3. CASE EnqueueIf
  BY <1>3, EnqueueIfInv
<1>4. CASE UNCHANGED vars
  <2>1. lane' \in Seq(Actions)
    BY <1>4 DEF MprisInv, Typed, vars
  <2> QED
    BY <1>4, <2>1, LaneKeeps DEF vars
<1> QED
  BY <1>1, <1>2, <1>3, <1>4 DEF Next

(* The inductive invariant of the worker, the slot and the client holds throughout. *)
THEOREM MprisInvariant == Spec => []MprisInv
BY InitInv, NextInv, PTL DEF Spec

(* Between the signals of the worker a client knows what is served, however many
   states `StateSlot' has replaced, and at the end the last state of the session. *)
THEOREM ClientStaysCurrent == Spec => []ClientCurrent
<1>1. MprisInv => ClientCurrent
  BY DEF MprisInv, Told, LastServed, ClientCurrent
<1> QED
  BY <1>1, MprisInvariant, PTL

(* A position that `SetPosition' names for a track is only reached in that track. *)
THEOREM SeekStaysInTrack == Spec => SeekInNamedTrack
<1>1. MprisInv /\ [Next]_vars =>
        [ app'.revision # app.revision /\ app.aimed # NoTrack => app.aimed = app.token ]_vars
  BY DEF MprisInv, Aimed
<1> QED
  BY <1>1, MprisInvariant, PTL DEF Spec, SeekInNamedTrack

================================================================================
