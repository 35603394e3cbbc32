----------------------------- MODULE SessionStore -----------------------------
(***************************************************************************)
(* Saving and resuming a session: `StateStore' of src/src/state.rs and     *)
(* `StateSynchronizer' of src/src/terminal.rs, over one life of the        *)
(* process after another.                                                  *)
(*                                                                         *)
(* The event loop calls `sync' after everything it does; a write is taken  *)
(* apart into the system calls between which the process may die.  The     *)
(* queue is the one of module Queue; of the playback only what is saved is *)
(* kept: the current item and how far it has been played.                  *)
(***************************************************************************)
EXTENDS Queue

CONSTANTS
  Libraries,          \* the entries the scan finds in one life or another
  Limits,             \* the queue lengths that are configured
  MaxPosition,        \* positions are 0 .. MaxPosition, in seconds
  MaxTime,            \* the length of a life, in seconds
  PositionInterval,   \* STATE_POSITION_INTERVAL
  HeartbeatInterval,  \* STATE_HEARTBEAT_INTERVAL
  CreateAttempts,     \* STATE_TEMPORARY_CREATE_ATTEMPTS
  MaxLeftovers,       \* bounds the temporary files that are left behind
  Faults,             \* what may go wrong: "crash", "io"
  Nothing             \* a file that does not exist, Option::None

ASSUME StoreAssumption ==
  /\ Libraries \subseteq SUBSET Entries
  /\ Limits \subseteq 1 .. MaxItems
  /\ {MaxPosition, MaxTime, PositionInterval, HeartbeatInterval,
      CreateAttempts, MaxLeftovers} \subseteq Nat
  /\ Faults \subseteq {"crash", "io"}
  /\ MaxItems < MaxItemId     \* at most 10000 items, and their ids are u64
  /\ Nothing \notin [entries : Seq(Entries), current : Nat, position : Nat]
  /\ Nothing \notin [generation : Nat, index : Nat, id : Nat]

VARIABLES
  library, limit,     \* the library and config.queue.max_items of this life
  current, position,  \* the current item and its resume position
  playing,            \* the playback status, as far as it is published
  now,                \* seconds since the event loop started
  synchronizer,       \* StateSynchronizer
  pc,                 \* where the process is: "first" sync, "loop", "finish"; "down", "dead"
  write,              \* the file being replaced, NoWrite in between
  files,              \* the state directory
  leftovers,          \* temporary files that nobody will replace a file with
  synced,             \* history: nothing happened since the last sync
  savedAt             \* history: when the files were last replaced in this life

sessionVars == <<library, limit, current, position, playing, now>>
storeVars == <<synchronizer, pc, write, files, leftovers>>
vars == <<queueVars, sessionVars, storeVars, synced, savedAt>>

NoTime == -1
Up == pc \notin {"down", "dead"}
NoWrite == [file |-> "none"]
Partial == [torn |-> TRUE]     \* a file that was created and not yet filled

NewSynchronizer ==
  [nowPlaying |-> Nothing, nowPlayingAt |-> NoTime, initialized |-> FALSE,
   session |-> Nothing, sessionAt |-> NoTime]

-----------------------------------------------------------------------------
(* What is saved. *)

CurrentQueueIndex == ItemPosition(items, current.id)

(* `session_identity': the selected row stands in for a track that has left
   the queue. *)
IdentityIndex == OrPlace(CurrentQueueIndex, AtMost(selection, Len(items)))

SessionIdentity ==
  IF items = <<>> THEN Nothing
  ELSE [generation |-> queueGen, index |-> IdentityIndex, id |-> items[IdentityIndex].id]

QueueEntryIds == [k \in 1 .. Len(items) |-> items[k].entry]

SnapshotPosition == IF CurrentQueueIndex # 0 THEN position ELSE 0

SessionSnapshot ==
  IF items = <<>> THEN Nothing
  ELSE [entries |-> QueueEntryIds, current |-> IdentityIndex, position |-> SnapshotPosition]

(* `NowPlayingProjection', its position apart from the rest. *)
Projection ==
  [state |-> [playing |-> playing, current |-> current, index |-> CurrentQueueIndex,
              length |-> Len(items)],
   position |-> position]

-----------------------------------------------------------------------------
(* `write_bytes': a temporary file is created, filled and renamed. *)

Replacing(file, data) == [file |-> file, step |-> "create", data |-> data, content |-> Nothing]

Elapsed(since) == IF since = NoTime THEN MaxTime + HeartbeatInterval ELSE now - since

NowPlayingDue ==
  LET previous == synchronizer.nowPlaying
      elapsed == Elapsed(synchronizer.nowPlayingAt)
  IN  \/ previous = Nothing
      \/ previous # Nothing /\ previous.state # Projection.state
      \/ elapsed >= PositionInterval /\ previous # Projection
      \/ elapsed >= HeartbeatInterval

(* Mutant: the position of an unchanged queue is not saved before the end. *)
OnlyChangesDue == ~synchronizer.initialized \/ synchronizer.session # SessionIdentity

SessionDue ==
  \/ ~synchronizer.initialized
  \/ synchronizer.session # SessionIdentity
  \/ SessionIdentity # Nothing /\ Elapsed(synchronizer.sessionAt) >= HeartbeatInterval

(* A session without a queue removes its file. *)
SessionWrite ==
  IF SessionSnapshot = Nothing THEN [file |-> "session", step |-> "clear"]
  ELSE Replacing("session", SessionSnapshot)

(* A sync is over: the loop goes on, or the process has said its last. *)
SyncEnds ==
  /\ write' = NoWrite
  /\ pc' = CASE pc = "first" -> "loop" [] pc = "loop" -> "loop" [] pc = "finish" -> "down"
  /\ synced' = TRUE

(* The second half of `sync', which `force' always takes. *)
SessionHalf ==
  IF pc = "finish" \/ SessionDue
  THEN write' = SessionWrite /\ UNCHANGED <<pc, synced>>
  ELSE SyncEnds

Sync ==
  /\ pc \in {"first", "loop", "finish"}
  /\ write = NoWrite
  /\ pc = "loop" => ~synced
  /\ IF pc = "finish" \/ NowPlayingDue
     THEN write' = Replacing("nowPlaying", Projection) /\ UNCHANGED <<pc, synced>>
     ELSE SessionHalf
  /\ UNCHANGED <<queueVars, sessionVars, synchronizer, files, leftovers, savedAt>>

(* `sync' remembers what it wrote; `force' is the last to write. *)
Remembered ==
  IF write.file = "nowPlaying"
  THEN [synchronizer EXCEPT
          !.nowPlaying = Projection,
          !.nowPlayingAt = IF pc = "finish" THEN @ ELSE now]
  ELSE IF pc = "finish" THEN synchronizer
  ELSE [synchronizer EXCEPT
          !.initialized = TRUE,
          !.session = SessionIdentity,
          !.sessionAt = IF SessionIdentity = Nothing THEN NoTime ELSE now]

Written ==
  /\ synchronizer' = Remembered
  /\ IF write.file = "nowPlaying" THEN SessionHalf ELSE SyncEnds

(* Mutant: a now-playing file that cannot be written ends the last sync. *)
ForceStopsAtError ==
  /\ UNCHANGED synchronizer
  /\ write' = NoWrite
  /\ UNCHANGED synced
  /\ pc' = (IF pc = "loop" THEN "finish" ELSE "down")
  /\ playing' = FALSE

(* An error ends the loop, which then forces both files out; before the loop
   it ends the process, and `force' goes on to the session. *)
WriteFailed ==
  /\ UNCHANGED <<synchronizer, synced>>
  /\ IF pc = "finish" /\ write.file = "nowPlaying"
     THEN write' = SessionWrite /\ UNCHANGED <<pc, playing>>
     ELSE /\ write' = NoWrite
          /\ pc' = (IF pc = "loop" THEN "finish" ELSE "down")
          /\ playing' = FALSE

StoreKept == UNCHANGED <<queueVars, library, limit, current, position, now>>

(* `create_temporary': names that earlier lives left behind are skipped, as
   many as there are attempts. *)
CreateTemporary ==
  /\ write.file # "none" /\ write.step = "create"
  /\ write' = [write EXCEPT !.step = "fill", !.content = Partial]
  /\ UNCHANGED <<playing, synchronizer, pc, files, leftovers, synced, savedAt>>
  /\ StoreKept

CreateFails ==
  /\ write.file # "none" /\ write.step = "create"
  /\ leftovers >= CreateAttempts \/ "io" \in Faults
  /\ WriteFailed
  /\ UNCHANGED <<files, leftovers, savedAt>>
  /\ StoreKept

FillTemporary ==
  /\ write.file # "none" /\ write.step = "fill"
  /\ write' = [write EXCEPT !.step = "rename", !.content = write.data]
  /\ UNCHANGED <<playing, synchronizer, pc, files, leftovers, synced, savedAt>>
  /\ StoreKept

Rename ==
  /\ write.file # "none" /\ write.step = "rename"
  /\ files' = [files EXCEPT ![write.file] = write.content]
  /\ savedAt' = [savedAt EXCEPT ![write.file] = now]
  /\ Written
  /\ UNCHANGED <<playing, leftovers>>
  /\ StoreKept

(* A step that fails removes the temporary file again, if it can. *)
FillOrRenameFails ==
  /\ "io" \in Faults
  /\ write.file # "none" /\ write.step \in {"fill", "rename"}
  /\ leftovers' \in {leftovers, leftovers + 1}
  /\ leftovers' <= MaxLeftovers
  /\ WriteFailed
  /\ UNCHANGED <<files, savedAt>>
  /\ StoreKept

ClearSession ==
  /\ write.file # "none" /\ write.step = "clear"
  /\ files' = [files EXCEPT !.session = Nothing]
  /\ savedAt' = [savedAt EXCEPT ![write.file] = now]
  /\ Written
  /\ UNCHANGED <<playing, leftovers>>
  /\ StoreKept

ClearFails ==
  /\ "io" \in Faults
  /\ write.file # "none" /\ write.step = "clear"
  /\ WriteFailed
  /\ UNCHANGED <<files, leftovers, savedAt>>
  /\ StoreKept

-----------------------------------------------------------------------------
(* Lives. *)

(* `invalid_session_reason', for the limits of this life. *)
Acceptable(session, max) ==
  /\ session.entries # <<>>
  /\ Len(session.entries) <= max
  /\ session.current \in 1 .. Len(session.entries)

(* The saved entries as this library knows them. *)
Lookup(entries, lib) == [k \in DOMAIN entries |-> IF entries[k] \in lib THEN entries[k] ELSE Gone]

StartsEmpty ==
  /\ items' = <<>> /\ queuedAssets' = {}
  /\ selection' = 1 /\ queueGen' = 0 /\ nextItemId' = 1
  /\ current' = NoItem /\ position' = 0

(* Mutant: the position is taken up even when the current track is gone. *)
KeepsSavedPosition(session, found) ==
  \E pick \in InOrder(Restorable(found)) :
    /\ items' = [k \in DOMAIN pick |-> [id |-> k, entry |-> found[pick[k]]]]
    /\ selection' = AtLeast(RestoredCurrent(items', found, session.current), 1)
    /\ position' = session.position
    /\ queuedAssets' = {AssetOf[items'[k].entry] : k \in DOMAIN items'}
    /\ queueGen' = 1 /\ nextItemId' = Len(items') + 1
    /\ current' = items'[selection']

(* `AppState::restore_session' *)
Restores(session, found) ==
  \E pick \in InOrder(Restorable(found)) :
    /\ items' = [k \in DOMAIN pick |-> [id |-> k, entry |-> found[pick[k]]]]
    /\ queuedAssets' = {AssetOf[items'[k].entry] : k \in DOMAIN items'}
    /\ queueGen' = 1 /\ nextItemId' = Len(items') + 1
    /\ LET place == RestoredCurrent(items', found, session.current)
       IN  /\ selection' = AtLeast(place, 1)
           /\ position' = IF place # 0 THEN session.position ELSE 0
    /\ current' = items'[selection']

(* `run' up to its first sync: the saved session is read, and taken up if it is
   acceptable and the library has any of it. *)
Start ==
  /\ ~Up
  /\ library' \in Libraries /\ limit' \in Limits
  /\ LET session == files.session IN
     IF session = Nothing \/ ~Acceptable(session, limit')
     THEN StartsEmpty
     ELSE LET found == Lookup(session.entries, library') IN
          IF Restorable(found) = {} THEN StartsEmpty ELSE Restores(session, found)
  /\ playing' = FALSE
  /\ now' = 0
  /\ synchronizer' = NewSynchronizer
  /\ pc' = "first"
  /\ synced' = FALSE
  /\ savedAt' = [nowPlaying |-> NoTime, session |-> NoTime]
  /\ UNCHANGED <<shuffle, shuffleOrder, shuffleCursor, write, files, leftovers>>

(* The process dies, whatever it is doing; also what ends it between the first
   sync and the loop. *)
Crash ==
  /\ "crash" \in Faults
  /\ Up
  /\ pc' = "dead"
  /\ write' = NoWrite
  /\ leftovers' = IF write.file # "none" /\ write.step \in {"fill", "rename"}
                  THEN leftovers + 1 ELSE leftovers
  /\ leftovers' <= MaxLeftovers
  /\ UNCHANGED <<queueVars, sessionVars, synchronizer, files, synced, savedAt>>

(* The loop ends, on request or with an error: `finish_session'. *)
Quit ==
  /\ pc = "loop" /\ write = NoWrite
  /\ pc' = "finish"
  /\ playing' = FALSE
  /\ UNCHANGED <<queueVars, library, limit, current, position, now,
                 synchronizer, write, files, leftovers, synced, savedAt>>

-----------------------------------------------------------------------------
(* What happens in the loop between one sync and the next. *)

Happened ==
  /\ pc = "loop" /\ write = NoWrite
  /\ synced' = FALSE
  /\ UNCHANGED <<library, limit, storeVars, savedAt>>

EditQueue ==
  /\ \/ \E batch \in Batches :
          /\ ToSet(batch) \subseteq library
          /\ Len(items) + Len(batch) <= limit
          /\ AppendBatch(batch)
     \/ RemoveSelected
     \/ Clear
     \/ \E down \in BOOLEAN : MoveSelected(down)
     \/ \E row \in 1 .. MaxItems : MoveSelection(row)
  /\ UNCHANGED <<current, position, playing, now>>
  /\ Happened

(* Another track, or the same one again, is loaded or shown as stopped. *)
ChangeTrack ==
  /\ \E row \in DOMAIN items : current' = items[row]
  /\ position' = 0
  /\ playing' \in BOOLEAN
  /\ UNCHANGED <<queueVars, now>>
  /\ Happened

(* The track plays on, is sought in, paused or resumed. *)
Progress ==
  /\ current # NoItem
  /\ position' \in 0 .. MaxPosition
  /\ playing' \in BOOLEAN
  /\ UNCHANGED <<queueVars, current, now>>
  /\ Happened

Tick ==
  /\ now < MaxTime
  /\ now' = now + 1
  /\ UNCHANGED <<queueVars, current, position, playing>>
  /\ Happened

-----------------------------------------------------------------------------
Init ==
  /\ EmptyQueue
  /\ library \in Libraries /\ limit \in Limits
  /\ current = NoItem /\ position = 0 /\ playing = FALSE /\ now = 0
  /\ synchronizer = NewSynchronizer
  /\ pc = "down"
  /\ write = NoWrite
  /\ files = [nowPlaying |-> Nothing, session |-> Nothing]
  /\ leftovers = 0
  /\ synced = FALSE
  /\ savedAt = [nowPlaying |-> NoTime, session |-> NoTime]

WriteStep ==
  \/ CreateTemporary \/ CreateFails
  \/ FillTemporary \/ Rename \/ FillOrRenameFails
  \/ ClearSession \/ ClearFails

LoopStep == EditQueue \/ ChangeTrack \/ Progress \/ Tick

Next == Start \/ Sync \/ WriteStep \/ LoopStep \/ Quit \/ Crash

Spec == Init /\ [][Next]_vars

-----------------------------------------------------------------------------
(* Whenever the loop has synchronised, what a crash would resume is the queue
   and the current track of this very moment, in a file that the reader accepts:
   no edit escapes the identity that `sync' compares.  The saved position is the
   present one or younger than a heartbeat, and what desktop widgets read is
   exact but for a position that may be younger than its interval. *)
FilesRecent ==
  pc = "loop" /\ synced /\ write = NoWrite =>
    /\ IF items = <<>> THEN files.session = Nothing
       ELSE /\ Acceptable(files.session, MaxItems)
            /\ files.session.entries = QueueEntryIds
            /\ files.session.current = IdentityIndex
            /\ \/ files.session.position = SnapshotPosition
               \/ now - savedAt.session < HeartbeatInterval
    /\ files.nowPlaying.state = Projection.state
    /\ \/ files.nowPlaying.position = position
       \/ now - savedAt.nowPlaying < PositionInterval

(* A process that ends in order has at last tried to save the session as it
   was, the position included, even if the now-playing file could not be
   written. *)
QuitSaves ==
  [][ pc = "finish" /\ pc' = "down" =>
        /\ write.file = "session"
        /\ files'.session \in {SessionSnapshot, files.session} ]_vars

(* All of it implements Resume: the saved session only ever becomes the running
   one, in one step, and a start takes up what is left of it. *)
Abstract ==
  INSTANCE Resume WITH
    up <- Up,
    queue <- QueueEntryIds,
    place <- IF items = <<>> THEN 0 ELSE IdentityIndex,
    position <- SnapshotPosition,
    saved <- files.session

Resumes == Abstract!Spec

=============================================================================
