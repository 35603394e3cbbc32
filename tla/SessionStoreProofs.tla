-------------------------- MODULE SessionStoreProofs --------------------------
(***************************************************************************)
(* Theorems about SessionStore: for every library, every queue and every   *)
(* way in which writes fail and processes die, the files are recent        *)
(* whenever the loop has synchronised, an orderly end saves the session,   *)
(* and the whole implements Resume.                                        *)
(*                                                                         *)
(* `sync' decides by identities, not by what is in the file.  The first    *)
(* theorem therefore rests on what the synchronizer may conclude from the  *)
(* identity it remembers (Known): the file holds that session, and as long *)
(* as the queue has kept its generation, the queue of this moment.  The    *)
(* refinement rests on what is being written (Writing): the data of a      *)
(* write is the session of this very moment until the rename.              *)
(***************************************************************************)
EXTENDS SessionStore, QueueProofs

Phases == {"first", "loop", "finish", "down", "dead"}
Stored == [entries : Seq(Entries), current : Nat, position : Nat]
Identities == [generation : Nat, index : Nat, id : Nat]
Projections == [state : [playing : BOOLEAN, current : Item \cup {NoItem},
                         index : Nat, length : Nat],
                position : Nat]
Times == Nat \cup {NoTime}

Typed ==
  /\ library \in SUBSET Entries /\ limit \in 1 .. MaxItems
  /\ current \in Item \cup {NoItem} /\ position \in Nat
  /\ playing \in BOOLEAN /\ now \in Nat
  /\ synchronizer \in [nowPlaying : Projections \cup {Nothing}, nowPlayingAt : Times,
                       initialized : BOOLEAN, session : Identities \cup {Nothing},
                       sessionAt : Times]
  /\ pc \in Phases
  /\ files \in [nowPlaying : Projections \cup {Nothing}, session : Stored \cup {Nothing}]
  /\ leftovers \in Nat /\ synced \in BOOLEAN
  /\ savedAt \in [nowPlaying : Times, session : Times]

(* Shuffle is not saved, and it stays off. *)
Unshuffled == shuffle = FALSE

(* A session on disk is one that the reader accepts. *)
SavedOK == files.session # Nothing => Acceptable(files.session, MaxItems)

Replaces(file, data) ==
  [file : {file}, step : {"create", "fill", "rename"}, data : {data},
   content : {Nothing, Partial, data}]

WritesNowPlaying == write \in Replaces("nowPlaying", Projection)
WritesSession ==
  IF items = <<>> THEN write = [file |-> "session", step |-> "clear"]
  ELSE write \in Replaces("session", SessionSnapshot)

(* What is being written is what there is at this moment. *)
Writing ==
  write # NoWrite =>
    /\ pc \in {"first", "loop", "finish"}
    /\ WritesNowPlaying \/ WritesSession
    /\ write.step = "rename" => write.content = write.data

(* What the synchronizer may conclude from what it remembers. *)
NowPlayingKnown ==
  synchronizer.nowPlaying # Nothing =>
    /\ files.nowPlaying = synchronizer.nowPlaying
    /\ savedAt.nowPlaying = synchronizer.nowPlayingAt

SessionKnown ==
  synchronizer.initialized =>
    IF synchronizer.session = Nothing THEN files.session = Nothing
    ELSE /\ files.session # Nothing
         /\ files.session.current = synchronizer.session.index
         /\ savedAt.session = synchronizer.sessionAt
         /\ synchronizer.session.generation <= queueGen
         /\ synchronizer.session.generation = queueGen => files.session.entries = QueueEntryIds

Known == pc \in {"first", "loop"} => NowPlayingKnown /\ SessionKnown

(* The two halves of FilesRecent. *)
NowPlayingRecent ==
  /\ files.nowPlaying.state = Projection.state
  /\ \/ files.nowPlaying.position = position
     \/ now - savedAt.nowPlaying < PositionInterval

SessionRecent ==
  IF items = <<>> THEN files.session = Nothing
  ELSE /\ Acceptable(files.session, MaxItems)
       /\ files.session.entries = QueueEntryIds
       /\ files.session.current = IdentityIndex
       /\ \/ files.session.position = SnapshotPosition
          \/ now - savedAt.session < HeartbeatInterval

(* The session is written when the now-playing file is up to date. *)
Recent ==
  /\ pc = "loop" /\ synced => write = NoWrite /\ NowPlayingRecent /\ SessionRecent
  /\ pc \in {"first", "loop"} /\ write.file = "session" => NowPlayingRecent

StoreInv ==
  QueueInv /\ Typed /\ Unshuffled /\ SavedOK /\ Writing /\ Known /\ Recent

-----------------------------------------------------------------------------
(* What is saved. *)

(* The types of a session, and that it names a row of the queue. *)
LEMMA SnapshotFacts ==
  ASSUME StoreAssumption, QueueAssumption, QueueInv, Typed
  PROVE  /\ items = <<>> <=> Len(items) = 0
         /\ QueueEntryIds \in Seq(Entries) /\ Len(QueueEntryIds) = Len(items)
         /\ items = <<>> => SessionSnapshot = Nothing /\ SessionIdentity = Nothing
         /\ items # <<>> =>
              /\ SessionSnapshot \in Stored
              /\ SessionSnapshot =
                   [entries |-> QueueEntryIds, current |-> IdentityIndex,
                    position |-> SnapshotPosition]
              /\ Acceptable(SessionSnapshot, MaxItems)
              /\ SessionIdentity \in Identities
              /\ SessionIdentity.generation = queueGen
              /\ SessionIdentity.index = IdentityIndex
         /\ Projection \in Projections
         /\ Nothing \notin Stored /\ Nothing \notin Identities
<1>1. ItemsOK(items, queuedAssets, nextItemId)
  BY DEF QueueInv
<1>2. /\ Len(items) \in Nat /\ DOMAIN items = 1 .. Len(items) /\ items \in Seq(Item)
      /\ \A i \in 1 .. Len(items) : items[i].id \in Nat /\ items[i].entry \in Entries
  <2>1. items \in Seq(Item)
    BY <1>1 DEF ItemsOK
  <2> QED
    BY <1>1, <2>1, ItemsFacts
<1>3. items = <<>> <=> Len(items) = 0
  BY <1>2, EmptySeq
<1>4. QueueEntryIds \in Seq(Entries) /\ Len(QueueEntryIds) = Len(items)
  <2>1. QueueEntryIds \in [1 .. Len(items) -> Entries]
    BY <1>2 DEF QueueEntryIds
  <2> QED
    BY <1>2, <2>1
<1>5. CurrentQueueIndex \in 0 .. Len(items)
  BY <1>2, ItemPositionFacts DEF CurrentQueueIndex
<1>6. /\ position \in Nat /\ SnapshotPosition \in Nat /\ queueGen \in Nat
      /\ playing \in BOOLEAN /\ current \in Item \cup {NoItem}
  BY DEF Typed, SnapshotPosition, QueueInv
<1>7. items # <<>> => IdentityIndex \in 1 .. Len(items)
  <2>1. items # <<>> => selection \in 1 .. Len(items)
    BY <1>2, <1>3 DEF QueueInv, SelectionOK, AtLeast
  <2> QED
    BY <1>2, <1>5, <2>1 DEF IdentityIndex, OrPlace, AtMost
<1>8. Projection \in Projections
  <2>1. Len(items) \in Nat /\ CurrentQueueIndex \in Nat
    BY <1>2, <1>5
  <2> QED
    BY <1>6, <2>1 DEF Projection, Projections
<1>9. Nothing \notin Stored /\ Nothing \notin Identities
  BY DEF StoreAssumption, Stored, Identities
<1>10. items = <<>> => SessionSnapshot = Nothing /\ SessionIdentity = Nothing
  BY DEF SessionSnapshot, SessionIdentity
<1>11. ASSUME items # <<>>
       PROVE  /\ SessionSnapshot \in Stored
              /\ SessionSnapshot = [entries |-> QueueEntryIds, current |-> IdentityIndex,
                                    position |-> SnapshotPosition]
              /\ Acceptable(SessionSnapshot, MaxItems)
  <2>1. SessionSnapshot = [entries |-> QueueEntryIds, current |-> IdentityIndex,
                           position |-> SnapshotPosition]
    BY <1>11 DEF SessionSnapshot
  <2>2. SessionSnapshot \in Stored
    BY <1>2, <1>4, <1>6, <1>7, <1>11, <2>1 DEF Stored
  <2>3. QueueEntryIds # <<>>
    BY <1>3, <1>4, <1>11, EmptySeq
  <2>4. Len(items) <= MaxItems
    BY <1>1 DEF ItemsOK
  <2> QED
    BY <1>4, <1>7, <1>11, <2>1, <2>2, <2>3, <2>4 DEF Acceptable
<1>12. ASSUME items # <<>>
       PROVE  /\ SessionIdentity \in Identities
              /\ SessionIdentity.generation = queueGen
              /\ SessionIdentity.index = IdentityIndex
  <2>1. SessionIdentity = [generation |-> queueGen, index |-> IdentityIndex,
                           id |-> items[IdentityIndex].id]
    BY <1>12 DEF SessionIdentity
  <2> QED
    BY <1>2, <1>6, <1>7, <1>12, <2>1 DEF Identities
<1> QED
  BY <1>3, <1>4, <1>8, <1>9, <1>10, <1>11, <1>12

(* It is the same as long as the queue and the current track are. *)
LEMMA SameSession ==
  ASSUME UNCHANGED <<items, selection, queueGen, current, position>>
  PROVE  /\ QueueEntryIds' = QueueEntryIds
         /\ CurrentQueueIndex' = CurrentQueueIndex
         /\ IdentityIndex' = IdentityIndex
         /\ SnapshotPosition' = SnapshotPosition
         /\ SessionSnapshot' = SessionSnapshot
         /\ SessionIdentity' = SessionIdentity
         /\ playing' = playing => Projection' = Projection
BY DEF QueueEntryIds, CurrentQueueIndex, IdentityIndex, SnapshotPosition, SessionSnapshot,
       SessionIdentity, Projection

-----------------------------------------------------------------------------
(* What a sync may conclude. *)

LEMMA NotDueNowPlaying ==
  ASSUME StoreAssumption, Typed, NowPlayingKnown, ~NowPlayingDue
  PROVE  NowPlayingRecent
<1> DEFINE previous == synchronizer.nowPlaying
           at == synchronizer.nowPlayingAt
<1>1. /\ previous # Nothing /\ previous.state = Projection.state
      /\ Elapsed(at) >= PositionInterval => previous = Projection
      /\ ~(Elapsed(at) >= HeartbeatInterval)
  BY DEF NowPlayingDue
<1>2. files.nowPlaying = previous /\ savedAt.nowPlaying = at
  BY <1>1 DEF NowPlayingKnown
<1>3. at \in Nat \cup {NoTime} /\ now \in Nat
  BY DEF Typed, Times
<1>4. MaxTime \in Nat /\ HeartbeatInterval \in Nat /\ PositionInterval \in Nat
  BY DEF StoreAssumption
<1> HIDE DEF previous, at
<1>5. at # NoTime
  BY <1>1, <1>4 DEF Elapsed
<1>6. Elapsed(at) = now - at
  BY <1>5 DEF Elapsed
<1>7. previous = Projection \/ now - at < PositionInterval
  BY <1>1, <1>3, <1>4, <1>5, <1>6
<1>8. Projection.position = position
  BY DEF Projection
<1> QED
  BY <1>1, <1>2, <1>7, <1>8 DEF NowPlayingRecent

LEMMA NotDueSession ==
  ASSUME StoreAssumption, QueueAssumption, QueueInv, Typed, SavedOK, SessionKnown, ~SessionDue
  PROVE  SessionRecent
<1> DEFINE at == synchronizer.sessionAt
<1>1. /\ synchronizer.initialized /\ synchronizer.session = SessionIdentity
      /\ SessionIdentity # Nothing => ~(Elapsed(at) >= HeartbeatInterval)
  BY DEF SessionDue
<1>2. /\ items = <<>> => SessionIdentity = Nothing
      /\ items # <<>> => /\ SessionIdentity # Nothing
                         /\ SessionIdentity.generation = queueGen
                         /\ SessionIdentity.index = IdentityIndex
  BY SnapshotFacts
<1>3. CASE items = <<>>
  BY <1>1, <1>2, <1>3 DEF SessionKnown, SessionRecent
<1>4. CASE items # <<>>
  <2>1. /\ files.session # Nothing /\ files.session.current = IdentityIndex
        /\ savedAt.session = at
        /\ files.session.entries = QueueEntryIds
    BY <1>1, <1>2, <1>4 DEF SessionKnown
  <2>2. Acceptable(files.session, MaxItems)
    BY <2>1 DEF SavedOK
  <2>3. at \in Nat \cup {NoTime} /\ now \in Nat
    BY DEF Typed, Times
  <2>4. MaxTime \in Nat /\ HeartbeatInterval \in Nat
    BY DEF StoreAssumption
  <2>5. ~(Elapsed(at) >= HeartbeatInterval)
    BY <1>1, <1>2, <1>4
  <2> HIDE DEF at
  <2>6. now - at < HeartbeatInterval
    BY <2>3, <2>4, <2>5 DEF Elapsed, NoTime
  <2> QED
    BY <1>4, <2>1, <2>2, <2>6 DEF SessionRecent
<1> QED
  BY <1>3, <1>4

-----------------------------------------------------------------------------
(* Writes.  The queue and the current track stay what they are during one. *)

LEMMA SessionWriteFits ==
  ASSUME StoreAssumption, QueueAssumption, QueueInv, Typed
  PROVE  /\ SessionWrite.file = "session"
         /\ SessionWrite.step # "rename"
         /\ SessionWrite # NoWrite
         /\ IF items = <<>> THEN SessionWrite = [file |-> "session", step |-> "clear"]
            ELSE SessionWrite \in Replaces("session", SessionSnapshot)
<1>1. CASE items = <<>>
  <2>1. SessionWrite = [file |-> "session", step |-> "clear"]
    BY <1>1, SnapshotFacts DEF SessionWrite
  <2> QED
    BY <1>1, <2>1 DEF NoWrite
<1>2. CASE items # <<>>
  <2>1. SessionSnapshot # Nothing
    BY <1>2, SnapshotFacts
  <2>2. SessionWrite = [file |-> "session", step |-> "create", data |-> SessionSnapshot,
                        content |-> Nothing]
    BY <2>1 DEF SessionWrite, Replacing
  <2> QED
    BY <1>2, <2>2 DEF Replaces, NoWrite
<1> QED
  BY <1>1, <1>2

LEMMA NowPlayingWriteFits ==
  LET new == Replacing("nowPlaying", Projection)
  IN  /\ new.file = "nowPlaying" /\ new.step # "rename" /\ new # NoWrite
      /\ new \in Replaces("nowPlaying", Projection)
BY DEF Replacing, Replaces, NoWrite

(* The parts of a write that is under way. *)
LEMMA WriteFacts ==
  ASSUME StoreAssumption, QueueAssumption, QueueInv, Typed, Writing, write.file # "none"
  PROVE  /\ pc \in {"first", "loop", "finish"}
         /\ write.file \in {"nowPlaying", "session"}
         /\ write.file = "nowPlaying" => write \in Replaces("nowPlaying", Projection)
         /\ write.file = "session" => WritesSession
         /\ write.step = "rename" => write.content = write.data
         /\ write.step # "clear" => write \in Replaces(write.file, write.data)
         /\ write.step # "clear" /\ write.file = "nowPlaying" => write.data = Projection
         /\ write.step # "clear" /\ write.file = "session" =>
              items # <<>> /\ write.data = SessionSnapshot
         /\ write.step = "clear" => items = <<>> /\ write.file = "session"
<1>1. write # NoWrite
  BY DEF NoWrite
<1>2. /\ pc \in {"first", "loop", "finish"}
      /\ WritesNowPlaying \/ WritesSession
      /\ write.step = "rename" => write.content = write.data
  BY <1>1 DEF Writing
<1>3. CASE WritesNowPlaying
  BY <1>2, <1>3 DEF WritesNowPlaying, Replaces
<1>4. CASE WritesSession /\ items = <<>>
  <2>1. write = [file |-> "session", step |-> "clear"]
    BY <1>4 DEF WritesSession
  <2> QED
    BY <1>2, <1>4, <2>1
<1>5. CASE WritesSession /\ items # <<>>
  <2>1. write \in Replaces("session", SessionSnapshot)
    BY <1>5 DEF WritesSession
  <2> QED
    BY <1>2, <1>5, <2>1 DEF Replaces
<1> QED
  BY <1>2, <1>3, <1>4, <1>5

(* The invariant of the queue does not depend on the rest. *)
LEMMA QueueKept == ASSUME QueueInv, UNCHANGED queueVars PROVE QueueInv'
BY DEF QueueInv, queueVars

LEMMA QueueVars == ASSUME UNCHANGED queueVars PROVE UNCHANGED <<items, selection, queueGen, shuffle>>
BY DEF queueVars

(* What is known stays so while neither the files nor the queue change. *)
LEMMA KnownKept ==
  ASSUME Known, UNCHANGED <<queueVars, current, position, synchronizer, files, savedAt>>,
         pc' \in {"first", "loop"} => pc \in {"first", "loop"}
  PROVE  Known'
<1>1. UNCHANGED <<items, selection, queueGen, current, position>>
  BY QueueVars
<1>2. QueueEntryIds' = QueueEntryIds
  BY <1>1, SameSession
<1>3. SUFFICES ASSUME pc' \in {"first", "loop"} PROVE NowPlayingKnown' /\ SessionKnown'
  BY DEF Known
<1>4. NowPlayingKnown /\ SessionKnown
  BY <1>3 DEF Known
<1>5. NowPlayingKnown'
  BY <1>4 DEF NowPlayingKnown
<1>6. SessionKnown'
  BY <1>1, <1>2, <1>4 DEF SessionKnown
<1> QED
  BY <1>5, <1>6

(* A state of writing that follows from the present session. *)
LEMMA WritingSet ==
  ASSUME UNCHANGED <<items, selection, queueGen, current, position>>,
         pc' \in {"first", "loop", "finish"},
         \/ playing' = playing /\ write' \in Replaces("nowPlaying", Projection)
         \/ IF items = <<>> THEN write' = [file |-> "session", step |-> "clear"]
            ELSE write' \in Replaces("session", SessionSnapshot),
         write'.step = "rename" => write'.content = write'.data
  PROVE  Writing'
<1>1. SessionSnapshot' = SessionSnapshot /\ (playing' = playing => Projection' = Projection)
  BY SameSession
<1>2. CASE playing' = playing /\ write' \in Replaces("nowPlaying", Projection)
  BY <1>1, <1>2 DEF Writing, WritesNowPlaying, Replaces
<1>3. CASE IF items = <<>> THEN write' = [file |-> "session", step |-> "clear"]
           ELSE write' \in Replaces("session", SessionSnapshot)
  <2>1. WritesSession'
    BY <1>1, <1>3 DEF WritesSession, Replaces
  <2> QED
    BY <2>1 DEF Writing
<1> QED
  BY <1>2, <1>3

LEMMA RecentVacuous ==
  ASSUME pc' \notin {"first", "loop"} PROVE Recent'
BY DEF Recent

LEMMA NotWriting == ASSUME write' = NoWrite PROVE Writing' /\ write'.file = "none"
BY DEF Writing, NoWrite

LEMMA NowPlayingRecentKept ==
  ASSUME UNCHANGED <<items, selection, queueGen, current, position, playing, now>>,
         files'.nowPlaying = files.nowPlaying, savedAt'.nowPlaying = savedAt.nowPlaying,
         NowPlayingRecent
  PROVE  NowPlayingRecent'
<1>1. Projection' = Projection
  BY SameSession
<1> QED
  BY <1>1 DEF NowPlayingRecent

LEMMA SessionRecentKept ==
  ASSUME UNCHANGED <<items, selection, queueGen, current, position, now>>,
         files'.session = files.session, savedAt'.session = savedAt.session,
         SessionRecent
  PROVE  SessionRecent'
<1>1. /\ QueueEntryIds' = QueueEntryIds /\ IdentityIndex' = IdentityIndex
      /\ SnapshotPosition' = SnapshotPosition
  BY SameSession
<1>2. Acceptable(files.session, MaxItems) => Acceptable(files'.session, MaxItems)
  BY DEF Acceptable
<1> QED
  BY <1>1, <1>2 DEF SessionRecent

(* The second half of a sync writes the session, or has no reason to. *)
LEMMA SessionHalfKeeps ==
  ASSUME StoreAssumption, QueueAssumption, QueueInv, Typed, SavedOK, Known,
         pc \in {"first", "loop", "finish"}, pc = "loop" => ~synced,
         SessionHalf,
         UNCHANGED <<items, selection, queueGen, current, position, now>>,
         files'.session = files.session, savedAt'.session = savedAt.session,
         pc # "finish" => NowPlayingRecent'
  PROVE  /\ Writing' /\ Recent'
         /\ pc' \in {"first", "loop", "finish"}
         /\ pc' \in {"first", "loop"} => pc \in {"first", "loop"}
         /\ pc = "finish" => pc' = "finish"
         /\ synced' \in BOOLEAN
<1>1. CASE pc = "finish" \/ SessionDue
  <2>1. write' = SessionWrite /\ pc' = pc /\ synced' = synced
    BY <1>1 DEF SessionHalf
  <2>2. /\ write'.file = "session" /\ write'.step # "rename" /\ write' # NoWrite
        /\ IF items = <<>> THEN write' = [file |-> "session", step |-> "clear"]
           ELSE write' \in Replaces("session", SessionSnapshot)
    BY <2>1, SessionWriteFits
  <2>3. Writing'
    BY <2>1, <2>2, WritingSet
  <2>4. Recent'
    BY <2>1, <2>2 DEF Recent
  <2>5. synced' \in BOOLEAN
    BY <2>1 DEF Typed
  <2> QED
    BY <2>1, <2>3, <2>4, <2>5
<1>2. CASE ~(pc = "finish" \/ SessionDue)
  <2>1. pc \in {"first", "loop"} /\ ~SessionDue
    BY <1>2
  <2>2. SyncEnds
    BY <1>2 DEF SessionHalf
  <2>3. write' = NoWrite /\ pc' = "loop" /\ synced' = TRUE
    BY <2>1, <2>2 DEF SyncEnds
  <2>4. Writing' /\ write'.file = "none"
    BY <2>3, NotWriting
  <2>5. SessionRecent
    BY <2>1, NotDueSession DEF Known
  <2>6. SessionRecent' /\ NowPlayingRecent'
    BY <2>1, <2>5, SessionRecentKept
  <2>7. Recent'
    BY <2>3, <2>4, <2>6 DEF Recent
  <2> QED
    BY <2>1, <2>3, <2>4, <2>7
<1> QED
  BY <1>1, <1>2

LEMMA SyncKeeps ==
  ASSUME StoreAssumption, QueueAssumption, StoreInv, Sync
  PROVE  StoreInv'
<1>0. QueueInv /\ Typed /\ Unshuffled /\ SavedOK /\ Writing /\ Known /\ Recent
  BY DEF StoreInv
<1>1. /\ UNCHANGED <<queueVars, sessionVars, synchronizer, files, leftovers, savedAt>>
      /\ pc \in {"first", "loop", "finish"} /\ write = NoWrite /\ (pc = "loop" => ~synced)
  BY DEF Sync
<1>2. /\ UNCHANGED <<items, selection, queueGen, shuffle>>
      /\ UNCHANGED <<library, limit, current, position, playing, now>>
  BY <1>1, QueueVars DEF sessionVars
<1>3. /\ Writing' /\ Recent' /\ pc' \in Phases
      /\ pc' \in {"first", "loop"} => pc \in {"first", "loop"}
      /\ synced' \in BOOLEAN
  <2>1. CASE pc = "finish" \/ NowPlayingDue
    <3>1. write' = Replacing("nowPlaying", Projection) /\ pc' = pc /\ synced' = synced
      BY <2>1 DEF Sync
    <3>2. /\ write'.file = "nowPlaying" /\ write'.step # "rename"
          /\ write' \in Replaces("nowPlaying", Projection)
      BY <3>1, NowPlayingWriteFits
    <3>3. Writing'
      BY <1>1, <1>2, <3>1, <3>2, WritingSet
    <3>4. Recent'
      BY <1>1, <3>1, <3>2 DEF Recent
    <3>5. synced' \in BOOLEAN /\ pc' \in Phases
      BY <1>0, <3>1 DEF Typed
    <3> QED
      BY <3>1, <3>3, <3>4, <3>5
  <2>2. CASE ~(pc = "finish" \/ NowPlayingDue)
    <3>1. SessionHalf /\ pc \in {"first", "loop"} /\ ~NowPlayingDue
      BY <1>1, <2>2 DEF Sync
    <3>2. NowPlayingRecent
      BY <1>0, <3>1, NotDueNowPlaying DEF Known
    <3>3. NowPlayingRecent'
      BY <1>1, <1>2, <3>2, NowPlayingRecentKept
    <3> QED
      BY <1>0, <1>1, <1>2, <3>1, <3>3, SessionHalfKeeps DEF Phases
  <2> QED
    BY <2>1, <2>2
<1>4. QueueInv'
  BY <1>0, <1>1, QueueKept
<1>5. Typed'
  BY <1>0, <1>1, <1>2, <1>3 DEF Typed
<1>6. Unshuffled' /\ SavedOK'
  BY <1>0, <1>1, <1>2 DEF Unshuffled, SavedOK, Acceptable
<1>7. Known'
  BY <1>0, <1>1, <1>2, <1>3, KnownKept
<1> QED
  BY <1>3, <1>4, <1>5, <1>6, <1>7 DEF StoreInv

(* A write that goes on. *)
LEMMA WriteGoesOn ==
  ASSUME StoreAssumption, QueueAssumption, StoreInv, write.file # "none",
         write'.file = write.file, write'.step # "clear",
         write' \in Replaces(write.file, write.data), write.step # "clear",
         write'.step = "rename" => write'.content = write'.data,
         UNCHANGED <<playing, synchronizer, pc, files, leftovers, synced, savedAt>>,
         StoreKept
  PROVE  StoreInv'
<1>0. QueueInv /\ Typed /\ Unshuffled /\ SavedOK /\ Writing /\ Known /\ Recent
  BY DEF StoreInv
<1>1. UNCHANGED <<queueVars, library, limit, current, position, now>>
  BY DEF StoreKept
<1>2. UNCHANGED <<items, selection, queueGen, shuffle>>
  BY <1>1, QueueVars
<1>3. /\ pc \in {"first", "loop", "finish"}
      /\ \/ write.file = "nowPlaying" /\ write.data = Projection
         \/ write.file = "session" /\ items # <<>> /\ write.data = SessionSnapshot
  BY <1>0, WriteFacts
<1>4. \/ write' \in Replaces("nowPlaying", Projection)
      \/ items # <<>> /\ write' \in Replaces("session", SessionSnapshot)
  BY <1>3
<1>5. Writing'
  BY <1>1, <1>2, <1>3, <1>4, WritingSet
<1>6. Recent'
  <2>1. write # NoWrite
    BY DEF NoWrite
  <2>2. pc' \in {"first", "loop"} /\ write'.file = "session" => NowPlayingRecent'
    BY <1>0, <1>1, <1>2, NowPlayingRecentKept DEF Recent
  <2> QED
    BY <1>0, <2>1, <2>2 DEF Recent
<1>7. QueueInv'
  BY <1>0, <1>1, QueueKept
<1>8. Typed'
  BY <1>0, <1>1 DEF Typed
<1>9. Unshuffled' /\ SavedOK'
  BY <1>0, <1>2 DEF Unshuffled, SavedOK, Acceptable
<1>10. Known'
  BY <1>0, <1>1, KnownKept
<1> QED
  BY <1>5, <1>6, <1>7, <1>8, <1>9, <1>10 DEF StoreInv

LEMMA CreateTemporaryKeeps ==
  ASSUME StoreAssumption, QueueAssumption, StoreInv, CreateTemporary
  PROVE  StoreInv'
<1>1. write.file # "none" /\ write.step = "create"
  BY DEF CreateTemporary
<1>2. write \in Replaces(write.file, write.data)
  BY <1>1, WriteFacts DEF StoreInv
<1>3. write' = [write EXCEPT !.step = "fill", !.content = Partial]
  BY DEF CreateTemporary
<1>4. /\ write'.file = write.file /\ write'.step = "fill"
      /\ write' \in Replaces(write.file, write.data)
  BY <1>2, <1>3 DEF Replaces
<1> QED
  BY <1>1, <1>4, WriteGoesOn DEF CreateTemporary

LEMMA FillTemporaryKeeps ==
  ASSUME StoreAssumption, QueueAssumption, StoreInv, FillTemporary
  PROVE  StoreInv'
<1>1. write.file # "none" /\ write.step = "fill"
  BY DEF FillTemporary
<1>2. write \in Replaces(write.file, write.data)
  BY <1>1, WriteFacts DEF StoreInv
<1>3. write' = [write EXCEPT !.step = "rename", !.content = write.data]
  BY DEF FillTemporary
<1>4. /\ write'.file = write.file /\ write'.step = "rename"
      /\ write'.content = write'.data
      /\ write' \in Replaces(write.file, write.data)
  BY <1>2, <1>3 DEF Replaces
<1> QED
  BY <1>1, <1>4, WriteGoesOn DEF FillTemporary

(* A write that fails: the loop ends, or the process, or `force' goes on. *)
LEMMA FailureKeeps ==
  ASSUME StoreAssumption, QueueAssumption, StoreInv, write.file # "none",
         WriteFailed, leftovers' \in Nat, UNCHANGED <<files, savedAt>>, StoreKept
  PROVE  StoreInv'
<1>0. QueueInv /\ Typed /\ Unshuffled /\ SavedOK /\ Writing /\ Known /\ Recent
  BY DEF StoreInv
<1>1. UNCHANGED <<queueVars, library, limit, current, position, now, synchronizer, synced>>
  BY DEF StoreKept, WriteFailed
<1>2. UNCHANGED <<items, selection, queueGen, shuffle>>
  BY <1>1, QueueVars
<1>3. pc \in {"first", "loop", "finish"}
  BY <1>0, WriteFacts
<1>4. Writing' /\ pc' \in {"finish", "down"} /\ playing' \in BOOLEAN
  <2>1. CASE pc = "finish" /\ write.file = "nowPlaying"
    <3>1. write' = SessionWrite /\ pc' = pc /\ playing' = playing
      BY <2>1 DEF WriteFailed
    <3>2. /\ write'.step # "rename"
          /\ IF items = <<>> THEN write' = [file |-> "session", step |-> "clear"]
             ELSE write' \in Replaces("session", SessionSnapshot)
      BY <1>0, <3>1, SessionWriteFits
    <3>3. Writing'
      BY <1>1, <1>2, <2>1, <3>1, <3>2, WritingSet
    <3> QED
      BY <1>0, <2>1, <3>1, <3>3 DEF Typed
  <2>2. CASE ~(pc = "finish" /\ write.file = "nowPlaying")
    <3>1. write' = NoWrite /\ pc' \in {"finish", "down"} /\ playing' = FALSE
      BY <2>2 DEF WriteFailed
    <3> QED
      BY <3>1, NotWriting
  <2> QED
    BY <2>1, <2>2
<1>5. Recent' /\ Known'
  BY <1>4, RecentVacuous DEF Known
<1>6. QueueInv'
  BY <1>0, <1>1, QueueKept
<1>7. Typed'
  BY <1>0, <1>1, <1>4 DEF Typed, Phases
<1>8. Unshuffled' /\ SavedOK'
  BY <1>0, <1>2 DEF Unshuffled, SavedOK, Acceptable
<1> QED
  BY <1>4, <1>5, <1>6, <1>7, <1>8 DEF StoreInv

LEMMA FailuresKeep ==
  ASSUME StoreAssumption, QueueAssumption, StoreInv, CreateFails \/ FillOrRenameFails \/ ClearFails
  PROVE  StoreInv'
<1>1. leftovers \in Nat
  BY DEF StoreInv, Typed
<1>2. CASE CreateFails
  BY <1>1, <1>2, FailureKeeps DEF CreateFails
<1>3. CASE FillOrRenameFails
  <2>1. leftovers' \in Nat
    BY <1>1, <1>3 DEF FillOrRenameFails
  <2> QED
    BY <1>3, <2>1, FailureKeeps DEF FillOrRenameFails
<1>4. CASE ClearFails
  BY <1>1, <1>4, FailureKeeps DEF ClearFails
<1> QED
  BY <1>2, <1>3, <1>4

(* The now-playing file is replaced, and the sync goes on to the session. *)
LEMMA NowPlayingReplaced ==
  ASSUME StoreAssumption, QueueAssumption, StoreInv, Rename, write.file = "nowPlaying"
  PROVE  StoreInv'
<1>0. QueueInv /\ Typed /\ Unshuffled /\ SavedOK /\ Writing /\ Known /\ Recent
  BY DEF StoreInv
<1>1. /\ UNCHANGED <<queueVars, library, limit, current, position, now, playing, leftovers>>
      /\ write.step = "rename"
      /\ files' = [files EXCEPT ![write.file] = write.content]
      /\ savedAt' = [savedAt EXCEPT ![write.file] = now]
      /\ synchronizer' = Remembered /\ SessionHalf
  BY DEF Rename, Written, StoreKept
<1>2. UNCHANGED <<items, selection, queueGen, shuffle>>
  BY <1>1, QueueVars
<1>3. /\ pc \in {"first", "loop", "finish"} /\ write.content = Projection
  <2>1. write.file # "none" /\ write.step # "clear"
    BY <1>1
  <2> QED
    BY <1>0, <1>1, <2>1, WriteFacts
<1>4. pc = "loop" => ~synced
  <2>1. write # NoWrite
    BY DEF NoWrite
  <2> QED
    BY <1>0, <2>1 DEF Recent
<1>5. Projection \in Projections /\ Projection' = Projection /\ Projection.position = position
  BY <1>0, <1>1, <1>2, SnapshotFacts, SameSession DEF Projection
<1>6. /\ files'.nowPlaying = Projection /\ files'.session = files.session
      /\ savedAt'.nowPlaying = now /\ savedAt'.session = savedAt.session
      /\ files' \in [nowPlaying : Projections \cup {Nothing}, session : Stored \cup {Nothing}]
      /\ savedAt' \in [nowPlaying : Times, session : Times]
  <2>1. files' = [files EXCEPT !.nowPlaying = Projection]
    BY <1>1, <1>3
  <2>2. savedAt' = [savedAt EXCEPT !.nowPlaying = now]
    BY <1>1
  <2>3. now \in Times
    BY <1>0 DEF Typed, Times
  <2> QED
    BY <1>0, <1>5, <2>1, <2>2, <2>3 DEF Typed
<1>7. synchronizer' = [synchronizer EXCEPT
                         !.nowPlaying = Projection,
                         !.nowPlayingAt = IF pc = "finish" THEN @ ELSE now]
  BY <1>1 DEF Remembered
<1>8. NowPlayingRecent'
  BY <1>1, <1>5, <1>6 DEF NowPlayingRecent
<1>9. /\ Writing' /\ Recent' /\ pc' \in {"first", "loop", "finish"}
      /\ pc' \in {"first", "loop"} => pc \in {"first", "loop"}
      /\ synced' \in BOOLEAN
  BY <1>0, <1>1, <1>2, <1>3, <1>4, <1>6, <1>8, SessionHalfKeeps
<1>10. QueueInv'
  BY <1>0, <1>1, QueueKept
<1>11. /\ synchronizer' \in [nowPlaying : Projections \cup {Nothing}, nowPlayingAt : Times,
                             initialized : BOOLEAN, session : Identities \cup {Nothing},
                             sessionAt : Times]
       /\ synchronizer'.nowPlaying = Projection
       /\ pc # "finish" => synchronizer'.nowPlayingAt = now
       /\ synchronizer'.initialized = synchronizer.initialized
       /\ synchronizer'.session = synchronizer.session
       /\ synchronizer'.sessionAt = synchronizer.sessionAt
  <2>1. now \in Times
    BY <1>0 DEF Typed, Times
  <2> QED
    BY <1>0, <1>5, <1>7, <2>1 DEF Typed
<1>12. Typed'
  BY <1>0, <1>1, <1>6, <1>9, <1>11 DEF Typed, Phases
<1>13. Unshuffled' /\ SavedOK'
  BY <1>0, <1>2, <1>6 DEF Unshuffled, SavedOK, Acceptable
<1>14. Known'
  <2> SUFFICES ASSUME pc' \in {"first", "loop"} PROVE NowPlayingKnown' /\ SessionKnown'
    BY DEF Known
  <2>1. SessionKnown /\ pc # "finish"
    BY <1>0, <1>9 DEF Known
  <2>2. NowPlayingKnown'
    BY <1>6, <1>11, <2>1 DEF NowPlayingKnown
  <2>3. QueueEntryIds' = QueueEntryIds
    BY <1>1, <1>2, SameSession
  <2>4. SessionKnown'
    BY <1>2, <1>6, <1>11, <2>1, <2>3 DEF SessionKnown
  <2> QED
    BY <2>2, <2>4
<1> QED
  BY <1>9, <1>10, <1>12, <1>13, <1>14 DEF StoreInv

(* What the steps that replace the session file do. *)
LEMMA SessionStep ==
  ASSUME StoreAssumption, QueueAssumption, StoreInv,
         (Rename /\ write.file = "session") \/ ClearSession
  PROVE  /\ write.file = "session"
         /\ pc \in {"first", "loop", "finish"}
         /\ UNCHANGED <<queueVars, library, limit, current, position, now, playing, leftovers>>
         /\ files' = [files EXCEPT !.session = SessionSnapshot]
         /\ files'.session = SessionSnapshot
         /\ savedAt' = [savedAt EXCEPT !.session = now]
         /\ synchronizer' = Remembered
         /\ SyncEnds
<1>0. QueueInv /\ Typed /\ Writing
  BY DEF StoreInv
<1>1. CASE Rename /\ write.file = "session"
  <2>1. write.file # "none" /\ write.step # "clear" /\ write.step = "rename"
    BY <1>1 DEF Rename
  <2>2. pc \in {"first", "loop", "finish"} /\ write.content = SessionSnapshot
    BY <1>0, <1>1, <2>1, WriteFacts
  <2>3. files' = [files EXCEPT !.session = SessionSnapshot]
    BY <1>1, <2>2 DEF Rename
  <2>4. files'.session = SessionSnapshot
    BY <1>0, <2>3 DEF Typed
  <2> QED
    BY <1>1, <2>2, <2>3, <2>4 DEF Rename, Written, StoreKept
<1>2. CASE ClearSession
  <2>1. write.file # "none" /\ write.step = "clear"
    BY <1>2 DEF ClearSession
  <2>2. pc \in {"first", "loop", "finish"} /\ items = <<>> /\ write.file = "session"
    BY <1>0, <2>1, WriteFacts
  <2>3. SessionSnapshot = Nothing
    BY <1>0, <2>2, SnapshotFacts
  <2>4. files' = [files EXCEPT !.session = SessionSnapshot]
    BY <1>2, <2>3 DEF ClearSession
  <2>5. files'.session = SessionSnapshot
    BY <1>0, <2>4 DEF Typed
  <2> QED
    BY <1>2, <2>2, <2>4, <2>5 DEF ClearSession, Written, StoreKept
<1> QED
  BY <1>1, <1>2

(* The session file is replaced or removed, and the sync is over. *)
LEMMA SessionReplaced ==
  ASSUME StoreAssumption, QueueAssumption, StoreInv,
         (Rename /\ write.file = "session") \/ ClearSession
  PROVE  StoreInv'
<1>0. QueueInv /\ Typed /\ Unshuffled /\ SavedOK /\ Writing /\ Known /\ Recent
  BY DEF StoreInv
<1>1. /\ UNCHANGED <<queueVars, library, limit, current, position, now, playing, leftovers>>
      /\ write.file = "session" /\ pc \in {"first", "loop", "finish"}
      /\ files' = [files EXCEPT !.session = SessionSnapshot]
      /\ savedAt' = [savedAt EXCEPT !.session = now]
      /\ synchronizer' = Remembered /\ SyncEnds
  BY SessionStep
<1>2. UNCHANGED <<items, selection, queueGen, shuffle>>
  BY <1>1, QueueVars
<1>3. /\ write' = NoWrite /\ synced' = TRUE
      /\ pc' = IF pc = "finish" THEN "down" ELSE "loop"
  BY <1>1 DEF SyncEnds
<1>4. /\ items = <<>> => SessionSnapshot = Nothing /\ SessionIdentity = Nothing
      /\ items # <<>> =>
           /\ SessionSnapshot \in Stored /\ SessionSnapshot # Nothing
           /\ SessionSnapshot.entries = QueueEntryIds
           /\ SessionSnapshot.current = IdentityIndex
           /\ SessionSnapshot.position = SnapshotPosition
           /\ Acceptable(SessionSnapshot, MaxItems)
           /\ SessionIdentity \in Identities /\ SessionIdentity # Nothing
           /\ SessionIdentity.generation = queueGen
           /\ SessionIdentity.index = IdentityIndex
  BY <1>0, SnapshotFacts
<1>5. /\ files'.session = SessionSnapshot /\ files'.nowPlaying = files.nowPlaying
      /\ savedAt'.session = now /\ savedAt'.nowPlaying = savedAt.nowPlaying
      /\ files' \in [nowPlaying : Projections \cup {Nothing}, session : Stored \cup {Nothing}]
      /\ savedAt' \in [nowPlaying : Times, session : Times]
  <2>1. now \in Times /\ SessionSnapshot \in Stored \cup {Nothing}
    BY <1>0, <1>4 DEF Typed, Times
  <2> QED
    BY <1>0, <1>1, <2>1 DEF Typed
<1>6. /\ synchronizer' \in [nowPlaying : Projections \cup {Nothing}, nowPlayingAt : Times,
                            initialized : BOOLEAN, session : Identities \cup {Nothing},
                            sessionAt : Times]
      /\ synchronizer'.nowPlaying = synchronizer.nowPlaying
      /\ synchronizer'.nowPlayingAt = synchronizer.nowPlayingAt
      /\ pc # "finish" =>
           /\ synchronizer'.session = SessionIdentity
           /\ SessionIdentity # Nothing => synchronizer'.sessionAt = now
  <2>1. CASE pc = "finish"
    <3>1. synchronizer' = synchronizer
      BY <1>1, <2>1 DEF Remembered
    <3> QED
      BY <1>0, <2>1, <3>1 DEF Typed
  <2>2. CASE pc # "finish"
    <3>1. synchronizer' = [synchronizer EXCEPT
                             !.initialized = TRUE, !.session = SessionIdentity,
                             !.sessionAt = IF SessionIdentity = Nothing THEN NoTime ELSE now]
      BY <1>1, <2>2 DEF Remembered
    <3>2. /\ SessionIdentity \in Identities \cup {Nothing}
          /\ now \in Times /\ NoTime \in Times
      BY <1>0, <1>4 DEF Typed, Times
    <3> QED
      BY <1>0, <2>2, <3>1, <3>2 DEF Typed
  <2> QED
    BY <2>1, <2>2
<1>7. QueueInv'
  BY <1>0, <1>1, QueueKept
<1>8. Typed'
  BY <1>0, <1>1, <1>3, <1>5, <1>6 DEF Typed, Phases
<1>9. Unshuffled' /\ SavedOK'
  BY <1>0, <1>2, <1>4, <1>5 DEF Unshuffled, SavedOK, Acceptable
<1>10. Writing' /\ write'.file = "none"
  BY <1>3, NotWriting
<1>11. QueueEntryIds' = QueueEntryIds /\ IdentityIndex' = IdentityIndex
       /\ SnapshotPosition' = SnapshotPosition
  BY <1>1, <1>2, SameSession
<1>12. ASSUME pc' \in {"first", "loop"}
       PROVE  NowPlayingKnown' /\ SessionKnown' /\ NowPlayingRecent' /\ SessionRecent'
  <2>1. pc \in {"first", "loop"} /\ pc # "finish"
    BY <1>1, <1>3, <1>12
  <2>2. NowPlayingKnown'
    BY <1>0, <1>5, <1>6, <2>1 DEF Known, NowPlayingKnown
  <2>3. queueGen \in Nat
    BY <1>0 DEF QueueInv
  <2>4. SessionKnown'
    BY <1>2, <1>4, <1>5, <1>6, <1>11, <2>1, <2>3 DEF SessionKnown
  <2>5. NowPlayingRecent
    BY <1>0, <1>1, <2>1 DEF Recent
  <2>6. NowPlayingRecent'
    BY <1>1, <1>2, <1>5, <2>5, NowPlayingRecentKept
  <2>7. items # <<>> => Acceptable(files'.session, MaxItems)
    BY <1>4, <1>5
  <2>8. SessionRecent'
    BY <1>2, <1>4, <1>5, <1>11, <2>7 DEF SessionRecent, Acceptable
  <2> QED
    BY <2>2, <2>4, <2>6, <2>8
<1>13. Known' /\ Recent'
  BY <1>3, <1>10, <1>12 DEF Known, Recent
<1> QED
  BY <1>7, <1>8, <1>9, <1>10, <1>13 DEF StoreInv

LEMMA RenameKeeps ==
  ASSUME StoreAssumption, QueueAssumption, StoreInv, Rename
  PROVE  StoreInv'
<1>1. write.file \in {"nowPlaying", "session"}
  <2>1. write.file # "none"
    BY DEF Rename
  <2> QED
    BY <2>1, WriteFacts DEF StoreInv
<1> QED
  BY <1>1, NowPlayingReplaced, SessionReplaced

-----------------------------------------------------------------------------
(* The loop, and its end. *)

(* A queue edit gives the queue a new generation, unless it only moves the
   selection. *)
LEMMA EditQueueKeeps ==
  ASSUME StoreAssumption, QueueAssumption, QueueInv, EditQueue
  PROVE  /\ QueueInv' /\ shuffle' = shuffle
         /\ (items' = items /\ queueGen' = queueGen) \/ queueGen' = queueGen + 1
<1>1. ASSUME NEW batch \in Batches, AppendBatch(batch)
      PROVE  QueueInv' /\ shuffle' = shuffle /\ queueGen' = queueGen + 1
  BY <1>1, AppendBatchInv DEF AppendBatch, AppendItems
<1>2. ASSUME RemoveSelected PROVE QueueInv' /\ shuffle' = shuffle /\ queueGen' = queueGen + 1
  BY <1>2, RemoveSelectedInv DEF RemoveSelected
<1>3. ASSUME Clear PROVE QueueInv' /\ shuffle' = shuffle /\ queueGen' = queueGen + 1
  BY <1>3, ClearInv DEF Clear
<1>4. ASSUME NEW down \in BOOLEAN, MoveSelected(down)
      PROVE  QueueInv' /\ shuffle' = shuffle /\ queueGen' = queueGen + 1
  BY <1>4, MoveSelectedInv DEF MoveSelected
<1>5. ASSUME NEW row, MoveSelection(row)
      PROVE  QueueInv' /\ shuffle' = shuffle /\ items' = items /\ queueGen' = queueGen
  BY <1>5, MoveSelectionInv DEF MoveSelection
<1> QED
  BY <1>1, <1>2, <1>3, <1>4, <1>5 DEF EditQueue

LEMMA LoopStepKeeps ==
  ASSUME StoreAssumption, QueueAssumption, StoreInv, LoopStep
  PROVE  StoreInv'
<1>0. QueueInv /\ Typed /\ Unshuffled /\ SavedOK /\ Writing /\ Known /\ Recent
  BY DEF StoreInv
<1>1. Happened
  BY DEF LoopStep, EditQueue, ChangeTrack, Progress, Tick
<1>2. /\ pc = "loop" /\ write = NoWrite /\ synced' = FALSE
      /\ UNCHANGED <<library, limit, synchronizer, pc, write, files, leftovers, savedAt>>
  BY <1>1 DEF Happened, storeVars
<1>3. QueueInv' /\ shuffle' = shuffle /\ ((items' = items /\ queueGen' = queueGen) \/ queueGen' = queueGen + 1)
  <2>1. CASE EditQueue
    BY <1>0, <2>1, EditQueueKeeps
  <2>2. CASE ChangeTrack \/ Progress \/ Tick
    <3>1. UNCHANGED queueVars
      BY <2>2 DEF ChangeTrack, Progress, Tick
    <3> QED
      BY <1>0, <3>1, QueueKept, QueueVars
  <2> QED
    BY <2>1, <2>2 DEF LoopStep
<1>4. /\ current' \in Item \cup {NoItem} /\ position' \in Nat
      /\ playing' \in BOOLEAN /\ now' \in Nat
  <2>1. /\ current \in Item \cup {NoItem} /\ position \in Nat /\ playing \in BOOLEAN /\ now \in Nat
    BY <1>0 DEF Typed
  <2>2. CASE EditQueue
    BY <2>1, <2>2 DEF EditQueue
  <2>3. CASE ChangeTrack
    <3>1. \A row \in DOMAIN items : items[row] \in Item
      BY <1>0, ItemsFacts DEF QueueInv
    <3> QED
      BY <2>1, <2>3, <3>1 DEF ChangeTrack
  <2>4. CASE Progress
    <3>1. MaxPosition \in Nat
      BY DEF StoreAssumption
    <3> QED
      BY <2>1, <2>4, <3>1 DEF Progress
  <2>5. CASE Tick
    BY <2>1, <2>5 DEF Tick
  <2> QED
    BY <2>2, <2>3, <2>4, <2>5 DEF LoopStep
<1>5. Typed'
  BY <1>0, <1>2, <1>4 DEF Typed
<1>6. Unshuffled' /\ SavedOK'
  BY <1>0, <1>2, <1>3 DEF Unshuffled, SavedOK, Acceptable
<1>7. Writing' /\ write'.file = "none"
  BY <1>2, NotWriting
<1>8. Recent'
  BY <1>2, <1>7 DEF Recent
<1>9. NowPlayingKnown'
  BY <1>0, <1>2 DEF Known, NowPlayingKnown
<1>10. SessionKnown'
  <2>1. SessionKnown
    BY <1>0, <1>2 DEF Known
  <2>2. CASE items' = items /\ queueGen' = queueGen
    <3>1. QueueEntryIds' = QueueEntryIds
      BY <2>2 DEF QueueEntryIds
    <3> QED
      BY <1>2, <2>1, <2>2, <3>1 DEF SessionKnown
  <2>3. CASE queueGen' = queueGen + 1
    <3>1. queueGen \in Nat
      BY <1>0 DEF QueueInv
    <3>2. synchronizer.session # Nothing => synchronizer.session.generation \in Nat
      BY <1>0 DEF Typed, Identities
    <3> QED
      BY <1>2, <2>1, <2>3, <3>1, <3>2 DEF SessionKnown
  <2> QED
    BY <1>3, <2>2, <2>3
<1>11. Known'
  BY <1>9, <1>10 DEF Known
<1> QED
  BY <1>3, <1>5, <1>6, <1>7, <1>8, <1>11 DEF StoreInv

LEMMA QuitKeeps ==
  ASSUME StoreAssumption, QueueAssumption, StoreInv, Quit
  PROVE  StoreInv'
<1>0. QueueInv /\ Typed /\ Unshuffled /\ SavedOK /\ Writing /\ Known /\ Recent
  BY DEF StoreInv
<1>1. /\ UNCHANGED <<queueVars, library, limit, current, position, now,
                     synchronizer, files, leftovers, synced, savedAt>>
      /\ write' = NoWrite /\ pc' = "finish" /\ playing' = FALSE
  BY DEF Quit
<1>2. UNCHANGED <<items, selection, queueGen, shuffle>>
  BY <1>1, QueueVars
<1>3. Writing'
  BY <1>1, NotWriting
<1>4. Recent' /\ Known'
  BY <1>1, RecentVacuous DEF Known
<1>5. QueueInv'
  BY <1>0, <1>1, QueueKept
<1>6. Typed'
  BY <1>0, <1>1 DEF Typed, Phases
<1>7. Unshuffled' /\ SavedOK'
  BY <1>0, <1>1, <1>2 DEF Unshuffled, SavedOK, Acceptable
<1> QED
  BY <1>3, <1>4, <1>5, <1>6, <1>7 DEF StoreInv

LEMMA CrashKeeps ==
  ASSUME StoreAssumption, QueueAssumption, StoreInv, Crash
  PROVE  StoreInv'
<1>0. QueueInv /\ Typed /\ Unshuffled /\ SavedOK /\ Writing /\ Known /\ Recent
  BY DEF StoreInv
<1>1. /\ UNCHANGED <<queueVars, library, limit, current, position, playing, now,
                     synchronizer, files, synced, savedAt>>
      /\ write' = NoWrite /\ pc' = "dead"
  BY DEF Crash, sessionVars
<1>2. UNCHANGED <<items, selection, queueGen, shuffle>>
  BY <1>1, QueueVars
<1>3. leftovers' \in Nat
  BY <1>0 DEF Crash, Typed
<1>4. Writing'
  BY <1>1, NotWriting
<1>5. Recent' /\ Known'
  BY <1>1, RecentVacuous DEF Known
<1>6. QueueInv'
  BY <1>0, <1>1, QueueKept
<1>7. Typed'
  BY <1>0, <1>1, <1>3 DEF Typed, Phases
<1>8. Unshuffled' /\ SavedOK'
  BY <1>0, <1>1, <1>2 DEF Unshuffled, SavedOK, Acceptable
<1> QED
  BY <1>4, <1>5, <1>6, <1>7, <1>8 DEF StoreInv

LEMMA InitKeeps ==
  ASSUME StoreAssumption, QueueAssumption, Init
  PROVE  StoreInv
<1>1. QueueInv
  BY EmptyQueueInv DEF Init
<1>2. Typed
  <2>1. library \in SUBSET Entries /\ limit \in 1 .. MaxItems
    BY DEF Init, StoreAssumption
  <2>2. synchronizer \in [nowPlaying : Projections \cup {Nothing}, nowPlayingAt : Times,
                          initialized : BOOLEAN, session : Identities \cup {Nothing},
                          sessionAt : Times]
    BY DEF Init, NewSynchronizer, Times
  <2>3. /\ files \in [nowPlaying : Projections \cup {Nothing}, session : Stored \cup {Nothing}]
        /\ savedAt \in [nowPlaying : Times, session : Times]
    BY DEF Init, Times
  <2> QED
    BY <2>1, <2>2, <2>3 DEF Init, Typed, Phases
<1>3. Unshuffled /\ SavedOK
  BY DEF Init, EmptyQueue, Unshuffled, SavedOK
<1>4. Writing /\ Known /\ Recent
  BY DEF Init, Writing, Known, Recent
<1> QED
  BY <1>1, <1>2, <1>3, <1>4 DEF StoreInv

-----------------------------------------------------------------------------
(* A start. *)

LEMMA LookupFacts ==
  ASSUME QueueAssumption, NEW entries \in Seq(Entries), NEW lib \in SUBSET Entries
  PROVE  LET found == Lookup(entries, lib)
         IN  /\ found \in Seq(Entries \cup {Gone})
             /\ Len(found) = Len(entries)
             /\ \A k \in 1 .. Len(entries) :
                  /\ entries[k] \in lib => found[k] = entries[k] /\ found[k] # Gone
                  /\ entries[k] \notin lib => found[k] = Gone
<1> DEFINE found == Lookup(entries, lib)
           n == Len(entries)
<1>1. n \in Nat /\ DOMAIN entries = 1 .. n /\ \A k \in 1 .. n : entries[k] \in Entries
  BY LenProperties, ElementOfSeq
<1>2. found = [k \in 1 .. n |-> IF entries[k] \in lib THEN entries[k] ELSE Gone]
  BY <1>1 DEF Lookup
<1>3. \A k \in 1 .. n : found[k] = IF entries[k] \in lib THEN entries[k] ELSE Gone
  BY <1>2
<1>4. found \in [1 .. n -> Entries \cup {Gone}]
  BY <1>1, <1>2
<1> HIDE DEF found, n
<1>5. found \in Seq(Entries \cup {Gone}) /\ Len(found) = n
  BY <1>1, <1>4
<1>6. Gone \notin Entries
  BY DEF QueueAssumption
<1> QED
  BY <1>1, <1>3, <1>5, <1>6 DEF found, n

(* An empty queue is what is left of a session of which nothing is left. *)
LEMMA StartsEmptyFacts ==
  ASSUME QueueAssumption, StartsEmpty
  PROVE  /\ ItemsOK(items', queuedAssets', nextItemId')
         /\ SelectionOK(items', selection') /\ queueGen' \in 0 .. MaxQueueGen
         /\ current' \in Item \cup {NoItem} /\ position' \in Nat
         /\ QueueEntryIds' = <<>>
<1>1. items' \in Seq(Item) /\ Len(items') = 0
  BY EmptySeq DEF StartsEmpty
<1>2. ItemsOK(items', queuedAssets', nextItemId')
  BY <1>1 DEF ItemsOK, StartsEmpty, QueueAssumption
<1>3. SelectionOK(items', selection')
  BY <1>1 DEF SelectionOK, StartsEmpty, AtLeast
<1>4. queueGen' \in 0 .. MaxQueueGen
  BY DEF StartsEmpty, QueueAssumption
<1>5. QueueEntryIds' = <<>>
  <2>1. QueueEntryIds' \in [1 .. 0 -> Entries]
    BY <1>1 DEF QueueEntryIds
  <2>2. QueueEntryIds' \in Seq(Entries) /\ Len(QueueEntryIds') = 0
    BY <2>1
  <2> QED
    BY <2>2, EmptySeq
<1> QED
  BY <1>2, <1>3, <1>4, <1>5 DEF StartsEmpty

(* `restore_session' fills the queue with what is left, in its saved order and
   once for each file, and makes the saved track current when it is left. *)
LEMMA RestoresFacts ==
  ASSUME StoreAssumption, QueueAssumption,
         NEW was \in Stored, NEW lib \in SUBSET Entries, NEW found,
         found = Lookup(was.entries, lib), Len(was.entries) <= MaxItems,
         was.current \in 1 .. Len(was.entries),
         Restorable(found) # {}, Restores(was, found)
  PROVE  /\ ItemsOK(items', queuedAssets', nextItemId')
         /\ SelectionOK(items', selection') /\ queueGen' \in 0 .. MaxQueueGen
         /\ current' \in Item /\ position' \in Nat
         /\ Abstract!Survives(was.entries, QueueEntryIds', lib)
         /\ items' # <<>>
         /\ Abstract!SamePlace(was, QueueEntryIds', IdentityIndex', SnapshotPosition', lib)
<1> DEFINE entries == was.entries
           n == Len(items')
           place == RestoredCurrent(items', found, was.current)
<1>1. /\ entries \in Seq(Entries) /\ was.current \in Nat /\ was.position \in Nat
  BY DEF Stored
<1>2. /\ found \in Seq(Entries \cup {Gone}) /\ Len(found) = Len(entries)
      /\ \A k \in 1 .. Len(entries) :
           /\ entries[k] \in lib => found[k] = entries[k] /\ found[k] # Gone
           /\ entries[k] \notin lib => found[k] = Gone
  BY <1>1, LookupFacts
<1>3. PICK pick \in InOrder(Restorable(found)) :
        /\ items' = [k \in DOMAIN pick |-> [id |-> k, entry |-> found[pick[k]]]]
        /\ queuedAssets' = {AssetOf[items'[k].entry] : k \in DOMAIN items'}
        /\ queueGen' = 1 /\ nextItemId' = Len(items') + 1
        /\ LET at == RestoredCurrent(items', found, was.current)
           IN  /\ selection' = AtLeast(at, 1)
               /\ position' = IF at # 0 THEN was.position ELSE 0
        /\ current' = items'[selection']
  BY Zenon DEF Restores
<1>4. items' = RestoredItems(found, pick)
  BY <1>3 DEF RestoredItems
<1>5. /\ items' \in Seq(Item)
      /\ n = Cardinality(Restorable(found))
      /\ DOMAIN pick = 1 .. n
      /\ \A k \in 1 .. n : /\ pick[k] \in Restorable(found)
                           /\ items'[k].id = k
                           /\ items'[k].entry = found[pick[k]]
      /\ \A a, b \in 1 .. n : a < b => pick[a] < pick[b]
      /\ \A a, b \in 1 .. n : pick[a] = pick[b] => a = b
      /\ \A i \in Restorable(found) : \E k \in 1 .. n : pick[k] = i
  <2>1. found \in Seq(Entries \cup {Gone})
    BY <1>2
  <2>2. ASSUME NEW its, its = RestoredItems(found, pick)
        PROVE  AreRestored(its, found, pick)
    BY QueueAssumption, <2>1, <2>2, RestoredItemsFacts
  <2>3. AreRestored(items', found, pick)
    BY <1>4, <2>2
  <2> QED
    BY <2>3 DEF AreRestored
<1>6. /\ Restorable(found) \subseteq 1 .. Len(entries)
      /\ IsFiniteSet(Restorable(found))
      /\ Cardinality(Restorable(found)) \in 0 .. Len(entries)
      /\ \A i \in Restorable(found) : found[i] \in Entries
      /\ \A i, j \in Restorable(found) : AssetOf[found[i]] = AssetOf[found[j]] => i = j
      /\ \A k \in 1 .. Len(entries) : found[k] # Gone =>
           \E i \in Restorable(found) : AssetOf[found[i]] = AssetOf[found[k]]
  <2>1. found \in Seq(Entries \cup {Gone}) /\ Len(found) = Len(entries)
    BY <1>2
  <2> HIDE DEF entries
  <2>2. /\ Restorable(found) \subseteq 1 .. Len(found)
        /\ IsFiniteSet(Restorable(found))
        /\ Cardinality(Restorable(found)) \in 0 .. Len(found)
        /\ \A i \in Restorable(found) : found[i] \in Entries
        /\ \A i, j \in Restorable(found) : AssetOf[found[i]] = AssetOf[found[j]] => i = j
        /\ \A k \in 1 .. Len(found) : found[k] # Gone =>
             \E i \in Restorable(found) : AssetOf[found[i]] = AssetOf[found[k]]
    BY <2>1, RestorableFacts
  <2> QED
    BY <2>1, <2>2
<1>7. n \in Nat /\ DOMAIN items' = 1 .. n /\ Len(entries) \in Nat
  BY <1>1, <1>5, LenProperties
<1>8. n # 0 /\ n <= MaxItems /\ n < MaxItemId
  <2>1. n # 0
    BY <1>5, <1>6, FS_EmptySet
  <2>2. n <= Len(entries)
    BY <1>5, <1>6
  <2> QED
    BY <1>7, <2>1, <2>2 DEF StoreAssumption, QueueAssumption
<1>9. ItemsOK(items', queuedAssets', nextItemId')
  BY <1>2, <1>3, <1>4, <1>8, RestoredItemsOK
<1>10. /\ selection' = AtLeast(place, 1)
       /\ position' = IF place # 0 THEN was.position ELSE 0
  BY <1>3
<1>11. LET same == {i \in 1 .. n : AssetOf[items'[i].entry] = AssetOf[found[was.current]]}
       IN  IF found[was.current] # Gone /\ same # {} THEN place \in same ELSE place = 0
  <2>1. ASSUME NEW its
        PROVE  LET at == RestoredCurrent(its, found, was.current)
                   same == {i \in DOMAIN its :
                              AssetOf[its[i].entry] = AssetOf[found[was.current]]}
               IN  IF found[was.current] # Gone /\ same # {} THEN at \in same ELSE at = 0
    BY RestoredCurrentFacts
  <2> HIDE DEF n
  <2> QED
    BY <1>7, <2>1
<1> HIDE DEF place, n, entries
<1>12. place \in 0 .. n
  BY <1>7, <1>11
<1>13. selection' \in 1 .. n
  BY <1>7, <1>8, <1>10, <1>12 DEF AtLeast
<1>14. SelectionOK(items', selection')
  BY <1>7, <1>8, <1>13 DEF SelectionOK, AtLeast, n
<1>15. current' \in Item /\ current'.id = selection'
  <2>1. items'[selection'] \in Item
    BY <1>5, <1>7, <1>13, ElementOfSeq DEF n
  <2> QED
    BY <1>3, <1>5, <1>13, <2>1
<1>16. position' \in Nat
  BY <1>1, <1>10
<1>17. IdentityIndex' = selection' /\ CurrentQueueIndex' # 0
  <2> DEFINE at == ItemPosition(items', current'.id)
  <2>1. /\ at \in 0 .. n
        /\ at # 0 => items'[at].id = current'.id
        /\ at = 0 => current'.id \notin Ids(items')
    BY <1>5, ItemPositionFacts DEF n
  <2>2. current'.id \in Ids(items')
    BY <1>3, <1>7, <1>13 DEF Ids
  <2>3. at \in 1 .. n /\ at # 0
    BY <1>7, <2>1, <2>2
  <2>4. at = selection'
    BY <1>5, <1>15, <2>1, <2>3
  <2>5. CurrentQueueIndex' = at
    BY DEF CurrentQueueIndex
  <2> HIDE DEF at
  <2> QED
    BY <2>3, <2>4, <2>5 DEF IdentityIndex, OrPlace
<1>18. SnapshotPosition' = position'
  BY <1>17 DEF SnapshotPosition
<1> DEFINE q == QueueEntryIds'
<1>19. /\ q = [k \in 1 .. n |-> items'[k].entry]
       /\ \A k \in 1 .. n : q[k] = found[pick[k]] /\ q[k] = entries[pick[k]] /\ q[k] \in lib
       /\ Len(q) = n
  <2>1. q = [k \in 1 .. n |-> items'[k].entry]
    BY DEF QueueEntryIds, n
  <2>2. \A k \in 1 .. n : q[k] = found[pick[k]]
    BY <1>5, <2>1
  <2>3. \A i \in Restorable(found) : i \in 1 .. Len(entries) /\ found[i] # Gone
    BY <1>6 DEF Restorable
  <2>4. \A i \in Restorable(found) : found[i] = entries[i] /\ entries[i] \in lib
    BY <1>2, <2>3 DEF entries
  <2>5. Len(q) = n
    <3>1. q \in [1 .. n -> {items'[k].entry : k \in 1 .. n}]
      BY <2>1
    <3> HIDE DEF q
    <3> QED
      BY <1>7, <3>1
  <2> HIDE DEF q
  <2>6. \A k \in 1 .. n : q[k] = entries[pick[k]] /\ q[k] \in lib
    BY <1>5, <2>2, <2>4
  <2> QED
    BY <2>1, <2>2, <2>5, <2>6
<1> HIDE DEF q
<1>20. \A k \in 1 .. Len(entries) : entries[k] \in lib =>
         \E j \in 1 .. n : AssetOf[q[j]] = AssetOf[entries[k]]
  <2> SUFFICES ASSUME NEW k \in 1 .. Len(entries), entries[k] \in lib
               PROVE  \E j \in 1 .. n : AssetOf[q[j]] = AssetOf[entries[k]]
    OBVIOUS
  <2>1. found[k] = entries[k] /\ found[k] # Gone
    BY <1>2 DEF entries
  <2>2. PICK i \in Restorable(found) : AssetOf[found[i]] = AssetOf[found[k]]
    BY <1>6, <2>1
  <2>3. PICK j \in 1 .. n : pick[j] = i
    BY <1>5
  <2> QED
    BY <1>19, <2>1, <2>2, <2>3
<1>21. Abstract!Survives(entries, q, lib)
  <2>1. Abstract!PartOf(q, entries)
    <3>1. pick \in [1 .. Len(q) -> 1 .. Len(entries)]
      <4>1. pick \in [1 .. n -> Restorable(found)]
        BY <1>5 DEF InOrder, Bijection, Injection, n
      <4> QED
        BY <1>6, <1>19, <4>1
    <3>2. /\ \A a, b \in 1 .. Len(q) : a < b => pick[a] < pick[b]
          /\ \A k \in 1 .. Len(q) : q[k] = entries[pick[k]]
      BY <1>5, <1>19
    <3> QED
      BY <3>1, <3>2 DEF Abstract!PartOf
  <2>2. \A k \in 1 .. Len(q) : q[k] \in lib
    BY <1>19
  <2>3. \A k, l \in 1 .. Len(q) : AssetOf[q[k]] = AssetOf[q[l]] => k = l
    <3> SUFFICES ASSUME NEW k \in 1 .. n, NEW l \in 1 .. n, AssetOf[q[k]] = AssetOf[q[l]]
                 PROVE  k = l
      BY <1>19
    <3>1. AssetOf[found[pick[k]]] = AssetOf[found[pick[l]]]
      BY <1>19
    <3>2. pick[k] = pick[l]
      BY <1>5, <1>6, <3>1
    <3> QED
      BY <1>5, <3>2
  <2>4. Abstract!Files(q) = {AssetOf[entries[k]] : k \in {i \in 1 .. Len(entries) : entries[i] \in lib}}
    <3>1. Abstract!Files(q) = {AssetOf[q[k]] : k \in 1 .. n}
      BY <1>19 DEF Abstract!Files
    <3> DEFINE expected == {AssetOf[entries[k]] : k \in {i \in 1 .. Len(entries) : entries[i] \in lib}}
    <3>2. ASSUME NEW k \in 1 .. n PROVE AssetOf[q[k]] \in expected
      <4>1. pick[k] \in 1 .. Len(entries) /\ q[k] = entries[pick[k]] /\ q[k] \in lib
        BY <1>5, <1>6, <1>19
      <4> QED
        BY <4>1
    <3>3. ASSUME NEW f \in expected PROVE f \in {AssetOf[q[k]] : k \in 1 .. n}
      <4>1. PICK k \in 1 .. Len(entries) : entries[k] \in lib /\ f = AssetOf[entries[k]]
        OBVIOUS
      <4> QED
        BY <1>20, <4>1
    <3> HIDE DEF expected
    <3>4. Abstract!Files(q) = expected
      BY <3>1, <3>2, <3>3
    <3> QED
      BY <3>4 DEF expected
  <2> QED
    BY <2>1, <2>2, <2>3, <2>4 DEF Abstract!Survives
<1>22. Abstract!SamePlace(was, q, IdentityIndex', SnapshotPosition', lib)
  <2> DEFINE same == {i \in 1 .. n : AssetOf[items'[i].entry] = AssetOf[found[was.current]]}
  <2>0. was.current \in 1 .. Len(entries)
    BY DEF entries
  <2>1. CASE entries[was.current] \in lib
    <3>1. found[was.current] = entries[was.current] /\ found[was.current] # Gone
      BY <1>2, <2>0, <2>1 DEF entries
    <3>2. same # {}
      <4>1. PICK j \in 1 .. n : AssetOf[q[j]] = AssetOf[entries[was.current]]
        BY <1>20, <2>0, <2>1
      <4>2. q[j] = items'[j].entry
        BY <1>19
      <4> QED
        BY <3>1, <4>1, <4>2
    <3>3. place \in same
      BY <1>11, <3>1, <3>2
    <3>4. place \in 1 .. n /\ AssetOf[q[place]] = AssetOf[entries[was.current]]
      BY <1>19, <3>1, <3>3
    <3>5. selection' = place /\ position' = was.position
      BY <1>7, <1>10, <3>4 DEF AtLeast
    <3> QED
      BY <1>17, <1>18, <2>1, <3>4, <3>5 DEF Abstract!SamePlace, entries
  <2>2. CASE entries[was.current] \notin lib
    <3>1. found[was.current] = Gone
      BY <1>2, <2>0, <2>2 DEF entries
    <3>2. place = 0
      BY <1>11, <3>1
    <3>3. selection' = 1 /\ position' = 0
      BY <1>10, <3>2 DEF AtLeast
    <3> QED
      BY <1>17, <1>18, <2>2, <3>3 DEF Abstract!SamePlace, entries
  <2> QED
    BY <2>1, <2>2
<1>23. items' # <<>>
  BY <1>8, EmptySeq DEF n
<1>24. queueGen' \in 0 .. MaxQueueGen
  BY <1>3 DEF QueueAssumption
<1> QED
  BY <1>9, <1>14, <1>15, <1>16, <1>21, <1>22, <1>23, <1>24 DEF q, entries

(* Nothing survives of a session of which the library has nothing. *)
LEMMA NothingSurvives ==
  ASSUME QueueAssumption, NEW entries \in Seq(Entries), NEW lib \in SUBSET Entries,
         Restorable(Lookup(entries, lib)) = {}
  PROVE  Abstract!Survives(entries, <<>>, lib)
<1> DEFINE found == Lookup(entries, lib)
           none == <<>>
<1>1. /\ found \in Seq(Entries \cup {Gone}) /\ Len(found) = Len(entries)
      /\ \A k \in 1 .. Len(entries) : entries[k] \in lib => found[k] # Gone
  BY LookupFacts
<1> HIDE DEF found
<1>2. \A k \in 1 .. Len(found) : found[k] # Gone => \E i \in Restorable(found) : TRUE
  BY <1>1, RestorableFacts
<1>3. \A k \in 1 .. Len(entries) : entries[k] \notin lib
  BY <1>1, <1>2 DEF found
<1>4. none \in Seq(Entries) /\ Len(none) = 0
  BY EmptySeq
<1> HIDE DEF none
<1>5. 1 .. Len(none) = {}
  BY <1>4
<1>6. Abstract!PartOf(none, entries)
  <2> DEFINE pick == [k \in 1 .. Len(none) |-> 1]
  <2>1. pick \in [1 .. Len(none) -> 1 .. Len(entries)]
    BY <1>5
  <2> HIDE DEF pick
  <2> QED
    BY <1>5, <2>1 DEF Abstract!PartOf
<1>7. Abstract!Files(none) = {AssetOf[entries[k]] : k \in {i \in 1 .. Len(entries) : entries[i] \in lib}}
  BY <1>3, <1>5 DEF Abstract!Files
<1>8. Abstract!Survives(entries, none, lib)
  BY <1>5, <1>6, <1>7 DEF Abstract!Survives
<1> QED
  BY <1>8 DEF none

LEMMA StartFacts ==
  ASSUME StoreAssumption, QueueAssumption, StoreInv, Start
  PROVE  /\ ItemsOK(items', queuedAssets', nextItemId')
         /\ SelectionOK(items', selection') /\ queueGen' \in 0 .. MaxQueueGen
         /\ current' \in Item \cup {NoItem} /\ position' \in Nat
         /\ library' \in SUBSET Entries /\ limit' \in 1 .. MaxItems
         /\ IF files.session = Nothing \/ Len(files.session.entries) > limit'
            THEN QueueEntryIds' = <<>>
            ELSE /\ Abstract!Survives(files.session.entries, QueueEntryIds', library')
                 /\ QueueEntryIds' # <<>> =>
                      /\ items' # <<>>
                      /\ Abstract!SamePlace(files.session, QueueEntryIds', IdentityIndex',
                                            SnapshotPosition', library')
<1> DEFINE was == files.session
           found == Lookup(was.entries, library')
<1>1. library' \in SUBSET Entries /\ limit' \in 1 .. MaxItems
  BY DEF Start, StoreAssumption
<1>2. was \in Stored \cup {Nothing} /\ (was # Nothing => Acceptable(was, MaxItems))
  BY DEF StoreInv, Typed, SavedOK
<1>3. IF was = Nothing \/ ~Acceptable(was, limit') THEN StartsEmpty
      ELSE IF Restorable(found) = {} THEN StartsEmpty ELSE Restores(was, found)
  BY Zenon DEF Start
<1> HIDE DEF was, found
<1>4. CASE was = Nothing \/ ~Acceptable(was, limit')
  <2>1. was = Nothing \/ Len(was.entries) > limit'
    <3>1. CASE was = Nothing
      BY <3>1
    <3>2. CASE was # Nothing
      <4>1. /\ was.entries # <<>> /\ was.current \in 1 .. Len(was.entries)
            /\ Len(was.entries) \in Nat
        BY <1>2, <3>2, LenProperties DEF Acceptable, Stored
      <4>2. ~(Len(was.entries) <= limit')
        BY <1>4, <3>2, <4>1 DEF Acceptable
      <4> QED
        BY <1>1, <4>1, <4>2 DEF QueueAssumption
    <3> QED
      BY <3>1, <3>2
  <2>2. StartsEmpty
    BY <1>3, <1>4
  <2> QED
    BY <1>1, <2>1, <2>2, StartsEmptyFacts DEF was
<1>5. CASE ~(was = Nothing \/ ~Acceptable(was, limit'))
  <2>1. /\ was \in Stored /\ was # Nothing
        /\ Len(was.entries) <= limit' /\ was.current \in 1 .. Len(was.entries)
        /\ was.entries \in Seq(Entries)
    BY <1>2, <1>5 DEF Acceptable, Stored
  <2>2. Len(was.entries) \in Nat
    BY <2>1, LenProperties
  <2>3. ~(was = Nothing \/ Len(was.entries) > limit') /\ Len(was.entries) <= MaxItems
    BY <1>1, <2>1, <2>2 DEF QueueAssumption
  <2>4. CASE Restorable(found) = {}
    <3>1. StartsEmpty
      BY <1>3, <1>5, <2>4
    <3>2. Abstract!Survives(was.entries, <<>>, library')
      BY <1>1, <2>1, <2>4, NothingSurvives DEF found
    <3>3. Abstract!Survives(was.entries, QueueEntryIds', library') /\ QueueEntryIds' = <<>>
      BY <3>1, <3>2, StartsEmptyFacts
    <3> QED
      BY <1>1, <2>3, <3>1, <3>3, StartsEmptyFacts DEF was
  <2>5. CASE Restorable(found) # {}
    <3>1. Restores(was, found)
      BY <1>3, <1>5, <2>5
    <3>2. /\ ItemsOK(items', queuedAssets', nextItemId')
          /\ SelectionOK(items', selection') /\ queueGen' \in 0 .. MaxQueueGen
          /\ current' \in Item /\ position' \in Nat
          /\ Abstract!Survives(was.entries, QueueEntryIds', library')
          /\ items' # <<>>
          /\ Abstract!SamePlace(was, QueueEntryIds', IdentityIndex', SnapshotPosition', library')
      BY <1>1, <2>1, <2>3, <2>5, <3>1, RestoresFacts DEF found
    <3> QED
      BY <1>1, <2>3, <3>2 DEF was
  <2> QED
    BY <2>4, <2>5
<1> QED
  BY <1>4, <1>5

LEMMA StartKeeps ==
  ASSUME StoreAssumption, QueueAssumption, StoreInv, Start
  PROVE  StoreInv'
<1>0. QueueInv /\ Typed /\ Unshuffled /\ SavedOK /\ Writing /\ Known /\ Recent
  BY DEF StoreInv
<1>1. /\ ~Up
      /\ UNCHANGED <<shuffle, shuffleOrder, shuffleCursor, write, files, leftovers>>
      /\ playing' = FALSE /\ now' = 0 /\ synchronizer' = NewSynchronizer
      /\ pc' = "first" /\ synced' = FALSE
      /\ savedAt' = [nowPlaying |-> NoTime, session |-> NoTime]
  BY DEF Start
<1>2. /\ ItemsOK(items', queuedAssets', nextItemId')
      /\ SelectionOK(items', selection') /\ queueGen' \in 0 .. MaxQueueGen
      /\ current' \in Item \cup {NoItem} /\ position' \in Nat
      /\ library' \in SUBSET Entries /\ limit' \in 1 .. MaxItems
  BY StartFacts
<1>3. write = NoWrite
  BY <1>0, <1>1 DEF Writing, Up
<1>4. QueueInv'
  <2>1. OrderOK(shuffle', Ids(items'), shuffleOrder', shuffleCursor') /\ shuffle' \in BOOLEAN
    BY <1>0, <1>1 DEF QueueInv, OrderOK, Unshuffled
  <2> QED
    BY <1>2, <2>1 DEF QueueInv
<1>5. Typed'
  <2>1. synchronizer' \in [nowPlaying : Projections \cup {Nothing}, nowPlayingAt : Times,
                           initialized : BOOLEAN, session : Identities \cup {Nothing},
                           sessionAt : Times]
    BY <1>1 DEF NewSynchronizer, Times
  <2>2. savedAt' \in [nowPlaying : Times, session : Times]
    BY <1>1 DEF Times
  <2> QED
    BY <1>0, <1>1, <1>2, <2>1, <2>2 DEF Typed, Phases
<1>6. Unshuffled' /\ SavedOK'
  BY <1>0, <1>1 DEF Unshuffled, SavedOK, Acceptable
<1>7. Writing' /\ write'.file = "none"
  BY <1>1, <1>3, NotWriting
<1>8. Recent'
  BY <1>1, <1>7 DEF Recent
<1>9. Known'
  BY <1>1 DEF Known, NowPlayingKnown, SessionKnown, NewSynchronizer
<1> QED
  BY <1>4, <1>5, <1>6, <1>7, <1>8, <1>9 DEF StoreInv

-----------------------------------------------------------------------------
(* The invariant, and what follows from it. *)

LEMMA NextKeeps ==
  ASSUME StoreAssumption, QueueAssumption, StoreInv, [Next]_vars
  PROVE  StoreInv'
<1>1. CASE Start
  BY <1>1, StartKeeps
<1>2. CASE Sync
  BY <1>2, SyncKeeps
<1>3. CASE WriteStep
  BY <1>3, CreateTemporaryKeeps, FillTemporaryKeeps, RenameKeeps, SessionReplaced, FailuresKeep
     DEF WriteStep
<1>4. CASE LoopStep
  BY <1>4, LoopStepKeeps
<1>5. CASE Quit
  BY <1>5, QuitKeeps
<1>6. CASE Crash
  BY <1>6, CrashKeeps
<1>7. CASE UNCHANGED vars
  <2>0. QueueInv /\ Typed /\ Unshuffled /\ SavedOK /\ Writing /\ Known /\ Recent
    BY DEF StoreInv
  <2>1. UNCHANGED <<queueVars, library, limit, current, position, playing, now, synchronizer,
                    pc, write, files, leftovers, synced, savedAt>>
    BY <1>7 DEF vars, sessionVars, storeVars
  <2>2. UNCHANGED <<items, selection, queueGen, shuffle>>
    BY <2>1, QueueVars
  <2>3. QueueInv' /\ Known'
    BY <2>0, <2>1, QueueKept, KnownKept
  <2>4. Typed' /\ Unshuffled' /\ SavedOK'
    BY <2>0, <2>1, <2>2 DEF Typed, Unshuffled, SavedOK, Acceptable
  <2>5. Writing' /\ Recent'
    <3>1. Projection' = Projection /\ SessionSnapshot' = SessionSnapshot
      BY <2>1, <2>2, SameSession
    <3>2. Writing'
      BY <2>0, <2>1, <2>2, <3>1 DEF Writing, WritesNowPlaying, WritesSession, Replaces
    <3>3. (NowPlayingRecent => NowPlayingRecent') /\ (SessionRecent => SessionRecent')
      BY <2>1, <2>2, NowPlayingRecentKept, SessionRecentKept
    <3> QED
      BY <2>0, <2>1, <3>2, <3>3 DEF Recent
  <2> QED
    BY <2>3, <2>4, <2>5 DEF StoreInv
<1> QED
  BY <1>1, <1>2, <1>3, <1>4, <1>5, <1>6, <1>7 DEF Next

(* The inductive invariant holds throughout. *)
THEOREM StoreInvariant == Spec => []StoreInv
<1>1. Init => StoreInv
  BY StoreAssumption, QueueAssumption, InitKeeps
<1>2. StoreInv /\ [Next]_vars => StoreInv'
  BY StoreAssumption, QueueAssumption, NextKeeps
<1> QED
  BY <1>1, <1>2, PTL DEF Spec

(* Whenever the loop has synchronised, the session on disk is the queue and the
   current track of that moment, and what widgets read is the playback, but for
   positions that are younger than their intervals: no edit escapes the identity
   that `sync' compares, whatever failed before. *)
THEOREM FilesStayRecent == Spec => []FilesRecent
<1>1. StoreInv => FilesRecent
  BY DEF StoreInv, Recent, NowPlayingRecent, SessionRecent, FilesRecent
<1> QED
  BY <1>1, StoreInvariant, PTL

(* The steps with which a process ends in order. *)
LEMMA QuitStep ==
  ASSUME StoreAssumption, QueueAssumption, StoreInv, [Next]_vars, pc = "finish", pc' = "down"
  PROVE  /\ write.file = "session"
         /\ files'.session \in {SessionSnapshot, files.session}
<1>0. QueueInv /\ Typed /\ Writing
  BY DEF StoreInv
<1>1. ~Start /\ ~LoopStep /\ ~Quit /\ ~Crash /\ ~UNCHANGED vars /\ ~CreateTemporary /\ ~FillTemporary
  BY DEF Start, Up, LoopStep, EditQueue, ChangeTrack, Progress, Tick, Happened, Quit, Crash,
         vars, storeVars, CreateTemporary, FillTemporary
<1>2. ~Sync
  BY DEF Sync
<1>3. CASE CreateFails \/ FillOrRenameFails \/ ClearFails
  <2>1. write.file # "none" /\ WriteFailed /\ UNCHANGED files
    BY <1>3 DEF CreateFails, FillOrRenameFails, ClearFails
  <2>2. write.file # "nowPlaying"
    BY <2>1 DEF WriteFailed
  <2> QED
    BY <1>0, <2>1, <2>2, WriteFacts
<1>4. CASE Rename \/ ClearSession
  <2>1. write.file # "none" /\ Written
    BY <1>4 DEF Rename, ClearSession
  <2>2. write.file # "nowPlaying"
    BY <2>1 DEF Written, SessionHalf
  <2>3. write.file = "session"
    BY <1>0, <2>1, <2>2, WriteFacts
  <2> QED
    BY <1>4, <2>3, SessionStep
<1> QED
  BY <1>1, <1>2, <1>3, <1>4 DEF Next, WriteStep

(* A process that ends in order has tried to save the session as it was, also
   when the now-playing file could not be written (`force'). *)
THEOREM QuitAlwaysSaves == Spec => QuitSaves
<1>1. StoreInv /\ [Next]_vars =>
        [ pc = "finish" /\ pc' = "down" =>
            /\ write.file = "session"
            /\ files'.session \in {SessionSnapshot, files.session} ]_vars
  BY StoreAssumption, QueueAssumption, QuitStep
<1> QED
  BY <1>1, StoreInvariant, PTL DEF Spec, QuitSaves

-----------------------------------------------------------------------------
(* The refinement of Resume, step by step. *)

(* A process that is up and stays up, and whose session is not saved. *)
LEMMA IsListen ==
  ASSUME pc \in {"first", "loop", "finish"}, pc' \in {"first", "loop", "finish"},
         library' = library, limit' = limit, files'.session = files.session
  PROVE  Abstract!Next
BY DEF Abstract!Next, Abstract!Listen, Up

(* A process that ends, and leaves all as it is. *)
LEMMA IsLeave ==
  ASSUME Up, pc' \in {"down", "dead"},
         UNCHANGED <<items, selection, queueGen, current, position, library, limit>>,
         files'.session = files.session
  PROVE  Abstract!Next
<1>1. /\ QueueEntryIds' = QueueEntryIds /\ IdentityIndex' = IdentityIndex
      /\ SnapshotPosition' = SnapshotPosition
  BY SameSession
<1> QED
  BY <1>1 DEF Abstract!Next, Abstract!Leave, Up

(* Replacing the session file is the one step that saves. *)
LEMMA IsSave ==
  ASSUME StoreAssumption, QueueAssumption, StoreInv,
         (Rename /\ write.file = "session") \/ ClearSession
  PROVE  Abstract!Next
<1>1. /\ UNCHANGED <<queueVars, library, limit, current, position>>
      /\ files'.session = SessionSnapshot /\ pc \in {"first", "loop", "finish"}
  BY SessionStep
<1>2. UNCHANGED <<items, selection, queueGen>>
  BY <1>1, QueueVars
<1>3. /\ QueueEntryIds' = QueueEntryIds /\ IdentityIndex' = IdentityIndex
      /\ SnapshotPosition' = SnapshotPosition
  BY <1>1, <1>2, SameSession
<1>4. SessionSnapshot = Abstract!Session
  <2>1. (items = <<>>) <=> (QueueEntryIds = <<>>)
    <3>1. /\ items = <<>> <=> Len(items) = 0
          /\ QueueEntryIds \in Seq(Entries) /\ Len(QueueEntryIds) = Len(items)
      BY SnapshotFacts DEF StoreInv
    <3> QED
      BY <3>1, EmptySeq
  <2> QED
    BY <2>1 DEF SessionSnapshot, Abstract!Session
<1>5. Abstract!Save
  BY <1>1, <1>2, <1>3, <1>4 DEF Abstract!Save, Up
<1> QED
  BY <1>5 DEF Abstract!Next

LEMMA IsReturn ==
  ASSUME StoreAssumption, QueueAssumption, StoreInv, Start
  PROVE  Abstract!Next
<1>1. /\ library' \in SUBSET Entries /\ limit' \in 1 .. MaxItems
      /\ IF files.session = Nothing \/ Len(files.session.entries) > limit'
         THEN QueueEntryIds' = <<>>
         ELSE /\ Abstract!Survives(files.session.entries, QueueEntryIds', library')
              /\ QueueEntryIds' # <<>> =>
                   /\ items' # <<>>
                   /\ Abstract!SamePlace(files.session, QueueEntryIds', IdentityIndex',
                                         SnapshotPosition', library')
  BY StartFacts
<1>2. ~Up /\ Up' /\ files' = files
  BY DEF Start, Up
<1>3. library' \subseteq Entries /\ limit' \in Nat
  BY <1>1 DEF QueueAssumption
<1>4. Abstract!Return
  BY <1>1, <1>2, <1>3 DEF Abstract!Return
<1> QED
  BY <1>4 DEF Abstract!Next

LEMMA NextRefines ==
  ASSUME StoreAssumption, QueueAssumption, StoreInv, [Next]_vars
  PROVE  [Abstract!Next]_Abstract!vars
<1>0. QueueInv /\ Typed /\ Writing
  BY DEF StoreInv
<1>1. CASE Start
  BY <1>1, IsReturn
<1>2. CASE Sync
  <2>1. pc \in {"first", "loop", "finish"} /\ UNCHANGED <<library, limit, files>>
    BY <1>2 DEF Sync, sessionVars
  <2>2. pc' \in {"first", "loop", "finish"}
    BY <1>2, <2>1 DEF Sync, SessionHalf, SyncEnds
  <2> QED
    BY <2>1, <2>2, IsListen
<1>3. CASE CreateTemporary \/ FillTemporary
  <2>1. write.file # "none" /\ UNCHANGED <<library, limit, files, pc>>
    BY <1>3 DEF CreateTemporary, FillTemporary, StoreKept
  <2>2. pc \in {"first", "loop", "finish"}
    BY <1>0, <2>1, WriteFacts
  <2> QED
    BY <2>1, <2>2, IsListen
<1>4. CASE Rename /\ write.file = "nowPlaying"
  <2>1. /\ write.file # "none" /\ UNCHANGED <<library, limit>> /\ SessionHalf
        /\ files' = [files EXCEPT ![write.file] = write.content]
    BY <1>4 DEF Rename, Written, StoreKept
  <2>2. pc \in {"first", "loop", "finish"}
    BY <1>0, <2>1, WriteFacts
  <2>3. pc' \in {"first", "loop", "finish"}
    BY <2>1, <2>2 DEF SessionHalf, SyncEnds
  <2>4. files'.session = files.session
    BY <1>0, <1>4, <2>1 DEF Typed
  <2> QED
    BY <2>1, <2>2, <2>3, <2>4, IsListen
<1>5. CASE (Rename /\ write.file = "session") \/ ClearSession
  BY <1>5, IsSave
<1>6. CASE CreateFails \/ FillOrRenameFails \/ ClearFails
  <2>1. /\ write.file # "none" /\ WriteFailed
        /\ UNCHANGED <<queueVars, library, limit, current, position, files>>
    BY <1>6 DEF CreateFails, FillOrRenameFails, ClearFails, StoreKept
  <2>2. pc \in {"first", "loop", "finish"} /\ Up
    BY <1>0, <2>1, WriteFacts DEF Up
  <2>3. pc' \in {"finish", "down"}
    BY <2>1 DEF WriteFailed
  <2>4. CASE pc' = "finish"
    BY <2>1, <2>2, <2>4, IsListen
  <2>5. CASE pc' = "down"
    <3>1. UNCHANGED <<items, selection, queueGen>>
      BY <2>1, QueueVars
    <3> QED
      BY <2>1, <2>2, <2>5, <3>1, IsLeave
  <2> QED
    BY <2>3, <2>4, <2>5
<1>7. CASE LoopStep
  <2>1. pc = "loop" /\ UNCHANGED <<library, limit, pc, files>>
    BY <1>7 DEF LoopStep, EditQueue, ChangeTrack, Progress, Tick, Happened, storeVars
  <2> QED
    BY <2>1, IsListen
<1>8. CASE Quit
  BY <1>8, IsListen DEF Quit
<1>9. CASE Crash
  <2>1. UNCHANGED <<queueVars, library, limit, current, position, files>> /\ Up /\ pc' = "dead"
    BY <1>9 DEF Crash, sessionVars
  <2>2. UNCHANGED <<items, selection, queueGen>>
    BY <2>1, QueueVars
  <2> QED
    BY <2>1, <2>2, IsLeave
<1>10. CASE UNCHANGED vars
  <2>1. UNCHANGED <<queueVars, library, limit, current, position, pc, files>>
    BY <1>10 DEF vars, sessionVars, storeVars
  <2>2. UNCHANGED <<items, selection, queueGen>>
    BY <2>1, QueueVars
  <2>3. /\ QueueEntryIds' = QueueEntryIds /\ IdentityIndex' = IdentityIndex
        /\ SnapshotPosition' = SnapshotPosition
    BY <2>1, <2>2, SameSession
  <2> QED
    BY <2>1, <2>2, <2>3 DEF Abstract!vars, Up
<1>11. Rename => write.file \in {"nowPlaying", "session"}
  BY <1>0, WriteFacts DEF Rename
<1> QED
  BY <1>1, <1>2, <1>3, <1>4, <1>5, <1>6, <1>7, <1>8, <1>9, <1>10, <1>11 DEF Next, WriteStep

LEMMA InitRefines ==
  ASSUME StoreAssumption, QueueAssumption, Init
  PROVE  Abstract!Init
<1>1. StoreInv
  BY InitKeeps
<1>2. /\ items = <<>> /\ pc = "down" /\ current = NoItem /\ position = 0
      /\ files.session = Nothing
      /\ library \subseteq Entries /\ limit \in Nat
  BY DEF Init, EmptyQueue, StoreAssumption, QueueAssumption
<1>3. QueueEntryIds = <<>>
  <2>1. /\ items = <<>> <=> Len(items) = 0
        /\ QueueEntryIds \in Seq(Entries) /\ Len(QueueEntryIds) = Len(items)
    BY <1>1, SnapshotFacts DEF StoreInv
  <2> QED
    BY <1>2, <2>1, EmptySeq
<1>4. SnapshotPosition = 0
  BY <1>2 DEF SnapshotPosition
<1> QED
  BY <1>2, <1>3, <1>4 DEF Abstract!Init, Up

(* All the system calls, failures and ends of a process implement Resume: the
   saved session changes in one step only, to the running one, and a start takes
   up all of it that is left, once each, in order, and at the same place. *)
THEOREM StoreRefinesResume == Spec => Resumes
<1>1. Init => Abstract!Init
  BY StoreAssumption, QueueAssumption, InitRefines
<1>2. StoreInv /\ [Next]_vars => [Abstract!Next]_Abstract!vars
  BY StoreAssumption, QueueAssumption, NextRefines
<1> QED
  BY <1>1, <1>2, StoreInvariant, PTL DEF Spec, Resumes, Abstract!Spec

=============================================================================
