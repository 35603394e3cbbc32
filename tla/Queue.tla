-------------------------------- MODULE Queue --------------------------------
(***************************************************************************)
(* The playback queue of src/src/app/queue.rs: an ordered list of queue    *)
(* items with atomic asset membership, a selection, and, while shuffle is  *)
(* on, a play order whose already played prefix stays put.                 *)
(*                                                                         *)
(* Positions are 1-based.  The code's `shuffle_cursor: Option<usize>' is   *)
(* the number `shuffleCursor' of items of the order up to and including    *)
(* the cursor: None is 0 and Some(i) is i + 1.  `selection' is 1 where     *)
(* the code has 0, also when the queue is empty.  The xorshift generator   *)
(* behind a shuffle is a choice among all orders it could produce.         *)
(***************************************************************************)
EXTENDS Integers, FiniteSets, SequencesExt

CONSTANTS
  Entries,        \* the track entries of the scanned library
  Assets,         \* the canonical media files behind them
  AssetOf,        \* the asset of each entry; several entries may alias one
  MaxItems,       \* config.queue.max_items
  MaxItemId,      \* the largest value of `next_item_id'; u64::MAX in the code
  MaxQueueGen,    \* the largest queue generation; u64::MAX in the code
  Gone,           \* a saved entry that the library no longer has
  Batches,        \* the playlists that are appended
  Sessions        \* the saved queues that are restored

ASSUME QueueAssumption ==
  /\ AssetOf \in [Entries -> Assets]
  /\ Gone \notin Entries
  /\ Batches \subseteq Seq(Entries)
  /\ Sessions \subseteq Seq(Entries \cup {Gone})
  /\ MaxItems \in Nat \ {0}
  /\ MaxItemId \in Nat \ {0}
  /\ MaxQueueGen \in Nat \ {0}

VARIABLES
  items,          \* the queue, a sequence of items
  queuedAssets,   \* assets whose membership mark is set
  selection,      \* the selected position
  queueGen,       \* `generation', bumped by every queue edit
  nextItemId,     \* the id of the next item
  shuffle,        \* whether shuffle is on
  shuffleOrder,   \* ids in play order while shuffle is on
  shuffleCursor   \* how many of them are played or playing

queueVars == <<items, queuedAssets, selection, queueGen, nextItemId,
               shuffle, shuffleOrder, shuffleCursor>>

Item == [id : Nat, entry : Entries]
NoItem == [id |-> 0]       \* Option::None for `current: Option<QueueItem>'

Ids(its) == {its[i].id : i \in DOMAIN its}
AssetsOf(entries) == {AssetOf[entries[i]] : i \in DOMAIN entries}

(* The position of the item with this id, 0 when there is none. *)
ItemPosition(its, id) ==
  IF id \in Ids(its) THEN CHOOSE i \in DOMAIN its : its[i].id = id ELSE 0

OrderPosition(order, id) ==
  IF id \in ToSet(order) THEN CHOOSE i \in DOMAIN order : order[i] = id ELSE 0

AtMost(n, bound) == IF n <= bound THEN n ELSE bound
AtLeast(n, bound) == IF n >= bound THEN n ELSE bound

(* Every sequence that holds each element of S exactly once. *)
Orders(S) == Bijection(1 .. Cardinality(S), S)

-----------------------------------------------------------------------------
(* Shuffle order. *)

(* `refresh_shuffle_order' over the queue `its': a fresh order, the current
   track first and already under the cursor when the queue holds it. *)
RefreshShuffleOrder(on, its, current) ==
  IF ~on
  THEN shuffleOrder' = <<>> /\ shuffleCursor' = 0
  ELSE /\ shuffleOrder' \in Orders(Ids(its))
       /\ IF current.id \in Ids(its)
          THEN shuffleOrder'[1] = current.id /\ shuffleCursor' = 1
          ELSE shuffleCursor' = 0

(* Mutant: appended items are left out of a running shuffle round. *)
ForgetsAppended(newIds) == UNCHANGED <<shuffleOrder, shuffleCursor>>

(* `extend_shuffle_order': new ids join the part that is still to be played,
   which is shuffled again; the played prefix stays. *)
ExtendShuffleOrder(newIds) ==
  IF ~shuffle
  THEN UNCHANGED <<shuffleOrder, shuffleCursor>>
  ELSE LET played == AtMost(shuffleCursor, Len(shuffleOrder))
           waiting == {shuffleOrder[i] : i \in played + 1 .. Len(shuffleOrder)}
       IN  /\ \E rest \in Orders(waiting \cup newIds) :
                shuffleOrder' = SubSeq(shuffleOrder, 1, played) \o rest
           /\ UNCHANGED shuffleCursor

(* Mutant: off by one, removing the current item leaves the cursor. *)
KeepsCursorOnCurrent(id) ==
  LET position == OrderPosition(shuffleOrder, id) IN
  IF ~shuffle \/ position = 0
  THEN UNCHANGED <<shuffleOrder, shuffleCursor>>
  ELSE /\ shuffleOrder' = RemoveAt(shuffleOrder, position)
       /\ shuffleCursor' = IF position < shuffleCursor
                           THEN shuffleCursor - 1 ELSE shuffleCursor

(* `remove_from_shuffle_order' *)
RemoveFromShuffleOrder(id) ==
  LET position == OrderPosition(shuffleOrder, id) IN
  IF ~shuffle \/ position = 0
  THEN UNCHANGED <<shuffleOrder, shuffleCursor>>
  ELSE /\ shuffleOrder' = RemoveAt(shuffleOrder, position)
       /\ shuffleCursor' = IF position <= shuffleCursor
                           THEN shuffleCursor - 1 ELSE shuffleCursor

(* `select_current': put the cursor on this item. *)
SelectCurrent(item) ==
  shuffleCursor' = IF shuffle THEN OrderPosition(shuffleOrder, item.id)
                   ELSE shuffleCursor

-----------------------------------------------------------------------------
(* Queue edits. *)

CanEdit == queueGen < MaxQueueGen

CheckAppend(count) ==
  /\ Len(items) + count <= MaxItems
  /\ nextItemId + count <= MaxItemId
  /\ CanEdit

(* `mark_asset' accepts the i-th entry of a batch: neither the queue nor an
   earlier entry of the batch holds its asset. *)
Markable(batch, i) ==
  /\ AssetOf[batch[i]] \notin queuedAssets
  /\ \A j \in 1 .. i - 1 : AssetOf[batch[j]] # AssetOf[batch[i]]

(* The first n entries are marked, the one after them, if any, is refused. *)
MarkedUpTo(batch, n) ==
  /\ \A i \in 1 .. n : Markable(batch, i)
  /\ n < Len(batch) => ~Markable(batch, n + 1)

MarkedAssets(batch, n) == queuedAssets \cup AssetsOf(SubSeq(batch, 1, n))

(* Mutant: the refused entry is unmarked too, though the queue holds it. *)
UnmarksRefused(batch, n) == AssetsOf(SubSeq(batch, 1, AtMost(n + 1, Len(batch))))

(* The marks an append that fails takes back. *)
UnmarkedOnError(batch, n) == AssetsOf(SubSeq(batch, 1, n))

Appended(batch) ==
  [k \in 1 .. Len(batch) |-> [id |-> nextItemId + k - 1, entry |-> batch[k]]]

AppendRejected(batch) ==
  /\ batch # <<>>
  /\ \E n \in 0 .. Len(batch) :
       /\ MarkedUpTo(batch, n)
       /\ n < Len(batch) \/ ~CheckAppend(Len(batch))
       /\ queuedAssets' = MarkedAssets(batch, n) \ UnmarkedOnError(batch, n)
  /\ UNCHANGED <<items, selection, queueGen, nextItemId,
                 shuffle, shuffleOrder, shuffleCursor>>

AppendItems(batch) ==
  /\ batch # <<>>
  /\ MarkedUpTo(batch, Len(batch))
  /\ CheckAppend(Len(batch))
  /\ items' = items \o Appended(batch)
  /\ queuedAssets' = MarkedAssets(batch, Len(batch))
  /\ nextItemId' = nextItemId + Len(batch)
  /\ queueGen' = queueGen + 1
  /\ UNCHANGED shuffle

AppendBatch(batch) ==
  /\ AppendItems(batch)
  /\ ExtendShuffleOrder(Ids(Appended(batch)))
  /\ UNCHANGED selection

RemoveSelected ==
  /\ selection <= Len(items)
  /\ CanEdit
  /\ items' = RemoveAt(items, selection)
  /\ queuedAssets' = queuedAssets \ {AssetOf[items[selection].entry]}
  /\ RemoveFromShuffleOrder(items[selection].id)
  /\ selection' = AtMost(selection, AtLeast(Len(items) - 1, 1))
  /\ queueGen' = queueGen + 1
  /\ UNCHANGED <<nextItemId, shuffle>>

Clear ==
  /\ items # <<>>
  /\ CanEdit
  /\ items' = <<>>
  /\ queuedAssets' = {}
  /\ shuffleOrder' = <<>>
  /\ shuffleCursor' = 0
  /\ selection' = 1
  /\ queueGen' = queueGen + 1
  /\ UNCHANGED <<nextItemId, shuffle>>

MoveSelected(down) ==
  LET destination == IF down THEN selection + 1 ELSE selection - 1 IN
  /\ destination \in 1 .. Len(items)
  /\ CanEdit
  /\ items' = [items EXCEPT ![selection] = items[destination],
                            ![destination] = items[selection]]
  /\ selection' = destination
  /\ queueGen' = queueGen + 1
  /\ UNCHANGED <<queuedAssets, nextItemId, shuffle, shuffleOrder, shuffleCursor>>

(* The selection moves by one row, to the first or to the last row. *)
MoveSelection(position) ==
  /\ position \in {AtMost(selection + 1, AtLeast(Len(items), 1)),
                   AtLeast(selection - 1, 1), 1, AtLeast(Len(items), 1)}
  /\ selection' = position
  /\ UNCHANGED <<items, queuedAssets, queueGen, nextItemId,
                 shuffle, shuffleOrder, shuffleCursor>>

(* `AppState::set_shuffle', with the current track while the worker has it. *)
SetShuffle(on, current) ==
  /\ shuffle # on
  /\ shuffle' = on
  /\ RefreshShuffleOrder(on, items, current)
  /\ UNCHANGED <<items, queuedAssets, selection, queueGen, nextItemId>>

(* The item at this position of `its' becomes the current track, in a new
   shuffle round or within the one that is running. *)
TrackSelected(its, position, newRound) ==
  IF newRound
  THEN RefreshShuffleOrder(shuffle, its, its[position])
  ELSE SelectCurrent(its[position]) /\ UNCHANGED shuffleOrder

SelectTrack(position, newRound) ==
  /\ position \in DOMAIN items
  /\ TrackSelected(items, position, newRound)
  /\ UNCHANGED <<items, queuedAssets, selection, queueGen, nextItemId, shuffle>>

-----------------------------------------------------------------------------
(* Navigation: the position of the next and of the previous track for a
   `current' item that the queue may no longer hold, 0 for none. *)

CurrentPosition(its, current, hint) ==
  IF hint \in DOMAIN its /\ its[hint].id = current.id
  THEN hint ELSE ItemPosition(its, current.id)

OrPlace(position, fallback) == IF position # 0 THEN position ELSE fallback

(* Mutant: a shuffled round goes on from the cursor, not from the track. *)
NextFromCursor(current, hint, wrap) ==
  IF items = <<>> THEN 0
  ELSE IF shuffle
  THEN IF shuffleCursor + 1 <= Len(shuffleOrder)
       THEN ItemPosition(items, shuffleOrder[shuffleCursor + 1])
       ELSE IF wrap THEN ItemPosition(items, shuffleOrder[1]) ELSE 0
  ELSE LET position == CurrentPosition(items, current, hint)
           next == IF position # 0 THEN position + 1 ELSE hint
       IN  IF next <= Len(items) THEN next ELSE IF wrap THEN 1 ELSE 0

NextPosition(current, hint, wrap) ==
  IF items = <<>> THEN 0
  ELSE IF shuffle
  THEN LET next == OrPlace(OrderPosition(shuffleOrder, current.id), shuffleCursor) + 1
       IN  IF next <= Len(shuffleOrder) THEN ItemPosition(items, shuffleOrder[next])
           ELSE IF wrap /\ shuffleOrder # <<>> THEN ItemPosition(items, shuffleOrder[1])
           ELSE 0
  ELSE LET position == CurrentPosition(items, current, hint)
           next == IF position # 0 THEN position + 1 ELSE AtMost(hint, Len(items) + 1)
       IN  IF next <= Len(items) THEN next ELSE IF wrap THEN 1 ELSE 0

(* Mutant: Previous goes back from the cursor, not from the track. *)
PlaceFromCursor(current, wrap) ==
  OrPlace(AtLeast(shuffleCursor - 1, 0), IF wrap THEN Len(shuffleOrder) ELSE 0)

(* The place in the shuffle order that `previous_index' reads. *)
PreviousPlace(current, wrap) ==
  LET position == OrderPosition(shuffleOrder, current.id)
      before == IF position # 0 THEN position - 1 ELSE shuffleCursor
  IN  OrPlace(before, IF wrap THEN Len(shuffleOrder) ELSE 0)

PreviousPosition(current, hint, wrap) ==
  IF items = <<>> \/ (shuffle /\ current.id = 0) THEN 0
  ELSE IF shuffle
  THEN LET place == PreviousPlace(current, wrap)
       IN  IF place = 0 THEN 0 ELSE ItemPosition(items, shuffleOrder[place])
  ELSE LET position == CurrentPosition(items, current, hint)
           before == IF position # 0 THEN position - 1
                     ELSE IF current.id # 0 THEN AtMost(hint, Len(items) + 1) - 1
                     ELSE selection - 1
       IN  OrPlace(before, IF wrap THEN Len(items) ELSE 0)

-----------------------------------------------------------------------------
(* Restoring a saved session into a new queue. *)

(* The saved positions that append an item: present in the library, and no
   earlier present entry has the same asset. *)
Restorable(saved) ==
  {i \in DOMAIN saved :
     /\ saved[i] # Gone
     /\ \A j \in 1 .. i - 1 :
          saved[j] # Gone => AssetOf[saved[j]] # AssetOf[saved[i]]}

(* The ways to number S in increasing order: exactly one for a set of
   positions. *)
InOrder(S) ==
  {pick \in Bijection(1 .. Cardinality(S), S) :
     \A a, b \in 1 .. Cardinality(S) : a < b => pick[a] < pick[b]}

(* Where the saved current track ended up: a duplicate counts as the item of
   its asset, a missing one as none (0). *)
RestoredCurrent(its, saved, savedCurrent) ==
  LET same == {i \in DOMAIN its : /\ saved[savedCurrent] # Gone
                                  /\ AssetOf[its[i].entry] = AssetOf[saved[savedCurrent]]}
  IN  IF same = {} THEN 0 ELSE CHOOSE i \in same : TRUE

EmptyQueue ==
  /\ items = <<>>
  /\ queuedAssets = {}
  /\ selection = 1
  /\ queueGen = 0
  /\ nextItemId = 1
  /\ shuffle = FALSE
  /\ shuffleOrder = <<>>
  /\ shuffleCursor = 0

(* `QueueState::restore' on the queue of a session that has just started:
   the restorable entries in their saved order, numbered from 1. *)
RestoredQueue(saved, savedCurrent) ==
  LET kept == Restorable(saved) IN
  /\ kept # {}
  /\ Cardinality(kept) <= MaxItems
  /\ Cardinality(kept) < MaxItemId
  /\ \E pick \in InOrder(kept) :
       items = [k \in 1 .. Cardinality(kept) |-> [id |-> k, entry |-> saved[pick[k]]]]
  /\ queuedAssets = {AssetOf[items[i].entry] : i \in DOMAIN items}
  /\ selection = AtLeast(RestoredCurrent(items, saved, savedCurrent), 1)
  /\ queueGen = 1
  /\ nextItemId = Cardinality(kept) + 1
  /\ shuffle = FALSE
  /\ shuffleOrder = <<>>
  /\ shuffleCursor = 0

-----------------------------------------------------------------------------
(* The queue on its own.  The current track is any item ever queued, removed
   ones included, or none. *)

Currents == {[id |-> n] : n \in 0 .. nextItemId - 1}

QueueInit ==
  \/ EmptyQueue
  \/ \E saved \in Sessions : \E i \in DOMAIN saved : RestoredQueue(saved, i)

QueueNext ==
  \/ \E batch \in Batches : AppendBatch(batch) \/ AppendRejected(batch)
  \/ RemoveSelected
  \/ Clear
  \/ \E down \in BOOLEAN : MoveSelected(down)
  \/ \E position \in 1 .. MaxItems : MoveSelection(position)
  \/ \E on \in BOOLEAN, current \in Currents : SetShuffle(on, current)
  \/ \E position \in 1 .. MaxItems, newRound \in BOOLEAN : SelectTrack(position, newRound)

QueueSpec == QueueInit /\ [][QueueNext]_queueVars

-----------------------------------------------------------------------------
(* Ids name items: no two items share one, and none is at or above the next. *)
IdsUnique ==
  /\ \A i, j \in DOMAIN items : items[i].id = items[j].id => i = j
  /\ \A i \in DOMAIN items : items[i].id \in 1 .. nextItemId - 1

(* The cursor stays inside the order: `previous_index' indexes the order with
   it unchecked when the current track has left the queue. *)
CursorInOrder == shuffleCursor <= Len(shuffleOrder)

(* Types of the queue's variables; the selection is a row of the queue, or 1
   when it is empty (`remove_selected' and `previous_index' index by it), ids and cursor are sound. *)
QueueTypeOK ==
  /\ items \in Seq(Item)
  /\ Len(items) <= MaxItems
  /\ queuedAssets \subseteq Assets
  /\ selection \in 1 .. AtLeast(Len(items), 1)
  /\ queueGen \in 0 .. MaxQueueGen
  /\ nextItemId \in 1 .. MaxItemId
  /\ shuffle \in BOOLEAN
  /\ shuffleOrder \in Seq(Nat)
  /\ shuffleCursor \in Nat
  /\ IdsUnique /\ CursorInOrder

(* An asset is in the queue at most once, and its mark is set exactly while it
   is: a failed append or a removal neither leaks a mark nor drops one. *)
MembershipExact ==
  /\ \A i, j \in DOMAIN items :
       AssetOf[items[i].entry] = AssetOf[items[j].entry] => i = j
  /\ queuedAssets = {AssetOf[items[i].entry] : i \in DOMAIN items}

(* While shuffle is on its order lists every queued id exactly once; while it
   is off the order is empty, so no stale id survives a toggle. *)
ShuffleOrderExact ==
  IF shuffle
  THEN /\ ToSet(shuffleOrder) = Ids(items)
       /\ IsInjective(shuffleOrder)
  ELSE shuffleOrder = <<>>

(* Previous undoes Next, so that the two agree on one play order. *)
PreviousUndoesNext ==
  \A i \in DOMAIN items, wrap \in BOOLEAN :
    LET next == NextPosition(items[i], i, wrap)
    IN  next # 0 => PreviousPosition(items[next], next, wrap) = i

(* With repeat-all, Next goes through the whole queue before it comes back. *)
RoundVisitsEveryTrack ==
  \A i \in DOMAIN items :
    LET visit[k \in 0 .. Len(items)] ==
          IF k = 0 THEN i ELSE NextPosition(items[visit[k - 1]], visit[k - 1], TRUE)
    IN  /\ visit[Len(items)] = i
        /\ {visit[k] : k \in DOMAIN visit} = DOMAIN items

(* A step that edits a shuffled queue keeps the part of the order up to the
   cursor, but for the one item that it takes out of the queue. *)
PlayedKept ==
  shuffle /\ shuffle' /\ items' # items /\ items' # <<>> =>
    LET played == SubSeq(shuffleOrder, 1, shuffleCursor)
        gone == {i \in DOMAIN played : played[i] \notin Ids(items')}
    IN  SubSeq(shuffleOrder', 1, shuffleCursor') =
          IF gone = {} THEN played ELSE RemoveAt(played, CHOOSE i \in gone : TRUE)

(* What has been played stays played: no append, removal or move reorders the
   part of the shuffle order up to the cursor; a removal takes its item out. *)
PlayedPrefixStable == [][PlayedKept]_queueVars

=============================================================================
