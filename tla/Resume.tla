-------------------------------- MODULE Resume --------------------------------
(***************************************************************************)
(* What resuming a listening session promises, whatever the steps in which *)
(* it is stored: the saved session only ever becomes the session that is   *)
(* running, in one step, and a start takes up all of it that the library   *)
(* still has, at the same place, or nothing.                               *)
(***************************************************************************)
EXTENDS Integers, Sequences

CONSTANTS
  Entries, Assets, AssetOf,
  Nothing        \* no session is saved

VARIABLES
  up,            \* whether the player is running
  queue,         \* the entries it has queued
  place,         \* the position of the current one
  position,      \* and how far it has been played
  library,       \* the entries that can be played
  limit,         \* the length that a queue may have
  saved          \* the session on disk

vars == <<up, queue, place, position, library, limit, saved>>

Session == IF queue = <<>> THEN Nothing
           ELSE [entries |-> queue, current |-> place, position |-> position]

(* `part' lists entries of `whole' in its order. *)
PartOf(part, whole) ==
  \E pick \in [1 .. Len(part) -> 1 .. Len(whole)] :
    /\ \A a, b \in 1 .. Len(part) : a < b => pick[a] < pick[b]
    /\ \A k \in 1 .. Len(part) : part[k] = whole[pick[k]]

Files(entries) == {AssetOf[entries[k]] : k \in 1 .. Len(entries)}

(* Every file that was queued and is still there is queued again, once and in
   the saved order. *)
Survives(was, q, lib) ==
  LET present == {k \in 1 .. Len(was) : was[k] \in lib} IN
  /\ PartOf(q, was)
  /\ \A k \in 1 .. Len(q) : q[k] \in lib
  /\ \A k, l \in 1 .. Len(q) : AssetOf[q[k]] = AssetOf[q[l]] => k = l
  /\ Files(q) = {AssetOf[was[k]] : k \in present}

(* The file that was current is so again, as far into it as it was; when it is
   gone the first track is. *)
SamePlace(was, q, at, pos, lib) ==
  LET file == AssetOf[was.entries[was.current]] IN
  IF was.entries[was.current] \in lib
  THEN AssetOf[q[at]] = file /\ pos = was.position
  ELSE at = 1 /\ pos = 0

Init ==
  /\ up = FALSE
  /\ queue = <<>> /\ place = 0 /\ position = 0
  /\ library \subseteq Entries /\ limit \in Nat
  /\ saved = Nothing

Listen ==
  /\ up /\ up'
  /\ UNCHANGED <<library, limit, saved>>

(* The running session is saved; the player may be gone right after. *)
Save ==
  /\ up
  /\ saved' = Session
  /\ UNCHANGED <<queue, place, position, library, limit>>

(* The player ends, in order or not. *)
Leave ==
  /\ up /\ ~up'
  /\ UNCHANGED <<queue, place, position, library, limit, saved>>

Return ==
  /\ ~up /\ up'
  /\ library' \subseteq Entries /\ limit' \in Nat
  /\ UNCHANGED saved
  /\ IF saved = Nothing \/ Len(saved.entries) > limit'
     THEN queue' = <<>>
     ELSE /\ Survives(saved.entries, queue', library')
          /\ queue' # <<>> => SamePlace(saved, queue', place', position', library')

Next == Listen \/ Save \/ Leave \/ Return

Spec == Init /\ [][Next]_vars

=============================================================================
