----------------------------- MODULE QueueProofs -----------------------------
(***************************************************************************)
(* Theorems about the queue, for every library, every bound and every      *)
(* sequence of edits.  None of IdsUnique, MembershipExact,                 *)
(* ShuffleOrderExact and CursorInOrder is inductive alone: the shuffle     *)
(* order stays exact because ids are unique and fresh, membership because  *)
(* an asset is queued once, and the cursor stays inside the order because  *)
(* the order lists exactly the queue.  QueueInv conjoins them with the     *)
(* types and is inductive.                                                 *)
(***************************************************************************)
EXTENDS Queue, SequenceTheorems, FiniteSetTheorems, WellFoundedInduction, TLAPS

-----------------------------------------------------------------------------
(* Facts about sequences that hold each of their elements once, which is what a
   shuffle order is. *)

(* The elements of a sequence are those of its type. *)
LEMMA ToSetType ==
  ASSUME NEW S, NEW s \in Seq(S)
  PROVE  /\ ToSet(s) \subseteq S
         /\ IsFiniteSet(ToSet(s))
         /\ ToSet(s) = {s[i] : i \in 1 .. Len(s)}
<1>1. DOMAIN s = 1 .. Len(s) /\ Len(s) \in Nat
  BY LenProperties
<1>2. \A i \in 1 .. Len(s) : s[i] \in S
  BY ElementOfSeq
<1>3. IsFiniteSet(1 .. Len(s))
  BY <1>1, FS_Interval
<1>4. IsFiniteSet(ToSet(s))
  <2>1. s \in Surjection(1 .. Len(s), ToSet(s))
    BY <1>1 DEF Surjection, ToSet
  <2> QED
    BY <1>3, <2>1, FS_Surjection
<1>5. ToSet(s) = {s[i] : i \in 1 .. Len(s)}
  BY <1>1 DEF ToSet
<1> QED
  BY <1>2, <1>4, <1>5

(* RemoveAt keeps all but the k-th element, in order. *)
LEMMA RemoveAtProperties ==
  ASSUME NEW S, NEW s \in Seq(S), NEW k \in 1 .. Len(s)
  PROVE  /\ RemoveAt(s, k) \in Seq(S)
         /\ Len(RemoveAt(s, k)) = Len(s) - 1
         /\ \A i \in 1 .. Len(s) - 1 :
              RemoveAt(s, k)[i] = IF i < k THEN s[i] ELSE s[i + 1]
<1> DEFINE front == SubSeq(s, 1, k - 1)
           back == SubSeq(s, k + 1, Len(s))
<1>0. Len(s) \in Nat /\ k \in Nat /\ \A i \in 1 .. Len(s) : s[i] \in S
  BY LenProperties, ElementOfSeq
<1>1. /\ front \in Seq(S)
      /\ Len(front) = k - 1
      /\ \A i \in 1 .. k - 1 : front[i] = s[i]
  <2>1. \A i \in 1 .. k - 1 : s[i] \in S
    BY <1>0
  <2> QED
    BY <1>0, <2>1, SubSeqProperties
<1>2. /\ back \in Seq(S)
      /\ Len(back) = Len(s) - k
      /\ \A i \in 1 .. Len(s) - k : back[i] = s[i + k]
  <2>1. \A i \in k + 1 .. Len(s) : s[i] \in S
    BY <1>0
  <2>2. /\ back \in Seq(S)
        /\ Len(back) = IF k + 1 <= Len(s) THEN Len(s) - (k + 1) + 1 ELSE 0
        /\ \A i \in 1 .. Len(s) - (k + 1) + 1 : back[i] = s[(k + 1) + i - 1]
    BY <1>0, <2>1, SubSeqProperties
  <2> HIDE DEF back
  <2> QED
    BY <1>0, <2>2
<1> HIDE DEF front, back
<1>3. /\ front \o back \in Seq(S)
      /\ Len(front \o back) = Len(front) + Len(back)
      /\ \A i \in 1 .. Len(front) + Len(back) :
           (front \o back)[i] = IF i <= Len(front) THEN front[i] ELSE back[i - Len(front)]
  BY <1>1, <1>2, ConcatProperties
<1>4. Len(front \o back) = Len(s) - 1
  BY <1>0, <1>1, <1>2, <1>3
<1>5. \A i \in 1 .. Len(s) - 1 :
        (front \o back)[i] = IF i < k THEN s[i] ELSE s[i + 1]
  <2> SUFFICES ASSUME NEW i \in 1 .. Len(s) - 1
               PROVE  (front \o back)[i] = IF i < k THEN s[i] ELSE s[i + 1]
    OBVIOUS
  <2>1. CASE i < k
    BY <1>0, <1>1, <1>2, <1>3, <2>1
  <2>2. CASE ~(i < k)
    <3> DEFINE j == i - (k - 1)
    <3>1. j \in 1 .. Len(s) - k /\ j + k = i + 1
      BY <1>0, <2>2
    <3>2. back[j] = s[j + k]
      BY <1>2, <3>1
    <3>3. i \in 1 .. Len(front) + Len(back) /\ ~(i <= Len(front)) /\ i - Len(front) = j
      BY <1>0, <1>1, <1>2, <2>2
    <3> HIDE DEF j
    <3>4. (front \o back)[i] = back[j]
      BY <1>3, <3>3
    <3> QED
      BY <2>2, <3>1, <3>2, <3>4
  <2> QED
    BY <2>1, <2>2
<1>6. RemoveAt(s, k) = front \o back
  BY DEF RemoveAt, front, back
<1> QED
  BY <1>3, <1>4, <1>5, <1>6

(* Taking the k-th of distinct elements out leaves the others, still distinct. *)
LEMMA RemoveAtDistinct ==
  ASSUME NEW S, NEW s \in Seq(S), NEW k \in 1 .. Len(s), IsInjective(s)
  PROVE  /\ IsInjective(RemoveAt(s, k))
         /\ ToSet(RemoveAt(s, k)) = ToSet(s) \ {s[k]}
<1> DEFINE r == RemoveAt(s, k)
<1>0. Len(s) \in Nat /\ k \in Nat /\ DOMAIN s = 1 .. Len(s)
  BY LenProperties
<1>1. /\ r \in Seq(S)
      /\ Len(r) = Len(s) - 1
      /\ \A i \in 1 .. Len(s) - 1 : r[i] = IF i < k THEN s[i] ELSE s[i + 1]
  BY RemoveAtProperties
<1> HIDE DEF r
<1>2. DOMAIN r = 1 .. Len(s) - 1
  BY <1>1, LenProperties
<1>3. \A a, b \in 1 .. Len(s) : s[a] = s[b] => a = b
  BY <1>0 DEF IsInjective
<1>4. IsInjective(r)
  <2> SUFFICES ASSUME NEW a \in 1 .. Len(s) - 1, NEW b \in 1 .. Len(s) - 1, r[a] = r[b]
               PROVE  a = b
    BY <1>2 DEF IsInjective
  <2> DEFINE at(i) == IF i < k THEN i ELSE i + 1
  <2>1. at(a) \in 1 .. Len(s) /\ at(b) \in 1 .. Len(s) /\ (at(a) = at(b) => a = b)
    BY <1>0
  <2>2. r[a] = s[at(a)] /\ r[b] = s[at(b)]
    BY <1>1
  <2> QED
    BY <1>3, <2>1, <2>2
<1>5. ASSUME NEW x PROVE x \in ToSet(r) <=> x \in ToSet(s) \ {s[k]}
  <2>1. ASSUME NEW i \in 1 .. Len(s) - 1, x = r[i]
        PROVE  x \in ToSet(s) \ {s[k]}
    <3> DEFINE j == IF i < k THEN i ELSE i + 1
    <3>1. j \in 1 .. Len(s) /\ j # k
      BY <1>0
    <3>2. x = s[j]
      BY <1>1, <2>1
    <3> QED
      BY <1>0, <1>3, <3>1, <3>2 DEF ToSet
  <2>2. ASSUME NEW i \in 1 .. Len(s), x = s[i], i # k
        PROVE  x \in ToSet(r)
    <3> DEFINE j == IF i < k THEN i ELSE i - 1
    <3>1. j \in 1 .. Len(s) - 1 /\ (IF j < k THEN j ELSE j + 1) = i
      BY <1>0, <2>2
    <3>2. r[j] = x
      BY <1>1, <2>2, <3>1
    <3> QED
      BY <1>2, <3>1, <3>2 DEF ToSet
  <2> QED
    BY <1>0, <1>2, <2>1, <2>2 DEF ToSet
<1> QED
  BY <1>4, <1>5 DEF r

(* A prefix of distinct elements. *)
LEMMA PrefixDistinct ==
  ASSUME NEW S, NEW s \in Seq(S), NEW n \in 0 .. Len(s), IsInjective(s)
  PROVE  /\ SubSeq(s, 1, n) \in Seq(S)
         /\ Len(SubSeq(s, 1, n)) = n
         /\ IsInjective(SubSeq(s, 1, n))
         /\ ToSet(SubSeq(s, 1, n)) = {s[i] : i \in 1 .. n}
<1> DEFINE p == SubSeq(s, 1, n)
<1>0. Len(s) \in Nat /\ n \in Nat /\ DOMAIN s = 1 .. Len(s)
  BY LenProperties
<1>1. \A i \in 1 .. n : s[i] \in S
  BY <1>0, ElementOfSeq
<1>2. p \in Seq(S) /\ Len(p) = n /\ \A i \in 1 .. n : p[i] = s[i]
  BY <1>0, <1>1, SubSeqProperties
<1> HIDE DEF p
<1>3. DOMAIN p = 1 .. n
  BY <1>2, LenProperties
<1>4. IsInjective(p)
  BY <1>0, <1>2, <1>3 DEF IsInjective
<1>5. ToSet(p) = {s[i] : i \in 1 .. n}
  BY <1>2, <1>3 DEF ToSet
<1> QED
  BY <1>2, <1>4, <1>5 DEF p

(* Two sequences of distinct elements that have none in common. *)
LEMMA ConcatDistinct ==
  ASSUME NEW S, NEW s \in Seq(S), NEW t \in Seq(S),
         IsInjective(s), IsInjective(t), ToSet(s) \cap ToSet(t) = {}
  PROVE  /\ s \o t \in Seq(S)
         /\ Len(s \o t) = Len(s) + Len(t)
         /\ IsInjective(s \o t)
         /\ ToSet(s \o t) = ToSet(s) \cup ToSet(t)
<1> DEFINE c == s \o t
<1>0. /\ Len(s) \in Nat /\ DOMAIN s = 1 .. Len(s)
      /\ Len(t) \in Nat /\ DOMAIN t = 1 .. Len(t)
  BY LenProperties
<1>1. /\ c \in Seq(S)
      /\ Len(c) = Len(s) + Len(t)
      /\ \A i \in 1 .. Len(s) + Len(t) :
           c[i] = IF i <= Len(s) THEN s[i] ELSE t[i - Len(s)]
  BY ConcatProperties
<1> HIDE DEF c
<1>2. DOMAIN c = 1 .. Len(s) + Len(t)
  BY <1>1, LenProperties
<1>3. ASSUME NEW i \in 1 .. Len(s) PROVE c[i] = s[i] /\ s[i] \in ToSet(s)
  <2>1. i \in 1 .. Len(s) + Len(t) /\ i <= Len(s)
    BY <1>0
  <2>2. s[i] \in ToSet(s)
    BY <1>0 DEF ToSet
  <2> QED
    BY <1>1, <2>1, <2>2
<1>4. ASSUME NEW i \in Len(s) + 1 .. Len(s) + Len(t)
      PROVE  /\ i - Len(s) \in 1 .. Len(t)
             /\ c[i] = t[i - Len(s)]
             /\ t[i - Len(s)] \in ToSet(t)
  <2>1. i \in 1 .. Len(s) + Len(t) /\ ~(i <= Len(s)) /\ i - Len(s) \in 1 .. Len(t)
    BY <1>0
  <2>2. t[i - Len(s)] \in ToSet(t)
    BY <1>0, <2>1 DEF ToSet
  <2> QED
    BY <1>1, <2>1, <2>2
<1>5. IsInjective(c)
  <2> SUFFICES ASSUME NEW a \in 1 .. Len(s) + Len(t), NEW b \in 1 .. Len(s) + Len(t),
                      c[a] = c[b]
               PROVE  a = b
    BY <1>2 DEF IsInjective
  <2>1. CASE a <= Len(s) /\ b <= Len(s)
    BY <1>0, <1>3, <2>1 DEF IsInjective
  <2>2. CASE ~(a <= Len(s)) /\ ~(b <= Len(s))
    <3>1. /\ a - Len(s) \in 1 .. Len(t) /\ b - Len(s) \in 1 .. Len(t)
          /\ t[a - Len(s)] = t[b - Len(s)]
      BY <1>0, <1>4, <2>2
    <3>2. a - Len(s) = b - Len(s)
      BY <1>0, <3>1 DEF IsInjective
    <3> QED
      BY <1>0, <3>2
  <2>3. CASE a <= Len(s) /\ ~(b <= Len(s))
    BY <1>0, <1>3, <1>4, <2>3
  <2>4. CASE ~(a <= Len(s)) /\ b <= Len(s)
    BY <1>0, <1>3, <1>4, <2>4
  <2> QED
    BY <2>1, <2>2, <2>3, <2>4
<1>6. ASSUME NEW x PROVE x \in ToSet(c) <=> x \in ToSet(s) \cup ToSet(t)
  <2>1. ASSUME NEW i \in 1 .. Len(s) + Len(t), x = c[i]
        PROVE  x \in ToSet(s) \cup ToSet(t)
    <3>1. CASE i <= Len(s)
      BY <1>0, <1>3, <2>1, <3>1
    <3>2. CASE ~(i <= Len(s))
      BY <1>0, <1>4, <2>1, <3>2
    <3> QED
      BY <3>1, <3>2
  <2>2. ASSUME NEW i \in 1 .. Len(s), x = s[i]
        PROVE  x \in ToSet(c)
    <3>1. i \in 1 .. Len(s) + Len(t) /\ x = c[i]
      BY <1>0, <1>3, <2>2
    <3> QED
      BY <1>2, <3>1 DEF ToSet
  <2>3. ASSUME NEW i \in 1 .. Len(t), x = t[i]
        PROVE  x \in ToSet(c)
    <3> DEFINE j == i + Len(s)
    <3>1. j \in Len(s) + 1 .. Len(s) + Len(t) /\ j - Len(s) = i
      BY <1>0
    <3>2. x = c[j] /\ j \in 1 .. Len(s) + Len(t)
      BY <1>0, <1>4, <2>3, <3>1
    <3> QED
      BY <1>2, <3>2 DEF ToSet
  <2> QED
    BY <1>0, <1>2, <2>1, <2>2, <2>3 DEF ToSet
<1> QED
  BY <1>1, <1>5, <1>6 DEF c

(* A bijection from an interval lists a finite set. *)
LEMMA ListingDistinct ==
  ASSUME NEW S, IsFiniteSet(S), NEW s \in Bijection(1 .. Cardinality(S), S)
  PROVE  /\ s \in Seq(S)
         /\ Len(s) = Cardinality(S)
         /\ IsInjective(s)
         /\ ToSet(s) = S
<1>1. Cardinality(S) \in Nat
  BY FS_CardinalityType
<1>2. /\ s \in [1 .. Cardinality(S) -> S]
      /\ IsInjective(s)
      /\ \A x \in S : \E i \in 1 .. Cardinality(S) : s[i] = x
  BY DEF Bijection, Injection, Surjection
<1>3. s \in Seq(S) /\ Len(s) = Cardinality(S)
  BY <1>1, <1>2
<1>4. ToSet(s) = S
  BY <1>2 DEF ToSet
<1> QED
  BY <1>2, <1>3, <1>4

-----------------------------------------------------------------------------
(* The parts of the invariant. *)

(* The part of the invariant about the shuffle order, as a step establishes it. *)
OrderOK(on, ids, order, cursor) ==
  /\ order \in Seq(Nat)
  /\ cursor \in 0 .. Len(order)
  /\ IF on THEN ToSet(order) = ids /\ IsInjective(order) ELSE order = <<>>

(* The part about the items. *)
ItemsOK(its, marks, next) ==
  /\ its \in Seq(Item)
  /\ Len(its) <= MaxItems
  /\ next \in 1 .. MaxItemId
  /\ \A i, j \in 1 .. Len(its) : its[i].id = its[j].id => i = j
  /\ \A i \in 1 .. Len(its) : its[i].id \in 1 .. next - 1
  /\ \A i, j \in 1 .. Len(its) :
       AssetOf[its[i].entry] = AssetOf[its[j].entry] => i = j
  /\ marks = {AssetOf[its[i].entry] : i \in 1 .. Len(its)}

SelectionOK(its, sel) == sel \in 1 .. AtLeast(Len(its), 1)

QueueInv ==
  /\ ItemsOK(items, queuedAssets, nextItemId)
  /\ OrderOK(shuffle, Ids(items), shuffleOrder, shuffleCursor)
  /\ SelectionOK(items, selection)
  /\ queueGen \in 0 .. MaxQueueGen
  /\ shuffle \in BOOLEAN

-----------------------------------------------------------------------------
(* What the items of a queue are. *)
LEMMA ItemsFacts ==
  ASSUME QueueAssumption, NEW its, NEW marks, NEW next, ItemsOK(its, marks, next)
  PROVE  /\ Len(its) \in Nat
         /\ DOMAIN its = 1 .. Len(its)
         /\ \A i \in 1 .. Len(its) :
              /\ its[i] \in Item
              /\ its[i].id \in 1 .. next - 1
              /\ its[i].id \in Nat
              /\ its[i].entry \in Entries
         /\ Ids(its) \subseteq 1 .. next - 1
         /\ Ids(its) \subseteq Nat
         /\ IsFiniteSet(Ids(its))
<1>1. Len(its) \in Nat /\ DOMAIN its = 1 .. Len(its)
  BY LenProperties DEF ItemsOK
<1>2. \A i \in 1 .. Len(its) : its[i] \in Item
  BY ElementOfSeq DEF ItemsOK
<1>3. \A i \in 1 .. Len(its) : its[i].id \in 1 .. next - 1
  BY DEF ItemsOK
<1>4. next - 1 \in Int
  BY DEF ItemsOK, QueueAssumption
<1>5. Ids(its) \subseteq 1 .. next - 1 /\ Ids(its) \subseteq Nat
  BY <1>1, <1>2, <1>3 DEF Ids, Item
<1>6. IsFiniteSet(Ids(its))
  BY <1>4, <1>5, FS_Interval, FS_Subset
<1> QED
  BY <1>1, <1>2, <1>3, <1>5, <1>6 DEF Item

(* The record an item is made of. *)
LEMMA ItemFields ==
  ASSUME NEW id \in Nat, NEW entry \in Entries, NEW item,
         item = [id |-> id, entry |-> entry]
  PROVE  item \in Item /\ item.id = id /\ item.entry = entry
BY DEF Item

(* The inductive invariant implies the type invariant and the four others. *)
LEMMA QueueInvImplies ==
  ASSUME QueueAssumption, QueueInv
  PROVE  QueueTypeOK /\ IdsUnique /\ MembershipExact /\ ShuffleOrderExact /\ CursorInOrder
<1>1. ItemsOK(items, queuedAssets, nextItemId)
  BY DEF QueueInv
<1>2. /\ Len(items) \in Nat /\ DOMAIN items = 1 .. Len(items)
      /\ \A i \in 1 .. Len(items) : items[i].entry \in Entries
  BY <1>1, ItemsFacts
<1>3. Len(shuffleOrder) \in Nat
  BY LenProperties DEF QueueInv, OrderOK
<1>4. queuedAssets \subseteq Assets
  BY <1>1, <1>2 DEF ItemsOK, QueueAssumption
<1>5. IdsUnique /\ MembershipExact
  BY <1>1, <1>2 DEF ItemsOK, IdsUnique, MembershipExact
<1>6. ShuffleOrderExact /\ CursorInOrder /\ shuffleCursor \in Nat
  BY <1>3 DEF QueueInv, OrderOK, ShuffleOrderExact, CursorInOrder
<1>7. QueueTypeOK
  BY <1>4, <1>5, <1>6 DEF QueueInv, QueueTypeOK, ItemsOK, SelectionOK, OrderOK
<1> QED
  BY <1>5, <1>6, <1>7

(* The place of an id in an order. *)
LEMMA OrderPositionFacts ==
  ASSUME NEW order \in Seq(Nat), NEW id
  PROVE  /\ OrderPosition(order, id) \in 0 .. Len(order)
         /\ OrderPosition(order, id) # 0 => order[OrderPosition(order, id)] = id
<1>1. Len(order) \in Nat /\ DOMAIN order = 1 .. Len(order)
  BY LenProperties
<1>2. CASE id \in ToSet(order)
  <2>1. \E i \in DOMAIN order : order[i] = id
    BY <1>2 DEF ToSet
  <2>2. OrderPosition(order, id) = CHOOSE i \in DOMAIN order : order[i] = id
    BY <1>2 DEF OrderPosition
  <2>3. OrderPosition(order, id) \in DOMAIN order /\ order[OrderPosition(order, id)] = id
    BY <2>1, <2>2
  <2> QED
    BY <1>1, <2>3
<1>3. CASE id \notin ToSet(order)
  BY <1>1, <1>3 DEF OrderPosition
<1> QED
  BY <1>2, <1>3

-----------------------------------------------------------------------------
(* What the operations on the shuffle order establish. *)

(* A fresh order lists the queue, and the cursor is on its first id or before it. *)
LEMMA RefreshEstablishes ==
  ASSUME NEW on \in BOOLEAN, NEW its, NEW current,
         Ids(its) \subseteq Nat, IsFiniteSet(Ids(its)),
         RefreshShuffleOrder(on, its, current)
  PROVE  OrderOK(on, Ids(its), shuffleOrder', shuffleCursor')
<1>1. CASE ~on
  <2>1. shuffleOrder' = <<>> /\ shuffleCursor' = 0
    BY <1>1 DEF RefreshShuffleOrder
  <2>2. <<>> \in Seq(Nat) /\ Len(<<>>) = 0
    BY EmptySeq
  <2> QED
    BY <1>1, <2>1, <2>2 DEF OrderOK
<1>2. CASE on
  <2>1. shuffleOrder' \in Bijection(1 .. Cardinality(Ids(its)), Ids(its))
    BY <1>2 DEF RefreshShuffleOrder, Orders
  <2>2. /\ shuffleOrder' \in Seq(Ids(its))
        /\ Len(shuffleOrder') = Cardinality(Ids(its))
        /\ IsInjective(shuffleOrder')
        /\ ToSet(shuffleOrder') = Ids(its)
    BY <2>1, ListingDistinct
  <2>3. shuffleOrder' \in Seq(Nat)
    BY <2>2, SeqMonotonic
  <2>4. Cardinality(Ids(its)) \in Nat
    BY FS_CardinalityType
  <2>5. shuffleCursor' \in 0 .. Len(shuffleOrder')
    <3>1. CASE current.id \in Ids(its)
      <4>1. Cardinality(Ids(its)) # 0
        BY <3>1, FS_EmptySet
      <4>2. shuffleCursor' = 1
        BY <1>2, <3>1 DEF RefreshShuffleOrder
      <4> QED
        BY <2>2, <2>4, <4>1, <4>2
    <3>2. CASE current.id \notin Ids(its)
      <4>1. shuffleCursor' = 0
        BY <1>2, <3>2 DEF RefreshShuffleOrder
      <4> QED
        BY <2>2, <2>4, <4>1
    <3> QED
      BY <3>1, <3>2
  <2> QED
    BY <1>2, <2>2, <2>3, <2>5 DEF OrderOK
<1> QED
  BY <1>1, <1>2

(* Choosing a track keeps the order and moves the cursor within it. *)
LEMMA SelectCurrentEstablishes ==
  ASSUME NEW ids, NEW item, shuffle \in BOOLEAN,
         OrderOK(shuffle, ids, shuffleOrder, shuffleCursor),
         SelectCurrent(item), UNCHANGED shuffleOrder
  PROVE  OrderOK(shuffle, ids, shuffleOrder', shuffleCursor')
<1>1. shuffleOrder \in Seq(Nat)
  BY DEF OrderOK
<1>2. OrderPosition(shuffleOrder, item.id) \in 0 .. Len(shuffleOrder)
  BY <1>1, OrderPositionFacts
<1>3. shuffleCursor' \in 0 .. Len(shuffleOrder)
  BY <1>2 DEF SelectCurrent, OrderOK
<1> QED
  BY <1>3 DEF OrderOK

LEMMA TrackSelectedEstablishes ==
  ASSUME NEW its, NEW position, NEW newRound \in BOOLEAN, shuffle \in BOOLEAN,
         Ids(its) \subseteq Nat, IsFiniteSet(Ids(its)),
         OrderOK(shuffle, Ids(its), shuffleOrder, shuffleCursor),
         TrackSelected(its, position, newRound)
  PROVE  OrderOK(shuffle, Ids(its), shuffleOrder', shuffleCursor')
<1>1. CASE newRound
  BY <1>1, RefreshEstablishes DEF TrackSelected
<1>2. CASE ~newRound
  BY <1>2, SelectCurrentEstablishes DEF TrackSelected
<1> QED
  BY <1>1, <1>2

(* New ids join the order behind the cursor. *)
LEMMA ExtendEstablishes ==
  ASSUME NEW ids, NEW newIds, shuffle \in BOOLEAN,
         newIds \subseteq Nat, IsFiniteSet(newIds), ids \cap newIds = {},
         OrderOK(shuffle, ids, shuffleOrder, shuffleCursor),
         ExtendShuffleOrder(newIds)
  PROVE  OrderOK(shuffle, ids \cup newIds, shuffleOrder', shuffleCursor')
<1>1. CASE ~shuffle
  BY <1>1 DEF OrderOK, ExtendShuffleOrder
<1>2. CASE shuffle
  <2> DEFINE n == Len(shuffleOrder)
             played == SubSeq(shuffleOrder, 1, shuffleCursor)
             waiting == {shuffleOrder[i] : i \in shuffleCursor + 1 .. n}
  <2>1. /\ shuffleOrder \in Seq(Nat) /\ IsInjective(shuffleOrder)
        /\ ToSet(shuffleOrder) = ids
        /\ shuffleCursor \in 0 .. n
    BY <1>2 DEF OrderOK
  <2>2. n \in Nat /\ DOMAIN shuffleOrder = 1 .. n
    BY <2>1, LenProperties
  <2>3. AtMost(shuffleCursor, n) = shuffleCursor
    BY <2>1, <2>2 DEF AtMost
  <2>4. PICK rest \in Bijection(1 .. Cardinality(waiting \cup newIds), waiting \cup newIds) :
          shuffleOrder' = played \o rest
    BY <1>2, <2>3 DEF ExtendShuffleOrder, Orders
  <2>5. shuffleCursor' = shuffleCursor
    BY <1>2 DEF ExtendShuffleOrder
  <2>6. /\ played \in Seq(Nat) /\ Len(played) = shuffleCursor /\ IsInjective(played)
        /\ ToSet(played) = {shuffleOrder[i] : i \in 1 .. shuffleCursor}
    BY <2>1, PrefixDistinct
  <2>7. waiting \subseteq ids /\ ids \subseteq Nat /\ IsFiniteSet(ids)
    <3>1. ids \subseteq Nat /\ IsFiniteSet(ids)
      BY <2>1, ToSetType
    <3>2. \A i \in shuffleCursor + 1 .. n : shuffleOrder[i] \in ids
      BY <2>1, <2>2 DEF ToSet
    <3> QED
      BY <3>1, <3>2
  <2>8. IsFiniteSet(waiting \cup newIds) /\ waiting \cup newIds \subseteq Nat
    <3>1. IsFiniteSet(waiting)
      BY <2>7, FS_Subset
    <3> QED
      BY <2>7, <3>1, FS_Union
  <2>9. /\ rest \in Seq(waiting \cup newIds) /\ IsInjective(rest)
        /\ ToSet(rest) = waiting \cup newIds
    BY <2>4, <2>8, ListingDistinct
  <2>10. rest \in Seq(Nat) /\ Len(rest) \in Nat
    BY <2>8, <2>9, SeqMonotonic, LenProperties
  <2>11. ToSet(played) \cap ToSet(rest) = {}
    <3>1. \A i \in 1 .. shuffleCursor, j \in shuffleCursor + 1 .. n :
            shuffleOrder[i] # shuffleOrder[j]
      BY <2>1, <2>2 DEF IsInjective
    <3>2. \A i \in 1 .. shuffleCursor : shuffleOrder[i] \in ids
      BY <2>1, <2>2 DEF ToSet
    <3> QED
      BY <2>6, <2>9, <3>1, <3>2
  <2>12. ToSet(played) \cup ToSet(rest) = ids \cup newIds
    <3>1. ids = {shuffleOrder[i] : i \in 1 .. n}
      BY <2>1, <2>2 DEF ToSet
    <3>2. 1 .. n = (1 .. shuffleCursor) \cup (shuffleCursor + 1 .. n)
      BY <2>1, <2>2
    <3>3. ids = ToSet(played) \cup waiting
      BY <2>6, <3>1, <3>2
    <3> QED
      BY <2>9, <3>3
  <2> HIDE DEF played, waiting, n
  <2>13. /\ played \o rest \in Seq(Nat) /\ IsInjective(played \o rest)
         /\ Len(played \o rest) = Len(played) + Len(rest)
         /\ ToSet(played \o rest) = ids \cup newIds
    <3>1. /\ played \o rest \in Seq(Nat) /\ IsInjective(played \o rest)
          /\ Len(played \o rest) = Len(played) + Len(rest)
          /\ ToSet(played \o rest) = ToSet(played) \cup ToSet(rest)
      <4>1. played \in Seq(Nat) /\ rest \in Seq(Nat) /\ IsInjective(played) /\ IsInjective(rest)
        BY <2>6, <2>9, <2>10
      <4> QED
        BY <2>11, <4>1, ConcatDistinct
    <3> QED
      BY <2>12, <3>1
  <2>14. shuffleCursor' \in 0 .. Len(shuffleOrder')
    <3>1. Len(shuffleOrder') = shuffleCursor + Len(rest)
      BY <2>4, <2>6, <2>13
    <3> QED
      BY <2>1, <2>2, <2>5, <2>10, <3>1
  <2> QED
    BY <1>2, <2>4, <2>13, <2>14 DEF OrderOK
<1> QED
  BY <1>1, <1>2

(* Taking an id out of the order pulls the cursor back when it was played. *)
LEMMA RemoveEstablishes ==
  ASSUME NEW ids, NEW id, shuffle \in BOOLEAN, id \in ids,
         OrderOK(shuffle, ids, shuffleOrder, shuffleCursor),
         RemoveFromShuffleOrder(id)
  PROVE  OrderOK(shuffle, ids \ {id}, shuffleOrder', shuffleCursor')
<1>1. CASE ~shuffle
  BY <1>1 DEF OrderOK, RemoveFromShuffleOrder
<1>2. CASE shuffle
  <2> DEFINE k == OrderPosition(shuffleOrder, id)
  <2>1. /\ shuffleOrder \in Seq(Nat) /\ IsInjective(shuffleOrder)
        /\ ToSet(shuffleOrder) = ids
        /\ shuffleCursor \in 0 .. Len(shuffleOrder)
    BY <1>2 DEF OrderOK
  <2>2. Len(shuffleOrder) \in Nat /\ DOMAIN shuffleOrder = 1 .. Len(shuffleOrder)
    BY <2>1, LenProperties
  <2>3. k \in 1 .. Len(shuffleOrder) /\ shuffleOrder[k] = id
    <3>1. \E i \in DOMAIN shuffleOrder : shuffleOrder[i] = id
      BY <2>1 DEF ToSet
    <3>2. k = CHOOSE i \in DOMAIN shuffleOrder : shuffleOrder[i] = id
      BY <2>1 DEF OrderPosition
    <3>3. k \in DOMAIN shuffleOrder /\ shuffleOrder[k] = id
      BY <3>1, <3>2
    <3> QED
      BY <2>2, <3>3
  <2> HIDE DEF k
  <2>4. k # 0
    BY <2>2, <2>3
  <2>5. /\ shuffleOrder' = RemoveAt(shuffleOrder, k)
        /\ shuffleCursor' = IF k <= shuffleCursor THEN shuffleCursor - 1 ELSE shuffleCursor
    BY <1>2, <2>4 DEF RemoveFromShuffleOrder, k
  <2>6. /\ RemoveAt(shuffleOrder, k) \in Seq(Nat)
        /\ Len(RemoveAt(shuffleOrder, k)) = Len(shuffleOrder) - 1
    BY <2>1, <2>3, RemoveAtProperties
  <2>7. /\ IsInjective(RemoveAt(shuffleOrder, k))
        /\ ToSet(RemoveAt(shuffleOrder, k)) = ids \ {id}
    BY <2>1, <2>3, RemoveAtDistinct
  <2>8. shuffleCursor' \in 0 .. Len(shuffleOrder')
    <3>1. Len(shuffleOrder') = Len(shuffleOrder) - 1
      BY <2>5, <2>6
    <3> QED
      BY <2>1, <2>2, <2>3, <2>5, <3>1
  <2> QED
    BY <1>2, <2>5, <2>6, <2>7, <2>8 DEF OrderOK
<1> QED
  BY <1>1, <1>2

-----------------------------------------------------------------------------
(* Initial states. *)

LEMMA EmptyQueueInv ==
  ASSUME QueueAssumption, EmptyQueue
  PROVE  QueueInv
<1>1. items \in Seq(Item) /\ Len(items) = 0 /\ shuffleOrder \in Seq(Nat) /\ Len(shuffleOrder) = 0
  BY EmptySeq DEF EmptyQueue
<1>2. ItemsOK(items, queuedAssets, nextItemId)
  BY <1>1 DEF ItemsOK, EmptyQueue, QueueAssumption
<1>3. OrderOK(shuffle, Ids(items), shuffleOrder, shuffleCursor)
  BY <1>1 DEF OrderOK, EmptyQueue
<1>4. SelectionOK(items, selection)
  BY <1>1 DEF SelectionOK, EmptyQueue, AtLeast
<1>5. queueGen \in 0 .. MaxQueueGen
  BY DEF EmptyQueue, QueueAssumption
<1>6. shuffle \in BOOLEAN
  BY DEF EmptyQueue
<1> QED
  BY <1>2, <1>3, <1>4, <1>5, <1>6 DEF QueueInv

(* A set of naturals has a least element. *)
LEMMA LeastElement ==
  ASSUME NEW T \in SUBSET Nat, T # {}
  PROVE  \E x \in T : \A y \in T : x <= y
<1> DEFINE below == OpToRel(<, Nat)
<1>1. IsWellFoundedOn(below, Nat)
  BY NatLessThanWellFounded
<1>2. ASSUME NEW x \in Nat, NEW y \in Nat, x < y PROVE <<x, y>> \in below
  BY <1>2 DEF OpToRel
<1> HIDE DEF below
<1>3. PICK x \in T : \A y \in T : ~ (<<y, x>> \in below)
  <2>1. T \subseteq Nat
    OBVIOUS
  <2> QED
    BY <1>1, <2>1, WFMin
<1>4. ASSUME NEW y \in T PROVE x <= y
  <2>1. x \in Nat /\ y \in Nat /\ ~ (<<y, x>> \in below)
    BY <1>3
  <2>2. ~ (y < x)
    BY <1>2, <2>1
  <2> QED
    BY <2>1, <2>2
<1> QED
  BY <1>4

(* The positions of a saved queue that are restored: not more than it has, with
   entries of the library whose assets differ, one for each asset that is left. *)
LEMMA RestorableFacts ==
  ASSUME QueueAssumption, NEW saved \in Seq(Entries \cup {Gone})
  PROVE  /\ Restorable(saved) \subseteq 1 .. Len(saved)
         /\ IsFiniteSet(Restorable(saved))
         /\ Cardinality(Restorable(saved)) \in 0 .. Len(saved)
         /\ \A i \in Restorable(saved) : saved[i] \in Entries
         /\ \A i, j \in Restorable(saved) :
              AssetOf[saved[i]] = AssetOf[saved[j]] => i = j
         /\ \A k \in 1 .. Len(saved) : saved[k] # Gone =>
              \E i \in Restorable(saved) : AssetOf[saved[i]] = AssetOf[saved[k]]
<1> DEFINE kept == Restorable(saved)
<1>1. Len(saved) \in Nat /\ DOMAIN saved = 1 .. Len(saved)
  BY LenProperties
<1>2. \A k \in 1 .. Len(saved) : saved[k] \in Entries \cup {Gone}
  BY ElementOfSeq
<1>3. kept \subseteq 1 .. Len(saved)
  BY <1>1 DEF Restorable
<1>4. IsFiniteSet(kept) /\ Cardinality(kept) \in 0 .. Len(saved)
  <2>1. IsFiniteSet(1 .. Len(saved)) /\ Cardinality(1 .. Len(saved)) = Len(saved)
    <3>1. IsFiniteSet(1 .. Len(saved))
      BY <1>1, FS_Interval
    <3>2. CASE Len(saved) = 0
      <4>1. 1 .. Len(saved) = {}
        BY <3>2
      <4> QED
        BY <3>1, <3>2, <4>1, FS_EmptySet
    <3>3. CASE Len(saved) # 0
      BY <1>1, <3>1, <3>3, FS_Interval
    <3> QED
      BY <3>2, <3>3
  <2>2. IsFiniteSet(kept) /\ Cardinality(kept) <= Len(saved)
    BY <1>3, <2>1, FS_Subset
  <2>3. Cardinality(kept) \in Nat
    BY <2>2, FS_CardinalityType
  <2> QED
    BY <1>1, <2>2, <2>3
<1>5. \A i \in kept : saved[i] \in Entries
  BY <1>2, <1>3 DEF Restorable
<1>6. \A i, j \in kept : AssetOf[saved[i]] = AssetOf[saved[j]] => i = j
  <2> SUFFICES ASSUME NEW i \in kept, NEW j \in kept, i < j
               PROVE  AssetOf[saved[i]] # AssetOf[saved[j]]
    BY <1>1, <1>3
  <2>1. i \in 1 .. j - 1
    BY <1>1, <1>3
  <2> QED
    BY <2>1 DEF Restorable
<1>7. ASSUME NEW k \in 1 .. Len(saved), saved[k] # Gone
      PROVE  \E i \in kept : AssetOf[saved[i]] = AssetOf[saved[k]]
  <2> DEFINE alike == {j \in 1 .. Len(saved) :
                         saved[j] # Gone /\ AssetOf[saved[j]] = AssetOf[saved[k]]}
  <2>1. alike \in SUBSET Nat /\ alike # {}
    BY <1>1, <1>7
  <2>2. PICK i \in alike : \A j \in alike : i <= j
    BY <2>1, LeastElement
  <2>3. ASSUME NEW j \in 1 .. i - 1, saved[j] # Gone PROVE AssetOf[saved[j]] # AssetOf[saved[i]]
    <3>1. i \in 1 .. Len(saved) /\ j \in 1 .. Len(saved) /\ ~(i <= j)
      BY <1>1, <2>2
    <3>2. j \notin alike
      BY <2>2, <3>1
    <3> QED
      BY <2>2, <2>3, <3>1, <3>2
  <2>4. i \in kept
    BY <1>1, <2>2, <2>3 DEF Restorable
  <2> QED
    BY <2>2, <2>4
<1> QED
  BY <1>3, <1>4, <1>5, <1>6, <1>7

(* The items made of them. *)
RestoredItems(saved, pick) ==
  [k \in DOMAIN pick |-> [id |-> k, entry |-> saved[pick[k]]]]

(* They are what is restorable, each once and in the order of the session. *)
AreRestored(its, saved, pick) ==
  /\ its \in Seq(Item)
  /\ Len(its) = Cardinality(Restorable(saved))
  /\ DOMAIN pick = 1 .. Len(its)
  /\ \A k \in 1 .. Len(its) :
       /\ pick[k] \in Restorable(saved)
       /\ its[k].id = k
       /\ its[k].entry = saved[pick[k]]
  /\ \A a, b \in 1 .. Len(its) : a < b => pick[a] < pick[b]
  /\ \A a, b \in 1 .. Len(its) : pick[a] = pick[b] => a = b
  /\ \A i \in Restorable(saved) : \E k \in 1 .. Len(its) : pick[k] = i

LEMMA RestoredItemsFacts ==
  ASSUME QueueAssumption, NEW saved \in Seq(Entries \cup {Gone}),
         NEW pick \in InOrder(Restorable(saved)),
         NEW its, its = RestoredItems(saved, pick)
  PROVE  AreRestored(its, saved, pick)
<1> DEFINE kept == Restorable(saved)
           n == Cardinality(kept)
<1>1. /\ n \in Nat /\ kept \subseteq 1 .. Len(saved)
      /\ \A i \in kept : saved[i] \in Entries
  BY RestorableFacts
<1>2. /\ DOMAIN pick = 1 .. n
      /\ \A k \in 1 .. n : pick[k] \in kept
      /\ \A a, b \in 1 .. n : pick[a] = pick[b] => a = b
      /\ \A i \in kept : \E k \in 1 .. n : pick[k] = i
      /\ \A a, b \in 1 .. n : a < b => pick[a] < pick[b]
  BY DEF InOrder, Bijection, Injection, Surjection, IsInjective
<1> HIDE DEF kept, n
<1>3. its = [k \in 1 .. n |-> [id |-> k, entry |-> saved[pick[k]]]]
  BY <1>2 DEF RestoredItems
<1>4. ASSUME NEW k \in 1 .. n
      PROVE  its[k] \in Item /\ its[k].id = k /\ its[k].entry = saved[pick[k]]
  <2>1. its[k] = [id |-> k, entry |-> saved[pick[k]]]
    BY <1>3
  <2>2. k \in Nat
    BY <1>1
  <2>3. saved[pick[k]] \in Entries
    BY <1>1, <1>2
  <2> QED
    BY <2>1, <2>2, <2>3, ItemFields
<1>5. its \in Seq(Item) /\ Len(its) = n
  <2>1. its \in [1 .. n -> Item]
    BY <1>3, <1>4
  <2> QED
    BY <1>1, <2>1
<1> QED
  BY <1>2, <1>4, <1>5 DEF AreRestored, kept, n

(* They satisfy the invariant when they fit into the queue. *)
LEMMA RestoredItemsOK ==
  ASSUME QueueAssumption, NEW saved \in Seq(Entries \cup {Gone}),
         NEW pick \in InOrder(Restorable(saved)),
         NEW its, its = RestoredItems(saved, pick),
         Len(its) <= MaxItems, Len(its) < MaxItemId
  PROVE  ItemsOK(its, {AssetOf[its[k].entry] : k \in DOMAIN its}, Len(its) + 1)
<1> DEFINE n == Len(its)
<1>1. /\ its \in Seq(Item)
      /\ \A k \in 1 .. n : pick[k] \in Restorable(saved) /\ its[k].id = k
                           /\ its[k].entry = saved[pick[k]]
      /\ \A a, b \in 1 .. n : pick[a] = pick[b] => a = b
  BY RestoredItemsFacts DEF AreRestored
<1>2. \A i, j \in Restorable(saved) : AssetOf[saved[i]] = AssetOf[saved[j]] => i = j
  BY RestorableFacts
<1>3. n \in Nat /\ DOMAIN its = 1 .. n
  BY <1>1, LenProperties
<1> HIDE DEF n
<1>4. n + 1 \in 1 .. MaxItemId
  BY <1>3 DEF QueueAssumption, n
<1>5. \A i, j \in 1 .. n : its[i].id = its[j].id => i = j
  BY <1>1
<1>6. \A i \in 1 .. n : its[i].id \in 1 .. (n + 1) - 1
  BY <1>1, <1>3
<1>7. \A i, j \in 1 .. n : AssetOf[its[i].entry] = AssetOf[its[j].entry] => i = j
  BY <1>1, <1>2
<1>8. {AssetOf[its[k].entry] : k \in DOMAIN its} = {AssetOf[its[k].entry] : k \in 1 .. n}
  BY <1>3
<1> QED
  BY <1>1, <1>4, <1>5, <1>6, <1>7, <1>8 DEF ItemsOK, n

(* The track that was current is found again unless it is gone. *)
LEMMA RestoredCurrentFacts ==
  ASSUME NEW its, NEW saved, NEW savedCurrent
  PROVE  LET place == RestoredCurrent(its, saved, savedCurrent)
             same == {i \in DOMAIN its : AssetOf[its[i].entry] = AssetOf[saved[savedCurrent]]}
         IN  IF saved[savedCurrent] # Gone /\ same # {} THEN place \in same ELSE place = 0
<1> DEFINE alike == {i \in DOMAIN its : /\ saved[savedCurrent] # Gone
                                        /\ AssetOf[its[i].entry] = AssetOf[saved[savedCurrent]]}
           place == RestoredCurrent(its, saved, savedCurrent)
<1>1. place = IF alike = {} THEN 0 ELSE CHOOSE i \in alike : TRUE
  BY DEF RestoredCurrent
<1> HIDE DEF place
<1>2. alike # {} => place \in alike
  BY <1>1
<1>3. alike = {} => place = 0
  BY <1>1
<1> QED
  BY <1>2, <1>3 DEF place

LEMMA RestoredQueueInv ==
  ASSUME QueueAssumption, NEW saved \in Sessions, NEW savedCurrent \in DOMAIN saved,
         RestoredQueue(saved, savedCurrent)
  PROVE  QueueInv
<1> DEFINE n == Cardinality(Restorable(saved))
<1>1. saved \in Seq(Entries \cup {Gone})
  BY DEF QueueAssumption
<1>2. PICK pick \in InOrder(Restorable(saved)) :
        items = [k \in 1 .. n |-> [id |-> k, entry |-> saved[pick[k]]]]
  BY DEF RestoredQueue
<1>3. DOMAIN pick = 1 .. n
  BY DEF InOrder, Bijection, Injection
<1>4. items = RestoredItems(saved, pick)
  BY <1>2, <1>3 DEF RestoredItems
<1>5. items \in Seq(Item) /\ Len(items) = n
  BY <1>1, <1>4, RestoredItemsFacts DEF AreRestored
<1>6. DOMAIN items = 1 .. Len(items) /\ Len(items) \in Nat
  BY <1>5, LenProperties
<1>7. n # 0 /\ n <= MaxItems /\ n < MaxItemId
  BY <1>1, RestorableFacts, FS_EmptySet DEF RestoredQueue
<1>8. ItemsOK(items, queuedAssets, nextItemId)
  <2>1. /\ queuedAssets = {AssetOf[items[i].entry] : i \in DOMAIN items}
        /\ nextItemId = Len(items) + 1
    BY <1>5 DEF RestoredQueue
  <2> QED
    BY <1>1, <1>4, <1>5, <1>7, <2>1, RestoredItemsOK
<1>9. OrderOK(shuffle, Ids(items), shuffleOrder, shuffleCursor)
  BY EmptySeq DEF RestoredQueue, OrderOK
<1>10. SelectionOK(items, selection)
  <2>1. RestoredCurrent(items, saved, savedCurrent) \in 0 .. Len(items)
    BY <1>6, RestoredCurrentFacts
  <2>2. selection = AtLeast(RestoredCurrent(items, saved, savedCurrent), 1)
    BY DEF RestoredQueue
  <2> QED
    BY <1>5, <1>6, <1>7, <2>1, <2>2 DEF SelectionOK, AtLeast
<1>11. queueGen \in 0 .. MaxQueueGen
  BY DEF RestoredQueue, QueueAssumption
<1>12. shuffle \in BOOLEAN
  BY DEF RestoredQueue
<1> QED
  BY <1>8, <1>9, <1>10, <1>11, <1>12 DEF QueueInv

-----------------------------------------------------------------------------
(* Steps. *)

(* An append gives its items fresh ids and assets the queue did not hold. *)
LEMMA AppendItemsEstablishes ==
  ASSUME QueueAssumption, QueueInv, NEW batch \in Batches, AppendItems(batch)
  PROVE  /\ ItemsOK(items', queuedAssets', nextItemId')
         /\ queueGen' \in 0 .. MaxQueueGen
         /\ Ids(items') = Ids(items) \cup Ids(Appended(batch))
         /\ Ids(items) \cap Ids(Appended(batch)) = {}
         /\ Ids(Appended(batch)) \subseteq Nat
         /\ IsFiniteSet(Ids(Appended(batch)))
         /\ Len(items') = Len(items) + Len(batch)
<1> DEFINE n == Len(items)
           m == Len(batch)
           new == Appended(batch)
<1>1. batch \in Seq(Entries) /\ m \in Nat /\ DOMAIN batch = 1 .. m
  BY LenProperties DEF QueueAssumption
<1>2. \A k \in 1 .. m : batch[k] \in Entries
  BY <1>1, ElementOfSeq
<1>3. ItemsOK(items, queuedAssets, nextItemId)
  BY DEF QueueInv
<1>4. /\ n \in Nat /\ DOMAIN items = 1 .. n
      /\ \A i \in 1 .. n : /\ items[i] \in Item
                           /\ items[i].id \in 1 .. nextItemId - 1
                           /\ items[i].entry \in Entries
      /\ Ids(items) \subseteq 1 .. nextItemId - 1
  BY <1>3, ItemsFacts
<1>5. nextItemId \in Nat /\ nextItemId >= 1 /\ MaxItemId \in Nat /\ queueGen \in Nat
  BY <1>3 DEF ItemsOK, QueueInv, QueueAssumption
<1>6. \A k \in 1 .. m : /\ new[k] \in Item
                       /\ new[k].id = nextItemId + k - 1
                       /\ new[k].entry = batch[k]
  <2> SUFFICES ASSUME NEW k \in 1 .. m
               PROVE  /\ new[k] \in Item
                      /\ new[k].id = nextItemId + k - 1
                      /\ new[k].entry = batch[k]
    OBVIOUS
  <2>1. new[k] = [id |-> nextItemId + k - 1, entry |-> batch[k]]
    BY DEF Appended
  <2>2. nextItemId + k - 1 \in Nat /\ batch[k] \in Entries
    BY <1>1, <1>2, <1>5
  <2> QED
    BY <2>1, <2>2, ItemFields
<1>7. new \in Seq(Item) /\ Len(new) = m /\ DOMAIN new = 1 .. m
  <2>1. new \in [1 .. m -> Item]
    BY <1>6 DEF Appended
  <2> QED
    BY <1>1, <2>1
<1>8. /\ n + m <= MaxItems /\ nextItemId + m <= MaxItemId
      /\ nextItemId' = nextItemId + m
      /\ queueGen' = queueGen + 1 /\ queueGen < MaxQueueGen
  BY DEF AppendItems, CheckAppend, CanEdit
<1>0. items' = items \o new
  BY DEF AppendItems
<1> HIDE DEF new, n, m
<1>9. /\ items' \in Seq(Item) /\ Len(items') = n + m
      /\ \A i \in 1 .. n + m : items'[i] = IF i <= n THEN items[i] ELSE new[i - n]
  <2>1. items \in Seq(Item) /\ Len(items) = n
    BY <1>3 DEF ItemsOK, n
  <2>2. ASSUME NEW s \in Seq(Item), NEW t \in Seq(Item)
        PROVE  /\ s \o t \in Seq(Item) /\ Len(s \o t) = Len(s) + Len(t)
               /\ \A i \in 1 .. Len(s) + Len(t) :
                    (s \o t)[i] = IF i <= Len(s) THEN s[i] ELSE t[i - Len(s)]
    BY ConcatProperties
  <2> QED
    BY <1>0, <1>7, <2>1, <2>2
<1>10. \A i \in 1 .. n : i \in 1 .. n + m /\ items'[i] = items[i]
  BY <1>1, <1>4, <1>9
<1>11. \A k \in 1 .. m : k + n \in 1 .. n + m /\ items'[k + n] = new[k]
  <2> SUFFICES ASSUME NEW k \in 1 .. m PROVE k + n \in 1 .. n + m /\ items'[k + n] = new[k]
    OBVIOUS
  <2>1. k + n \in 1 .. n + m /\ ~(k + n <= n) /\ (k + n) - n = k
    BY <1>1, <1>4
  <2> QED
    BY <1>9, <2>1
<1>12. \A i \in 1 .. n + m : i \in 1 .. n \/ (i - n \in 1 .. m /\ (i - n) + n = i)
  BY <1>1, <1>4
<1>13. DOMAIN items' = 1 .. n + m
  BY <1>9, LenProperties
<1>14. Ids(items') = Ids(items) \cup Ids(new)
  <2>1. \A x \in Ids(items') : x \in Ids(items) \cup Ids(new)
    <3> SUFFICES ASSUME NEW i \in 1 .. n + m PROVE items'[i].id \in Ids(items) \cup Ids(new)
      BY <1>13 DEF Ids
    <3>1. CASE i \in 1 .. n
      BY <1>4, <1>10, <3>1 DEF Ids
    <3>2. CASE i - n \in 1 .. m /\ (i - n) + n = i
      BY <1>7, <1>11, <3>2 DEF Ids
    <3> QED
      BY <1>12, <3>1, <3>2
  <2>2. Ids(items) \subseteq Ids(items')
    BY <1>4, <1>10, <1>13 DEF Ids
  <2>3. Ids(new) \subseteq Ids(items')
    BY <1>7, <1>11, <1>13 DEF Ids
  <2> QED
    BY <2>1, <2>2, <2>3
<1>15. Ids(new) \subseteq nextItemId .. nextItemId + m - 1
  <2>1. \A k \in 1 .. m : new[k].id \in nextItemId .. nextItemId + m - 1
    BY <1>1, <1>5, <1>6
  <2> QED
    BY <1>7, <2>1 DEF Ids
<1>16. Ids(items) \cap Ids(new) = {} /\ Ids(new) \subseteq Nat /\ IsFiniteSet(Ids(new))
  <2>1. (1 .. nextItemId - 1) \cap (nextItemId .. nextItemId + m - 1) = {}
    BY <1>1, <1>5
  <2>2. nextItemId .. nextItemId + m - 1 \subseteq Nat
    BY <1>1, <1>5
  <2>3. IsFiniteSet(nextItemId .. nextItemId + m - 1)
    BY <1>1, <1>5, FS_Interval
  <2> QED
    BY <1>4, <1>15, <2>1, <2>2, <2>3, FS_Subset
<1>17. \A i \in 1 .. n + m : items'[i].id \in 1 .. nextItemId' - 1
  <2> SUFFICES ASSUME NEW i \in 1 .. n + m PROVE items'[i].id \in 1 .. nextItemId' - 1
    OBVIOUS
  <2>1. CASE i \in 1 .. n
    <3>1. items'[i].id \in 1 .. nextItemId - 1
      BY <1>4, <1>10, <2>1
    <3> QED
      BY <1>1, <1>5, <1>8, <3>1
  <2>2. CASE i - n \in 1 .. m /\ (i - n) + n = i
    <3>1. items'[i].id = nextItemId + (i - n) - 1
      BY <1>6, <1>11, <2>2
    <3> QED
      BY <1>1, <1>4, <1>5, <1>8, <2>2, <3>1
  <2> QED
    BY <1>12, <2>1, <2>2
<1>18. \A i, j \in 1 .. n + m : items'[i].id = items'[j].id => i = j
  <2> SUFFICES ASSUME NEW i \in 1 .. n + m, NEW j \in 1 .. n + m, items'[i].id = items'[j].id
               PROVE  i = j
    OBVIOUS
  <2>1. CASE i \in 1 .. n /\ j \in 1 .. n
    <3>1. items[i].id = items[j].id
      BY <1>10, <2>1
    <3> QED
      BY <1>3, <2>1, <3>1 DEF ItemsOK, n
  <2>2. CASE i \in 1 .. n /\ j - n \in 1 .. m /\ (j - n) + n = j
    <3>1. items'[j].id = nextItemId + (j - n) - 1 /\ items'[i].id \in 1 .. nextItemId - 1
      BY <1>4, <1>6, <1>10, <1>11, <2>2
    <3> QED
      BY <1>1, <1>4, <1>5, <2>2, <3>1
  <2>3. CASE j \in 1 .. n /\ i - n \in 1 .. m /\ (i - n) + n = i
    <3>1. items'[i].id = nextItemId + (i - n) - 1 /\ items'[j].id \in 1 .. nextItemId - 1
      BY <1>4, <1>6, <1>10, <1>11, <2>3
    <3> QED
      BY <1>1, <1>4, <1>5, <2>3, <3>1
  <2>4. CASE /\ i - n \in 1 .. m /\ (i - n) + n = i
             /\ j - n \in 1 .. m /\ (j - n) + n = j
    <3>1. items'[i].id = nextItemId + (i - n) - 1 /\ items'[j].id = nextItemId + (j - n) - 1
      BY <1>6, <1>11, <2>4
    <3>2. nextItemId + (i - n) - 1 = nextItemId + (j - n) - 1
      BY <3>1
    <3> QED
      BY <1>4, <1>5, <3>2
  <2> QED
    BY <1>12, <2>1, <2>2, <2>3, <2>4
<1>19. /\ \A k \in 1 .. m : AssetOf[batch[k]] \notin queuedAssets
       /\ \A k, l \in 1 .. m : AssetOf[batch[k]] = AssetOf[batch[l]] => k = l
  <2>1. \A k \in 1 .. m : Markable(batch, k)
    BY DEF AppendItems, MarkedUpTo, m
  <2>2. \A k \in 1 .. m : \A l \in 1 .. k - 1 : AssetOf[batch[l]] # AssetOf[batch[k]]
    BY <2>1 DEF Markable
  <2>3. \A k, l \in 1 .. m : k < l => k \in 1 .. l - 1
    BY <1>1
  <2>4. \A k, l \in 1 .. m : k < l \/ l < k \/ k = l
    BY <1>1
  <2>5. \A k \in 1 .. m : AssetOf[batch[k]] \notin queuedAssets
    BY <2>1 DEF Markable
  <2> QED
    BY <2>2, <2>3, <2>4, <2>5
<1>20. /\ queuedAssets = {AssetOf[items[i].entry] : i \in 1 .. n}
       /\ \A i, j \in 1 .. n : AssetOf[items[i].entry] = AssetOf[items[j].entry] => i = j
  BY <1>3 DEF ItemsOK, n
<1>21. \A i, j \in 1 .. n + m :
         AssetOf[items'[i].entry] = AssetOf[items'[j].entry] => i = j
  <2> SUFFICES ASSUME NEW i \in 1 .. n + m, NEW j \in 1 .. n + m,
                      AssetOf[items'[i].entry] = AssetOf[items'[j].entry]
               PROVE  i = j
    OBVIOUS
  <2>1. CASE i \in 1 .. n /\ j \in 1 .. n
    BY <1>10, <1>20, <2>1
  <2>2. CASE i \in 1 .. n /\ j - n \in 1 .. m /\ (j - n) + n = j
    <3>1. items'[i] = items[i] /\ items'[j].entry = batch[j - n]
      BY <1>6, <1>10, <1>11, <2>2
    <3> QED
      BY <1>19, <1>20, <2>2, <3>1
  <2>3. CASE j \in 1 .. n /\ i - n \in 1 .. m /\ (i - n) + n = i
    <3>1. items'[j] = items[j] /\ items'[i].entry = batch[i - n]
      BY <1>6, <1>10, <1>11, <2>3
    <3> QED
      BY <1>19, <1>20, <2>3, <3>1
  <2>4. CASE /\ i - n \in 1 .. m /\ (i - n) + n = i
             /\ j - n \in 1 .. m /\ (j - n) + n = j
    <3>1. items'[i].entry = batch[i - n] /\ items'[j].entry = batch[j - n]
      BY <1>6, <1>11, <2>4
    <3>2. i - n = j - n
      BY <1>19, <2>4, <3>1
    <3> QED
      BY <2>4, <3>2
  <2> QED
    BY <1>12, <2>1, <2>2, <2>3, <2>4
<1>22. queuedAssets' = {AssetOf[items'[i].entry] : i \in 1 .. n + m}
  <2>1. queuedAssets' = queuedAssets \cup {AssetOf[batch[k]] : k \in 1 .. m}
    <3>1. SubSeq(batch, 1, Len(batch)) = batch
      BY <1>1, SubSeqFull
    <3> QED
      BY <1>1, <3>1 DEF AppendItems, MarkedAssets, AssetsOf
  <2>2. \A k \in 1 .. m : items'[k + n].entry = batch[k] /\ k + n \in 1 .. n + m
    BY <1>6, <1>11
  <2>3. ASSUME NEW i \in 1 .. n + m
        PROVE  AssetOf[items'[i].entry] \in queuedAssets'
    <3>1. CASE i \in 1 .. n
      BY <1>10, <1>20, <2>1, <3>1
    <3>2. CASE i - n \in 1 .. m /\ (i - n) + n = i
      <4>1. items'[i].entry = batch[i - n]
        BY <2>2, <3>2
      <4> QED
        BY <2>1, <3>2, <4>1
    <3> QED
      BY <1>12, <3>1, <3>2
  <2>4. ASSUME NEW i \in 1 .. n
        PROVE  \E j \in 1 .. n + m : AssetOf[items[i].entry] = AssetOf[items'[j].entry]
    BY <1>10
  <2>5. ASSUME NEW k \in 1 .. m
        PROVE  \E j \in 1 .. n + m : AssetOf[batch[k]] = AssetOf[items'[j].entry]
    BY <2>2
  <2> QED
    BY <1>20, <2>1, <2>3, <2>4, <2>5
<1>23. nextItemId' \in 1 .. MaxItemId /\ Len(items') <= MaxItems
  BY <1>1, <1>5, <1>8, <1>9
<1>24. ItemsOK(items', queuedAssets', nextItemId')
  BY <1>9, <1>17, <1>18, <1>21, <1>22, <1>23 DEF ItemsOK
<1>25. queueGen' \in 0 .. MaxQueueGen
  BY <1>5, <1>8 DEF QueueAssumption
<1> QED
  BY <1>9, <1>14, <1>16, <1>24, <1>25 DEF n, m, new

LEMMA AppendBatchInv ==
  ASSUME QueueAssumption, QueueInv, NEW batch \in Batches, AppendBatch(batch)
  PROVE  QueueInv'
<1>1. /\ ItemsOK(items', queuedAssets', nextItemId')
      /\ queueGen' \in 0 .. MaxQueueGen
      /\ Ids(items') = Ids(items) \cup Ids(Appended(batch))
      /\ Ids(items) \cap Ids(Appended(batch)) = {}
      /\ Ids(Appended(batch)) \subseteq Nat
      /\ IsFiniteSet(Ids(Appended(batch)))
      /\ Len(items') = Len(items) + Len(batch)
  BY AppendItemsEstablishes DEF AppendBatch
<1>2. /\ shuffle \in BOOLEAN /\ shuffle' = shuffle
      /\ OrderOK(shuffle, Ids(items), shuffleOrder, shuffleCursor)
  BY DEF QueueInv, AppendBatch, AppendItems
<1>3. OrderOK(shuffle', Ids(items'), shuffleOrder', shuffleCursor')
  <2>1. ExtendShuffleOrder(Ids(Appended(batch)))
    BY DEF AppendBatch
  <2>2. OrderOK(shuffle, Ids(items) \cup Ids(Appended(batch)), shuffleOrder', shuffleCursor')
    BY <1>1, <1>2, <2>1, ExtendEstablishes
  <2> QED
    BY <1>1, <1>2, <2>2
<1>4. SelectionOK(items', selection')
  <2>1. Len(items) \in Nat /\ Len(batch) \in Nat
    BY LenProperties DEF QueueInv, ItemsOK, QueueAssumption
  <2>2. selection' = selection /\ selection \in 1 .. AtLeast(Len(items), 1)
    BY DEF AppendBatch, QueueInv, SelectionOK
  <2> QED
    BY <1>1, <2>1, <2>2 DEF SelectionOK, AtLeast
<1> QED
  BY <1>1, <1>2, <1>3, <1>4 DEF QueueInv

(* A refused append takes back exactly the marks it set. *)
LEMMA AppendRejectedInv ==
  ASSUME QueueAssumption, QueueInv, NEW batch \in Batches, AppendRejected(batch)
  PROVE  QueueInv'
<1>1. PICK n \in 0 .. Len(batch) :
        /\ MarkedUpTo(batch, n)
        /\ queuedAssets' = MarkedAssets(batch, n) \ UnmarkedOnError(batch, n)
  BY DEF AppendRejected
<1>2. batch \in Seq(Entries) /\ Len(batch) \in Nat
  BY LenProperties DEF QueueAssumption
<1>3. \A i \in 1 .. n : AssetOf[batch[i]] \notin queuedAssets
  BY <1>1 DEF MarkedUpTo, Markable
<1>4. /\ DOMAIN SubSeq(batch, 1, n) = 1 .. n
      /\ \A i \in 1 .. n : SubSeq(batch, 1, n)[i] = batch[i]
  <2>1. \A i \in 1 .. n : batch[i] \in Entries
    BY <1>2, ElementOfSeq
  <2>2. /\ SubSeq(batch, 1, n) \in Seq(Entries)
        /\ Len(SubSeq(batch, 1, n)) = n
        /\ \A i \in 1 .. n : SubSeq(batch, 1, n)[i] = batch[i]
    BY <1>2, <2>1, SubSeqProperties
  <2> QED
    BY <2>2, LenProperties
<1>5. AssetsOf(SubSeq(batch, 1, n)) = {AssetOf[batch[i]] : i \in 1 .. n}
  BY <1>4 DEF AssetsOf
<1>6. queuedAssets' = queuedAssets
  BY <1>1, <1>3, <1>5 DEF MarkedAssets, UnmarkedOnError
<1>7. UNCHANGED <<items, selection, queueGen, nextItemId, shuffle, shuffleOrder, shuffleCursor>>
  BY DEF AppendRejected
<1> QED
  BY <1>6, <1>7 DEF QueueInv

(* Taking the k-th item out. *)
LEMMA RemovalOfItem ==
  ASSUME QueueAssumption, ItemsOK(items, queuedAssets, nextItemId),
         NEW k \in 1 .. Len(items),
         items' = RemoveAt(items, k),
         queuedAssets' = queuedAssets \ {AssetOf[items[k].entry]},
         nextItemId' = nextItemId
  PROVE  /\ ItemsOK(items', queuedAssets', nextItemId')
         /\ Ids(items') = Ids(items) \ {items[k].id}
         /\ Len(items') = Len(items) - 1
<1> DEFINE n == Len(items)
           at(i) == IF i < k THEN i ELSE i + 1
<1>1. /\ n \in Nat /\ DOMAIN items = 1 .. n /\ k \in Nat
  BY ItemsFacts
<1>2. /\ items' \in Seq(Item) /\ Len(items') = n - 1
      /\ \A i \in 1 .. n - 1 : items'[i] = IF i < k THEN items[i] ELSE items[i + 1]
  BY RemoveAtProperties DEF ItemsOK
<1>3. DOMAIN items' = 1 .. n - 1
  BY <1>2, LenProperties
<1>4. \A i \in 1 .. n - 1 : items'[i] = items[at(i)]
  BY <1>2
<1>5. \A i \in 1 .. n - 1 : at(i) \in 1 .. n /\ at(i) # k
  BY <1>1
<1>6. \A i, j \in 1 .. n - 1 : at(i) = at(j) => i = j
  BY <1>1
<1>7. \A i \in 1 .. n : i # k => \E j \in 1 .. n - 1 : at(j) = i
  <2> SUFFICES ASSUME NEW i \in 1 .. n, i # k PROVE \E j \in 1 .. n - 1 : at(j) = i
    OBVIOUS
  <2>1. CASE i < k
    BY <1>1, <2>1
  <2>2. CASE k < i
    <3>1. i - 1 \in 1 .. n - 1 /\ at(i - 1) = i
      BY <1>1, <2>2
    <3> QED
      BY <3>1
  <2> QED
    BY <1>1, <2>1, <2>2
<1>8. /\ \A i, j \in 1 .. n : items[i].id = items[j].id => i = j
      /\ \A i \in 1 .. n : items[i].id \in 1 .. nextItemId - 1
      /\ \A i, j \in 1 .. n : AssetOf[items[i].entry] = AssetOf[items[j].entry] => i = j
      /\ queuedAssets = {AssetOf[items[i].entry] : i \in 1 .. n}
      /\ n <= MaxItems /\ nextItemId \in 1 .. MaxItemId
  BY DEF ItemsOK
<1> HIDE DEF at, n
<1>9. ASSUME NEW i \in 1 .. n - 1, NEW j \in 1 .. n - 1, items'[i].id = items'[j].id
      PROVE  i = j
  <2>1. at(i) \in 1 .. n /\ at(j) \in 1 .. n /\ items[at(i)].id = items[at(j)].id
    BY <1>4, <1>5, <1>9
  <2>2. at(i) = at(j)
    BY <1>8, <2>1
  <2> QED
    BY <1>6, <2>2
<1>10. \A i \in 1 .. n - 1 : items'[i].id \in 1 .. nextItemId' - 1
  BY <1>4, <1>5, <1>8
<1>11. \A i, j \in 1 .. n - 1 : AssetOf[items'[i].entry] = AssetOf[items'[j].entry] => i = j
  <2> SUFFICES ASSUME NEW i \in 1 .. n - 1, NEW j \in 1 .. n - 1,
                      AssetOf[items'[i].entry] = AssetOf[items'[j].entry]
               PROVE  i = j
    OBVIOUS
  <2>1. AssetOf[items[at(i)].entry] = AssetOf[items[at(j)].entry]
    BY <1>4
  <2>2. at(i) = at(j)
    BY <1>5, <1>8, <2>1
  <2> QED
    BY <1>6, <2>2
<1>12. queuedAssets' = {AssetOf[items'[i].entry] : i \in 1 .. n - 1}
  <2>1. ASSUME NEW i \in 1 .. n - 1 PROVE AssetOf[items'[i].entry] \in queuedAssets'
    <3>1. at(i) \in 1 .. n /\ at(i) # k /\ k \in 1 .. n /\ items'[i] = items[at(i)]
      BY <1>4, <1>5 DEF n
    <3>2. AssetOf[items[at(i)].entry] # AssetOf[items[k].entry]
      BY <1>8, <3>1
    <3>3. AssetOf[items[at(i)].entry] \in queuedAssets
      BY <1>8, <3>1
    <3> QED
      BY <3>1, <3>2, <3>3
  <2>2. ASSUME NEW a \in queuedAssets' PROVE \E j \in 1 .. n - 1 : a = AssetOf[items'[j].entry]
    <3>1. PICK i \in 1 .. n : a = AssetOf[items[i].entry] /\ i # k
      BY <1>8, <2>2
    <3>2. PICK j \in 1 .. n - 1 : at(j) = i
      BY <1>7, <3>1
    <3> QED
      BY <1>4, <3>1, <3>2
  <2> QED
    BY <2>1, <2>2
<1>13. Ids(items') = Ids(items) \ {items[k].id}
  <2>1. Ids(items') = {items'[i].id : i \in 1 .. n - 1} /\ Ids(items) = {items[i].id : i \in 1 .. n}
    BY <1>1, <1>3 DEF Ids
  <2>2. k \in 1 .. n
    BY DEF n
  <2>3. \A i \in 1 .. n - 1 : items'[i].id \in Ids(items) \ {items[k].id}
    BY <1>4, <1>5, <1>8, <2>1, <2>2
  <2>4. ASSUME NEW x \in Ids(items) \ {items[k].id} PROVE \E j \in 1 .. n - 1 : x = items'[j].id
    <3>1. PICK i \in 1 .. n : x = items[i].id /\ i # k
      BY <2>1, <2>4
    <3>2. PICK j \in 1 .. n - 1 : at(j) = i
      BY <1>7, <3>1
    <3> QED
      BY <1>4, <3>1, <3>2
  <2>5. \A x \in Ids(items') : x \in Ids(items) \ {items[k].id}
    BY <2>1, <2>3
  <2>6. \A x \in Ids(items) \ {items[k].id} : x \in Ids(items')
    BY <2>1, <2>4
  <2> QED
    BY <2>5, <2>6
<1>14. n - 1 <= MaxItems
  BY <1>1, <1>8 DEF QueueAssumption
<1>15. ItemsOK(items', queuedAssets', nextItemId')
  BY <1>2, <1>8, <1>9, <1>10, <1>11, <1>12, <1>14 DEF ItemsOK
<1> QED
  BY <1>2, <1>13, <1>15 DEF n

LEMMA RemoveSelectedInv ==
  ASSUME QueueAssumption, QueueInv, RemoveSelected
  PROVE  QueueInv'
<1>1. /\ ItemsOK(items, queuedAssets, nextItemId)
      /\ OrderOK(shuffle, Ids(items), shuffleOrder, shuffleCursor)
      /\ shuffle \in BOOLEAN
  BY DEF QueueInv
<1>2. Len(items) \in Nat /\ DOMAIN items = 1 .. Len(items)
  BY <1>1, ItemsFacts
<1>3. selection \in 1 .. Len(items)
  BY <1>2 DEF RemoveSelected, QueueInv, SelectionOK, AtLeast
<1>4. /\ items' = RemoveAt(items, selection)
      /\ queuedAssets' = queuedAssets \ {AssetOf[items[selection].entry]}
      /\ nextItemId' = nextItemId
      /\ RemoveFromShuffleOrder(items[selection].id)
      /\ selection' = AtMost(selection, AtLeast(Len(items) - 1, 1))
      /\ shuffle' = shuffle
  BY DEF RemoveSelected
<1>5. /\ ItemsOK(items', queuedAssets', nextItemId')
      /\ Ids(items') = Ids(items) \ {items[selection].id}
      /\ Len(items') = Len(items) - 1
  BY <1>1, <1>3, <1>4, RemovalOfItem
<1>6. items[selection].id \in Ids(items)
  BY <1>2, <1>3 DEF Ids
<1>7. OrderOK(shuffle, Ids(items) \ {items[selection].id}, shuffleOrder', shuffleCursor')
  BY <1>1, <1>4, <1>6, RemoveEstablishes
<1>8. OrderOK(shuffle', Ids(items'), shuffleOrder', shuffleCursor')
  BY <1>4, <1>5, <1>7
<1>9. SelectionOK(items', selection')
  BY <1>2, <1>3, <1>4, <1>5 DEF SelectionOK, AtLeast, AtMost
<1>10. queueGen' \in 0 .. MaxQueueGen
  BY DEF RemoveSelected, CanEdit, QueueInv, QueueAssumption
<1>11. shuffle' \in BOOLEAN
  BY <1>1, <1>4
<1> QED
  BY <1>5, <1>8, <1>9, <1>10, <1>11 DEF QueueInv

LEMMA ClearInv ==
  ASSUME QueueAssumption, QueueInv, Clear
  PROVE  QueueInv'
<1>1. /\ items' = <<>> /\ queuedAssets' = {} /\ nextItemId' = nextItemId
      /\ shuffleOrder' = <<>> /\ shuffleCursor' = 0 /\ selection' = 1 /\ shuffle' = shuffle
  BY DEF Clear
<1>2. /\ items' \in Seq(Item) /\ Len(items') = 0
      /\ shuffleOrder' \in Seq(Nat) /\ Len(shuffleOrder') = 0
  BY <1>1, EmptySeq
<1>3. DOMAIN items' = {}
  BY <1>2, LenProperties
<1>4. nextItemId \in 1 .. MaxItemId /\ shuffle \in BOOLEAN
  BY DEF QueueInv, ItemsOK
<1>5. ItemsOK(items', queuedAssets', nextItemId')
  BY <1>1, <1>2, <1>4 DEF ItemsOK, QueueAssumption
<1>6. OrderOK(shuffle', Ids(items'), shuffleOrder', shuffleCursor')
  <2>1. Ids(items') = {}
    BY <1>3 DEF Ids
  <2>2. ToSet(shuffleOrder') = {} /\ IsInjective(shuffleOrder')
    <3>1. DOMAIN shuffleOrder' = {}
      BY <1>2, LenProperties
    <3>2. ToSet(shuffleOrder') = {}
      BY <3>1 DEF ToSet
    <3>3. IsInjective(shuffleOrder')
      BY <3>1 DEF IsInjective
    <3> QED
      BY <3>2, <3>3
  <2>3. shuffleCursor' \in 0 .. Len(shuffleOrder')
    BY <1>1, <1>2
  <2>4. IF shuffle' THEN ToSet(shuffleOrder') = Ids(items') /\ IsInjective(shuffleOrder')
        ELSE shuffleOrder' = <<>>
    BY <1>1, <2>1, <2>2, Zenon
  <2> QED
    BY <1>2, <2>3, <2>4 DEF OrderOK
<1>7. SelectionOK(items', selection')
  BY <1>1, <1>2 DEF SelectionOK, AtLeast
<1>8. queueGen' \in 0 .. MaxQueueGen
  BY DEF Clear, CanEdit, QueueInv, QueueAssumption
<1>9. shuffle' \in BOOLEAN
  BY <1>1, <1>4
<1> QED
  BY <1>5, <1>6, <1>7, <1>8, <1>9 DEF QueueInv

(* A move swaps two items. *)
LEMMA MoveSelectedInv ==
  ASSUME QueueAssumption, QueueInv, NEW down \in BOOLEAN, MoveSelected(down)
  PROVE  QueueInv'
<1> DEFINE n == Len(items)
           d == IF down THEN selection + 1 ELSE selection - 1
           at(i) == IF i = selection THEN d ELSE IF i = d THEN selection ELSE i
<1>1. ItemsOK(items, queuedAssets, nextItemId)
  BY DEF QueueInv
<1>2. /\ n \in Nat /\ DOMAIN items = 1 .. n
      /\ \A i \in 1 .. n : items[i] \in Item
  BY <1>1, ItemsFacts
<1>3. selection \in 1 .. n /\ d \in 1 .. n
  BY <1>2 DEF MoveSelected, QueueInv, SelectionOK, AtLeast
<1>4. /\ items' = [items EXCEPT ![selection] = items[d], ![d] = items[selection]]
      /\ selection' = d
      /\ UNCHANGED <<queuedAssets, nextItemId, shuffle, shuffleOrder, shuffleCursor>>
  BY DEF MoveSelected
<1>5. queueGen' \in 0 .. MaxQueueGen
  BY DEF MoveSelected, CanEdit, QueueInv, QueueAssumption
<1>6. d # selection
  BY <1>3
<1> HIDE DEF d
<1>7. DOMAIN items' = 1 .. n /\ \A i \in 1 .. n : items'[i] = items[at(i)]
  BY <1>2, <1>3, <1>4, <1>6
<1>8. \A i \in 1 .. n : at(i) \in 1 .. n /\ at(at(i)) = i
  BY <1>3, <1>6
<1> HIDE DEF at
<1>9. items' \in Seq(Item) /\ Len(items') = n
  <2>1. items' = [i \in 1 .. n |-> items[at(i)]]
    BY <1>2, <1>4, <1>7
  <2>2. items' \in [1 .. n -> Item]
    BY <1>2, <1>8, <2>1
  <2> QED
    BY <1>2, <2>2
<1>10. /\ \A i, j \in 1 .. n : items[i].id = items[j].id => i = j
       /\ \A i \in 1 .. n : items[i].id \in 1 .. nextItemId - 1
       /\ \A i, j \in 1 .. n : AssetOf[items[i].entry] = AssetOf[items[j].entry] => i = j
       /\ queuedAssets = {AssetOf[items[i].entry] : i \in 1 .. n}
       /\ n <= MaxItems /\ nextItemId \in 1 .. MaxItemId
  BY <1>1 DEF ItemsOK
<1> HIDE DEF n
<1>11. \A i, j \in 1 .. n : items'[i].id = items'[j].id => i = j
  BY <1>7, <1>8, <1>10
<1>12. \A i \in 1 .. n : items'[i].id \in 1 .. nextItemId - 1
  BY <1>7, <1>8, <1>10
<1>13. \A i, j \in 1 .. n : AssetOf[items'[i].entry] = AssetOf[items'[j].entry] => i = j
  BY <1>7, <1>8, <1>10
<1>14. queuedAssets = {AssetOf[items'[i].entry] : i \in 1 .. n}
  <2>1. \A i \in 1 .. n : AssetOf[items'[i].entry] \in queuedAssets
    BY <1>7, <1>8, <1>10
  <2>2. ASSUME NEW asset \in queuedAssets
        PROVE  \E i \in 1 .. n : asset = AssetOf[items'[i].entry]
    <3>1. PICK k \in 1 .. n : asset = AssetOf[items[k].entry]
      BY <1>10
    <3>2. at(k) \in 1 .. n /\ items'[at(k)] = items[k]
      BY <1>7, <1>8
    <3> QED
      BY <3>1, <3>2
  <2> QED
    BY <2>1, <2>2
<1>15. ItemsOK(items', queuedAssets', nextItemId')
  BY <1>4, <1>9, <1>10, <1>11, <1>12, <1>13, <1>14 DEF ItemsOK
<1>16. Ids(items') = Ids(items)
  <2>1. Ids(items') = {items'[i].id : i \in 1 .. n} /\ Ids(items) = {items[i].id : i \in 1 .. n}
    BY <1>2, <1>7 DEF Ids
  <2>2. \A i \in 1 .. n : items'[i].id \in Ids(items)
    BY <1>7, <1>8, <2>1
  <2>3. \A i \in 1 .. n : items[i].id = items'[at(i)].id
    BY <1>7, <1>8
  <2> QED
    BY <1>8, <2>1, <2>2, <2>3
<1>17. SelectionOK(items', selection')
  BY <1>2, <1>3, <1>4, <1>9 DEF SelectionOK, AtLeast
<1> QED
  BY <1>4, <1>5, <1>15, <1>16, <1>17 DEF QueueInv

LEMMA MoveSelectionInv ==
  ASSUME QueueAssumption, QueueInv, NEW position, MoveSelection(position)
  PROVE  QueueInv'
<1>1. Len(items) \in Nat
  BY ItemsFacts DEF QueueInv
<1>2. SelectionOK(items, selection')
  BY <1>1 DEF MoveSelection, QueueInv, SelectionOK, AtLeast, AtMost
<1> QED
  BY <1>2 DEF MoveSelection, QueueInv

LEMMA SetShuffleInv ==
  ASSUME QueueAssumption, QueueInv, NEW on \in BOOLEAN, NEW current, SetShuffle(on, current)
  PROVE  QueueInv'
<1>1. Ids(items) \subseteq Nat /\ IsFiniteSet(Ids(items))
  BY ItemsFacts DEF QueueInv
<1>2. RefreshShuffleOrder(on, items, current)
  BY DEF SetShuffle
<1>3. OrderOK(on, Ids(items), shuffleOrder', shuffleCursor')
  BY <1>1, <1>2, RefreshEstablishes
<1> QED
  BY <1>3 DEF SetShuffle, QueueInv

LEMMA SelectTrackInv ==
  ASSUME QueueAssumption, QueueInv, NEW position, NEW newRound \in BOOLEAN,
         SelectTrack(position, newRound)
  PROVE  QueueInv'
<1>1. Ids(items) \subseteq Nat /\ IsFiniteSet(Ids(items))
  BY ItemsFacts DEF QueueInv
<1>2. /\ shuffle \in BOOLEAN /\ OrderOK(shuffle, Ids(items), shuffleOrder, shuffleCursor)
      /\ TrackSelected(items, position, newRound)
  BY DEF QueueInv, SelectTrack
<1>3. OrderOK(shuffle, Ids(items), shuffleOrder', shuffleCursor')
  BY <1>1, <1>2, TrackSelectedEstablishes
<1> QED
  BY <1>3 DEF SelectTrack, QueueInv

-----------------------------------------------------------------------------
(* The invariant and what follows from it. *)

(* Every queue that a run starts with satisfies the invariant. *)
THEOREM QueueInitInv == ASSUME QueueAssumption, QueueInit PROVE QueueInv
BY EmptyQueueInv, RestoredQueueInv DEF QueueInit

(* Every step of the queue keeps it. *)
THEOREM QueueNextInv ==
  ASSUME QueueAssumption, QueueInv, [QueueNext]_queueVars
  PROVE  QueueInv'
<1>1. ASSUME NEW batch \in Batches, AppendBatch(batch) PROVE QueueInv'
  BY <1>1, AppendBatchInv
<1>2. ASSUME NEW batch \in Batches, AppendRejected(batch) PROVE QueueInv'
  BY <1>2, AppendRejectedInv
<1>3. CASE RemoveSelected
  BY <1>3, RemoveSelectedInv
<1>4. CASE Clear
  BY <1>4, ClearInv
<1>5. ASSUME NEW down \in BOOLEAN, MoveSelected(down) PROVE QueueInv'
  BY <1>5, MoveSelectedInv
<1>6. ASSUME NEW position \in 1 .. MaxItems, MoveSelection(position) PROVE QueueInv'
  BY <1>6, MoveSelectionInv
<1>7. ASSUME NEW on \in BOOLEAN, NEW current \in Currents, SetShuffle(on, current)
      PROVE  QueueInv'
  BY <1>7, SetShuffleInv
<1>8. ASSUME NEW position \in 1 .. MaxItems, NEW newRound \in BOOLEAN,
             SelectTrack(position, newRound)
      PROVE  QueueInv'
  BY <1>8, SelectTrackInv
<1>9. CASE UNCHANGED queueVars
  BY <1>9 DEF queueVars, QueueInv
<1> QED
  BY <1>1, <1>2, <1>3, <1>4, <1>5, <1>6, <1>7, <1>8, <1>9 DEF QueueNext

(* The conjunction is an invariant of the queue, for every library, every set
   of playlists and of saved sessions, and every limit. *)
THEOREM QueueInvariant == QueueSpec => []QueueInv
<1>1. QueueInit => QueueInv
  BY QueueAssumption, QueueInitInv
<1>2. QueueInv /\ [QueueNext]_queueVars => QueueInv'
  BY QueueAssumption, QueueNextInv
<1> QED
  BY <1>1, <1>2, PTL DEF QueueSpec

(* Type correctness: the queue never grows beyond max_items, ids and
   generations never beyond their width, and the selection is always a row. *)
THEOREM QueueTypesHold == QueueSpec => []QueueTypeOK
<1>1. QueueInv => QueueTypeOK
  BY QueueAssumption, QueueInvImplies
<1> QED
  BY <1>1, QueueInvariant, PTL

(* Item ids are never given twice among the items that are queued. *)
THEOREM IdsStayUnique == QueueSpec => []IdsUnique
<1>1. QueueInv => IdsUnique
  BY QueueAssumption, QueueInvImplies
<1> QED
  BY <1>1, QueueInvariant, PTL

(* Membership marks are exact: what mark_asset, unmark_asset and the removals
   maintain is the set of assets of the queued items, each queued once. *)
THEOREM MembershipStaysExact == QueueSpec => []MembershipExact
<1>1. QueueInv => MembershipExact
  BY QueueAssumption, QueueInvImplies
<1> QED
  BY <1>1, QueueInvariant, PTL

(* The shuffle order is a permutation of the queue through every sequence of
   edits, toggles and selections. *)
THEOREM ShuffleOrderStaysExact == QueueSpec => []ShuffleOrderExact
<1>1. QueueInv => ShuffleOrderExact
  BY QueueAssumption, QueueInvImplies
<1> QED
  BY <1>1, QueueInvariant, PTL

(* The cursor never leaves the order it indexes. *)
THEOREM CursorStaysInOrder == QueueSpec => []CursorInOrder
<1>1. QueueInv => CursorInOrder
  BY QueueAssumption, QueueInvImplies
<1> QED
  BY <1>1, QueueInvariant, PTL

-----------------------------------------------------------------------------
(* Navigation: one order of play, gone through from either end. *)

(* Ids and places are inverse to each other. *)
LEMMA ItemPositionFacts ==
  ASSUME NEW its \in Seq(Item), NEW id
  PROVE  /\ ItemPosition(its, id) \in 0 .. Len(its)
         /\ ItemPosition(its, id) # 0 => its[ItemPosition(its, id)].id = id
         /\ ItemPosition(its, id) = 0 => id \notin Ids(its)
<1>1. Len(its) \in Nat /\ DOMAIN its = 1 .. Len(its)
  BY LenProperties
<1>2. CASE id \in Ids(its)
  <2>1. \E i \in DOMAIN its : its[i].id = id
    BY <1>2 DEF Ids
  <2>2. ItemPosition(its, id) = CHOOSE i \in DOMAIN its : its[i].id = id
    BY <1>2 DEF ItemPosition
  <2>3. ItemPosition(its, id) \in DOMAIN its /\ its[ItemPosition(its, id)].id = id
    BY <2>1, <2>2
  <2> QED
    BY <1>1, <2>3
<1>3. CASE id \notin Ids(its)
  BY <1>1, <1>3 DEF ItemPosition
<1> QED
  BY <1>2, <1>3

(* The rows of a queue by their ids, and the places of the order by theirs. *)
LEMMA PlacesFacts ==
  ASSUME QueueAssumption, QueueInv
  PROVE  LET n == Len(items)
             m == Len(shuffleOrder)
             row(id) == ItemPosition(items, id)
             at(id) == OrderPosition(shuffleOrder, id)
         IN  /\ n \in Nat /\ DOMAIN items = 1 .. n /\ m \in Nat
             /\ items = <<>> <=> n = 0
             /\ \A i \in 1 .. n : items[i].id # 0 /\ row(items[i].id) = i
             /\ shuffle =>
                  /\ \A i \in 1 .. n : /\ at(items[i].id) \in 1 .. m
                                       /\ shuffleOrder[at(items[i].id)] = items[i].id
                  /\ \A k \in 1 .. m :
                       /\ row(shuffleOrder[k]) \in 1 .. n
                       /\ items[row(shuffleOrder[k])].id = shuffleOrder[k]
                       /\ at(shuffleOrder[k]) = k
<1> DEFINE n == Len(items)
           m == Len(shuffleOrder)
           row(id) == ItemPosition(items, id)
           at(id) == OrderPosition(shuffleOrder, id)
<1>1. ItemsOK(items, queuedAssets, nextItemId)
  BY DEF QueueInv
<1>2. /\ n \in Nat /\ DOMAIN items = 1 .. n /\ items \in Seq(Item)
      /\ \A i \in 1 .. n : items[i].id \in 1 .. nextItemId - 1
      /\ \A i, j \in 1 .. n : items[i].id = items[j].id => i = j
  <2>1. /\ items \in Seq(Item)
        /\ \A i, j \in 1 .. n : items[i].id = items[j].id => i = j
    BY <1>1 DEF ItemsOK
  <2> QED
    BY <1>1, <2>1, ItemsFacts
<1>3. items = <<>> <=> n = 0
  BY <1>2, EmptySeq
<1>4. /\ shuffleOrder \in Seq(Nat)
      /\ shuffle => ToSet(shuffleOrder) = Ids(items) /\ IsInjective(shuffleOrder)
  BY DEF QueueInv, OrderOK
<1>5. m \in Nat /\ DOMAIN shuffleOrder = 1 .. m
  BY <1>4, LenProperties
<1>6. \A id : /\ row(id) \in 0 .. n
              /\ row(id) # 0 => items[row(id)].id = id
              /\ row(id) = 0 => id \notin Ids(items)
  BY <1>2, ItemPositionFacts
<1>7. \A id : /\ at(id) \in 0 .. m
              /\ at(id) # 0 => shuffleOrder[at(id)] = id
  BY <1>4, OrderPositionFacts
<1>8. \A id : at(id) = 0 => id \notin ToSet(shuffleOrder)
  <2> SUFFICES ASSUME NEW id, id \in ToSet(shuffleOrder) PROVE at(id) # 0
    OBVIOUS
  <2>1. \E i \in DOMAIN shuffleOrder : shuffleOrder[i] = id
    BY DEF ToSet
  <2>2. at(id) = CHOOSE i \in DOMAIN shuffleOrder : shuffleOrder[i] = id
    BY DEF OrderPosition
  <2>3. at(id) \in DOMAIN shuffleOrder
    BY <2>1, <2>2
  <2> QED
    BY <1>5, <2>3
<1> HIDE DEF n, m, row, at
<1>9. ASSUME NEW i \in 1 .. n
      PROVE  items[i].id # 0 /\ items[i].id \in Ids(items) /\ row(items[i].id) = i
  <2>1. items[i].id \in Ids(items)
    BY <1>2 DEF Ids
  <2>2. row(items[i].id) \in 1 .. n /\ items[row(items[i].id)].id = items[i].id
    BY <1>2, <1>6, <2>1
  <2> QED
    BY <1>2, <2>1, <2>2
<1>10. ASSUME shuffle, NEW i \in 1 .. n
       PROVE  at(items[i].id) \in 1 .. m /\ shuffleOrder[at(items[i].id)] = items[i].id
  BY <1>4, <1>5, <1>7, <1>8, <1>9, <1>10
<1>11. ASSUME shuffle, NEW k \in 1 .. m
       PROVE  /\ row(shuffleOrder[k]) \in 1 .. n
              /\ items[row(shuffleOrder[k])].id = shuffleOrder[k]
              /\ at(shuffleOrder[k]) = k
  <2>1. shuffleOrder[k] \in ToSet(shuffleOrder)
    BY <1>5 DEF ToSet
  <2>2. row(shuffleOrder[k]) \in 1 .. n /\ items[row(shuffleOrder[k])].id = shuffleOrder[k]
    BY <1>2, <1>4, <1>6, <1>11, <2>1
  <2>3. at(shuffleOrder[k]) \in 1 .. m /\ shuffleOrder[at(shuffleOrder[k])] = shuffleOrder[k]
    BY <1>5, <1>7, <1>8, <2>1
  <2>4. at(shuffleOrder[k]) = k
    BY <1>4, <1>5, <1>11, <2>3 DEF IsInjective
  <2> QED
    BY <2>2, <2>4
<1>12. /\ n \in Nat /\ DOMAIN items = 1 .. n /\ m \in Nat
       /\ items = <<>> <=> n = 0
  BY <1>2, <1>3, <1>5
<1> QED
  BY <1>9, <1>10, <1>11, <1>12 DEF n, m, row, at

(* Where Next goes from the track in row i. *)
LEMMA NextFacts ==
  ASSUME QueueAssumption, QueueInv, NEW i \in 1 .. Len(items), NEW wrap \in BOOLEAN
  PROVE  LET n == Len(items)
             m == Len(shuffleOrder)
             at == OrderPosition(shuffleOrder, items[i].id)
         IN  NextPosition(items[i], i, wrap) =
               IF shuffle
               THEN IF at < m THEN ItemPosition(items, shuffleOrder[at + 1])
                    ELSE IF wrap THEN ItemPosition(items, shuffleOrder[1]) ELSE 0
               ELSE IF i < n THEN i + 1 ELSE IF wrap THEN 1 ELSE 0
<1> DEFINE n == Len(items)
           m == Len(shuffleOrder)
           at == OrderPosition(shuffleOrder, items[i].id)
<1>1. /\ n \in Nat /\ m \in Nat /\ DOMAIN items = 1 .. n /\ items # <<>>
      /\ shuffle => at \in 1 .. m
  BY PlacesFacts
<1>2. CASE shuffle
  <2>1. OrPlace(at, shuffleCursor) = at /\ at \in 1 .. m
    BY <1>1, <1>2 DEF OrPlace
  <2>2. shuffleOrder # <<>>
    BY <2>1, EmptySeq
  <2> HIDE DEF at, m
  <2>3. NextPosition(items[i], i, wrap) =
          IF at + 1 <= m THEN ItemPosition(items, shuffleOrder[at + 1])
          ELSE IF wrap THEN ItemPosition(items, shuffleOrder[1]) ELSE 0
    BY <1>1, <1>2, <2>1, <2>2 DEF NextPosition, at, m
  <2>4. at + 1 <= m <=> at < m
    BY <1>1, <2>1
  <2> QED
    BY <1>2, <2>3, <2>4 DEF at, m
<1>3. CASE ~shuffle
  <2>1. CurrentPosition(items, items[i], i) = i
    BY <1>1 DEF CurrentPosition
  <2>2. i # 0 /\ (i + 1 <= n <=> i < n)
    BY <1>1
  <2> HIDE DEF n
  <2>3. NextPosition(items[i], i, wrap) = IF i + 1 <= n THEN i + 1 ELSE IF wrap THEN 1 ELSE 0
    BY <1>1, <1>3, <2>1, <2>2 DEF NextPosition, n
  <2> QED
    BY <1>3, <2>2, <2>3 DEF n
<1> QED
  BY <1>2, <1>3

LEMMA PreviousAfterNext ==
  ASSUME QueueAssumption, QueueInv
  PROVE  PreviousUndoesNext
<1> SUFFICES ASSUME NEW i \in DOMAIN items, NEW wrap \in BOOLEAN,
                    NEW next, next = NextPosition(items[i], i, wrap), next # 0
             PROVE  PreviousPosition(items[next], next, wrap) = i
  BY DEF PreviousUndoesNext
<1> DEFINE n == Len(items)
           m == Len(shuffleOrder)
           at(id) == OrderPosition(shuffleOrder, id)
           row(id) == ItemPosition(items, id)
<1>1. /\ n \in Nat /\ DOMAIN items = 1 .. n /\ m \in Nat
      /\ items = <<>> <=> n = 0
      /\ \A j \in 1 .. n : items[j].id # 0 /\ row(items[j].id) = j
      /\ shuffle =>
           /\ \A j \in 1 .. n : /\ at(items[j].id) \in 1 .. m
                                /\ shuffleOrder[at(items[j].id)] = items[j].id
           /\ \A k \in 1 .. m :
                /\ row(shuffleOrder[k]) \in 1 .. n
                /\ items[row(shuffleOrder[k])].id = shuffleOrder[k]
                /\ at(shuffleOrder[k]) = k
  BY PlacesFacts
<1>2. i \in 1 .. n /\ items # <<>>
  BY <1>1
<1>3. next = IF shuffle
             THEN IF at(items[i].id) < m THEN row(shuffleOrder[at(items[i].id) + 1])
                  ELSE IF wrap THEN row(shuffleOrder[1]) ELSE 0
             ELSE IF i < n THEN i + 1 ELSE IF wrap THEN 1 ELSE 0
  BY <1>2, NextFacts
<1>4. CASE shuffle
  <2> DEFINE p == at(items[i].id)
             q == IF p < m THEN p + 1 ELSE 1
  <2>1. p \in 1 .. m /\ shuffleOrder[p] = items[i].id /\ row(shuffleOrder[p]) = i
    BY <1>1, <1>2, <1>4
  <2>2. (p < m \/ wrap) /\ q \in 1 .. m /\ next = row(shuffleOrder[q])
    <3>1. next = IF p < m THEN row(shuffleOrder[p + 1])
                 ELSE IF wrap THEN row(shuffleOrder[1]) ELSE 0
      BY <1>3, <1>4
    <3>2. m \in Nat
      BY <1>1
    <3> HIDE DEF p, m, row
    <3>3. q \in 1 .. m
      BY <2>1, <3>2
    <3> QED
      BY <3>1, <3>3
  <2>3. next \in 1 .. n /\ items[next].id = shuffleOrder[q] /\ at(items[next].id) = q
    BY <1>1, <1>4, <2>2
  <2>4. items[next].id # 0
    BY <1>1, <2>3
  <2> HIDE DEF at, row, p
  <2>5. PreviousPlace(items[next], wrap) = p
    <3>1. PreviousPlace(items[next], wrap) = OrPlace(q - 1, IF wrap THEN m ELSE 0)
      BY <2>2, <2>3 DEF PreviousPlace, at
    <3>2. CASE p < m
      BY <1>1, <2>1, <3>1, <3>2 DEF OrPlace
    <3>3. CASE ~(p < m)
      BY <1>1, <2>1, <2>2, <3>1, <3>3 DEF OrPlace
    <3> QED
      BY <3>2, <3>3
  <2>6. PreviousPosition(items[next], next, wrap) = row(shuffleOrder[p])
    BY <1>2, <1>4, <2>1, <2>4, <2>5 DEF PreviousPosition, row
  <2> QED
    BY <2>1, <2>6
<1>5. CASE ~shuffle
  <2>1. /\ i < n \/ wrap
        /\ next = IF i < n THEN i + 1 ELSE 1
    BY <1>3, <1>5
  <2>2. next \in 1 .. n
    BY <1>1, <1>2, <2>1
  <2>3. CurrentPosition(items, items[next], next) = next
    BY <1>1, <2>2 DEF CurrentPosition
  <2>4. PreviousPosition(items[next], next, wrap) = OrPlace(next - 1, IF wrap THEN n ELSE 0)
    BY <1>1, <1>2, <1>5, <2>2, <2>3 DEF PreviousPosition
  <2>5. CASE i < n
    BY <1>1, <1>2, <2>1, <2>4, <2>5 DEF OrPlace
  <2>6. CASE ~(i < n)
    BY <1>1, <1>2, <2>1, <2>4, <2>6 DEF OrPlace
  <2> QED
    BY <2>5, <2>6
<1> QED
  BY <1>4, <1>5

(* A shuffle order has as many places as the queue has rows. *)
LEMMA OrderLength ==
  ASSUME QueueAssumption, QueueInv, shuffle
  PROVE  Len(shuffleOrder) = Len(items)
<1> DEFINE n == Len(items)
           m == Len(shuffleOrder)
           at(id) == OrderPosition(shuffleOrder, id)
           row(id) == ItemPosition(items, id)
<1>1. /\ n \in Nat /\ m \in Nat
      /\ \A i \in 1 .. n : at(items[i].id) \in 1 .. m /\ shuffleOrder[at(items[i].id)] = items[i].id
                           /\ row(items[i].id) = i
      /\ \A k \in 1 .. m : row(shuffleOrder[k]) \in 1 .. n /\ at(shuffleOrder[k]) = k
                           /\ items[row(shuffleOrder[k])].id = shuffleOrder[k]
  BY PlacesFacts
<1> HIDE DEF n, m, at, row
<1> DEFINE f == [i \in 1 .. n |-> at(items[i].id)]
<1>2. f \in Bijection(1 .. n, 1 .. m)
  <2>1. f \in [1 .. n -> 1 .. m]
    BY <1>1
  <2>2. \A i, j \in 1 .. n : f[i] = f[j] => i = j
    BY <1>1
  <2>3. ASSUME NEW k \in 1 .. m PROVE \E i \in 1 .. n : f[i] = k
    <3> DEFINE i == row(shuffleOrder[k])
    <3>1. i \in 1 .. n /\ items[i].id = shuffleOrder[k] /\ at(shuffleOrder[k]) = k
      BY <1>1
    <3> HIDE DEF i
    <3>2. f[i] = k
      BY <3>1
    <3> QED
      BY <3>1, <3>2
  <2> HIDE DEF f
  <2>4. DOMAIN f = 1 .. n
    BY <2>1
  <2> QED
    BY <2>1, <2>2, <2>3, <2>4 DEF Bijection, Injection, Surjection, IsInjective
<1>3. IsFiniteSet(1 .. n) /\ IsFiniteSet(1 .. m)
  BY <1>1, FS_Interval
<1>4. Cardinality(1 .. m) = Cardinality(1 .. n)
  BY <1>2, <1>3, FS_Bijection DEF ExistsBijection
<1>5. ASSUME NEW a \in Nat PROVE Cardinality(1 .. a) = a
  <2>1. CASE a = 0
    <3>1. 1 .. a = {}
      BY <2>1
    <3> QED
      BY <2>1, <3>1, FS_EmptySet
  <2>2. CASE a # 0
    BY <2>2, FS_Interval
  <2> QED
    BY <2>1, <2>2
<1> QED
  BY <1>1, <1>4, <1>5 DEF n, m

(* The round: rows and their places in the order that is played, and back. *)
InRound(i) == IF shuffle THEN OrderPosition(shuffleOrder, items[i].id) ELSE i
AtPlace(p) == IF shuffle THEN ItemPosition(items, shuffleOrder[p]) ELSE p

LEMMA RoundFacts ==
  ASSUME QueueAssumption, QueueInv
  PROVE  LET n == Len(items)
         IN  /\ n \in Nat /\ DOMAIN items = 1 .. n
             /\ \A i \in 1 .. n : /\ InRound(i) \in 1 .. n /\ AtPlace(InRound(i)) = i
                                  /\ NextPosition(items[i], i, TRUE) =
                                       AtPlace(IF InRound(i) < n THEN InRound(i) + 1 ELSE 1)
             /\ \A p \in 1 .. n : AtPlace(p) \in 1 .. n /\ InRound(AtPlace(p)) = p
<1> DEFINE n == Len(items)
           m == Len(shuffleOrder)
           at(id) == OrderPosition(shuffleOrder, id)
           row(id) == ItemPosition(items, id)
<1>1. /\ n \in Nat /\ DOMAIN items = 1 .. n
      /\ \A i \in 1 .. n : items[i].id # 0 /\ row(items[i].id) = i
      /\ shuffle =>
           /\ \A i \in 1 .. n : /\ at(items[i].id) \in 1 .. m
                                /\ shuffleOrder[at(items[i].id)] = items[i].id
           /\ \A k \in 1 .. m : /\ row(shuffleOrder[k]) \in 1 .. n
                                /\ items[row(shuffleOrder[k])].id = shuffleOrder[k]
                                /\ at(shuffleOrder[k]) = k
  BY PlacesFacts
<1>2. shuffle => m = n
  BY OrderLength
<1>3. \A i \in 1 .. n :
        NextPosition(items[i], i, TRUE) =
          IF shuffle THEN IF at(items[i].id) < m THEN row(shuffleOrder[at(items[i].id) + 1])
                          ELSE row(shuffleOrder[1])
          ELSE IF i < n THEN i + 1 ELSE 1
  BY NextFacts
<1> HIDE DEF n, m, at, row
<1>4. CASE shuffle
  <2>1. /\ \A i : InRound(i) = at(items[i].id)
        /\ \A p : AtPlace(p) = row(shuffleOrder[p])
    BY <1>4 DEF InRound, AtPlace, at, row
  <2>2. \A i \in 1 .. n : InRound(i) \in 1 .. n /\ AtPlace(InRound(i)) = i
    BY <1>1, <1>2, <1>4, <2>1
  <2>3. \A p \in 1 .. n : AtPlace(p) \in 1 .. n /\ InRound(AtPlace(p)) = p
    BY <1>1, <1>2, <1>4, <2>1
  <2>4. \A i \in 1 .. n : NextPosition(items[i], i, TRUE) =
                            AtPlace(IF InRound(i) < n THEN InRound(i) + 1 ELSE 1)
    BY <1>2, <1>3, <1>4, <2>1
  <2> QED
    BY <1>1, <2>2, <2>3, <2>4 DEF n
<1>5. CASE ~shuffle
  <2>1. (\A i : InRound(i) = i) /\ (\A p : AtPlace(p) = p)
    BY <1>5 DEF InRound, AtPlace
  <2>2. \A i \in 1 .. n : InRound(i) \in 1 .. n /\ AtPlace(InRound(i)) = i
    BY <2>1
  <2>3. \A p \in 1 .. n : AtPlace(p) \in 1 .. n /\ InRound(AtPlace(p)) = p
    BY <2>1
  <2>4. \A i \in 1 .. n : NextPosition(items[i], i, TRUE) =
                            AtPlace(IF InRound(i) < n THEN InRound(i) + 1 ELSE 1)
    <3>1. \A i \in 1 .. n : NextPosition(items[i], i, TRUE) = IF i < n THEN i + 1 ELSE 1
      BY <1>3, <1>5
    <3> SUFFICES ASSUME NEW i \in 1 .. n
                 PROVE  NextPosition(items[i], i, TRUE) =
                          AtPlace(IF InRound(i) < n THEN InRound(i) + 1 ELSE 1)
      OBVIOUS
    <3> DEFINE q == IF InRound(i) < n THEN InRound(i) + 1 ELSE 1
    <3>2. q = IF i < n THEN i + 1 ELSE 1
      <4>1. InRound(i) = i
        BY <2>1, Zenon
      <4> QED
        BY <4>1
    <3> HIDE DEF q
    <3>3. AtPlace(q) = q
      BY <2>1, Zenon
    <3>4. NextPosition(items[i], i, TRUE) = AtPlace(q)
      BY <3>1, <3>2, <3>3
    <3> QED
      BY <3>4 DEF q
  <2> QED
    BY <1>1, <2>2, <2>3, <2>4 DEF n
<1> QED
  BY <1>4, <1>5

(* Next goes through the places of the round, one after another. *)
LEMMA RoundVisits ==
  ASSUME QueueAssumption, QueueInv
  PROVE  RoundVisitsEveryTrack
<1> SUFFICES ASSUME NEW i \in DOMAIN items
             PROVE  LET visit[k \in 0 .. Len(items)] ==
                          IF k = 0 THEN i
                          ELSE NextPosition(items[visit[k - 1]], visit[k - 1], TRUE)
                    IN  /\ visit[Len(items)] = i
                        /\ {visit[k] : k \in DOMAIN visit} = DOMAIN items
  BY DEF RoundVisitsEveryTrack
<1> DEFINE n == Len(items)
           from == InRound(i)
           place(k) == IF from + k <= n THEN from + k ELSE from + k - n
           step(f) == [k \in 0 .. n |-> IF k = 0 THEN i
                                        ELSE NextPosition(items[f[k - 1]], f[k - 1], TRUE)]
           round == [k \in 0 .. n |-> AtPlace(place(k))]
           visit == CHOOSE f : f = step(f)
<1>1. /\ n \in Nat /\ DOMAIN items = 1 .. n
      /\ \A j \in 1 .. n : /\ InRound(j) \in 1 .. n /\ AtPlace(InRound(j)) = j
                           /\ NextPosition(items[j], j, TRUE) =
                                AtPlace(IF InRound(j) < n THEN InRound(j) + 1 ELSE 1)
      /\ \A p \in 1 .. n : AtPlace(p) \in 1 .. n /\ InRound(AtPlace(p)) = p
  BY RoundFacts
<1>2. i \in 1 .. n /\ from \in 1 .. n /\ AtPlace(from) = i
  BY <1>1
<1>a. n \in Nat /\ 0 \in 0 .. n /\ n \in 0 .. n
  BY <1>1
<1> HIDE DEF n, from
<1>3. /\ place(0) = from /\ place(n) = from
      /\ \A k \in 0 .. n : place(k) \in 1 .. n
      /\ \A k \in 1 .. n : place(k) = IF place(k - 1) < n THEN place(k - 1) + 1 ELSE 1
      /\ \A p \in 1 .. n : \E k \in 0 .. n : place(k) = p
  <2>1. place(0) = from /\ place(n) = from
    BY <1>2, <1>a
  <2>2. \A k \in 0 .. n : place(k) \in 1 .. n
    BY <1>2, <1>a
  <2>3. \A k \in 1 .. n : place(k) = IF place(k - 1) < n THEN place(k - 1) + 1 ELSE 1
    BY <1>2, <1>a
  <2>4. ASSUME NEW p \in 1 .. n PROVE \E k \in 0 .. n : place(k) = p
    <3> DEFINE l == IF p >= from THEN p - from ELSE p - from + n
    <3>1. l \in 0 .. n
      BY <1>2, <1>a
    <3>2. place(l) = p
      BY <1>2, <1>a
    <3> QED
      BY <3>1, <3>2
  <2> QED
    BY <2>1, <2>2, <2>3, <2>4
<1> HIDE DEF place
<1>4. round = step(round)
  <2>1. \A k \in 0 .. n : round[k] = AtPlace(place(k)) /\ round[k] \in 1 .. n
                          /\ InRound(round[k]) = place(k)
    BY <1>1, <1>3
  <2> HIDE DEF round
  <2>2. ASSUME NEW k \in 0 .. n
        PROVE  AtPlace(place(k)) =
                 IF k = 0 THEN i ELSE NextPosition(items[round[k - 1]], round[k - 1], TRUE)
    <3>1. CASE k = 0
      BY <1>1, <1>2, <1>3, <3>1
    <3>2. CASE k # 0
      <4>1. k \in 1 .. n /\ k - 1 \in 0 .. n
        BY <1>1, <3>2
      <4>2. place(k) = IF InRound(round[k - 1]) < n THEN InRound(round[k - 1]) + 1 ELSE 1
        BY <1>3, <2>1, <4>1
      <4>3. NextPosition(items[round[k - 1]], round[k - 1], TRUE) = AtPlace(place(k))
        BY <1>1, <2>1, <4>1, <4>2
      <4> QED
        BY <3>2, <4>3
    <3> QED
      BY <3>1, <3>2
  <2> QED
    BY <2>2 DEF round
<1>5. visit = step(visit)
  <2> HIDE DEF step, round
  <2> QED
    BY <1>4
<1>b. \A f : /\ step(f)[0] = i /\ DOMAIN step(f) = 0 .. n
             /\ \A k \in 1 .. n : step(f)[k] = NextPosition(items[f[k - 1]], f[k - 1], TRUE)
  <2> SUFFICES ASSUME NEW f
               PROVE  /\ step(f)[0] = i /\ DOMAIN step(f) = 0 .. n
                      /\ \A k \in 1 .. n :
                           step(f)[k] = NextPosition(items[f[k - 1]], f[k - 1], TRUE)
    OBVIOUS
  <2>1. \A k \in 0 .. n : step(f)[k] = IF k = 0 THEN i
                                      ELSE NextPosition(items[f[k - 1]], f[k - 1], TRUE)
    OBVIOUS
  <2>2. DOMAIN step(f) = 0 .. n
    OBVIOUS
  <2> HIDE DEF step
  <2>3. \A k \in 1 .. n : k \in 0 .. n /\ k # 0
    BY <1>a
  <2> QED
    BY <1>a, <2>1, <2>2, <2>3
<1> HIDE DEF step, visit
<1>6. /\ DOMAIN visit = 0 .. n /\ visit[0] = i
      /\ \A k \in 1 .. n : visit[k] = NextPosition(items[visit[k - 1]], visit[k - 1], TRUE)
  BY <1>5, <1>b
<1>c. \A k \in 0 .. n : round[k] = AtPlace(place(k))
  OBVIOUS
<1> HIDE DEF round
<1>7. /\ round[0] = i
      /\ \A k \in 1 .. n : round[k] = NextPosition(items[round[k - 1]], round[k - 1], TRUE)
  BY <1>4, <1>b
<1>8. \A k \in 0 .. n : visit[k] = round[k]
  <2> HIDE DEF round
  <2> DEFINE bad == {k \in 0 .. n : visit[k] # round[k]}
  <2> SUFFICES ASSUME bad # {} PROVE FALSE
    OBVIOUS
  <2>1. bad \in SUBSET Nat
    BY <1>1
  <2>2. PICK k \in bad : \A l \in bad : k <= l
    BY <2>1, LeastElement
  <2>3. k # 0 /\ k \in 1 .. n /\ k - 1 \in 0 .. n
    BY <1>1, <1>6, <1>7, <2>2
  <2>4. k - 1 \notin bad
    BY <2>2, <2>3
  <2>5. visit[k - 1] = round[k - 1]
    BY <2>3, <2>4
  <2>6. visit[k] = round[k]
    BY <1>6, <1>7, <2>3, <2>5
  <2> QED
    BY <2>2, <2>6
<1>9. visit[n] = i /\ {visit[k] : k \in DOMAIN visit} = DOMAIN items
  <2>1. \A k \in 0 .. n : visit[k] = AtPlace(place(k))
    BY <1>8, <1>c
  <2>2. visit[n] = i
    BY <1>2, <1>3, <1>a, <2>1
  <2>3. \A k \in 0 .. n : visit[k] \in 1 .. n
    BY <1>1, <1>3, <2>1
  <2>4. \A j \in 1 .. n : \E k \in 0 .. n : visit[k] = j
    <3>1. SUFFICES ASSUME NEW j \in 1 .. n PROVE \E k \in 0 .. n : visit[k] = j
      OBVIOUS
    <3>2. InRound(j) \in 1 .. n /\ AtPlace(InRound(j)) = j
      BY <1>1
    <3>3. PICK k \in 0 .. n : place(k) = InRound(j)
      BY <1>3, <3>2
    <3> QED
      BY <2>1, <3>2, <3>3
  <2>5. {visit[k] : k \in DOMAIN visit} = 1 .. n
    <3>1. DOMAIN visit = 0 .. n
      BY <1>6
    <3> QED
      BY <2>3, <2>4, <3>1, Zenon
  <2> QED
    BY <1>1, <2>2, <2>5
<1> QED
  <2>1. visit = [k \in 0 .. Len(items) |->
                   IF k = 0 THEN i ELSE NextPosition(items[visit[k - 1]], visit[k - 1], TRUE)]
    BY <1>5 DEF step, n
  <2> QED
    BY <1>9 DEF visit, step, n

(* Next and Previous agree on one order of play in every reachable queue,
   shuffled or not, wrapping around or not. *)
THEOREM PreviousAlwaysUndoesNext == QueueSpec => []PreviousUndoesNext
<1>1. QueueInv => PreviousUndoesNext
  BY QueueAssumption, PreviousAfterNext
<1> QED
  BY <1>1, QueueInvariant, PTL

(* With repeat-all, pressing Next as often as the queue has items plays each of
   them and comes back to the one it started from, in every reachable queue. *)
THEOREM RoundsVisitEveryTrack == QueueSpec => []RoundVisitsEveryTrack
<1>1. QueueInv => RoundVisitsEveryTrack
  BY QueueAssumption, RoundVisits
<1> QED
  BY <1>1, QueueInvariant, PTL

-----------------------------------------------------------------------------
(* What has been played of a shuffled queue. *)

(* The part of an order up to the cursor, and what an extension and a removal
   leave of it. *)
LEMMA PrefixFacts ==
  ASSUME NEW s \in Seq(Nat), NEW c \in 0 .. Len(s)
  PROVE  /\ SubSeq(s, 1, c) \in Seq(Nat)
         /\ Len(SubSeq(s, 1, c)) = c
         /\ DOMAIN SubSeq(s, 1, c) = 1 .. c
         /\ \A i \in 1 .. c : SubSeq(s, 1, c)[i] = s[i]
<1>1. Len(s) \in Nat /\ c \in Nat
  BY LenProperties
<1>2. \A i \in 1 .. c : s[i] \in Nat
  BY <1>1, ElementOfSeq
<1> DEFINE p == SubSeq(s, 1, c)
<1>3. /\ p \in Seq(Nat)
      /\ Len(p) = IF 1 <= c THEN c - 1 + 1 ELSE 0
      /\ \A i \in 1 .. c - 1 + 1 : p[i] = s[1 + i - 1]
  BY <1>1, <1>2, SubSeqProperties
<1> HIDE DEF p
<1>4. Len(p) = c
  BY <1>1, <1>3
<1>5. DOMAIN p = 1 .. c
  BY <1>3, <1>4, LenProperties
<1>6. \A i \in 1 .. c : p[i] = s[i]
  BY <1>1, <1>3
<1> QED
  BY <1>3, <1>4, <1>5, <1>6 DEF p

LEMMA PrefixOfExtended ==
  ASSUME NEW s \in Seq(Nat), NEW c \in 0 .. Len(s), NEW rest \in Seq(Nat)
  PROVE  SubSeq(SubSeq(s, 1, c) \o rest, 1, c) = SubSeq(s, 1, c)
<1> DEFINE p == SubSeq(s, 1, c)
           whole == p \o rest
<1>1. p \in Seq(Nat) /\ Len(p) = c
  BY PrefixFacts
<1>2. Len(rest) \in Nat /\ c \in Nat
  BY LenProperties
<1> HIDE DEF p
<1>3. /\ whole \in Seq(Nat) /\ Len(whole) = c + Len(rest)
      /\ \A i \in 1 .. c + Len(rest) : whole[i] = IF i <= c THEN p[i] ELSE rest[i - c]
  BY <1>1, ConcatProperties
<1> HIDE DEF whole
<1>4. c \in 0 .. Len(whole) /\ \A i \in 1 .. c : whole[i] = p[i]
  BY <1>2, <1>3
<1>5. /\ SubSeq(whole, 1, c) \in Seq(Nat) /\ Len(SubSeq(whole, 1, c)) = c
      /\ \A i \in 1 .. c : SubSeq(whole, 1, c)[i] = whole[i]
  BY <1>3, <1>4, PrefixFacts
<1>6. SubSeq(whole, 1, c) = p
  BY <1>1, <1>4, <1>5, SeqEqual
<1> QED
  BY <1>6 DEF whole, p

LEMMA PrefixOfRemoved ==
  ASSUME NEW s \in Seq(Nat), NEW c \in 0 .. Len(s), NEW k \in 1 .. Len(s)
  PROVE  SubSeq(RemoveAt(s, k), 1, IF k <= c THEN c - 1 ELSE c) =
           IF k <= c THEN RemoveAt(SubSeq(s, 1, c), k) ELSE SubSeq(s, 1, c)
<1> DEFINE p == SubSeq(s, 1, c)
           left == RemoveAt(s, k)
<1>1. p \in Seq(Nat) /\ Len(p) = c /\ \A i \in 1 .. c : p[i] = s[i]
  BY PrefixFacts
<1>2. Len(s) \in Nat /\ c \in Nat /\ k \in Nat
  BY LenProperties
<1>3. /\ left \in Seq(Nat) /\ Len(left) = Len(s) - 1
      /\ \A i \in 1 .. Len(s) - 1 : left[i] = IF i < k THEN s[i] ELSE s[i + 1]
  BY RemoveAtProperties
<1> HIDE DEF left, p
<1>4. CASE k <= c
  <2>1. c - 1 \in 0 .. Len(left)
    BY <1>2, <1>3, <1>4
  <2>2. /\ SubSeq(left, 1, c - 1) \in Seq(Nat) /\ Len(SubSeq(left, 1, c - 1)) = c - 1
        /\ \A i \in 1 .. c - 1 : SubSeq(left, 1, c - 1)[i] = left[i]
    BY <1>3, <2>1, PrefixFacts
  <2>3. k \in 1 .. Len(p)
    BY <1>1, <1>2, <1>4
  <2> DEFINE rest == RemoveAt(p, k)
  <2>4. /\ rest \in Seq(Nat) /\ Len(rest) = Len(p) - 1
        /\ \A i \in 1 .. Len(p) - 1 : rest[i] = IF i < k THEN p[i] ELSE p[i + 1]
    BY <1>1, <2>3, RemoveAtProperties
  <2> HIDE DEF rest
  <2>5. \A i \in 1 .. c - 1 : left[i] = rest[i]
    <3> SUFFICES ASSUME NEW i \in 1 .. c - 1 PROVE left[i] = rest[i]
      OBVIOUS
    <3>1. i \in 1 .. c /\ i + 1 \in 1 .. c /\ i \in 1 .. Len(s) - 1
      BY <1>2
    <3>2. left[i] = IF i < k THEN s[i] ELSE s[i + 1]
      BY <1>3, <3>1
    <3>3. rest[i] = IF i < k THEN p[i] ELSE p[i + 1]
      BY <1>1, <2>4
    <3> QED
      BY <1>1, <3>1, <3>2, <3>3
  <2>6. SubSeq(left, 1, c - 1) = rest
    BY <1>1, <2>2, <2>4, <2>5, SeqEqual
  <2> QED
    BY <1>4, <2>6 DEF left, rest, p
<1>5. CASE ~(k <= c)
  <2>1. c \in 0 .. Len(left)
    BY <1>2, <1>3, <1>5
  <2>2. /\ SubSeq(left, 1, c) \in Seq(Nat) /\ Len(SubSeq(left, 1, c)) = c
        /\ \A i \in 1 .. c : SubSeq(left, 1, c)[i] = left[i]
    BY <1>3, <2>1, PrefixFacts
  <2>3. \A i \in 1 .. c : left[i] = p[i]
    <3> SUFFICES ASSUME NEW i \in 1 .. c PROVE left[i] = p[i]
      OBVIOUS
    <3>1. i \in 1 .. Len(s) - 1 /\ i < k
      BY <1>2, <1>5
    <3>2. left[i] = s[i]
      BY <1>3, <3>1
    <3> QED
      BY <1>1, <3>2
  <2>4. SubSeq(left, 1, c) = p
    BY <1>1, <2>2, <2>3, SeqEqual
  <2> QED
    BY <1>5, <2>4 DEF left, p
<1> QED
  BY <1>4, <1>5

(* The order of a shuffled queue before and after a step that keeps shuffle on. *)
LEMMA ShuffledFacts ==
  ASSUME QueueInv, QueueInv', shuffle, shuffle'
  PROVE  /\ shuffleOrder \in Seq(Nat) /\ shuffleCursor \in 0 .. Len(shuffleOrder)
         /\ DOMAIN shuffleOrder = 1 .. Len(shuffleOrder) /\ Len(shuffleOrder) \in Nat
         /\ IsInjective(shuffleOrder) /\ ToSet(shuffleOrder) = Ids(items)
         /\ shuffleOrder' \in Seq(Nat)
         /\ DOMAIN shuffleOrder' = 1 .. Len(shuffleOrder') /\ Len(shuffleOrder') \in Nat
         /\ ToSet(shuffleOrder') = Ids(items')
<1>1. /\ shuffleOrder \in Seq(Nat) /\ shuffleCursor \in 0 .. Len(shuffleOrder)
      /\ IsInjective(shuffleOrder) /\ ToSet(shuffleOrder) = Ids(items)
      /\ shuffleOrder' \in Seq(Nat) /\ ToSet(shuffleOrder') = Ids(items')
  BY DEF QueueInv, OrderOK
<1> QED
  BY <1>1, LenProperties

(* Nothing that was played is gone: the prefix stays as it is. *)
LEMMA KeptWhole ==
  ASSUME QueueInv, QueueInv', shuffle, shuffle',
         SubSeq(shuffleOrder', 1, shuffleCursor') = SubSeq(shuffleOrder, 1, shuffleCursor),
         \A i \in 1 .. shuffleCursor : shuffleOrder[i] \in Ids(items')
  PROVE  PlayedKept
<1> DEFINE played == SubSeq(shuffleOrder, 1, shuffleCursor)
<1>1. DOMAIN played = 1 .. shuffleCursor /\ \A i \in 1 .. shuffleCursor : played[i] = shuffleOrder[i]
  BY ShuffledFacts, PrefixFacts
<1> HIDE DEF played
<1>2. {i \in DOMAIN played : played[i] \notin Ids(items')} = {}
  BY <1>1
<1> QED
  BY <1>2 DEF PlayedKept, played

LEMMA AppendBatchKeeps ==
  ASSUME QueueAssumption, QueueInv, NEW batch \in Batches, AppendBatch(batch)
  PROVE  PlayedKept
<1> SUFFICES ASSUME shuffle, shuffle' PROVE PlayedKept
  BY DEF PlayedKept
<1>1. QueueInv'
  BY AppendBatchInv
<1>2. /\ shuffleOrder \in Seq(Nat) /\ shuffleCursor \in 0 .. Len(shuffleOrder)
      /\ DOMAIN shuffleOrder = 1 .. Len(shuffleOrder) /\ Len(shuffleOrder) \in Nat
      /\ ToSet(shuffleOrder) = Ids(items)
  BY <1>1, ShuffledFacts
<1> DEFINE played == SubSeq(shuffleOrder, 1, shuffleCursor)
           new == {shuffleOrder[i] : i \in shuffleCursor + 1 .. Len(shuffleOrder)}
                    \cup Ids(Appended(batch))
<1>3. /\ Ids(items') = Ids(items) \cup Ids(Appended(batch))
      /\ Ids(Appended(batch)) \subseteq Nat
      /\ IsFiniteSet(Ids(Appended(batch)))
  BY AppendItemsEstablishes DEF AppendBatch
<1>4. ExtendShuffleOrder(Ids(Appended(batch)))
  BY DEF AppendBatch
<1>5. AtMost(shuffleCursor, Len(shuffleOrder)) = shuffleCursor
  BY <1>2 DEF AtMost
<1>6. PICK rest \in Bijection(1 .. Cardinality(new), new) : shuffleOrder' = played \o rest
  BY <1>4, <1>5 DEF ExtendShuffleOrder, Orders
<1>7. shuffleCursor' = shuffleCursor
  BY <1>4 DEF ExtendShuffleOrder
<1>8. IsFiniteSet(new) /\ new \subseteq Nat
  <2>1. IsFiniteSet(Ids(items)) /\ Ids(items) \subseteq Nat
    BY ItemsFacts DEF QueueInv
  <2>2. \A i \in shuffleCursor + 1 .. Len(shuffleOrder) : shuffleOrder[i] \in Ids(items)
    BY <1>2 DEF ToSet
  <2>3. new \subseteq Ids(items) \cup Ids(Appended(batch))
    BY <2>2
  <2> HIDE DEF new
  <2>4. IsFiniteSet(Ids(items) \cup Ids(Appended(batch)))
    BY <1>3, <2>1, FS_Union
  <2> QED
    BY <1>3, <2>1, <2>3, <2>4, FS_Subset
<1> HIDE DEF new
<1>9. rest \in Seq(Nat)
  <2>1. rest \in Seq(new)
    BY <1>6, <1>8, ListingDistinct
  <2> QED
    BY <1>8, <2>1, SeqMonotonic
<1>10. SubSeq(shuffleOrder', 1, shuffleCursor') = SubSeq(shuffleOrder, 1, shuffleCursor)
  BY <1>2, <1>6, <1>7, <1>9, PrefixOfExtended
<1>11. \A i \in 1 .. shuffleCursor : shuffleOrder[i] \in Ids(items')
  <2>1. \A i \in 1 .. shuffleCursor : i \in DOMAIN shuffleOrder
    BY <1>2
  <2>2. \A i \in DOMAIN shuffleOrder : shuffleOrder[i] \in Ids(items)
    BY <1>2 DEF ToSet
  <2> QED
    BY <1>3, <2>1, <2>2
<1> QED
  BY <1>1, <1>10, <1>11, KeptWhole

LEMMA MoveSelectedKeeps ==
  ASSUME QueueAssumption, QueueInv, NEW down \in BOOLEAN, MoveSelected(down)
  PROVE  PlayedKept
<1> SUFFICES ASSUME shuffle, shuffle' PROVE PlayedKept
  BY DEF PlayedKept
<1>1. QueueInv'
  BY MoveSelectedInv
<1>2. shuffleOrder' = shuffleOrder /\ shuffleCursor' = shuffleCursor
  BY DEF MoveSelected
<1>3. /\ DOMAIN shuffleOrder = 1 .. Len(shuffleOrder) /\ Len(shuffleOrder) \in Nat
      /\ shuffleCursor \in 0 .. Len(shuffleOrder)
      /\ ToSet(shuffleOrder') = Ids(items')
  BY <1>1, ShuffledFacts
<1>4. \A i \in 1 .. shuffleCursor : shuffleOrder[i] \in Ids(items')
  BY <1>2, <1>3 DEF ToSet
<1> QED
  BY <1>1, <1>2, <1>4, KeptWhole

LEMMA RemoveSelectedKeeps ==
  ASSUME QueueAssumption, QueueInv, RemoveSelected
  PROVE  PlayedKept
<1> SUFFICES ASSUME shuffle, shuffle' PROVE PlayedKept
  BY DEF PlayedKept
<1> DEFINE id == items[selection].id
           k == OrderPosition(shuffleOrder, id)
           played == SubSeq(shuffleOrder, 1, shuffleCursor)
           gone == {i \in DOMAIN played : played[i] \notin Ids(items')}
<1>1. QueueInv'
  BY RemoveSelectedInv
<1>2. /\ shuffleOrder \in Seq(Nat) /\ shuffleCursor \in 0 .. Len(shuffleOrder)
      /\ DOMAIN shuffleOrder = 1 .. Len(shuffleOrder) /\ Len(shuffleOrder) \in Nat
      /\ IsInjective(shuffleOrder) /\ ToSet(shuffleOrder) = Ids(items)
  BY <1>1, ShuffledFacts
<1>3. ItemsOK(items, queuedAssets, nextItemId)
  BY DEF QueueInv
<1>4. Len(items) \in Nat /\ DOMAIN items = 1 .. Len(items)
  BY <1>3, ItemsFacts
<1>5. selection \in 1 .. Len(items)
  BY <1>4 DEF RemoveSelected, QueueInv, SelectionOK, AtLeast
<1>6. Ids(items') = Ids(items) \ {id} /\ id \in Ids(items)
  <2>1. id \in Ids(items)
    BY <1>4, <1>5 DEF Ids
  <2>2. /\ items' = RemoveAt(items, selection)
        /\ queuedAssets' = queuedAssets \ {AssetOf[items[selection].entry]}
        /\ nextItemId' = nextItemId
    BY DEF RemoveSelected
  <2> QED
    BY <1>3, <1>5, <2>1, <2>2, RemovalOfItem
<1>7. k \in 1 .. Len(shuffleOrder) /\ shuffleOrder[k] = id
  <2>1. \E i \in DOMAIN shuffleOrder : shuffleOrder[i] = id
    BY <1>2, <1>6 DEF ToSet
  <2>2. k = CHOOSE i \in DOMAIN shuffleOrder : shuffleOrder[i] = id
    BY <1>2, <1>6 DEF OrderPosition
  <2>3. k \in DOMAIN shuffleOrder /\ shuffleOrder[k] = id
    BY <2>1, <2>2
  <2> QED
    BY <1>2, <2>3
<1>8. /\ shuffleOrder' = RemoveAt(shuffleOrder, k)
      /\ shuffleCursor' = IF k <= shuffleCursor THEN shuffleCursor - 1 ELSE shuffleCursor
  <2>1. RemoveFromShuffleOrder(id)
    BY DEF RemoveSelected
  <2>2. k # 0
    BY <1>2, <1>7
  <2> QED
    BY <2>1, <2>2 DEF RemoveFromShuffleOrder
<1> HIDE DEF k, id
<1>9. SubSeq(shuffleOrder', 1, shuffleCursor') =
        IF k <= shuffleCursor THEN RemoveAt(played, k) ELSE played
  BY <1>2, <1>7, <1>8, PrefixOfRemoved
<1>10. \A i \in 1 .. Len(shuffleOrder) : shuffleOrder[i] \in Ids(items') <=> i # k
  <2> SUFFICES ASSUME NEW i \in 1 .. Len(shuffleOrder)
               PROVE  shuffleOrder[i] \in Ids(items') <=> i # k
    OBVIOUS
  <2>1. shuffleOrder[i] \in Ids(items)
    BY <1>2 DEF ToSet
  <2>2. shuffleOrder[i] = id <=> i = k
    BY <1>2, <1>7 DEF IsInjective
  <2> QED
    BY <1>6, <2>1, <2>2
<1>11. DOMAIN played = 1 .. shuffleCursor /\ \A i \in 1 .. shuffleCursor : played[i] = shuffleOrder[i]
  BY <1>2, PrefixFacts
<1> HIDE DEF played
<1>12. gone = IF k <= shuffleCursor THEN {k} ELSE {}
  <2>1. \A i \in 1 .. shuffleCursor : i \in 1 .. Len(shuffleOrder)
    BY <1>2
  <2>2. \A i : i \in gone <=> i \in 1 .. shuffleCursor /\ i = k
    BY <1>10, <1>11, <2>1
  <2>3. k \in 1 .. shuffleCursor <=> k <= shuffleCursor
    BY <1>2, <1>7
  <2> HIDE DEF gone
  <2> QED
    BY <2>2, <2>3
<1> HIDE DEF gone
<1>13. SubSeq(shuffleOrder', 1, shuffleCursor') =
         IF gone = {} THEN played ELSE RemoveAt(played, CHOOSE i \in gone : TRUE)
  <2>1. CASE k <= shuffleCursor
    <3>1. gone = {k}
      BY <1>12, <2>1
    <3>2. (CHOOSE i \in gone : TRUE) = k
      BY <3>1
    <3> QED
      BY <1>9, <2>1, <3>1, <3>2
  <2>2. CASE ~(k <= shuffleCursor)
    BY <1>9, <1>12, <2>2
  <2> QED
    BY <2>1, <2>2
<1> QED
  BY <1>13 DEF PlayedKept, gone, played

(* Every step of the queue keeps what has been played. *)
LEMMA PlayedStaysKept ==
  ASSUME QueueAssumption, QueueInv, [QueueNext]_queueVars
  PROVE  PlayedKept
<1>1. ASSUME NEW batch \in Batches, AppendBatch(batch) PROVE PlayedKept
  BY <1>1, AppendBatchKeeps
<1>2. ASSUME NEW batch \in Batches, AppendRejected(batch) PROVE PlayedKept
  BY <1>2 DEF AppendRejected, PlayedKept
<1>3. CASE RemoveSelected
  BY <1>3, RemoveSelectedKeeps
<1>4. CASE Clear
  BY <1>4 DEF Clear, PlayedKept
<1>5. ASSUME NEW down \in BOOLEAN, MoveSelected(down) PROVE PlayedKept
  BY <1>5, MoveSelectedKeeps
<1>6. ASSUME NEW position \in 1 .. MaxItems, MoveSelection(position) PROVE PlayedKept
  BY <1>6 DEF MoveSelection, PlayedKept
<1>7. ASSUME NEW on \in BOOLEAN, NEW current \in Currents, SetShuffle(on, current)
      PROVE  PlayedKept
  BY <1>7 DEF SetShuffle, PlayedKept
<1>8. ASSUME NEW position \in 1 .. MaxItems, NEW newRound \in BOOLEAN,
             SelectTrack(position, newRound)
      PROVE  PlayedKept
  BY <1>8 DEF SelectTrack, PlayedKept
<1>9. CASE UNCHANGED queueVars
  BY <1>9 DEF queueVars, PlayedKept
<1> QED
  BY <1>1, <1>2, <1>3, <1>4, <1>5, <1>6, <1>7, <1>8, <1>9 DEF QueueNext

(* What has been played stays played, whatever edits follow: only the removal
   of a played item changes the part of the order up to the cursor, and it
   takes out that item alone. *)
THEOREM PlayedStaysPlayed == QueueSpec => PlayedPrefixStable
<1>1. QueueInv /\ [QueueNext]_queueVars => [PlayedKept]_queueVars
  BY QueueAssumption, PlayedStaysKept
<1> QED
  BY <1>1, QueueInvariant, PTL DEF QueueSpec, PlayedPrefixStable

=============================================================================
