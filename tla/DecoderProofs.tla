---------------------------- MODULE DecoderProofs ----------------------------
(***************************************************************************)
(* Theorems about Decoder, for tracks, packets, blocks, pipes and channels *)
(* of any size and whatever becomes of the helper: the worker gets exactly *)
(* the samples it asked for, and only a helper that hangs is stopped for   *)
(* making no progress.                                                     *)
(*                                                                         *)
(* The samples between the helper's decoder and the worker are spread over *)
(* the sink, the pipe, the block that the reader puts together, the        *)
(* message it sends and the channel.  The invariant says of each of these  *)
(* that it holds all the frames from one position to another but for those *)
(* that could not be decoded, where the next one goes on.                  *)
(***************************************************************************)
EXTENDS Decoder, SequenceTheorems, WellFoundedInduction, TLAPS

UnitKinds == {"ready", "end", "error", "length", "frame"}
Units == [kind : UnitKinds, value : Nat]
Letters ==
  [kind : {"none", "Ready", "End"}, value : {<<>>}]
    \cup [kind : {"Failed"}, value : {"helper", "ended", "stalled"}]
    \cup [kind : {"Samples"}, value : Seq(Nat)]
Helpers ==
  [state : {"decoding", "closing", "hung", "gone"}, next : 0 .. TrackFrames, target : Int,
   errors : Nat, ready : BOOLEAN, out : Seq(Units), idle : Nat]
Readers ==
  [step : {"reading", "sending", "gone"}, need : Int, got : Seq(Nat), message : Letters]

TypeOK ==
  /\ wanted \in 0 .. TrackFrames
  /\ helper \in Helpers
  /\ pipe \in Seq(Units)
  /\ reader \in Readers
  /\ quiet \in Nat
  /\ channel \in Seq(Letters)
  /\ worker \in {"polling", "killing", "dropping", "joining", "done"}
  /\ outcome \in {"none", "End", "Failed"}
  /\ delivered \in Seq(Nat)
  /\ lost \in SUBSET Nat

-----------------------------------------------------------------------------
(* Frames and streams of units. *)

(* All the frames from one position to another but for the gaps, in order. *)
Exact(frames, from, to, gaps) ==
  /\ from \in Nat /\ to \in Nat /\ from <= to
  /\ \A i \in DOMAIN frames : frames[i] \in (from .. to - 1) \ gaps
  /\ \A i, j \in DOMAIN frames : i < j => frames[i] < frames[j]
  /\ \A x \in (from .. to - 1) \ gaps : \E i \in DOMAIN frames : frames[i] = x

FrameAt(units, i) == units[i].kind = "frame"

(* The same of the frames among the units of the protocol. *)
ExactStream(units, from, to, gaps) ==
  /\ from \in Nat /\ to \in Nat /\ from <= to
  /\ \A i \in DOMAIN units : FrameAt(units, i) => units[i].value \in (from .. to - 1) \ gaps
  /\ \A i, j \in DOMAIN units :
       FrameAt(units, i) /\ FrameAt(units, j) /\ i < j => units[i].value < units[j].value
  /\ \A x \in (from .. to - 1) \ gaps :
       \E i \in DOMAIN units : FrameAt(units, i) /\ units[i].value = x

(* What unit i does to the number of frames that a block still needs. *)
Counts(unit, before, after) ==
  \/ unit.kind = "frame" /\ before = after + 1
  \/ unit.kind = "length" /\ before = 0 /\ after = unit.value /\ after # 0
  \/ unit.kind \in {"ready", "end", "error"} /\ before = 0 /\ after = 0

(* Lengths are followed by so many frames, and the first block needs `need' more. *)
Framed(units, need) ==
  \E left \in [0 .. Len(units) -> Nat] :
    /\ left[0] = need /\ left[Len(units)] = 0
    /\ \A i \in 1 .. Len(units) : Counts(units[i], left[i - 1], left[i])

NoEnd(units) == \A i \in DOMAIN units : units[i].kind # "end"

(* Whole blocks with the frames from one position to another. *)
Piece(units, from, to, gaps) ==
  units \in Seq(Units) /\ Framed(units, 0) /\ ExactStream(units, from, to, gaps) /\ NoEnd(units)

LEMMA ExactEmpty ==
  ASSUME NEW a \in Nat, NEW b \in Nat, a <= b, NEW L, (a .. b - 1) \ L = {}
  PROVE  Exact(<<>>, a, b, L)
BY DEF Exact

LEMMA ExactJoin ==
  ASSUME NEW F \in Seq(Nat), NEW G \in Seq(Nat), NEW L, NEW a, NEW b, NEW c,
         Exact(F, a, b, L), Exact(G, b, c, L)
  PROVE  F \o G \in Seq(Nat) /\ Exact(F \o G, a, c, L)
<1> DEFINE H == F \o G
           m == Len(F)
           n == Len(G)
<1>1. /\ m \in Nat /\ n \in Nat /\ DOMAIN F = 1 .. m /\ DOMAIN G = 1 .. n
      /\ H \in Seq(Nat) /\ DOMAIN H = 1 .. m + n
  BY LenProperties, ConcatProperties
<1>2. \A i \in 1 .. m + n : H[i] = IF i <= m THEN F[i] ELSE G[i - m]
  BY ConcatProperties
<1>3. /\ a \in Nat /\ b \in Nat /\ c \in Nat /\ a <= b /\ b <= c
      /\ \A i \in 1 .. m : F[i] \in (a .. b - 1) \ L
      /\ \A i \in 1 .. n : G[i] \in (b .. c - 1) \ L
      /\ \A i, j \in 1 .. m : i < j => F[i] < F[j]
      /\ \A i, j \in 1 .. n : i < j => G[i] < G[j]
      /\ \A x \in (a .. b - 1) \ L : \E i \in 1 .. m : F[i] = x
      /\ \A x \in (b .. c - 1) \ L : \E i \in 1 .. n : G[i] = x
  BY <1>1 DEF Exact
<1> HIDE DEF H, m, n
<1>4. \A i \in 1 .. m + n : i <= m => i \in 1 .. m
  BY <1>1
<1>5. \A i \in 1 .. m + n : ~(i <= m) => i - m \in 1 .. n
  BY <1>1
<1>6. ASSUME NEW i \in 1 .. m + n PROVE H[i] \in (a .. c - 1) \ L
  <2>1. CASE i <= m
    <3>1. H[i] \in (a .. b - 1) \ L
      BY <1>2, <1>3, <1>4, <2>1
    <3> QED
      BY <1>3, <3>1
  <2>2. CASE ~(i <= m)
    <3>1. H[i] \in (b .. c - 1) \ L
      BY <1>2, <1>3, <1>5, <2>2
    <3> QED
      BY <1>3, <3>1
  <2> QED
    BY <2>1, <2>2
<1>7. ASSUME NEW i \in 1 .. m + n, NEW j \in 1 .. m + n, i < j PROVE H[i] < H[j]
  <2>1. CASE j <= m
    BY <1>1, <1>2, <1>3, <1>4, <1>7, <2>1
  <2>2. CASE ~(j <= m) /\ i <= m
    <3>1. H[i] = F[i] /\ H[j] = G[j - m] /\ F[i] \in a .. b - 1 /\ G[j - m] \in b .. c - 1
      BY <1>2, <1>3, <1>4, <1>5, <2>2
    <3> QED
      BY <1>3, <3>1
  <2>3. CASE ~(i <= m)
    <3>1. ~(j <= m)
      BY <1>1, <1>7, <2>3
    <3>2. H[i] = G[i - m] /\ H[j] = G[j - m] /\ i - m \in 1 .. n /\ j - m \in 1 .. n
      BY <1>2, <1>5, <2>3, <3>1
    <3>3. i - m < j - m
      BY <1>1, <1>7
    <3> QED
      BY <1>3, <3>2, <3>3
  <2> QED
    BY <2>1, <2>2, <2>3
<1>8. ASSUME NEW x \in (a .. c - 1) \ L PROVE \E i \in 1 .. m + n : H[i] = x
  <2>1. CASE x < b
    <3>1. PICK i \in 1 .. m : F[i] = x
      BY <1>3, <2>1
    <3>2. i \in 1 .. m + n /\ i <= m
      BY <1>1
    <3> QED
      BY <1>2, <3>1, <3>2
  <2>2. CASE ~(x < b)
    <3>1. PICK i \in 1 .. n : G[i] = x
      BY <1>3, <2>2
    <3>2. i + m \in 1 .. m + n /\ ~(i + m <= m) /\ (i + m) - m = i
      BY <1>1
    <3> QED
      BY <1>2, <3>1, <3>2
  <2> QED
    BY <2>1, <2>2
<1>9. DOMAIN H = 1 .. m + n /\ H \in Seq(Nat)
  BY <1>1
<1>10. Exact(H, a, c, L)
  <2>1. a \in Nat /\ c \in Nat /\ a <= c
    BY <1>3
  <2> QED
    BY <1>6, <1>7, <1>8, <1>9, <2>1 DEF Exact
<1> QED
  BY <1>9, <1>10 DEF H

LEMMA ExactAppend ==
  ASSUME NEW F \in Seq(Nat), NEW L, NEW a, NEW b, NEW x \in Nat, Exact(F, a, b, L),
         b <= x, x \notin L, (b .. x - 1) \ L = {}
  PROVE  Append(F, x) \in Seq(Nat) /\ Exact(Append(F, x), a, x + 1, L)
<1>1. a \in Nat /\ b \in Nat
  BY DEF Exact
<1> DEFINE one == <<x>>
<1>2. one \in Seq(Nat) /\ DOMAIN one = {1} /\ one[1] = x
  OBVIOUS
<1>3. Exact(one, b, x + 1, L)
  <2> HIDE DEF one
  <2>1. b \in Nat /\ x + 1 \in Nat /\ b <= x + 1
    BY <1>1
  <2>2. \A y \in (b .. (x + 1) - 1) \ L : y = x
    BY <1>1
  <2>3. x \in (b .. (x + 1) - 1) \ L
    BY <1>1
  <2> QED
    BY <1>2, <2>1, <2>2, <2>3 DEF Exact
<1>4. F \o one \in Seq(Nat) /\ Exact(F \o one, a, x + 1, L)
  <2> HIDE DEF one
  <2> QED
    BY <1>2, <1>3, ExactJoin
<1>5. Append(F, x) = F \o one
  OBVIOUS
<1> QED
  BY <1>4, <1>5

LEMMA StreamJoin ==
  ASSUME NEW S \in Seq(Units), NEW T \in Seq(Units), NEW L, NEW a, NEW b, NEW c,
         ExactStream(S, a, b, L), ExactStream(T, b, c, L)
  PROVE  ExactStream(S \o T, a, c, L)
<1> DEFINE H == S \o T
           m == Len(S)
           n == Len(T)
<1>1. /\ m \in Nat /\ n \in Nat /\ DOMAIN S = 1 .. m /\ DOMAIN T = 1 .. n
      /\ H \in Seq(Units) /\ DOMAIN H = 1 .. m + n
  BY LenProperties, ConcatProperties
<1>2. \A i \in 1 .. m + n : H[i] = IF i <= m THEN S[i] ELSE T[i - m]
  BY ConcatProperties
<1>3. /\ a \in Nat /\ b \in Nat /\ c \in Nat /\ a <= b /\ b <= c
      /\ \A i \in 1 .. m : FrameAt(S, i) => S[i].value \in (a .. b - 1) \ L
      /\ \A i \in 1 .. n : FrameAt(T, i) => T[i].value \in (b .. c - 1) \ L
      /\ \A i, j \in 1 .. m :
           FrameAt(S, i) /\ FrameAt(S, j) /\ i < j => S[i].value < S[j].value
      /\ \A i, j \in 1 .. n :
           FrameAt(T, i) /\ FrameAt(T, j) /\ i < j => T[i].value < T[j].value
      /\ \A x \in (a .. b - 1) \ L : \E i \in 1 .. m : FrameAt(S, i) /\ S[i].value = x
      /\ \A x \in (b .. c - 1) \ L : \E i \in 1 .. n : FrameAt(T, i) /\ T[i].value = x
  BY <1>1 DEF ExactStream
<1>4. \A i \in 1 .. m + n : i <= m => i \in 1 .. m
  BY <1>1
<1>5. \A i \in 1 .. m + n : ~(i <= m) => i - m \in 1 .. n
  BY <1>1
<1>e. \A i \in 1 .. m + n : i <= m => H[i] = S[i] /\ (FrameAt(H, i) <=> FrameAt(S, i))
  BY <1>2 DEF FrameAt
<1>f. \A i \in 1 .. m + n : ~(i <= m) => H[i] = T[i - m] /\ (FrameAt(H, i) <=> FrameAt(T, i - m))
  BY <1>2 DEF FrameAt
<1> HIDE DEF H, m, n
<1>6. ASSUME NEW i \in 1 .. m + n, FrameAt(H, i) PROVE H[i].value \in (a .. c - 1) \ L
  <2>1. CASE i <= m
    <3>1. S[i].value \in (a .. b - 1) \ L
      BY <1>3, <1>4, <1>6, <1>e, <2>1
    <3> QED
      BY <1>3, <1>e, <2>1, <3>1
  <2>2. CASE ~(i <= m)
    <3>1. T[i - m].value \in (b .. c - 1) \ L
      BY <1>3, <1>5, <1>6, <1>f, <2>2
    <3> QED
      BY <1>3, <1>f, <2>2, <3>1
  <2> QED
    BY <2>1, <2>2
<1>7. ASSUME NEW i \in 1 .. m + n, NEW j \in 1 .. m + n, FrameAt(H, i), FrameAt(H, j), i < j
      PROVE  H[i].value < H[j].value
  <2>1. CASE j <= m
    <3>1. i <= m
      BY <1>1, <1>7, <2>1
    <3>2. i \in 1 .. m /\ j \in 1 .. m /\ FrameAt(S, i) /\ FrameAt(S, j)
      BY <1>4, <1>7, <1>e, <2>1, <3>1
    <3> QED
      BY <1>3, <1>7, <1>e, <2>1, <3>1, <3>2
  <2>2. CASE ~(j <= m) /\ i <= m
    <3>1. S[i].value \in a .. b - 1 /\ T[j - m].value \in b .. c - 1
      BY <1>3, <1>4, <1>5, <1>7, <1>e, <1>f, <2>2
    <3> QED
      BY <1>3, <1>e, <1>f, <2>2, <3>1
  <2>3. CASE ~(i <= m)
    <3>1. ~(j <= m)
      BY <1>1, <1>7, <2>3
    <3>2. i - m \in 1 .. n /\ j - m \in 1 .. n /\ FrameAt(T, i - m) /\ FrameAt(T, j - m)
      BY <1>5, <1>7, <1>f, <2>3, <3>1
    <3>3. i - m < j - m
      BY <1>1, <1>7
    <3>4. T[i - m].value < T[j - m].value
      BY <1>3, <3>2, <3>3
    <3> QED
      BY <1>f, <2>3, <3>1, <3>4
  <2> QED
    BY <2>1, <2>2, <2>3
<1>8. ASSUME NEW x \in (a .. c - 1) \ L
      PROVE  \E i \in 1 .. m + n : FrameAt(H, i) /\ H[i].value = x
  <2>1. CASE x < b
    <3>1. PICK i \in 1 .. m : FrameAt(S, i) /\ S[i].value = x
      BY <1>3, <2>1
    <3>2. i \in 1 .. m + n /\ i <= m
      BY <1>1
    <3> QED
      BY <1>e, <3>1, <3>2
  <2>2. CASE ~(x < b)
    <3>1. PICK i \in 1 .. n : FrameAt(T, i) /\ T[i].value = x
      BY <1>3, <2>2
    <3>2. i + m \in 1 .. m + n /\ ~(i + m <= m) /\ (i + m) - m = i
      BY <1>1
    <3> QED
      BY <1>f, <3>1, <3>2
  <2> QED
    BY <2>1, <2>2
<1>9. a \in Nat /\ c \in Nat /\ a <= c
  BY <1>3
<1>10. ExactStream(H, a, c, L)
  BY <1>1, <1>6, <1>7, <1>8, <1>9 DEF ExactStream
<1> QED
  BY <1>10 DEF H

LEMMA FramedJoin ==
  ASSUME NEW S \in Seq(Units), NEW T \in Seq(Units), NEW need, Framed(S, need), Framed(T, 0)
  PROVE  Framed(S \o T, need)
<1> DEFINE H == S \o T
           m == Len(S)
           n == Len(T)
<1>1. m \in Nat /\ n \in Nat /\ Len(H) = m + n
  BY LenProperties, ConcatProperties
<1>2. \A i \in 1 .. m + n : H[i] = IF i <= m THEN S[i] ELSE T[i - m]
  BY ConcatProperties
<1>3. PICK f \in [0 .. m -> Nat] :
        /\ f[0] = need /\ f[m] = 0
        /\ \A i \in 1 .. m : Counts(S[i], f[i - 1], f[i])
  BY DEF Framed
<1>4. PICK g \in [0 .. n -> Nat] :
        /\ g[0] = 0 /\ g[n] = 0
        /\ \A i \in 1 .. n : Counts(T[i], g[i - 1], g[i])
  BY DEF Framed
<1> HIDE DEF H, m, n
<1> DEFINE h == [i \in 0 .. m + n |-> IF i <= m THEN f[i] ELSE g[i - m]]
<1>5. h \in [0 .. m + n -> Nat]
  <2>1. ASSUME NEW i \in 0 .. m + n PROVE (IF i <= m THEN f[i] ELSE g[i - m]) \in Nat
    <3>1. CASE i <= m
      BY <1>1, <3>1
    <3>2. CASE ~(i <= m)
      BY <1>1, <3>2
    <3> QED
      BY <3>1, <3>2
  <2> QED
    BY <2>1
<1>6. h[0] = need /\ h[m + n] = 0
  <2>1. 0 \in 0 .. m + n /\ 0 <= m /\ m + n \in 0 .. m + n /\ (m + n) - m = n
        /\ (m + n <= m => n = 0 /\ m + n = m)
    BY <1>1
  <2> QED
    BY <1>3, <1>4, <2>1
<1>7. ASSUME NEW i \in 1 .. m + n PROVE Counts(H[i], h[i - 1], h[i])
  <2>1. i \in 0 .. m + n /\ i - 1 \in 0 .. m + n
    BY <1>1
  <2>2. CASE i <= m
    <3>1. i \in 1 .. m /\ i - 1 <= m
      BY <1>1, <2>2
    <3>2. h[i - 1] = f[i - 1] /\ h[i] = f[i] /\ H[i] = S[i]
      BY <1>2, <2>1, <2>2, <3>1
    <3> QED
      BY <1>3, <3>1, <3>2
  <2>3. CASE ~(i <= m)
    <3>1. i - m \in 1 .. n /\ (i - 1) - m = (i - m) - 1
      BY <1>1, <2>3
    <3>2. h[i] = g[i - m] /\ H[i] = T[i - m]
      BY <1>2, <2>1, <2>3
    <3>3. h[i - 1] = g[(i - m) - 1]
      <4>1. CASE i - 1 <= m
        <5>1. i - 1 = m /\ (i - m) - 1 = 0
          BY <1>1, <2>3, <4>1
        <5>2. h[i - 1] = f[m]
          BY <2>1, <4>1, <5>1
        <5> QED
          BY <1>3, <1>4, <5>1, <5>2
      <4>2. CASE ~(i - 1 <= m)
        BY <2>1, <3>1, <4>2
      <4> QED
        BY <4>1, <4>2
    <3> HIDE DEF h
    <3> QED
      BY <1>4, <3>1, <3>2, <3>3
  <2> QED
    BY <2>2, <2>3
<1> HIDE DEF h
<1>8. Framed(H, need)
  BY <1>1, <1>5, <1>6, <1>7 DEF Framed
<1> QED
  BY <1>8 DEF H

(* What is left of a stream without its first unit. *)
LEMMA StreamTail ==
  ASSUME NEW S \in Seq(Units), S # <<>>, NEW L, NEW a, NEW b, ExactStream(S, a, b, L)
  PROVE  /\ Tail(S) \in Seq(Units) /\ Head(S) \in Units
         /\ Head(S).kind # "frame" => ExactStream(Tail(S), a, b, L)
         /\ Head(S).kind = "frame" =>
              /\ Head(S).value \in (a .. b - 1) \ L
              /\ (a .. Head(S).value - 1) \ L = {}
              /\ ExactStream(Tail(S), Head(S).value + 1, b, L)
<1> DEFINE T == Tail(S)
           m == Len(S)
           x == Head(S).value
<1>1. /\ m \in Nat /\ m # 0 /\ DOMAIN S = 1 .. m
      /\ T \in Seq(Units) /\ DOMAIN T = 1 .. m - 1
      /\ \A i \in 1 .. m - 1 : T[i] = S[i + 1]
  BY LenProperties, HeadTailProperties, EmptySeq
<1>2. Head(S) = S[1] /\ S[1] \in Units /\ x = S[1].value /\ x \in Nat
  <2>1. Head(S) = S[1]
    OBVIOUS
  <2>2. 1 \in 1 .. m
    BY <1>1
  <2>3. S[1] \in Units
    BY <2>2, ElementOfSeq
  <2> QED
    BY <2>1, <2>3 DEF Units
<1>3. /\ a \in Nat /\ b \in Nat /\ a <= b
      /\ \A i \in 1 .. m : FrameAt(S, i) => S[i].value \in (a .. b - 1) \ L
      /\ \A i, j \in 1 .. m :
           FrameAt(S, i) /\ FrameAt(S, j) /\ i < j => S[i].value < S[j].value
      /\ \A y \in (a .. b - 1) \ L : \E i \in 1 .. m : FrameAt(S, i) /\ S[i].value = y
  BY <1>1 DEF ExactStream
<1>4. Head(S).kind = "frame" <=> FrameAt(S, 1)
  BY <1>2 DEF FrameAt
<1> HIDE DEF T, m, x
<1>5. \A i \in 1 .. m - 1 : i + 1 \in 1 .. m /\ 1 < i + 1
  BY <1>1
<1>6. \A i \in 1 .. m - 1 : FrameAt(T, i) <=> FrameAt(S, i + 1)
  BY <1>1 DEF FrameAt
<1>7. 1 \in 1 .. m
  BY <1>1
<1>8. \A i, j \in 1 .. m - 1 :
        FrameAt(T, i) /\ FrameAt(T, j) /\ i < j => T[i].value < T[j].value
  <2> SUFFICES ASSUME NEW i \in 1 .. m - 1, NEW j \in 1 .. m - 1,
                      FrameAt(T, i), FrameAt(T, j), i < j
               PROVE  T[i].value < T[j].value
    OBVIOUS
  <2>1. i + 1 < j + 1
    BY <1>1
  <2> QED
    BY <1>1, <1>3, <1>5, <1>6, <2>1
<1>9. \A i \in 1 .. m : i # 1 => i - 1 \in 1 .. m - 1 /\ (i - 1) + 1 = i
  BY <1>1
<1>10. ASSUME Head(S).kind # "frame" PROVE ExactStream(T, a, b, L)
  <2>1. \A i \in 1 .. m - 1 : FrameAt(T, i) => T[i].value \in (a .. b - 1) \ L
    BY <1>1, <1>3, <1>5, <1>6
  <2>2. ASSUME NEW y \in (a .. b - 1) \ L
        PROVE  \E i \in 1 .. m - 1 : FrameAt(T, i) /\ T[i].value = y
    <3>1. PICK i \in 1 .. m : FrameAt(S, i) /\ S[i].value = y
      BY <1>3
    <3>2. i # 1
      BY <1>4, <1>10, <3>1
    <3>3. i - 1 \in 1 .. m - 1 /\ (i - 1) + 1 = i
      BY <1>9, <3>2
    <3>4. FrameAt(T, i - 1) /\ T[i - 1].value = y
      BY <1>1, <1>6, <3>1, <3>3
    <3> QED
      BY <3>3, <3>4
  <2> QED
    BY <1>1, <1>3, <1>8, <2>1, <2>2 DEF ExactStream
<1>11. ASSUME Head(S).kind = "frame"
       PROVE  /\ x \in (a .. b - 1) \ L
              /\ (a .. x - 1) \ L = {}
              /\ ExactStream(T, x + 1, b, L)
  <2>1. x \in (a .. b - 1) \ L
    BY <1>2, <1>3, <1>4, <1>7, <1>11
  <2>2. \A i \in 1 .. m : FrameAt(S, i) /\ i # 1 => x < S[i].value
    <3> SUFFICES ASSUME NEW i \in 1 .. m, FrameAt(S, i), i # 1 PROVE x < S[i].value
      OBVIOUS
    <3>1. 1 < i
      BY <1>1
    <3> QED
      BY <1>2, <1>3, <1>4, <1>7, <1>11, <3>1
  <2>3. ASSUME NEW y \in (a .. x - 1) \ L PROVE FALSE
    <3>1. y \in (a .. b - 1) \ L /\ y < x
      BY <1>2, <1>3, <2>1
    <3>2. PICK i \in 1 .. m : FrameAt(S, i) /\ S[i].value = y
      BY <1>3, <3>1
    <3>3. i = 1 \/ x < y
      BY <2>2, <3>2
    <3>4. x = y \/ x < y
      BY <1>2, <3>2, <3>3
    <3> QED
      BY <1>2, <1>3, <3>1, <3>4
  <2>4. \A i \in 1 .. m - 1 : FrameAt(T, i) => T[i].value \in (x + 1 .. b - 1) \ L
    <3> SUFFICES ASSUME NEW i \in 1 .. m - 1, FrameAt(T, i)
                 PROVE  T[i].value \in (x + 1 .. b - 1) \ L
      OBVIOUS
    <3>1. i + 1 \in 1 .. m /\ i + 1 # 1
      BY <1>1, <1>5
    <3>2. T[i].value \in (a .. b - 1) \ L /\ x < T[i].value
      BY <1>1, <1>3, <1>6, <2>2, <3>1
    <3> QED
      BY <1>2, <1>3, <3>2
  <2>5. ASSUME NEW y \in (x + 1 .. b - 1) \ L
        PROVE  \E i \in 1 .. m - 1 : FrameAt(T, i) /\ T[i].value = y
    <3>1. y \in (a .. b - 1) \ L /\ y # x
      BY <1>2, <1>3, <2>1
    <3>2. PICK i \in 1 .. m : FrameAt(S, i) /\ S[i].value = y
      BY <1>3, <3>1
    <3>3. i # 1
      BY <1>2, <3>1, <3>2
    <3>4. i - 1 \in 1 .. m - 1 /\ (i - 1) + 1 = i
      BY <1>9, <3>3
    <3>5. FrameAt(T, i - 1) /\ T[i - 1].value = y
      BY <1>1, <1>6, <3>2, <3>4
    <3> QED
      BY <3>4, <3>5
  <2>6. x + 1 \in Nat /\ x + 1 <= b
    BY <1>2, <1>3, <2>1
  <2> QED
    BY <1>1, <1>3, <1>8, <2>1, <2>3, <2>4, <2>5, <2>6 DEF ExactStream
<1> QED
  BY <1>1, <1>2, <1>10, <1>11 DEF T, x

LEMMA FramedTail ==
  ASSUME NEW S \in Seq(Units), S # <<>>, NEW need \in Nat, Framed(S, need)
  PROVE  \E rest \in Nat : Counts(Head(S), need, rest) /\ Framed(Tail(S), rest)
<1> DEFINE T == Tail(S)
           m == Len(S)
<1>1. /\ m \in Nat /\ m # 0 /\ T \in Seq(Units) /\ Len(T) = m - 1
      /\ \A i \in 1 .. m - 1 : T[i] = S[i + 1]
  BY LenProperties, HeadTailProperties, EmptySeq
<1>2. Head(S) = S[1]
  OBVIOUS
<1>3. PICK f \in [0 .. m -> Nat] :
        /\ f[0] = need /\ f[m] = 0
        /\ \A i \in 1 .. m : Counts(S[i], f[i - 1], f[i])
  BY DEF Framed
<1> HIDE DEF T, m
<1> DEFINE g == [i \in 0 .. m - 1 |-> f[i + 1]]
<1>4. \A i \in 0 .. m - 1 : i + 1 \in 0 .. m
  BY <1>1
<1>5. g \in [0 .. m - 1 -> Nat]
  BY <1>3, <1>4
<1>6. g[0] = f[1] /\ g[m - 1] = 0
  <2>1. 0 \in 0 .. m - 1 /\ m - 1 \in 0 .. m - 1 /\ (m - 1) + 1 = m
    BY <1>1
  <2> QED
    BY <1>3, <2>1
<1>7. ASSUME NEW i \in 1 .. m - 1 PROVE Counts(T[i], g[i - 1], g[i])
  <2>1. i \in 0 .. m - 1 /\ i - 1 \in 0 .. m - 1 /\ (i - 1) + 1 = i /\ i + 1 \in 1 .. m
        /\ (i + 1) - 1 = i
    BY <1>1
  <2>2. g[i - 1] = f[i] /\ g[i] = f[i + 1] /\ T[i] = S[i + 1]
    BY <1>1, <2>1
  <2> HIDE DEF g
  <2>3. Counts(S[i + 1], f[i], f[i + 1])
    BY <1>3, <2>1
  <2> QED
    BY <2>2, <2>3
<1> HIDE DEF g
<1>8. f[1] \in Nat /\ Counts(Head(S), need, f[1])
  <2>1. 1 \in 1 .. m /\ 1 \in 0 .. m /\ 1 - 1 = 0
    BY <1>1
  <2>2. Counts(S[1], f[0], f[1])
    BY <1>3, <2>1
  <2> QED
    BY <1>2, <1>3, <2>1, <2>2
<1>9. Framed(T, f[1])
  BY <1>1, <1>5, <1>6, <1>7 DEF Framed
<1> QED
  BY <1>8, <1>9 DEF T

LEMMA FramedEmpty == Framed(<<>>, 0)
<1> DEFINE f == [i \in 0 .. 0 |-> 0]
<1>1. f \in [0 .. 0 -> Nat] /\ f[0] = 0
  OBVIOUS
<1> HIDE DEF f
<1>2. Len(<<>>) = 0 /\ 1 .. 0 = {}
  OBVIOUS
<1> QED
  BY <1>1, <1>2 DEF Framed

LEMMA FramedOne ==
  ASSUME NEW u, Counts(u, 0, 0)
  PROVE  Framed(<<u>>, 0)
<1> DEFINE f == [i \in 0 .. 1 |-> 0]
           S == <<u>>
<1>1. f \in [0 .. 1 -> Nat] /\ f[0] = 0 /\ f[1] = 0
  OBVIOUS
<1>2. Len(S) = 1 /\ S[1] = u
  OBVIOUS
<1> HIDE DEF f, S
<1>3. \A i \in 1 .. 1 : i = 1 /\ i - 1 = 0
  OBVIOUS
<1>4. \A i \in 1 .. Len(S) : Counts(S[i], f[i - 1], f[i])
  BY <1>1, <1>2, <1>3
<1>5. Framed(S, 0)
  BY <1>1, <1>2, <1>4 DEF Framed
<1> QED
  BY <1>5 DEF S

(* More gaps, but none where the frames are. *)
LEMMA ExactGaps ==
  ASSUME NEW F, NEW L, NEW M, NEW a, NEW b, Exact(F, a, b, L),
         \A x \in a .. b - 1 : x \in M <=> x \in L
  PROVE  Exact(F, a, b, M)
BY DEF Exact

LEMMA StreamGaps ==
  ASSUME NEW S, NEW L, NEW M, NEW a, NEW b, NEW c \in Nat, ExactStream(S, a, b, L), b <= c,
         \A x \in a .. b - 1 : x \in M <=> x \in L,
         (b .. c - 1) \ M = {}
  PROVE  ExactStream(S, a, c, M)
<1>1. /\ a \in Nat /\ b \in Nat /\ a <= c
      /\ \A x \in a .. b - 1 : x \in a .. c - 1
  BY DEF ExactStream
<1>2. \A i \in DOMAIN S : FrameAt(S, i) => S[i].value \in (a .. c - 1) \ M
  BY <1>1 DEF ExactStream
<1>3. ASSUME NEW x \in (a .. c - 1) \ M
      PROVE  \E i \in DOMAIN S : FrameAt(S, i) /\ S[i].value = x
  <2>1. x \in a .. b - 1
    BY <1>1
  <2> QED
    BY <2>1 DEF ExactStream
<1> QED
  BY <1>1, <1>2, <1>3 DEF ExactStream

LEMMA StreamNoFrames ==
  ASSUME NEW S, NEW L, NEW a \in Nat, NEW b \in Nat, a <= b, (a .. b - 1) \ L = {},
         \A i \in DOMAIN S : S[i].kind # "frame"
  PROVE  ExactStream(S, a, b, L)
BY DEF ExactStream, FrameAt

LEMMA PieceJoin ==
  ASSUME NEW S, NEW T, NEW L, NEW a, NEW b, NEW c, Piece(S, a, b, L), Piece(T, b, c, L)
  PROVE  Piece(S \o T, a, c, L)
<1>1. S \in Seq(Units) /\ T \in Seq(Units)
  BY DEF Piece
<1>2. Framed(S \o T, 0)
  BY <1>1, FramedJoin DEF Piece
<1>3. ExactStream(S \o T, a, c, L)
  BY <1>1, StreamJoin DEF Piece
<1> DEFINE H == S \o T
           m == Len(S)
           n == Len(T)
<1>4. /\ m \in Nat /\ n \in Nat /\ DOMAIN S = 1 .. m /\ DOMAIN T = 1 .. n
      /\ H \in Seq(Units) /\ DOMAIN H = 1 .. m + n
  BY <1>1, LenProperties, ConcatProperties
<1>5. \A i \in 1 .. m + n : H[i] = IF i <= m THEN S[i] ELSE T[i - m]
  BY <1>1, ConcatProperties
<1>6. (\A i \in 1 .. m : S[i].kind # "end") /\ (\A i \in 1 .. n : T[i].kind # "end")
  BY <1>4 DEF Piece, NoEnd
<1> HIDE DEF H, m, n
<1>7. ASSUME NEW i \in 1 .. m + n PROVE H[i].kind # "end"
  <2>1. CASE i <= m
    <3>1. i \in 1 .. m
      BY <1>4, <2>1
    <3> QED
      BY <1>5, <1>6, <2>1, <3>1
  <2>2. CASE ~(i <= m)
    <3>1. i - m \in 1 .. n
      BY <1>4, <2>2
    <3> QED
      BY <1>5, <1>6, <2>2, <3>1
  <2> QED
    BY <2>1, <2>2
<1>8. NoEnd(H)
  BY <1>4, <1>7 DEF NoEnd
<1> QED
  BY <1>2, <1>3, <1>4, <1>8 DEF Piece, H

LEMMA PieceEmpty ==
  ASSUME NEW a \in Nat, NEW L
  PROVE  Piece(<<>>, a, a, L)
<1>1. <<>> \in Seq(Units) /\ NoEnd(<<>>)
  BY EmptySeq DEF NoEnd
<1>2. ExactStream(<<>>, a, a, L)
  BY StreamNoFrames
<1> QED
  BY <1>1, <1>2, FramedEmpty DEF Piece

-----------------------------------------------------------------------------
(* Flattening a sequence of sequences, as FlattenSeq does it. *)

LEMMA LeastElement ==
  ASSUME NEW T \in SUBSET Nat, T # {}
  PROVE  \E x \in T : \A y \in T : x <= y
<1> DEFINE below == OpToRel(<, Nat)
<1>1. IsWellFoundedOn(below, Nat)
  BY NatLessThanWellFounded
<1>2. ASSUME NEW x \in Nat, NEW y \in Nat, x < y PROVE <<x, y>> \in below
  BY <1>2 DEF OpToRel
<1> HIDE DEF below
<1>3. T \subseteq Nat
  OBVIOUS
<1>4. PICK x \in T : \A y \in T : ~ (<<y, x>> \in below)
  BY <1>1, <1>3, WFMin
<1>5. ASSUME NEW y \in T PROVE x <= y
  <2>1. x \in Nat /\ y \in Nat /\ ~ (<<y, x>> \in below)
    BY <1>4
  <2>2. ~ (y < x)
    BY <1>2, <2>1
  <2> QED
    BY <2>1, <2>2
<1> QED
  BY <1>5

FlatStep(seqs, n, f) == [i \in 1 .. n |-> IF i = 1 THEN seqs[i] ELSE f[i - 1] \o seqs[i]]
Flattens(seqs, n) == \E f : f = FlatStep(seqs, n, f)

LEMMA FlattenExists ==
  ASSUME NEW seqs, NEW n \in Nat
  PROVE  Flattens(seqs, n)
<1> DEFINE bad == {k \in Nat : ~Flattens(seqs, k)}
<1> SUFFICES ASSUME bad # {} PROVE FALSE
  OBVIOUS
<1>1. bad \in SUBSET Nat
  OBVIOUS
<1>2. PICK k \in bad : \A l \in bad : k <= l
  BY <1>1, LeastElement
<1>3. k \in Nat /\ ~Flattens(seqs, k)
  BY <1>2
<1>4. k # 0
  <2> SUFFICES ASSUME k = 0 PROVE FALSE
    OBVIOUS
  <2> DEFINE f == FlatStep(seqs, 0, <<>>)
  <2>1. f = FlatStep(seqs, 0, f)
    BY DEF FlatStep
  <2> HIDE DEF f
  <2> QED
    BY <1>3, <2>1 DEF Flattens
<1>5. k - 1 \in Nat /\ ~(k <= k - 1)
  BY <1>3, <1>4
<1>6. Flattens(seqs, k - 1)
  BY <1>2, <1>5
<1>7. PICK f : f = FlatStep(seqs, k - 1, f)
  BY <1>6, Zenon DEF Flattens
<1> DEFINE last == IF k = 1 THEN seqs[k] ELSE f[k - 1] \o seqs[k]
           g == [i \in 1 .. k |-> IF i < k THEN f[i] ELSE last]
<1>8. \A i \in 1 .. k - 1 : f[i] = IF i = 1 THEN seqs[i] ELSE f[i - 1] \o seqs[i]
  <2> DEFINE s == FlatStep(seqs, k - 1, f)
  <2>1. \A i \in 1 .. k - 1 : s[i] = IF i = 1 THEN seqs[i] ELSE f[i - 1] \o seqs[i]
    BY DEF FlatStep
  <2>2. f = s
    BY <1>7
  <2> HIDE DEF s
  <2> QED
    BY <2>1, <2>2
<1>9. ASSUME NEW i \in 1 .. k
      PROVE  (IF i < k THEN f[i] ELSE last) = IF i = 1 THEN seqs[i] ELSE g[i - 1] \o seqs[i]
  <2>1. i # 1 => i - 1 \in 1 .. k /\ i - 1 < k
    BY <1>3, <1>4
  <2>2. i # 1 => g[i - 1] = f[i - 1]
    BY <2>1
  <2> HIDE DEF g
  <2>3. CASE i < k
    <3>1. i \in 1 .. k - 1
      BY <1>3, <1>4, <2>3
    <3> QED
      BY <1>8, <2>2, <2>3, <3>1
  <2>4. CASE ~(i < k)
    <3>1. i = k
      BY <1>3, <1>4, <2>4
    <3> QED
      BY <2>2, <2>4, <3>1
  <2> QED
    BY <2>3, <2>4
<1>10. g = FlatStep(seqs, k, g)
  BY <1>9 DEF FlatStep
<1> HIDE DEF g
<1> QED
  BY <1>3, <1>10, Zenon DEF Flattens

LEMMA FlattenFacts ==
  ASSUME NEW seqs, NEW n \in Nat, n # 0, Len(seqs) = n
  PROVE  \E f : /\ FlattenSeq(seqs) = f[n] /\ f[1] = seqs[1]
                /\ \A i \in 2 .. n : f[i] = f[i - 1] \o seqs[i]
<1> DEFINE f == CHOOSE h : h = FlatStep(seqs, n, h)
<1>1. FlattenSeq(seqs) = f[n]
  BY DEF FlattenSeq, FlatStep
<1>2. f = FlatStep(seqs, n, f)
  <2>1. \E h : h = FlatStep(seqs, n, h)
    BY FlattenExists, Zenon DEF Flattens
  <2> QED
    BY <2>1, Zenon
<1> HIDE DEF f
<1> DEFINE s == FlatStep(seqs, n, f)
<1>3. \A i \in 1 .. n : s[i] = IF i = 1 THEN seqs[i] ELSE f[i - 1] \o seqs[i]
  BY DEF FlatStep
<1>4. f = s
  BY <1>2
<1> HIDE DEF s
<1>5. 1 \in 1 .. n /\ \A i \in 2 .. n : i \in 1 .. n /\ i # 1
  OBVIOUS
<1>6. f[1] = seqs[1] /\ \A i \in 2 .. n : f[i] = f[i - 1] \o seqs[i]
  BY <1>3, <1>4, <1>5
<1> QED
  BY <1>1, <1>6

-----------------------------------------------------------------------------
(* One block. *)
BlockOf(first, size) ==
  <<Unit("length", size)>> \o [i \in 1 .. size |-> Unit("frame", first + i - 1)]

LEMMA BlockPiece ==
  ASSUME NEW first \in Nat, NEW size \in Nat, size # 0, NEW L,
         L \cap (first .. first + size - 1) = {}
  PROVE  Piece(BlockOf(first, size), first, first + size, L)
<1> DEFINE one == <<Unit("length", size)>>
           body == [i \in 1 .. size |-> Unit("frame", first + i - 1)]
           B == one \o body
<1>1. one \in Seq(Units) /\ Len(one) = 1 /\ one[1] = Unit("length", size)
  <2>1. Unit("length", size) \in Units
    BY DEF Units, UnitKinds, Unit
  <2> QED
    BY <2>1
<1>2. body \in Seq(Units) /\ Len(body) = size
  <2>1. \A i \in 1 .. size : Unit("frame", first + i - 1) \in Units
    BY DEF Units, UnitKinds, Unit
  <2> QED
    BY <2>1
<1>3. \A i \in 1 .. size : body[i] = Unit("frame", first + i - 1)
  OBVIOUS
<1> HIDE DEF one, body
<1>4. /\ B \in Seq(Units) /\ Len(B) = 1 + size /\ DOMAIN B = 1 .. 1 + size
      /\ \A i \in 1 .. 1 + size : B[i] = IF i <= 1 THEN one[i] ELSE body[i - 1]
  BY <1>1, <1>2, ConcatProperties, LenProperties
<1> HIDE DEF B
<1>5. B[1].kind = "length" /\ B[1].value = size
  <2>1. 1 \in 1 .. 1 + size
    OBVIOUS
  <2>2. B[1] = Unit("length", size)
    BY <1>1, <1>4, <2>1
  <2> QED
    BY <2>2 DEF Unit
<1>6. ASSUME NEW i \in 2 .. 1 + size PROVE B[i].kind = "frame" /\ B[i].value = first + i - 2
  <2>1. i \in 1 .. 1 + size /\ ~(i <= 1) /\ i - 1 \in 1 .. size
        /\ first + (i - 1) - 1 = first + i - 2
    OBVIOUS
  <2>2. B[i] = Unit("frame", first + (i - 1) - 1)
    BY <1>3, <1>4, <2>1
  <2> QED
    BY <2>1, <2>2 DEF Unit
<1>7. \A i \in 1 .. 1 + size : i = 1 \/ i \in 2 .. 1 + size
  OBVIOUS
<1>8. NoEnd(B)
  BY <1>4, <1>5, <1>6, <1>7 DEF NoEnd
<1>9. Framed(B, 0)
  <2> DEFINE f == [i \in 0 .. 1 + size |-> IF i = 0 THEN 0 ELSE 1 + size - i]
  <2>1. f \in [0 .. 1 + size -> Nat] /\ f[0] = 0 /\ f[1 + size] = 0 /\ f[1] = size
    OBVIOUS
  <2>2. \A i \in 2 .. 1 + size : f[i] \in Nat /\ f[i - 1] = f[i] + 1
    OBVIOUS
  <2> HIDE DEF f
  <2>3. ASSUME NEW i \in 1 .. 1 + size PROVE Counts(B[i], f[i - 1], f[i])
    <3>1. CASE i = 1
      <4>1. i - 1 = 0
        BY <3>1
      <4> QED
        BY <1>5, <2>1, <3>1, <4>1 DEF Counts
    <3>2. CASE i \in 2 .. 1 + size
      BY <1>6, <2>2, <3>2 DEF Counts
    <3> QED
      BY <1>7, <3>1, <3>2
  <2> QED
    BY <1>4, <2>1, <2>3 DEF Framed
<1>10. ExactStream(B, first, first + size, L)
  <2>1. \A i \in 1 .. 1 + size : FrameAt(B, i) <=> i \in 2 .. 1 + size
    BY <1>5, <1>6, <1>7 DEF FrameAt
  <2>2. \A i \in 2 .. 1 + size : B[i].value \in (first .. first + size - 1) \ L
    BY <1>6
  <2>3. \A i, j \in 2 .. 1 + size : i < j => B[i].value < B[j].value
    BY <1>6
  <2>4. ASSUME NEW x \in (first .. first + size - 1) \ L
        PROVE  \E i \in 1 .. 1 + size : FrameAt(B, i) /\ B[i].value = x
    <3>1. x - first + 2 \in 2 .. 1 + size /\ first + (x - first + 2) - 2 = x
          /\ x - first + 2 \in 1 .. 1 + size
      OBVIOUS
    <3>2. B[x - first + 2].value = x
      BY <1>6, <3>1
    <3> QED
      BY <2>1, <3>1, <3>2
  <2>5. first + size \in Nat /\ first <= first + size
    OBVIOUS
  <2>6. \A i \in DOMAIN B : FrameAt(B, i) => B[i].value \in (first .. first + size - 1) \ L
    BY <1>4, <2>1, <2>2
  <2>7. \A i, j \in DOMAIN B :
          FrameAt(B, i) /\ FrameAt(B, j) /\ i < j => B[i].value < B[j].value
    BY <1>4, <2>1, <2>3
  <2>8. \A x \in (first .. first + size - 1) \ L :
          \E i \in DOMAIN B : FrameAt(B, i) /\ B[i].value = x
    BY <1>4, <2>4
  <2> QED
    BY <2>5, <2>6, <2>7, <2>8 DEF ExactStream
<1> QED
  BY <1>4, <1>8, <1>9, <1>10 DEF Piece, BlockOf, B, one, body

(* The blocks of a packet hold its frames, however many they are. *)
LEMMA BlocksPiece ==
  ASSUME DecoderAssumption, NEW first \in Nat, NEW count \in Nat, NEW L,
         L \cap (first .. first + count - 1) = {}
  PROVE  Piece(Blocks(first, count), first, first + count, L)
<1> DEFINE B == BlockFrames
           n == (count + B - 1) \div B
           size(i) == Lesser(B, count - (i - 1) * B)
           block(i) == <<Unit("length", size(i))>> \o
                       [j \in 1 .. size(i) |-> Unit("frame", first + (i - 1) * B + j - 1)]
           all == [i \in 1 .. n |-> block(i)]
<1>1. B \in Nat /\ B # 0
  BY DEF DecoderAssumption
<1>2. n \in Nat /\ n * B >= count /\ n * B < count + B
  <2> DEFINE d == count + B - 1
  <2>1. d \in Nat
    BY <1>1
  <2>2. d = B * (d \div B) + (d % B) /\ d % B \in 0 .. B - 1 /\ d \div B \in Nat
    BY <1>1, <2>1
  <2>3. n = d \div B
    OBVIOUS
  <2> HIDE DEF n
  <2>4. B * n \in Nat /\ n * B = B * n
    BY <1>1, <2>2, <2>3
  <2>5. d = B * n + (d % B)
    BY <2>2, <2>3
  <2> QED
    BY <1>1, <2>2, <2>3, <2>4, <2>5
<1>3. Blocks(first, count) = FlattenSeq(all)
  BY DEF Blocks
<1> HIDE DEF n
<1>4. ASSUME NEW i \in 1 .. n
      PROVE  /\ (i - 1) * B \in Nat /\ (i - 1) * B < count /\ i * B = (i - 1) * B + B
             /\ (i = n => i * B >= count)
  <2>1. i - 1 \in Nat /\ n - i \in Nat /\ n - 1 \in Nat
    BY <1>2
  <2>2. (i - 1) * B \in Nat /\ (n - i) * B \in Nat
    BY <1>1, <2>1
  <2>3. i * B = (i - 1) * B + B /\ n * B = (i - 1) * B + (n - i) * B + B
    BY <1>1, <1>2
  <2> QED
    BY <1>1, <1>2, <2>2, <2>3
<1> DEFINE upto(i) == Lesser(i * B, count)
<1>5. ASSUME NEW i \in 1 .. n
      PROVE  /\ size(i) \in Nat /\ size(i) # 0 /\ upto(i - 1) = (i - 1) * B
             /\ upto(i) = upto(i - 1) + size(i) /\ upto(i) <= count
             /\ (i = n => upto(i) = count)
  BY <1>1, <1>4 DEF Lesser
<1>6. ASSUME NEW i \in 1 .. n
      PROVE  Piece(block(i), first + upto(i - 1), first + upto(i), L)
  <2> DEFINE start == first + (i - 1) * B
             s == size(i)
  <2>1. start \in Nat /\ s \in Nat /\ s # 0 /\ start = first + upto(i - 1)
        /\ start + s = first + upto(i) /\ start >= first /\ start + s <= first + count
    BY <1>4, <1>5
  <2> HIDE DEF start, s
  <2>2. L \cap (start .. start + s - 1) = {}
    BY <2>1
  <2>3. Piece(BlockOf(start, s), start, start + s, L)
    BY <2>1, <2>2, BlockPiece
  <2>4. block(i) = BlockOf(start, s)
    BY DEF BlockOf, start, s
  <2> HIDE DEF block, upto
  <2> QED
    BY <2>1, <2>3, <2>4
<1>7. upto(0) = 0
  BY <1>1 DEF Lesser
<1> HIDE DEF upto
<1>8. CASE n = 0
  <2>1. count = 0
    BY <1>1, <1>2, <1>8
  <2>2. all = <<>>
    BY <1>8
  <2>3. FlattenSeq(all) = <<>>
    BY <2>2 DEF FlattenSeq
  <2> HIDE DEF all
  <2>4. Piece(<<>>, first, first, L)
    BY PieceEmpty
  <2> QED
    BY <1>3, <2>1, <2>3, <2>4
<1>9. CASE n # 0
  <2> HIDE DEF block
  <2>1. Len(all) = n /\ \A i \in 1 .. n : all[i] = block(i)
    BY <1>2
  <2> HIDE DEF all
  <2>2. PICK f : /\ FlattenSeq(all) = f[n] /\ f[1] = all[1]
                 /\ \A i \in 2 .. n : f[i] = f[i - 1] \o all[i]
    BY <1>2, <1>9, <2>1, FlattenFacts
  <2> DEFINE bad == {i \in 1 .. n : ~Piece(f[i], first, first + upto(i), L)}
  <2>3. ASSUME bad # {} PROVE FALSE
    <3>1. bad \in SUBSET Nat
      OBVIOUS
    <3>2. PICK i \in bad : \A j \in bad : i <= j
      BY <2>3, <3>1, LeastElement
    <3>3. i \in 1 .. n /\ ~Piece(f[i], first, first + upto(i), L)
      BY <3>2
    <3>4. Piece(all[i], first + upto(i - 1), first + upto(i), L)
      BY <1>6, <2>1, <3>3
    <3>5. i # 1
      <4> SUFFICES ASSUME i = 1 PROVE FALSE
        OBVIOUS
      <4>1. first + upto(i - 1) = first
        <5>1. i - 1 = 0
          OBVIOUS
        <5>2. upto(i - 1) = 0
          BY <1>7, <5>1
        <5> QED
          BY <5>2
      <4> QED
        BY <2>2, <3>3, <3>4, <4>1
    <3>6. i \in 2 .. n /\ i - 1 \in 1 .. n /\ ~(i <= i - 1)
      BY <1>2, <3>3, <3>5
    <3>7. i - 1 \notin bad
      BY <3>2, <3>6
    <3>8. Piece(f[i - 1], first, first + upto(i - 1), L)
      BY <3>6, <3>7
    <3>9. Piece(f[i - 1] \o all[i], first, first + upto(i), L)
      BY <3>4, <3>8, PieceJoin
    <3> QED
      BY <2>2, <3>3, <3>6, <3>9
  <2>4. n \in 1 .. n
    BY <1>2, <1>9
  <2>5. Piece(f[n], first, first + upto(n), L)
    BY <2>3, <2>4
  <2>6. upto(n) = count
    BY <1>5, <2>4 DEF upto
  <2> QED
    BY <1>3, <2>2, <2>5, <2>6
<1> QED
  BY <1>8, <1>9

-----------------------------------------------------------------------------
(* The types. *)

(* What the sink writes for a packet goes on where the packets before it end. *)
LEMMA PacketFacts ==
  ASSUME DecoderAssumption, TypeOK,
         NEW frames \in 1 .. Lesser(PacketFrames, TrackFrames - helper.next)
  PROVE  LET skip == Skip(helper.next, frames)
         IN  /\ skip \in 0 .. frames /\ frames - skip \in Nat /\ helper.next + skip \in Nat
             /\ helper.next + frames \in 1 .. TrackFrames
             /\ skip # 0 => helper.target > helper.next
             /\ skip # 0 /\ skip < frames => helper.next + skip = helper.target
             /\ skip = frames => helper.next + frames <= helper.target
             /\ frames \in Nat /\ frames # 0
<1>1. helper.next \in 0 .. TrackFrames /\ helper.target \in Int
  BY DEF TypeOK, Helpers
<1>2. TrackFrames \in Nat /\ PacketFrames \in Nat
  BY DEF DecoderAssumption
<1>3. frames \in Nat /\ frames # 0 /\ frames <= TrackFrames - helper.next
  BY <1>1, <1>2 DEF Lesser
<1> QED
  BY <1>1, <1>2, <1>3 DEF Skip, Lesser

LEMMA HeaderSeq ==
  ASSUME DecoderAssumption, TypeOK, NEW a \in Nat, NEW L
  PROVE  Piece(Header, a, a, L)
<1>1. CASE helper.ready
  BY <1>1, PieceEmpty DEF Header
<1>2. CASE ~helper.ready
  <2> DEFINE u == Unit("ready", wanted)
             S == <<u>>
  <2>1. wanted \in Nat
    BY DEF TypeOK, DecoderAssumption
  <2>2. u \in Units /\ u.kind = "ready"
    BY <2>1 DEF Units, UnitKinds, Unit
  <2> HIDE DEF u
  <2>3. S \in Seq(Units) /\ DOMAIN S = {1} /\ S[1] = u
    BY <2>2
  <2>4. Framed(S, 0)
    BY <2>2, FramedOne DEF Counts
  <2> HIDE DEF S
  <2>5. ExactStream(S, a, a, L) /\ NoEnd(S)
    BY <2>2, <2>3, StreamNoFrames DEF NoEnd
  <2>6. Piece(S, a, a, L)
    BY <2>3, <2>4, <2>5 DEF Piece
  <2> QED
    BY <1>2, <2>6 DEF Header, S, u
<1> QED
  BY <1>1, <1>2

(* What the actions do to the records, field by field. *)
LEMMA HelperDecoded ==
  ASSUME NEW h \in Helpers, NEW e \in Nat, NEW r \in BOOLEAN, NEW t \in Int,
         NEW n \in 0 .. TrackFrames, NEW o \in Seq(Units)
  PROVE  LET g == [h EXCEPT !.errors = e, !.ready = r, !.target = t, !.next = n, !.out = o]
         IN  /\ g \in Helpers /\ g.out = o /\ g.next = n /\ g.target = t
             /\ g.state = h.state /\ g.idle = h.idle
BY DEF Helpers

LEMMA HelperSkipped ==
  ASSUME NEW h \in Helpers, NEW e \in Nat, NEW n \in 0 .. TrackFrames
  PROVE  LET g == [h EXCEPT !.errors = e, !.next = n]
         IN  /\ g \in Helpers /\ g.out = h.out /\ g.next = n /\ g.target = h.target
             /\ g.state = h.state /\ g.idle = h.idle
BY DEF Helpers

LEMMA HelperClosed ==
  ASSUME NEW h \in Helpers, NEW o \in Seq(Units),
         NEW s \in {"decoding", "closing", "hung", "gone"}
  PROVE  LET g == [h EXCEPT !.out = o, !.state = s]
         IN  /\ g \in Helpers /\ g.out = o /\ g.next = h.next /\ g.target = h.target
             /\ g.state = s /\ g.idle = h.idle
BY DEF Helpers

LEMMA HelperState ==
  ASSUME NEW h \in Helpers, NEW s \in {"decoding", "closing", "hung", "gone"}
  PROVE  LET g == [h EXCEPT !.state = s]
         IN  /\ g \in Helpers /\ g.out = h.out /\ g.next = h.next /\ g.target = h.target
             /\ g.state = s /\ g.idle = h.idle
BY DEF Helpers

LEMMA HelperWrote ==
  ASSUME NEW h \in Helpers, NEW o \in Seq(Units), NEW i \in Nat
  PROVE  LET g == [h EXCEPT !.out = o, !.idle = i]
         IN  /\ g \in Helpers /\ g.out = o /\ g.next = h.next /\ g.target = h.target
             /\ g.state = h.state /\ g.idle = i
BY DEF Helpers

LEMMA HelperIdles ==
  ASSUME NEW h \in Helpers, NEW i \in Nat
  PROVE  LET g == [h EXCEPT !.idle = i]
         IN  /\ g \in Helpers /\ g.out = h.out /\ g.next = h.next /\ g.target = h.target
             /\ g.state = h.state /\ g.idle = i
BY DEF Helpers

LEMMA ReaderNeeds ==
  ASSUME NEW r \in Readers, NEW n \in Int
  PROVE  LET g == [r EXCEPT !.need = n]
         IN  /\ g \in Readers /\ g.need = n /\ g.got = r.got /\ g.message = r.message
             /\ g.step = r.step
BY DEF Readers

LEMMA ReaderGets ==
  ASSUME NEW r \in Readers, NEW n \in Int, NEW q \in Seq(Nat)
  PROVE  LET g == [r EXCEPT !.need = n, !.got = q]
         IN  /\ g \in Readers /\ g.need = n /\ g.got = q /\ g.message = r.message
             /\ g.step = r.step
BY DEF Readers

LEMMA LettersSent ==
  /\ Unit("Ready", <<>>) \in Letters /\ Unit("End", <<>>) \in Letters
  /\ Unit("Failed", "helper") \in Letters /\ Unit("Failed", "ended") \in Letters
  /\ Unit("Failed", "stalled") \in Letters
  /\ \A got \in Seq(Nat) : Unit("Samples", got) \in Letters
BY DEF Unit, Letters

LEMMA ReaderSends ==
  ASSUME NEW k, NEW v, Unit(k, v) \in Letters
  PROVE  /\ Sending(k, v) \in Readers /\ Sending(k, v).step = "sending"
         /\ Sending(k, v).need = 0 /\ Sending(k, v).got = <<>>
         /\ Sending(k, v).message = Unit(k, v)
         /\ Unit(k, v).kind = k /\ Unit(k, v).value = v
<1> DEFINE m == Unit(k, v)
<1>1. m \in Letters /\ m.kind = k /\ m.value = v
  BY DEF Unit
<1> HIDE DEF m
<1>2. Sending(k, v) = [step |-> "sending", need |-> 0, got |-> <<>>, message |-> m]
  <2>1. PICK i : i = Unit("none", <<>>)
    OBVIOUS
  <2>2. Idle = [step |-> "reading", need |-> 0, got |-> <<>>, message |-> i]
    BY <2>1 DEF Idle
  <2>3. Sending(k, v) = [Idle EXCEPT !.step = "sending", !.message = m]
    BY DEF Sending, m
  <2> QED
    BY <2>2, <2>3
<1>3. <<>> \in Seq(Nat) /\ 0 \in Int
  OBVIOUS
<1>4. [step |-> "sending", need |-> 0, got |-> <<>>, message |-> m] \in Readers
  BY <1>1, <1>3 DEF Readers
<1> QED
  BY <1>1, <1>2, <1>4 DEF m

LEMMA ReaderIdles ==
  /\ Idle \in Readers /\ Idle.step = "reading" /\ Idle.need = 0 /\ Idle.got = <<>>
  /\ Idle.message.kind = "none"
  /\ LET g == [Idle EXCEPT !.step = "gone"]
     IN  /\ g \in Readers /\ g.step = "gone" /\ g.need = 0 /\ g.got = <<>>
         /\ g.message.kind = "none"
<1> DEFINE m == Unit("none", <<>>)
<1>1. <<>> \in Seq(Nat) /\ 0 \in Int
  OBVIOUS
<1>2. m \in Letters /\ m.kind = "none"
  BY <1>1 DEF Unit, Letters
<1> HIDE DEF m
<1>3. Idle = [step |-> "reading", need |-> 0, got |-> <<>>, message |-> m]
  BY DEF Idle, m
<1>4. [step |-> "reading", need |-> 0, got |-> <<>>, message |-> m] \in Readers
  BY <1>1, <1>2 DEF Readers
<1>5. [step |-> "gone", need |-> 0, got |-> <<>>, message |-> m] \in Readers
  BY <1>1, <1>2 DEF Readers
<1>6. [Idle EXCEPT !.step = "gone"] = [step |-> "gone", need |-> 0, got |-> <<>>, message |-> m]
  BY <1>3
<1> QED
  BY <1>2, <1>3, <1>4, <1>5, <1>6

LEMMA TypeInit == ASSUME DecoderAssumption, Init PROVE TypeOK
<1>1. wanted \in 0 .. TrackFrames /\ TrackFrames \in Nat
  BY DEF Init, DecoderAssumption
<1>2. <<>> \in Seq(Units) /\ <<>> \in Seq(Letters) /\ <<>> \in Seq(Nat)
  BY EmptySeq
<1>3. PICK start \in 0 .. wanted : helper = NewHelper(wanted, start)
  BY DEF Init
<1>4. helper \in Helpers
  BY <1>1, <1>2, <1>3 DEF NewHelper, Helpers, NoTarget
<1> QED
  BY <1>1, <1>2, <1>4, ReaderIdles DEF Init, TypeOK

LEMMA TypeStep == ASSUME DecoderAssumption, TypeOK, [Next]_vars PROVE TypeOK'
<1>t. /\ wanted \in 0 .. TrackFrames /\ TrackFrames \in Nat /\ wanted \in Nat
      /\ helper \in Helpers
      /\ pipe \in Seq(Units)
      /\ reader \in Readers
      /\ quiet \in Nat
      /\ channel \in Seq(Letters)
      /\ worker \in {"polling", "killing", "dropping", "joining", "done"}
      /\ outcome \in {"none", "End", "Failed"}
      /\ delivered \in Seq(Nat)
      /\ lost \in SUBSET Nat
  BY DEF TypeOK, DecoderAssumption
<1>h. /\ helper.state \in {"decoding", "closing", "hung", "gone"}
      /\ helper.next \in 0 .. TrackFrames /\ helper.target \in Int /\ helper.errors \in Nat
      /\ helper.ready \in BOOLEAN /\ helper.out \in Seq(Units) /\ helper.idle \in Nat
  BY <1>t DEF Helpers
<1>r. reader.need \in Int /\ reader.got \in Seq(Nat) /\ reader.message \in Letters
      /\ reader.step \in {"reading", "sending", "gone"}
  BY <1>t DEF Readers
<1>e. <<>> \in Seq(Units) /\ <<>> \in Seq(Letters) /\ <<>> \in Seq(Nat)
  BY EmptySeq
<1>s. SinkError \in Helpers
  <2>1. Unit("error", 0) \in Units
    BY DEF Unit, Units, UnitKinds
  <2>2. Append(helper.out, Unit("error", 0)) \in Seq(Units)
    BY <1>h, <2>1
  <2> QED
    BY <1>t, <2>2, HelperClosed DEF SinkError
<1>1. ASSUME DecodePacket PROVE helper' \in Helpers
  <2>1. PICK frames \in 1 .. Lesser(PacketFrames, TrackFrames - helper.next) :
          LET skip == Skip(helper.next, frames) IN
          helper' = [helper EXCEPT
                       !.errors = 0,
                       !.ready = TRUE,
                       !.target = IF skip < frames THEN NoTarget ELSE @,
                       !.next = @ + frames,
                       !.out = Header \o Blocks(helper.next + skip, frames - skip)]
    BY <1>1 DEF DecodePacket
  <2> DEFINE skip == Skip(helper.next, frames)
             new == Header \o Blocks(helper.next + skip, frames - skip)
  <2>2. skip \in 0 .. frames /\ frames - skip \in Nat /\ helper.next + skip \in Nat
        /\ helper.next + frames \in 1 .. TrackFrames
    BY PacketFacts
  <2>3. Blocks(helper.next + skip, frames - skip) \in Seq(Units)
    <3> DEFINE first == helper.next + skip
               count == frames - skip
    <3>1. first \in Nat /\ count \in Nat /\ {} \cap (first .. first + count - 1) = {}
      BY <2>2
    <3> HIDE DEF first, count
    <3>2. Piece(Blocks(first, count), first, first + count, {})
      BY <3>1, BlocksPiece
    <3> QED
      BY <3>2 DEF Piece, first, count
  <2>4. Header \in Seq(Units)
    BY HeaderSeq DEF Piece
  <2>5. new \in Seq(Units)
    BY <2>3, <2>4, ConcatProperties
  <2>6. NoTarget \in Int
    BY DEF NoTarget
  <2> DEFINE target == IF skip < frames THEN NoTarget ELSE helper.target
             next == helper.next + frames
  <2>7. helper' = [helper EXCEPT !.errors = 0, !.ready = TRUE, !.target = target,
                                 !.next = next, !.out = new]
    BY <2>1
  <2>8. target \in Int /\ next \in 0 .. TrackFrames
    BY <1>h, <2>2, <2>6
  <2> HIDE DEF skip, new, target, next
  <2> QED
    BY <1>t, <2>5, <2>7, <2>8, HelperDecoded
<1>2. ASSUME BadPacket PROVE helper' \in Helpers /\ lost' \in SUBSET Nat
  <2>1. CASE Tolerated
    <3>1. PICK frames \in 1 .. Lesser(PacketFrames, TrackFrames - helper.next) :
            /\ helper' = [helper EXCEPT !.errors = @ + 1, !.next = @ + frames]
            /\ lost' = lost \cup (helper.next .. helper.next + frames - 1)
      BY <1>2, <2>1 DEF BadPacket
    <3>2. helper.next + frames \in 0 .. TrackFrames /\ helper.errors + 1 \in Nat
      <4>1. helper.next + frames \in 1 .. TrackFrames
        BY PacketFacts
      <4>2. helper.errors \in Nat
        BY <1>h
      <4>3. helper.next + frames \in 0 .. TrackFrames
        BY <1>t, <4>1
      <4> QED
        BY <4>2, <4>3
    <3>3. (helper.next .. helper.next + frames - 1) \subseteq Nat
      BY <1>h
    <3> QED
      BY <1>t, <3>1, <3>2, <3>3, HelperSkipped
  <2>2. CASE ~Tolerated
    BY <1>2, <1>s, <1>t, <2>2 DEF BadPacket
  <2> QED
    BY <2>1, <2>2
<1>3. ASSUME EndOfTrack PROVE helper' \in Helpers
  <2>1. Unit("end", 0) \in Units
    BY DEF Unit, Units, UnitKinds
  <2>2. <<Unit("end", 0)>> \in Seq(Units)
    BY <2>1
  <2> QED
    BY <1>3, <1>s, <1>t, <2>2, HelperClosed DEF EndOfTrack
<1>4. ASSUME WriteUnit PROVE helper' \in Helpers /\ pipe' \in Seq(Units)
  <2>1. CASE reader.step = "gone"
    BY <1>4, <1>t, <2>1, HelperState DEF WriteUnit
  <2>2. CASE reader.step # "gone"
    <3>1. Head(helper.out) \in Units /\ Tail(helper.out) \in Seq(Units)
      BY <1>4, <1>h, HeadTailProperties DEF WriteUnit
    <3>2. Append(pipe, Head(helper.out)) \in Seq(Units)
      BY <1>t, <3>1
    <3> DEFINE rest == Tail(helper.out)
    <3>3. helper' = [helper EXCEPT !.out = rest, !.idle = 0]
          /\ pipe' = Append(pipe, Head(helper.out))
      BY <1>4, <2>2 DEF WriteUnit
    <3>4. rest \in Seq(Units) /\ 0 \in Nat
      BY <3>1
    <3> HIDE DEF rest
    <3> QED
      BY <1>t, <3>2, <3>3, <3>4, HelperWrote
  <2> QED
    BY <2>1, <2>2
<1>5. ASSUME DecodeFails \/ Exit \/ Crash \/ Hang \/ Kill PROVE helper' \in Helpers
  <2>1. CASE DecodeFails
    BY <1>s, <2>1 DEF DecodeFails
  <2>2. ASSUME Exit \/ Crash \/ Kill PROVE helper' \in Helpers
    <3>1. helper' = [helper EXCEPT !.state = "gone"]
      BY <2>2 DEF Exit, Crash, Kill
    <3> QED
      BY <1>t, <3>1, HelperState
  <2>3. ASSUME Hang PROVE helper' \in Helpers
    <3>1. helper' = [helper EXCEPT !.state = "hung"]
      BY <2>3 DEF Hang
    <3> QED
      BY <1>t, <3>1, HelperState
  <2> QED
    BY <1>5, <2>1, <2>2, <2>3
<1>6. ASSUME ReadUnit PROVE reader' \in Readers /\ pipe' \in Seq(Units)
  <2>1. Head(pipe) \in Units /\ Tail(pipe) \in Seq(Units)
    BY <1>6, <1>t, HeadTailProperties DEF ReadUnit
  <2> DEFINE unit == Head(pipe)
             got == Append(reader.got, unit.value)
  <2>2. unit.kind \in UnitKinds /\ unit.value \in Nat
    BY <2>1 DEF Units
  <2>3. got \in Seq(Nat)
    BY <1>r, <2>2
  <2>4. reader' =
          CASE unit.kind = "ready" -> Sending("Ready", <<>>)
            [] unit.kind = "end" -> Sending("End", <<>>)
            [] unit.kind = "error" -> Sending("Failed", "helper")
            [] unit.kind = "length" -> [reader EXCEPT !.need = unit.value]
            [] unit.kind = "frame" ->
                 IF reader.need = 1 THEN Sending("Samples", got)
                 ELSE [reader EXCEPT !.need = @ - 1, !.got = got]
    BY <1>6 DEF ReadUnit
  <2> HIDE DEF unit, got
  <2>5. [reader EXCEPT !.need = unit.value] \in Readers
    BY <1>t, <2>2, ReaderNeeds
  <2>6. [reader EXCEPT !.need = @ - 1, !.got = got] \in Readers
    <3>1. reader.need - 1 \in Int
      BY <1>r
    <3> QED
      BY <1>t, <2>3, <3>1, ReaderGets
  <2>7. /\ Sending("Samples", got) \in Readers /\ Sending("Ready", <<>>) \in Readers
        /\ Sending("End", <<>>) \in Readers /\ Sending("Failed", "helper") \in Readers
    BY <2>3, LettersSent, ReaderSends
  <2>8. unit.kind \in {"ready", "end", "error", "length", "frame"}
    BY <2>2 DEF UnitKinds
  <2>9. reader' \in Readers
    BY <2>4, <2>5, <2>6, <2>7, <2>8
  <2> QED
    BY <1>6, <2>1, <2>9 DEF ReadUnit
<1>7. ASSUME Send PROVE reader' \in Readers /\ channel' \in Seq(Letters)
  <2>1. reader' \in Readers
    BY <1>7, ReaderIdles DEF Send
  <2>2. channel' = channel \/ channel' = Append(channel, reader.message)
    BY <1>7 DEF Send
  <2>3. channel' \in Seq(Letters)
    <3>1. Append(channel, reader.message) \in Seq(Letters)
      BY <1>r, <1>t
    <3> QED
      BY <1>t, <2>2, <3>1
  <2> QED
    BY <2>1, <2>3
<1>8. ASSUME ReadEnd \/ TimeOut PROVE reader' \in Readers
  BY <1>8, LettersSent, ReaderSends DEF ReadEnd, TimeOut
<1>9. ASSUME Poll
      PROVE  channel' \in Seq(Letters) /\ outcome' \in {"none", "End", "Failed"}
             /\ delivered' \in Seq(Nat)
  <2>1. CASE channel = <<>>
    BY <1>9, <1>e, <1>t, <2>1 DEF Poll
  <2>2. CASE channel # <<>>
    <3> DEFINE message == Head(channel)
    <3>1. message \in Letters /\ Tail(channel) \in Seq(Letters)
      BY <1>t, <2>2, HeadTailProperties
    <3>2. /\ delivered' = IF message.kind = "Samples" THEN delivered \o message.value
                          ELSE delivered
          /\ outcome' = IF message.kind \in {"End", "Failed"} THEN message.kind ELSE outcome
          /\ channel' = Tail(channel)
      BY <1>9, <2>2 DEF Poll
    <3> HIDE DEF message
    <3>3. message.kind = "Samples" => message.value \in Seq(Nat)
      BY <3>1 DEF Letters
    <3>4. delivered' \in Seq(Nat)
      BY <1>t, <3>2, <3>3, ConcatProperties
    <3> QED
      BY <1>t, <3>1, <3>2, <3>4
  <2> QED
    BY <2>1, <2>2
<1>10. ASSUME Start PROVE TypeOK'
  <2>1. PICK start \in 0 .. wanted' : helper' = NewHelper(wanted', start)
    BY <1>10 DEF Start
  <2>2. wanted' \in 0 .. TrackFrames
    BY <1>10 DEF Start
  <2>3. helper' \in Helpers
    BY <1>t, <1>e, <2>1, <2>2 DEF NewHelper, Helpers, NoTarget
  <2> QED
    BY <1>10, <1>e, <2>2, <2>3, ReaderIdles DEF Start, TypeOK
<1>11. ASSUME Tick PROVE helper' \in Helpers /\ quiet' \in Nat
  <2>1. helper.idle + 1 \in Nat /\ quiet + 1 \in Nat
    BY <1>t, <1>h
  <2>2. [helper EXCEPT !.idle = @ + 1] \in Helpers
    BY <1>t, <2>1, HelperIdles
  <2> QED
    BY <1>11, <1>t, <2>1, <2>2 DEF Tick
<1>12. ASSUME HelperStep \/ HelperFault PROVE TypeOK'
  <2>1. UNCHANGED <<wanted, reader, quiet, channel, worker, outcome, delivered>>
    BY <1>12 DEF HelperStep, HelperFault, DecodePacket, BadPacket, DecodeFails, EndOfTrack,
                 WriteUnit, Exit, Crash, Hang, HelperKept, endVars
  <2>2. helper' \in Helpers
    BY <1>1, <1>2, <1>3, <1>4, <1>5, <1>12 DEF HelperStep, HelperFault
  <2>3. pipe' = pipe \/ WriteUnit
    BY <1>12 DEF HelperStep, HelperFault, DecodePacket, BadPacket, DecodeFails, EndOfTrack,
                 Exit, Crash, Hang, HelperKept
  <2>4. lost' = lost \/ BadPacket
    BY <1>12 DEF HelperStep, HelperFault, DecodePacket, DecodeFails, EndOfTrack,
                 WriteUnit, Exit, Crash, Hang, HelperKept
  <2> QED
    BY <1>2, <1>4, <1>t, <2>1, <2>2, <2>3, <2>4 DEF TypeOK
<1>13. ASSUME ReaderStep PROVE TypeOK'
  <2>1. UNCHANGED <<wanted, helper, worker, outcome, delivered, lost>>
    BY <1>13 DEF ReaderStep, ReadUnit, ReadEnd, TimeOut, Send, ReaderKept, endVars
  <2>2. reader' \in Readers
    BY <1>6, <1>7, <1>8, <1>13 DEF ReaderStep
  <2>3. (pipe' = pipe \/ ReadUnit) /\ (channel' = channel \/ Send) /\ quiet' \in Nat
    <3>1. CASE ReadUnit
      BY <3>1 DEF ReadUnit, ReaderKept, QuietAfterRead
    <3>2. CASE ReadEnd \/ TimeOut
      BY <1>t, <3>2 DEF ReadEnd, TimeOut, ReaderKept
    <3>3. CASE Send
      BY <3>3 DEF Send
    <3> QED
      BY <1>13, <3>1, <3>2, <3>3 DEF ReaderStep
  <2> QED
    BY <1>6, <1>7, <1>t, <2>1, <2>2, <2>3 DEF TypeOK
<1>14. ASSUME Poll PROVE TypeOK'
  BY <1>9, <1>14, <1>t DEF Poll, WorkerKept, TypeOK
<1>15. ASSUME Shutdown \/ ShutdownStep PROVE TypeOK'
  <2>1. helper' \in Helpers
    BY <1>5, <1>15, <1>t DEF Shutdown, ShutdownStep, DropMessages, Join, WorkerKept
  <2>2. /\ channel' \in Seq(Letters)
        /\ worker' \in {"polling", "killing", "dropping", "joining", "done"}
        /\ UNCHANGED <<wanted, pipe, reader, quiet, outcome, delivered, lost>>
    BY <1>15, <1>e, <1>t DEF Shutdown, ShutdownStep, Kill, DropMessages, Join, WorkerKept
  <2> QED
    BY <1>t, <2>1, <2>2 DEF TypeOK
<1>16. ASSUME Tick PROVE TypeOK'
  BY <1>11, <1>16, <1>t DEF Tick, endVars, TypeOK
<1>17. ASSUME UNCHANGED vars PROVE TypeOK'
  BY <1>17, <1>t DEF vars, TypeOK
<1> QED
  BY <1>10, <1>12, <1>13, <1>14, <1>15, <1>16, <1>17 DEF Next

THEOREM DecoderTypes == Spec => []TypeOK
<1>1. Init => TypeOK
  BY DecoderAssumption, TypeInit
<1>2. TypeOK /\ [Next]_vars => TypeOK'
  BY DecoderAssumption, TypeStep
<1> QED
  BY <1>1, <1>2, PTL DEF Spec

-----------------------------------------------------------------------------
(* What the helper does, field by field. *)

Becomes(state, next, target, out, idle) ==
  /\ helper'.state = state /\ helper'.next = next /\ helper'.target = target
  /\ helper'.out = out /\ helper'.idle = idle

Decodes(frames) ==
  LET skip == Skip(helper.next, frames)
  IN  /\ helper.state = "decoding" /\ helper.out = <<>> /\ pipe' = pipe /\ lost' = lost
      /\ Becomes("decoding", helper.next + frames,
                 IF skip < frames THEN NoTarget ELSE helper.target,
                 Header \o Blocks(helper.next + skip, frames - skip), helper.idle)

LeavesOut(frames) ==
  /\ helper.state = "decoding" /\ helper.out = <<>> /\ pipe' = pipe
  /\ lost' = lost \cup (helper.next .. helper.next + frames - 1)
  /\ Becomes("decoding", helper.next + frames, helper.target, <<>>, helper.idle)

Closes(unit) ==
  /\ helper.state = "decoding" /\ helper.out = <<>> /\ pipe' = pipe /\ lost' = lost
  /\ Becomes("closing", helper.next, helper.target, <<unit>>, helper.idle)

Writes ==
  /\ helper.state \in {"decoding", "closing"} /\ helper.out # <<>> /\ lost' = lost
  /\ pipe' = Append(pipe, Head(helper.out))
  /\ Becomes(helper.state, helper.next, helper.target, Tail(helper.out), 0)

(* It ends, by itself or not, or hangs. *)
Stops(state) ==
  /\ state = "hung" => helper.state \in {"decoding", "closing"}
  /\ pipe' = pipe /\ lost' = lost
  /\ Becomes(state, helper.next, helper.target, helper.out, helper.idle)

LEMMA HelperTypes ==
  ASSUME TypeOK
  PROVE  /\ helper \in Helpers
         /\ helper.state \in {"decoding", "closing", "hung", "gone"}
         /\ helper.next \in 0 .. TrackFrames /\ helper.target \in Int /\ helper.errors \in Nat
         /\ helper.ready \in BOOLEAN /\ helper.out \in Seq(Units) /\ helper.idle \in Nat
<1>1. helper \in Helpers
  BY DEF TypeOK
<1> QED
  BY <1>1 DEF Helpers

LEMMA BecomesDecoded ==
  ASSUME helper \in Helpers, NEW e \in Nat, NEW r \in BOOLEAN, NEW t \in Int,
         NEW n \in 0 .. TrackFrames, NEW o \in Seq(Units),
         helper' = [helper EXCEPT !.errors = e, !.ready = r, !.target = t, !.next = n, !.out = o]
  PROVE  Becomes(helper.state, n, t, o, helper.idle)
BY DEF Helpers, Becomes

LEMMA BecomesSkipped ==
  ASSUME helper \in Helpers, NEW e \in Nat, NEW n \in 0 .. TrackFrames,
         helper' = [helper EXCEPT !.errors = e, !.next = n]
  PROVE  Becomes(helper.state, n, helper.target, helper.out, helper.idle)
BY DEF Helpers, Becomes

LEMMA BecomesClosed ==
  ASSUME helper \in Helpers, NEW o \in Seq(Units),
         helper' = [helper EXCEPT !.out = o, !.state = "closing"]
  PROVE  Becomes("closing", helper.next, helper.target, o, helper.idle)
BY DEF Helpers, Becomes

LEMMA BecomesWritten ==
  ASSUME helper \in Helpers, NEW o \in Seq(Units),
         helper' = [helper EXCEPT !.out = o, !.idle = 0]
  PROVE  Becomes(helper.state, helper.next, helper.target, o, 0)
BY DEF Helpers, Becomes

LEMMA HelperActs ==
  ASSUME DecoderAssumption, TypeOK, HelperStep \/ HelperFault
  PROVE  /\ UNCHANGED <<wanted, reader, quiet, channel, worker, outcome, delivered>>
         /\ \/ \E frames \in 1 .. Lesser(PacketFrames, TrackFrames - helper.next) :
                 Decodes(frames) \/ LeavesOut(frames)
            \/ Closes(Unit("error", 0))
            \/ helper.next = TrackFrames /\ Closes(Unit("end", 0))
            \/ reader.step # "gone" /\ Writes
            \/ Stops("gone")
            \/ Stops("hung")
<1>h. /\ helper \in Helpers
      /\ helper.state \in {"decoding", "closing", "hung", "gone"}
      /\ helper.next \in 0 .. TrackFrames /\ helper.target \in Int /\ helper.errors \in Nat
      /\ helper.ready \in BOOLEAN /\ helper.out \in Seq(Units) /\ helper.idle \in Nat
  BY HelperTypes
<1>u. UNCHANGED <<wanted, reader, quiet, channel, worker, outcome, delivered>>
  BY DEF HelperStep, HelperFault, DecodePacket, BadPacket, DecodeFails, EndOfTrack,
         WriteUnit, Exit, Crash, Hang, HelperKept, endVars
<1>0. ASSUME Decoding, helper' = SinkError, pipe' = pipe, lost' = lost
      PROVE  Closes(Unit("error", 0))
  <2> DEFINE u == Unit("error", 0)
  <2>1. u \in Units
    BY DEF Unit, Units, UnitKinds
  <2> HIDE DEF u
  <2>2. helper.out = <<>> /\ helper.state = "decoding"
    BY <1>0 DEF Decoding
  <2>3. helper' = [helper EXCEPT !.out = <<u>>, !.state = "closing"]
    <3>1. Append(helper.out, u) = <<u>>
      BY <2>2
    <3> QED
      BY <1>0, <3>1 DEF SinkError, u
  <2>4. <<u>> \in Seq(Units)
    BY <2>1
  <2>5. Becomes("closing", helper.next, helper.target, <<u>>, helper.idle)
    BY <1>h, <2>3, <2>4, BecomesClosed
  <2> QED
    BY <1>0, <2>2, <2>5 DEF Closes, u
<1>1. ASSUME DecodePacket
      PROVE  \E frames \in 1 .. Lesser(PacketFrames, TrackFrames - helper.next) :
               Decodes(frames)
  <2>1. PICK frames \in 1 .. Lesser(PacketFrames, TrackFrames - helper.next) :
          LET skip == Skip(helper.next, frames) IN
          helper' = [helper EXCEPT
                       !.errors = 0,
                       !.ready = TRUE,
                       !.target = IF skip < frames THEN NoTarget ELSE @,
                       !.next = @ + frames,
                       !.out = Header \o Blocks(helper.next + skip, frames - skip)]
    BY <1>1 DEF DecodePacket
  <2> DEFINE skip == Skip(helper.next, frames)
             new == Header \o Blocks(helper.next + skip, frames - skip)
             target == IF skip < frames THEN NoTarget ELSE helper.target
             next == helper.next + frames
  <2>2. skip \in 0 .. frames /\ frames - skip \in Nat /\ helper.next + skip \in Nat
        /\ helper.next + frames \in 1 .. TrackFrames
    BY PacketFacts
  <2>3. Blocks(helper.next + skip, frames - skip) \in Seq(Units)
    <3> DEFINE first == helper.next + skip
               count == frames - skip
    <3>1. first \in Nat /\ count \in Nat /\ {} \cap (first .. first + count - 1) = {}
      BY <2>2
    <3> HIDE DEF first, count
    <3>2. Piece(Blocks(first, count), first, first + count, {})
      BY <3>1, BlocksPiece
    <3> QED
      BY <3>2 DEF Piece, first, count
  <2>4. Header \in Seq(Units)
    BY HeaderSeq DEF Piece
  <2>5. new \in Seq(Units)
    BY <2>3, <2>4, ConcatProperties
  <2>6. helper' = [helper EXCEPT !.errors = 0, !.ready = TRUE, !.target = target,
                                 !.next = next, !.out = new]
    BY <2>1
  <2>7. target \in Int /\ next \in 0 .. TrackFrames
    BY <1>h, <2>2 DEF NoTarget
  <2>8. helper.state = "decoding" /\ helper.out = <<>> /\ pipe' = pipe /\ lost' = lost
    BY <1>1 DEF DecodePacket, Decoding, HelperKept
  <2> HIDE DEF new, target, next
  <2>9. Becomes("decoding", next, target, new, helper.idle)
    <3>1. Becomes(helper.state, next, target, new, helper.idle)
      <4>1. 0 \in Nat /\ TRUE \in BOOLEAN
        OBVIOUS
      <4> QED
        BY <1>h, <2>5, <2>6, <2>7, <4>1, BecomesDecoded
    <3> QED
      BY <2>8, <3>1
  <2>10. Decodes(frames)
    BY <2>8, <2>9 DEF Decodes, new, target, next
  <2> QED
    BY <2>10
<1>2. ASSUME BadPacket
      PROVE  \/ Closes(Unit("error", 0))
             \/ \E frames \in 1 .. Lesser(PacketFrames, TrackFrames - helper.next) :
                  LeavesOut(frames)
  <2>0. Decoding /\ pipe' = pipe /\ helper.state = "decoding" /\ helper.out = <<>>
    BY <1>2 DEF BadPacket, HelperKept, Decoding
  <2>1. CASE Tolerated
    <3>1. PICK frames \in 1 .. Lesser(PacketFrames, TrackFrames - helper.next) :
            /\ helper' = [helper EXCEPT !.errors = @ + 1, !.next = @ + frames]
            /\ lost' = lost \cup (helper.next .. helper.next + frames - 1)
      BY <1>2, <2>1 DEF BadPacket
    <3>2. helper.next + frames \in 0 .. TrackFrames /\ helper.errors + 1 \in Nat
      <4>1. helper.next + frames \in 1 .. TrackFrames
        BY PacketFacts
      <4>2. helper.errors \in Nat /\ TrackFrames \in Nat
        BY <1>h DEF DecoderAssumption
      <4>3. helper.next + frames \in 0 .. TrackFrames
        BY <4>1, <4>2
      <4> QED
        BY <4>2, <4>3
    <3>3. Becomes("decoding", helper.next + frames, helper.target, <<>>, helper.idle)
      <4>1. Becomes(helper.state, helper.next + frames, helper.target, helper.out, helper.idle)
        BY <1>h, <3>1, <3>2, BecomesSkipped
      <4> QED
        BY <2>0, <4>1
    <3> QED
      BY <2>0, <3>1, <3>3 DEF LeavesOut
  <2>2. CASE ~Tolerated
    BY <1>0, <1>2, <2>0, <2>2 DEF BadPacket
  <2> QED
    BY <2>1, <2>2
<1>3. ASSUME DecodeFails PROVE Closes(Unit("error", 0))
  BY <1>0, <1>3 DEF DecodeFails, HelperKept
<1>4. ASSUME EndOfTrack
      PROVE  Closes(Unit("error", 0)) \/ (helper.next = TrackFrames /\ Closes(Unit("end", 0)))
  <2>0. /\ Decoding /\ pipe' = pipe /\ helper.state = "decoding" /\ helper.out = <<>>
        /\ lost' = lost /\ helper.next = TrackFrames
    BY <1>4 DEF EndOfTrack, HelperKept, Decoding
  <2>1. CASE helper.ready
    <3> DEFINE u == Unit("end", 0)
    <3>1. u \in Units
      BY DEF Unit, Units, UnitKinds
    <3>2. helper' = [helper EXCEPT !.out = <<u>>, !.state = "closing"]
      BY <1>4, <2>1 DEF EndOfTrack
    <3> HIDE DEF u
    <3>3. <<u>> \in Seq(Units)
      BY <3>1
    <3>4. Becomes("closing", helper.next, helper.target, <<u>>, helper.idle)
      BY <1>h, <3>2, <3>3, BecomesClosed
    <3> QED
      BY <2>0, <3>4 DEF Closes, u
  <2>2. CASE ~helper.ready
    BY <1>0, <1>4, <2>0, <2>2 DEF EndOfTrack
  <2> QED
    BY <2>1, <2>2
<1>5. ASSUME WriteUnit PROVE Stops("gone") \/ (reader.step # "gone" /\ Writes)
  <2>0. helper.state \in {"decoding", "closing"} /\ helper.out # <<>> /\ lost' = lost
    BY <1>5 DEF WriteUnit
  <2>1. CASE reader.step = "gone"
    <3>1. helper' = [helper EXCEPT !.state = "gone"] /\ pipe' = pipe
      BY <1>5, <2>1 DEF WriteUnit
    <3>2. Becomes("gone", helper.next, helper.target, helper.out, helper.idle)
      BY <1>h, <3>1, HelperState DEF Becomes
    <3> QED
      BY <2>0, <3>1, <3>2 DEF Stops
  <2>2. CASE reader.step # "gone"
    <3> DEFINE rest == Tail(helper.out)
    <3>1. helper' = [helper EXCEPT !.out = rest, !.idle = 0]
          /\ pipe' = Append(pipe, Head(helper.out))
      BY <1>5, <2>2 DEF WriteUnit
    <3>2. rest \in Seq(Units) /\ 0 \in Nat
      BY <1>h, <2>0, HeadTailProperties
    <3> HIDE DEF rest
    <3>3. Becomes(helper.state, helper.next, helper.target, rest, 0)
      BY <1>h, <3>1, <3>2, BecomesWritten
    <3> QED
      BY <2>0, <2>2, <3>1, <3>3 DEF Writes, rest
  <2> QED
    BY <2>1, <2>2
<1>6. ASSUME Exit \/ Crash PROVE Stops("gone")
  <2>1. helper' = [helper EXCEPT !.state = "gone"] /\ pipe' = pipe /\ lost' = lost
    BY <1>6 DEF Exit, Crash, HelperKept
  <2> QED
    BY <1>h, <2>1, HelperState DEF Stops, Becomes
<1>7. ASSUME Hang PROVE Stops("hung")
  <2>1. helper' = [helper EXCEPT !.state = "hung"] /\ pipe' = pipe /\ lost' = lost
        /\ helper.state \in {"decoding", "closing"}
    BY <1>7 DEF Hang, HelperKept
  <2> QED
    BY <1>h, <2>1, HelperState DEF Stops, Becomes
<1>8. \/ \E frames \in 1 .. Lesser(PacketFrames, TrackFrames - helper.next) :
           Decodes(frames) \/ LeavesOut(frames)
      \/ Closes(Unit("error", 0))
      \/ helper.next = TrackFrames /\ Closes(Unit("end", 0))
      \/ reader.step # "gone" /\ Writes
      \/ Stops("gone")
      \/ Stops("hung")
  BY <1>1, <1>2, <1>3, <1>4, <1>5, <1>6, <1>7 DEF HelperStep, HelperFault
<1> QED
  BY <1>u, <1>8

-----------------------------------------------------------------------------
(* What the reader makes of a unit. *)

Sends(message) ==
  /\ reader'.step = "sending" /\ reader'.need = 0 /\ reader'.got = <<>>
  /\ reader'.message = message

Collects(need, got) ==
  /\ reader'.step = "reading" /\ reader'.need = need /\ reader'.got = got
  /\ reader'.message = reader.message

LEMMA CollectsFrame ==
  ASSUME reader \in Readers, reader.step = "reading", NEW n \in Int, NEW q \in Seq(Nat),
         reader' = [reader EXCEPT !.need = n, !.got = q]
  PROVE  Collects(n, q)
BY DEF Readers, Collects

LEMMA ReaderActs ==
  ASSUME TypeOK, ReadUnit
  PROVE  /\ UNCHANGED <<wanted, helper, channel, worker, outcome, delivered, lost>>
         /\ reader.step = "reading" /\ pipe # <<>> /\ pipe' = Tail(pipe)
         /\ LET unit == Head(pipe)
                got == Append(reader.got, unit.value)
            IN  /\ unit \in Units /\ unit.value \in Nat /\ unit.kind \in UnitKinds
                /\ reader.got \in Seq(Nat) /\ got \in Seq(Nat) /\ reader.need \in Int
                /\ \/ unit.kind = "ready" /\ Sends(Unit("Ready", <<>>))
                   \/ unit.kind = "end" /\ Sends(Unit("End", <<>>))
                   \/ unit.kind = "error" /\ Sends(Unit("Failed", "helper"))
                   \/ unit.kind = "length" /\ Collects(unit.value, reader.got)
                   \/ unit.kind = "frame" /\ reader.need = 1 /\ Sends(Unit("Samples", got))
                   \/ unit.kind = "frame" /\ reader.need # 1 /\ Collects(reader.need - 1, got)
<1> DEFINE unit == Head(pipe)
           got == Append(reader.got, unit.value)
<1>1. /\ UNCHANGED <<wanted, helper, channel, worker, outcome, delivered, lost>>
      /\ reader.step = "reading" /\ pipe # <<>> /\ pipe' = Tail(pipe)
  BY DEF ReadUnit, ReaderKept, endVars
<1>2. unit \in Units /\ unit.value \in Nat /\ unit.kind \in UnitKinds
  <2>1. unit \in Units
    BY <1>1, HeadTailProperties DEF TypeOK
  <2> QED
    BY <2>1 DEF Units
<1>3. reader \in Readers /\ reader.got \in Seq(Nat) /\ reader.need \in Int
  <2>1. reader \in Readers
    BY DEF TypeOK
  <2> QED
    BY <2>1 DEF Readers
<1>4. got \in Seq(Nat)
  BY <1>2, <1>3
<1>5. reader' =
        CASE unit.kind = "ready" -> Sending("Ready", <<>>)
          [] unit.kind = "end" -> Sending("End", <<>>)
          [] unit.kind = "error" -> Sending("Failed", "helper")
          [] unit.kind = "length" -> [reader EXCEPT !.need = unit.value]
          [] unit.kind = "frame" ->
               IF reader.need = 1 THEN Sending("Samples", got)
               ELSE [reader EXCEPT !.need = @ - 1, !.got = got]
  BY DEF ReadUnit
<1> HIDE DEF unit, got
<1>6. CASE unit.kind = "ready"
  <2>1. reader' = Sending("Ready", <<>>)
    BY <1>5, <1>6
  <2>2. Sends(Unit("Ready", <<>>))
    BY <2>1, LettersSent, ReaderSends DEF Sends
  <2> QED
    BY <1>1, <1>2, <1>3, <1>4, <1>6, <2>2 DEF unit, got
<1>7. CASE unit.kind = "end"
  <2>1. reader' = Sending("End", <<>>)
    BY <1>5, <1>7
  <2>2. Sends(Unit("End", <<>>))
    BY <2>1, LettersSent, ReaderSends DEF Sends
  <2> QED
    BY <1>1, <1>2, <1>3, <1>4, <1>7, <2>2 DEF unit, got
<1>8. CASE unit.kind = "error"
  <2>1. reader' = Sending("Failed", "helper")
    BY <1>5, <1>8
  <2>2. Sends(Unit("Failed", "helper"))
    BY <2>1, LettersSent, ReaderSends DEF Sends
  <2> QED
    BY <1>1, <1>2, <1>3, <1>4, <1>8, <2>2 DEF unit, got
<1>9. CASE unit.kind = "length"
  <2>1. reader' = [reader EXCEPT !.need = unit.value] /\ unit.value \in Int
    BY <1>2, <1>5, <1>9
  <2>2. Collects(unit.value, reader.got)
    BY <1>1, <1>3, <2>1, ReaderNeeds DEF Collects
  <2> QED
    BY <1>1, <1>2, <1>3, <1>4, <1>9, <2>2 DEF unit, got
<1>10. CASE unit.kind = "frame" /\ reader.need = 1
  <2>1. reader' = Sending("Samples", got)
    BY <1>5, <1>10
  <2>2. Sends(Unit("Samples", got))
    BY <1>4, <2>1, LettersSent, ReaderSends DEF Sends
  <2> QED
    BY <1>1, <1>2, <1>3, <1>4, <1>10, <2>2 DEF unit, got
<1>11. CASE unit.kind = "frame" /\ reader.need # 1
  <2> DEFINE n == reader.need - 1
  <2>1. reader' = [reader EXCEPT !.need = n, !.got = got] /\ n \in Int
    BY <1>3, <1>5, <1>11
  <2> HIDE DEF n
  <2>2. Collects(n, got)
    BY <1>1, <1>3, <1>4, <2>1, CollectsFrame
  <2> QED
    BY <1>1, <1>2, <1>3, <1>4, <1>11, <2>2 DEF unit, got, n
<1> QED
  BY <1>2, <1>6, <1>7, <1>8, <1>9, <1>10, <1>11 DEF UnitKinds

-----------------------------------------------------------------------------
(* The reader's patience. *)

(* A helper that can write has not been idle for long, and the reader has not waited
   longer for output than the helper has been idle: it makes no progress only where
   the pipe is full. *)
Slow ==
  helper.state \in {"decoding", "closing"} =>
    /\ helper.idle < Patience
    /\ reader.step = "reading" /\ pipe = <<>> => quiet <= helper.idle

Stalled == reader.message = Unit("Failed", "stalled")

PatienceInv == TypeOK /\ Slow /\ TimeoutJustified

LEMMA PatienceInit == ASSUME DecoderAssumption, Init PROVE PatienceInv
<1>1. TypeOK
  BY TypeInit
<1>2. Slow
  <2>1. helper.idle = 0 /\ quiet = 0
    BY DEF Init, NewHelper
  <2> QED
    BY <2>1 DEF Slow, DecoderAssumption
<1>3. TimeoutJustified
  <2>1. reader.message.kind = "none"
    BY ReaderIdles DEF Init
  <2> QED
    BY <2>1 DEF TimeoutJustified, Unit
<1> QED
  BY <1>1, <1>2, <1>3 DEF PatienceInv

LEMMA PatienceStep ==
  ASSUME DecoderAssumption, PatienceInv, [Next]_vars
  PROVE  PatienceInv'
<1>1. TypeOK /\ TypeOK' /\ Slow /\ TimeoutJustified
  BY TypeStep DEF PatienceInv
<1>h. /\ helper.state \in {"decoding", "closing", "hung", "gone"}
      /\ helper.idle \in Nat /\ helper.out \in Seq(Units) /\ helper \in Helpers
  BY <1>1, HelperTypes
<1>2. /\ pipe \in Seq(Units) /\ quiet \in Nat /\ reader \in Readers
  BY <1>1 DEF TypeOK
<1>p. Patience \in Nat /\ PipeUnits \in Nat /\ Patience > 0 /\ PipeUnits > 0
  BY DEF DecoderAssumption
<1>n. Unit("Failed", "stalled").kind = "Failed" /\ Unit("Failed", "stalled").value = "stalled"
  BY DEF Unit
<1>t. Stalled => helper.state \in {"hung", "gone"}
  BY <1>1, <1>h DEF TimeoutJustified, Alive, Stalled
<1>3. ASSUME HelperStep \/ HelperFault PROVE Slow' /\ TimeoutJustified'
  <2>1. reader' = reader /\ quiet' = quiet
    BY <1>1, <1>3, HelperActs
  <2>2. \/ /\ pipe' = pipe /\ helper'.idle = helper.idle /\ helper.state = "decoding"
           /\ helper'.state \in {"decoding", "closing"}
        \/ Writes \/ Stops("gone") \/ Stops("hung")
    BY <1>1, <1>3, HelperActs DEF Decodes, LeavesOut, Closes, Becomes
  <2>3. CASE /\ pipe' = pipe /\ helper'.idle = helper.idle /\ helper.state = "decoding"
             /\ helper'.state \in {"decoding", "closing"}
    BY <1>1, <1>t, <2>1, <2>3 DEF Slow, TimeoutJustified, Stalled
  <2>4. CASE Writes
    <3>1. pipe' # <<>>
      <4>1. Head(helper.out) \in Units
        BY <1>h, <2>4, HeadTailProperties DEF Writes
      <4>2. Len(Append(pipe, Head(helper.out))) = Len(pipe) + 1 /\ Len(pipe) \in Nat
        BY <1>2, <4>1
      <4>3. Append(pipe, Head(helper.out)) # <<>>
        BY <4>2
      <4> QED
        BY <2>4, <4>3 DEF Writes
    <3>2. helper'.idle = 0 /\ helper'.state = helper.state
      BY <2>4 DEF Writes, Becomes
    <3>3. Slow'
      BY <1>p, <3>1, <3>2 DEF Slow
    <3>4. TimeoutJustified'
      BY <1>t, <2>1, <2>4 DEF TimeoutJustified, Stalled, Writes
    <3> QED
      BY <3>3, <3>4
  <2>5. CASE Stops("gone")
    BY <2>5 DEF Stops, Becomes, Slow, TimeoutJustified, Alive
  <2>6. CASE Stops("hung")
    BY <2>6 DEF Stops, Becomes, Slow, TimeoutJustified, Alive
  <2> QED
    BY <2>2, <2>3, <2>4, <2>5, <2>6
<1>4. ASSUME ReadUnit PROVE Slow' /\ TimeoutJustified'
  <2>1. helper' = helper /\ quiet' = 0 /\ reader.step = "reading"
    BY <1>4 DEF ReadUnit, ReaderKept, QuietAfterRead
  <2>2. Slow'
    BY <1>1, <1>h, <2>1 DEF Slow
  <2>3. reader'.message = reader.message \/ reader'.message.kind \in {"Ready", "End", "Samples"}
        \/ reader'.message = Unit("Failed", "helper")
    BY <1>1, <1>4, ReaderActs DEF Sends, Collects, Unit
  <2>4. TimeoutJustified'
    BY <1>t, <1>n, <1>h, <2>1, <2>3 DEF TimeoutJustified, Stalled, Alive, Unit
  <2> QED
    BY <2>2, <2>4
<1>5. ASSUME ReadEnd \/ TimeOut PROVE Slow' /\ TimeoutJustified'
  <2>1. helper' = helper /\ quiet' = quiet /\ reader.step = "reading" /\ pipe = <<>>
    BY <1>5 DEF ReadEnd, TimeOut, ReaderKept
  <2>2. reader'.step = "sending"
    BY <1>5, LettersSent, ReaderSends DEF ReadEnd, TimeOut
  <2>3. Slow'
    BY <1>1, <2>1, <2>2 DEF Slow
  <2>4. helper.state \notin {"decoding", "closing"}
    BY <1>1, <1>5, <1>h, <1>2, <1>p, <2>1 DEF Slow, ReadEnd, EndedEarly, TimeOut
  <2>5. TimeoutJustified'
    BY <1>h, <2>1, <2>4 DEF TimeoutJustified, Alive
  <2> QED
    BY <2>3, <2>5
<1>6. ASSUME Send PROVE Slow' /\ TimeoutJustified'
  <2>1. helper' = helper /\ quiet' = 0 /\ pipe' = pipe
    BY <1>6 DEF Send
  <2>2. Slow'
    BY <1>1, <1>h, <2>1 DEF Slow
  <2>3. reader'.message.kind = "none"
    BY <1>6, ReaderIdles DEF Send
  <2>4. TimeoutJustified'
    BY <1>n, <2>3 DEF TimeoutJustified
  <2> QED
    BY <2>2, <2>4
<1>7. ASSUME Poll \/ Shutdown \/ DropMessages \/ Join \/ UNCHANGED vars
      PROVE  Slow' /\ TimeoutJustified'
  <2>1. helper' = helper /\ quiet' = quiet /\ pipe' = pipe /\ reader' = reader
    BY <1>7 DEF Poll, Shutdown, DropMessages, Join, WorkerKept, vars
  <2> QED
    BY <1>1, <2>1 DEF Slow, TimeoutJustified, Alive
<1>8. ASSUME Kill PROVE Slow' /\ TimeoutJustified'
  <2>1. helper'.state = "gone"
    BY <1>8, <1>h, HelperState DEF Kill
  <2> QED
    BY <2>1 DEF Slow, TimeoutJustified, Alive
<1>9. ASSUME Start PROVE Slow' /\ TimeoutJustified'
  <2>1. helper'.idle = 0 /\ quiet' = 0 /\ reader' = Idle
    BY <1>9 DEF Start, NewHelper
  <2>2. Slow'
    BY <1>p, <2>1 DEF Slow
  <2>3. TimeoutJustified'
    BY <1>n, <2>1, ReaderIdles DEF TimeoutJustified
  <2> QED
    BY <2>2, <2>3
<1>10. ASSUME Tick PROVE Slow' /\ TimeoutJustified'
  <2>1. pipe' = pipe /\ reader' = reader
    BY <1>10 DEF Tick
  <2>2. CASE helper.state \in {"decoding", "closing"} /\ Len(pipe) < PipeUnits
    <3>1. helper'.state = helper.state /\ helper'.idle = helper.idle + 1
          /\ helper.idle + 1 < Patience
      <4>1. helper.idle + 1 \in Nat
        BY <1>h
      <4>2. helper' = [helper EXCEPT !.idle = helper.idle + 1] /\ helper.idle + 1 < Patience
        BY <1>10, <2>2 DEF Tick
      <4> QED
        BY <1>h, <4>1, <4>2, HelperIdles
    <3>2. quiet' <= quiet + 1 /\ quiet' \in Nat
      BY <1>10, <1>2 DEF Tick
    <3>3. Slow'
      BY <1>1, <1>h, <1>2, <2>1, <2>2, <3>1, <3>2 DEF Slow
    <3>4. TimeoutJustified'
      BY <1>t, <2>1, <2>2 DEF TimeoutJustified, Stalled
    <3> QED
      BY <3>3, <3>4
  <2>3. CASE ~(helper.state \in {"decoding", "closing"} /\ Len(pipe) < PipeUnits)
    <3>1. helper' = helper
      BY <1>10, <2>3 DEF Tick
    <3>2. helper.state \in {"decoding", "closing"} => pipe # <<>>
      <4>1. Len(<<>>) = 0
        OBVIOUS
      <4> QED
        BY <1>p, <2>3, <4>1
    <3> QED
      BY <1>1, <2>1, <3>1, <3>2 DEF Slow, TimeoutJustified, Alive
  <2> QED
    BY <2>2, <2>3
<1>11. Slow' /\ TimeoutJustified'
  BY <1>3, <1>4, <1>5, <1>6, <1>7, <1>8, <1>9, <1>10 DEF Next, ReaderStep, ShutdownStep
<1> QED
  BY <1>1, <1>11 DEF PatienceInv

THEOREM PatienceHolds == Spec => []PatienceInv
<1>1. Init => PatienceInv
  BY DecoderAssumption, PatienceInit
<1>2. PatienceInv /\ [Next]_vars => PatienceInv'
  BY DecoderAssumption, PatienceStep
<1> QED
  BY <1>1, <1>2, PTL DEF Spec

(* Only a helper that hangs is reported as stalled by `poll' in `read_protocol', never
   one that is slow or waits for a worker that does not poll. *)
THEOREM TimeoutsAreJustified == Spec => []TimeoutJustified
<1>1. PatienceInv => TimeoutJustified
  BY DEF PatienceInv
<1> QED
  BY <1>1, PatienceHolds, PTL

-----------------------------------------------------------------------------
(* The samples on their way. *)

(* What the reader has not read. *)
Stream == pipe \o helper.out

(* The helper has handed over all frames before this position that are asked for. *)
Frontier == IF helper.next < wanted THEN wanted ELSE helper.next

(* Until a frame is handed over the target of the seek is remembered. *)
Sought ==
  /\ helper.target \in {NoTarget, wanted}
  /\ helper.target = NoTarget => wanted <= helper.next
  /\ lost \subseteq 0 .. helper.next - 1

Complete == helper.state # "decoding" /\ helper.next = TrackFrames

(* Nothing comes after the end. *)
Ending ==
  /\ \A i \in DOMAIN Stream : Stream[i].kind = "end" => i = Len(Stream) /\ Complete
  /\ reader.message.kind = "End" => Stream = <<>> /\ Complete

Reading ==
  /\ reader.step # "reading" => reader.need = 0
  /\ reader.step # "sending" => reader.message.kind = "none"

Killed == worker \in {"dropping", "joining", "done"} => helper.state = "gone"

Passes(message, from, to, gaps) ==
  IF message.kind = "Samples" THEN Exact(message.value, from, to, gaps) ELSE to = from

(* A reader that has not failed goes on where the channel ends. *)
InReader(from) ==
  reader.step # "gone" /\ reader.message.kind # "Failed" =>
    \E sent, read \in Nat :
      /\ Passes(reader.message, from, sent, lost)
      /\ Exact(reader.got, sent, read, lost)
      /\ ExactStream(Stream, read, Frontier, lost)
      /\ Framed(Stream, reader.need)
      /\ reader.need = 0 => reader.got = <<>>

InChannel(upto) ==
  /\ \A i \in 0 .. Len(channel) : upto[i] \in wanted .. Frontier
  /\ \A i \in 1 .. Len(channel) :
       /\ Passes(channel[i], upto[i - 1], upto[i], lost)
       /\ channel[i].kind = "End" =>
            /\ i = Len(channel) /\ reader.step = "gone"
            /\ (upto[i] .. TrackFrames - 1) \ lost = {}

Linked(upto) ==
  /\ Exact(delivered, wanted, upto[0], lost)
  /\ InChannel(upto)
  /\ InReader(upto[Len(channel)])

Chain == Listening => \E upto \in [0 .. Len(channel) -> Nat] : Linked(upto)

SamplesInv ==
  TypeOK /\ Sought /\ Ending /\ Reading /\ Killed /\ Chain /\ SamplesExact

(* What the helper does keeps the frames that were handed over, and what it hands over
   goes on at the frontier. *)
LEMMA ChainBehindHelper ==
  ASSUME TypeOK, Chain, UNCHANGED <<wanted, reader, channel, delivered>>,
         Listening' => Listening, Frontier \in Nat, Frontier' \in Nat, Frontier <= Frontier',
         \A x \in wanted .. Frontier - 1 : x \in lost' <=> x \in lost,
         lost \subseteq lost',
         \A read \in Nat :
           /\ wanted <= read /\ ExactStream(Stream, read, Frontier, lost)
           /\ Framed(Stream, reader.need)
           => /\ ExactStream(Stream', read, Frontier', lost')
              /\ Framed(Stream', reader.need)
  PROVE  Chain'
<1> SUFFICES ASSUME Listening' PROVE \E upto \in [0 .. Len(channel') -> Nat] : Linked(upto)'
  BY DEF Chain
<1>1. Listening /\ wanted \in Nat /\ Len(channel) \in Nat
  BY LenProperties DEF TypeOK
<1>2. PICK upto \in [0 .. Len(channel) -> Nat] : Linked(upto)
  BY <1>1 DEF Chain
<1> DEFINE n == Len(channel)
<1>3. /\ \A i \in 0 .. n : upto[i] \in Nat /\ wanted <= upto[i] /\ upto[i] <= Frontier
      /\ \A i \in 1 .. n : i \in 0 .. n /\ i - 1 \in 0 .. n
  BY <1>1, <1>2 DEF Linked, InChannel
<1>g. ASSUME NEW F, NEW a, NEW b, Exact(F, a, b, lost), wanted <= a, b <= Frontier
      PROVE  Exact(F, a, b, lost')
  <2>1. a \in Nat /\ b \in Nat
    BY <1>g DEF Exact
  <2>2. \A x \in a .. b - 1 : x \in lost' <=> x \in lost
    BY <1>1, <1>g, <2>1
  <2> QED
    BY <1>g, <2>2, ExactGaps
<1>p. ASSUME NEW m, NEW a, NEW b, Passes(m, a, b, lost), wanted <= a, b <= Frontier
      PROVE  Passes(m, a, b, lost')
  BY <1>g, <1>p DEF Passes
<1>4. Exact(delivered, wanted, upto[0], lost')
  <2>1. 0 \in 0 .. n
    BY <1>1
  <2>2. Exact(delivered, wanted, upto[0], lost)
    BY <1>2 DEF Linked
  <2> QED
    BY <1>1, <1>3, <1>g, <2>1, <2>2
<1>5. ASSUME NEW i \in 1 .. n
      PROVE  /\ Passes(channel[i], upto[i - 1], upto[i], lost')
             /\ channel[i].kind = "End" =>
                  /\ i = n /\ reader.step = "gone"
                  /\ (upto[i] .. TrackFrames - 1) \ lost' = {}
  <2>1. /\ Passes(channel[i], upto[i - 1], upto[i], lost)
        /\ channel[i].kind = "End" =>
             /\ i = n /\ reader.step = "gone"
             /\ (upto[i] .. TrackFrames - 1) \ lost = {}
    BY <1>2 DEF Linked, InChannel
  <2>2. Passes(channel[i], upto[i - 1], upto[i], lost')
    BY <1>3, <1>p, <2>1
  <2> QED
    BY <2>1, <2>2
<1>6. \A i \in 0 .. n : upto[i] \in wanted .. Frontier'
  BY <1>1, <1>3
<1>7. InChannel(upto)'
  BY <1>5, <1>6 DEF InChannel
<1>8. InReader(upto[Len(channel)])'
  <2> DEFINE from == upto[n]
  <2>0. from \in Nat /\ wanted <= from /\ from <= Frontier
    <3>1. n \in 0 .. n
      BY <1>1
    <3> QED
      BY <1>3, <3>1
  <2>1. reader' = reader /\ channel' = channel
    OBVIOUS
  <2>2. ASSUME reader.step # "gone", reader.message.kind # "Failed"
        PROVE  \E sent, read \in Nat :
                 /\ Passes(reader.message, from, sent, lost')
                 /\ Exact(reader.got, sent, read, lost')
                 /\ ExactStream(Stream', read, Frontier', lost')
                 /\ Framed(Stream', reader.need)
                 /\ reader.need = 0 => reader.got = <<>>
    <3>1. PICK sent \in Nat, read \in Nat :
            /\ Passes(reader.message, from, sent, lost)
            /\ Exact(reader.got, sent, read, lost)
            /\ ExactStream(Stream, read, Frontier, lost)
            /\ Framed(Stream, reader.need)
            /\ reader.need = 0 => reader.got = <<>>
      BY <1>2, <2>2 DEF Linked, InReader
    <3> HIDE DEF from
    <3>2. from <= sent /\ sent <= read /\ read <= Frontier
      BY <2>0, <3>1 DEF Passes, Exact, ExactStream
    <3>3. wanted <= sent /\ wanted <= read /\ sent <= Frontier
      BY <1>1, <2>0, <3>2
    <3>4. Passes(reader.message, from, sent, lost')
      BY <1>p, <2>0, <3>1, <3>3
    <3>5. Exact(reader.got, sent, read, lost')
      BY <1>g, <3>1, <3>2, <3>3
    <3>6. ExactStream(Stream', read, Frontier', lost') /\ Framed(Stream', reader.need)
      BY <3>1, <3>3
    <3> QED
      BY <3>1, <3>4, <3>5, <3>6
  <2> QED
    BY <2>1, <2>2 DEF InReader
<1>9. Linked(upto)'
  BY <1>4, <1>7, <1>8 DEF Linked
<1> QED
  BY <1>9

LEMMA StreamNone ==
  ASSUME NEW S, NEW a, NEW b \in Nat, NEW L, ExactStream(S, a, a, L)
  PROVE  ExactStream(S, b, b, L)
<1>1. a \in Nat
  BY DEF ExactStream
<1>2. \A i \in DOMAIN S : ~FrameAt(S, i)
  <2>1. \A x : x \notin a .. a - 1
    BY <1>1
  <2> QED
    BY <2>1 DEF ExactStream
<1>3. \A x : x \notin b .. b - 1
  OBVIOUS
<1> QED
  BY <1>2, <1>3 DEF ExactStream

LEMMA FrontierFacts ==
  ASSUME DecoderAssumption, TypeOK
  PROVE  /\ Frontier \in Nat /\ wanted \in Nat /\ helper.next \in Nat /\ TrackFrames \in Nat
         /\ wanted <= Frontier /\ helper.next <= Frontier /\ Frontier <= TrackFrames
         /\ Frontier = wanted \/ Frontier = helper.next
<1>1. wanted \in 0 .. TrackFrames /\ TrackFrames \in Nat
  BY DEF TypeOK, DecoderAssumption
<1>2. helper.next \in 0 .. TrackFrames
  BY HelperTypes
<1> QED
  BY <1>1, <1>2 DEF Frontier

(* A packet that is decoded goes on at the frontier, wherever the seek came to. *)
LEMMA HandedOver ==
  ASSUME DecoderAssumption, TypeOK, TypeOK', Sought, wanted' = wanted,
         NEW frames \in 1 .. Lesser(PacketFrames, TrackFrames - helper.next), Decodes(frames)
  PROVE  /\ Sought' /\ Frontier <= Frontier'
         /\ Piece(helper'.out, Frontier, Frontier', lost)
<1> DEFINE skip == Skip(helper.next, frames)
           first == helper.next + skip
           count == frames - skip
           next == helper.next + frames
<1>1. /\ skip \in 0 .. frames /\ count \in Nat /\ first \in Nat
      /\ next \in 1 .. TrackFrames
      /\ skip # 0 => helper.target > helper.next
      /\ skip # 0 /\ skip < frames => first = helper.target
      /\ skip = frames => next <= helper.target
      /\ frames \in Nat /\ frames # 0
  BY PacketFacts
<1>2. skip = 0 => ~(helper.target > helper.next)
  <2>1. helper.target \in Int /\ helper.next \in Nat
    BY HelperTypes, FrontierFacts
  <2> QED
    BY <1>1, <2>1 DEF Skip, Lesser
<1>3. /\ helper'.next = next /\ helper'.out = Header \o Blocks(first, count)
      /\ helper'.target = IF skip < frames THEN NoTarget ELSE helper.target
      /\ lost' = lost
  BY DEF Decodes, Becomes
<1>4. /\ Frontier \in Nat /\ wanted \in Nat /\ helper.next \in Nat /\ TrackFrames \in Nat
      /\ wanted <= Frontier /\ helper.next <= Frontier
      /\ Frontier = wanted \/ Frontier = helper.next
      /\ Frontier = IF helper.next < wanted THEN wanted ELSE helper.next
  BY FrontierFacts DEF Frontier
<1>5. Frontier' = IF next < wanted THEN wanted ELSE next
  BY <1>3 DEF Frontier
<1>6. /\ helper.target \in {NoTarget, wanted} /\ helper.target \in Int
      /\ helper.target = NoTarget => wanted <= helper.next
      /\ lost \subseteq 0 .. helper.next - 1
      /\ NoTarget = -1
  BY HelperTypes DEF Sought, NoTarget
<1> HIDE DEF skip, first
<1>f. first = helper.next + skip
  BY DEF first
<1>7. next \in Nat /\ first + count = next
  BY <1>1, <1>4, <1>f
<1> HIDE DEF count
<1>8. skip < frames => first = Frontier /\ Frontier' = next /\ wanted <= next
  <2> HIDE DEF next
  <2>1. CASE skip = 0
    <3>1. wanted <= helper.next
      BY <1>2, <1>4, <1>6, <2>1
    <3>2. first = helper.next /\ helper.next <= next
      BY <1>1, <1>4, <1>f, <2>1 DEF next
    <3> QED
      BY <1>4, <1>5, <1>7, <3>1, <3>2
  <2>2. CASE skip # 0
    <3>1. helper.target = wanted /\ wanted > helper.next
      BY <1>1, <1>4, <1>6, <2>2
    <3>2. skip < frames => first = wanted /\ first < next
      BY <1>1, <1>4, <1>f, <2>2, <3>1 DEF next
    <3> QED
      BY <1>1, <1>4, <1>5, <1>7, <3>1, <3>2
  <2> QED
    BY <2>1, <2>2
<1>9. ~(skip < frames) =>
        /\ skip = frames /\ count = 0 /\ Frontier = wanted /\ Frontier' = wanted
        /\ helper.target = wanted /\ next <= wanted
  <2> SUFFICES ASSUME ~(skip < frames)
               PROVE  /\ skip = frames /\ count = 0 /\ Frontier = wanted /\ Frontier' = wanted
                      /\ helper.target = wanted /\ next <= wanted
    OBVIOUS
  <2>1. skip = frames /\ count = 0 /\ skip # 0
    BY <1>1 DEF count
  <2>2. helper.target = wanted /\ wanted > helper.next /\ next <= wanted
    BY <1>1, <1>4, <1>6, <2>1
  <2> HIDE DEF next
  <2> QED
    BY <1>4, <1>5, <1>7, <2>1, <2>2
<1>10. Frontier <= Frontier' /\ Frontier' \in Nat
  BY <1>1, <1>4, <1>5
<1>11. Sought'
  <2>1. lost' \subseteq 0 .. next - 1
    <3>1. helper.next <= next
      BY <1>1, <1>4
    <3> SUFFICES ASSUME NEW x \in 0 .. helper.next - 1 PROVE x \in 0 .. next - 1
      BY <1>3, <1>6
    <3> HIDE DEF next
    <3> QED
      BY <1>4, <1>7, <3>1
  <2>2. CASE skip < frames
    <3>1. helper'.target = NoTarget /\ wanted <= next
      BY <1>3, <1>8, <2>2
    <3> HIDE DEF next
    <3> QED
      BY <1>3, <2>1, <3>1 DEF Sought
  <2>3. CASE ~(skip < frames)
    <3>1. helper'.target = wanted /\ wanted # NoTarget
      BY <1>3, <1>4, <1>6, <1>9, <2>3
    <3> HIDE DEF next
    <3> QED
      BY <1>3, <2>1, <3>1 DEF Sought
  <2> QED
    BY <2>2, <2>3
<1>12. Piece(Header, Frontier, Frontier, lost)
  BY <1>4, HeaderSeq
<1>13. Piece(Blocks(first, count), first, first + count, lost)
  <2>1. lost \cap (first .. first + count - 1) = {}
    BY <1>1, <1>4, <1>6, <1>f
  <2> QED
    BY <1>1, <2>1, BlocksPiece
<1>14. Piece(Blocks(first, count), Frontier, Frontier', lost)
  <2>1. CASE skip < frames
    BY <1>7, <1>8, <1>13, <2>1
  <2>2. CASE ~(skip < frames)
    <3>1. first + count = first
      BY <1>1, <1>9, <2>2
    <3>2. ExactStream(Blocks(first, count), first, first, lost)
      BY <1>13, <3>1 DEF Piece
    <3>3. ExactStream(Blocks(first, count), Frontier, Frontier, lost)
      BY <1>4, <3>2, StreamNone
    <3> QED
      BY <1>9, <1>13, <2>2, <3>3 DEF Piece
  <2> QED
    BY <2>1, <2>2
<1>15. Piece(Header \o Blocks(first, count), Frontier, Frontier', lost)
  BY <1>12, <1>14, PieceJoin
<1> QED
  BY <1>3, <1>10, <1>11, <1>15

(* A packet that is left out is a gap between the frontiers, and only there. *)
LEMMA GapAtFrontier ==
  ASSUME DecoderAssumption, TypeOK, Sought, wanted' = wanted,
         NEW frames \in 1 .. Lesser(PacketFrames, TrackFrames - helper.next), LeavesOut(frames)
  PROVE  /\ Sought' /\ Frontier <= Frontier' /\ Frontier' \in Nat /\ lost \subseteq lost'
         /\ (Frontier .. Frontier' - 1) \ lost' = {}
         /\ \A x \in wanted .. Frontier - 1 : x \in lost' <=> x \in lost
<1> DEFINE next == helper.next + frames
           new == helper.next .. helper.next + frames - 1
<1>1. next \in 1 .. TrackFrames /\ frames \in Nat /\ frames # 0
  BY PacketFacts
<1>2. /\ helper'.next = next /\ helper'.target = helper.target /\ lost' = lost \cup new
  <2>1. lost' = lost \cup new
    BY DEF LeavesOut
  <2> HIDE DEF new
  <2>2. helper'.next = next /\ helper'.target = helper.target
    BY DEF LeavesOut, Becomes
  <2> QED
    BY <2>1, <2>2
<1>4. /\ Frontier \in Nat /\ wanted \in Nat /\ helper.next \in Nat
      /\ Frontier = IF helper.next < wanted THEN wanted ELSE helper.next
  BY FrontierFacts DEF Frontier
<1>5. Frontier' = IF next < wanted THEN wanted ELSE next
  BY <1>2 DEF Frontier
<1>6. next \in Nat /\ helper.next < next
  BY <1>1, <1>4
<1>7. /\ helper.target \in {NoTarget, wanted}
      /\ helper.target = NoTarget => wanted <= helper.next
      /\ lost \subseteq 0 .. helper.next - 1
  BY DEF Sought
<1>8. \A x : x \in new <=> x \in Nat /\ helper.next <= x /\ x < next
  BY <1>4, <1>6
<1> HIDE DEF next, new
<1>9. lost' \subseteq 0 .. next - 1
  <2> SUFFICES ASSUME NEW x \in lost' PROVE x \in 0 .. next - 1
    OBVIOUS
  <2>1. x \in lost => x \in 0 .. helper.next - 1
    BY <1>7
  <2> QED
    BY <1>2, <1>4, <1>6, <1>8, <2>1
<1>10. Sought'
  <2>1. helper.target = NoTarget => wanted <= next
    BY <1>4, <1>6, <1>7
  <2> QED
    BY <1>2, <1>7, <1>9, <2>1 DEF Sought
<1>11. (Frontier .. Frontier' - 1) \ lost' = {}
  BY <1>2, <1>4, <1>5, <1>6, <1>8
<1>12. \A x \in wanted .. Frontier - 1 : x \notin new
  BY <1>4, <1>8
<1> QED
  BY <1>2, <1>4, <1>5, <1>6, <1>10, <1>11, <1>12

LEMMA StreamSeq ==
  ASSUME TypeOK
  PROVE  /\ pipe \in Seq(Units) /\ helper.out \in Seq(Units) /\ Stream \in Seq(Units)
         /\ helper.out = <<>> => Stream = pipe
         /\ DOMAIN Stream = 1 .. Len(Stream) /\ Len(Stream) \in Nat
<1>1. pipe \in Seq(Units) /\ helper.out \in Seq(Units)
  BY HelperTypes DEF TypeOK
<1>2. pipe \o helper.out \in Seq(Units) /\ pipe \o <<>> = pipe
  BY <1>1, ConcatProperties, ConcatEmptySeq
<1> QED
  BY <1>1, <1>2, LenProperties DEF Stream

(* The samples given to the worker stay exact while only gaps are added elsewhere. *)
LEMMA ExactKept ==
  ASSUME SamplesExact, UNCHANGED <<wanted, outcome, delivered>>, lost \subseteq lost',
         \A i \in DOMAIN delivered : delivered[i] \in lost' => delivered[i] \in lost
  PROVE  SamplesExact'
<1>1. Given' = Given
  BY DEF Given
<1>2. Given \subseteq (wanted .. TrackFrames - 1) \ lost'
  BY DEF SamplesExact, Given
<1>3. ASSUME NEW frame \in wanted .. TrackFrames - 1,
             outcome = "End" \/ (delivered # <<>> /\ frame <= Last(delivered))
      PROVE  frame \in Given \cup lost'
  BY <1>3 DEF SamplesExact
<1> QED
  BY <1>1, <1>2, <1>3 DEF SamplesExact

(* The helper goes on with the stream: with a piece of frames that goes on at the
   frontier, or with a unit that is not a frame. *)
LEMMA StreamGoesOn ==
  ASSUME TypeOK, TypeOK', helper.out = <<>>, pipe' = pipe,
         Framed(helper'.out, 0), ExactStream(helper'.out, Frontier, Frontier', lost)
  PROVE  /\ Stream' = Stream \o helper'.out
         /\ \A read \in Nat :
              ExactStream(Stream, read, Frontier, lost) /\ Framed(Stream, reader.need)
              => /\ ExactStream(Stream', read, Frontier', lost)
                 /\ Framed(Stream', reader.need)
<1>1. /\ Stream \in Seq(Units) /\ Stream = pipe /\ helper'.out \in Seq(Units)
  <2>1. helper'.out \in Seq(Units)
    BY DEF TypeOK, Helpers
  <2> QED
    BY <2>1, StreamSeq
<1>2. Stream' = Stream \o helper'.out
  BY <1>1 DEF Stream
<1>3. ASSUME NEW read \in Nat, ExactStream(Stream, read, Frontier, lost),
             Framed(Stream, reader.need)
      PROVE  ExactStream(Stream', read, Frontier', lost) /\ Framed(Stream', reader.need)
  <2> DEFINE O == helper'.out
             S == Stream
             H == S \o O
             to == Frontier'
             from == Frontier
  <2>1. S \in Seq(Units) /\ O \in Seq(Units) /\ Framed(O, 0) /\ ExactStream(O, from, to, lost)
        /\ ExactStream(S, read, from, lost) /\ Framed(S, reader.need)
    BY <1>1, <1>3
  <2> HIDE DEF O, S, to, from
  <2>2. ExactStream(S \o O, read, to, lost)
    BY <2>1, StreamJoin
  <2>3. Framed(S \o O, reader.need)
    BY <2>1, FramedJoin
  <2> QED
    BY <1>2, <2>2, <2>3 DEF O, S, to
<1> QED
  BY <1>2, <1>3

(* No unit is added behind the end, which is only written when the track is complete. *)
LEMMA EndingGoesOn ==
  ASSUME TypeOK, TypeOK', Ending, UNCHANGED reader, helper.out = <<>>, pipe' = pipe,
         helper.state = "decoding",
         NoEnd(helper'.out) \/ (Len(helper'.out) = 1 /\ Complete')
  PROVE  Ending'
<1>1. /\ Stream \in Seq(Units) /\ Stream = pipe /\ helper'.out \in Seq(Units)
      /\ DOMAIN Stream = 1 .. Len(Stream) /\ Len(Stream) \in Nat
  <2>1. helper'.out \in Seq(Units)
    BY DEF TypeOK, Helpers
  <2> QED
    BY <2>1, StreamSeq
<1>2. Stream' = Stream \o helper'.out
  BY <1>1 DEF Stream
<1>3. (\A i \in 1 .. Len(Stream) : Stream[i].kind # "end") /\ reader.message.kind # "End"
  BY <1>1 DEF Ending, Complete
<1> DEFINE O == helper'.out
           S == Stream
           m == Len(S)
           n == Len(O)
           H == S \o O
<1>4. /\ m \in Nat /\ n \in Nat /\ Len(H) = m + n /\ DOMAIN H = 1 .. m + n
      /\ DOMAIN O = 1 .. n
      /\ \A i \in 1 .. m + n : H[i] = IF i <= m THEN S[i] ELSE O[i - m]
  BY <1>1, ConcatProperties, LenProperties
<1>5. \A i \in 1 .. m : S[i].kind # "end"
  BY <1>3
<1>6. (\A i \in 1 .. n : O[i].kind # "end") \/ (n = 1 /\ Complete')
  BY <1>4 DEF NoEnd
<1> HIDE DEF O, S, m, n
<1>7. ASSUME NEW i \in 1 .. m + n, H[i].kind = "end" PROVE i = m + n /\ Complete'
  <2>1. ~(i <= m) /\ i - m \in 1 .. n
    <3>1. i <= m => i \in 1 .. m
      BY <1>4
    <3>2. ~(i <= m)
      BY <1>4, <1>5, <1>7, <3>1
    <3> QED
      BY <1>4, <3>2
  <2>2. O[i - m].kind = "end"
    BY <1>4, <1>7, <2>1
  <2>3. n = 1 /\ Complete'
    BY <1>6, <2>1, <2>2
  <2> QED
    BY <1>4, <2>1, <2>3
<1>8. Stream' = H
  BY <1>2 DEF S, O
<1> HIDE DEF H
<1> QED
  BY <1>3, <1>4, <1>7, <1>8 DEF Ending

LEMMA HeadMoves ==
  ASSUME NEW P \in Seq(Units), NEW O \in Seq(Units), O # <<>>
  PROVE  Append(P, Head(O)) \o Tail(O) = P \o O
<1> DEFINE h == Head(O)
           T == Tail(O)
           A == Append(P, h)
           m == Len(P)
           n == Len(O)
<1>1. /\ h \in Units /\ T \in Seq(Units) /\ Len(T) = n - 1 /\ n \in Nat /\ n # 0
      /\ \A i \in 1 .. n - 1 : T[i] = O[i + 1]
      /\ h = O[1] /\ m \in Nat
  BY HeadTailProperties, EmptySeq, LenProperties
<1> HIDE DEF h, T, n
<1>2. A \in Seq(Units) /\ Len(A) = m + 1 /\ A[m + 1] = h /\ \A i \in 1 .. m : A[i] = P[i]
  BY <1>1
<1> HIDE DEF A, m
<1>3. /\ A \o T \in Seq(Units) /\ Len(A \o T) = m + n
      /\ \A i \in 1 .. m + n : (A \o T)[i] = IF i <= m + 1 THEN A[i] ELSE T[i - (m + 1)]
  <2>1. Len(A) = m + 1 /\ Len(A) + Len(T) = m + n
    BY <1>1, <1>2
  <2>2. /\ A \o T \in Seq(Units) /\ Len(A \o T) = Len(A) + Len(T)
        /\ \A i \in 1 .. Len(A) + Len(T) :
             (A \o T)[i] = IF i <= Len(A) THEN A[i] ELSE T[i - Len(A)]
    BY <1>1, <1>2, ConcatProperties
  <2> DEFINE k == Len(A)
             l == Len(A) + Len(T)
  <2>3. k = m + 1 /\ l = m + n
    BY <2>1
  <2>4. /\ A \o T \in Seq(Units) /\ Len(A \o T) = l
        /\ \A i \in 1 .. l : (A \o T)[i] = IF i <= k THEN A[i] ELSE T[i - k]
    BY <2>2
  <2> HIDE DEF k, l
  <2> QED
    BY <2>3, <2>4
<1>4. /\ P \o O \in Seq(Units) /\ Len(P \o O) = m + n
      /\ \A i \in 1 .. m + n : (P \o O)[i] = IF i <= m THEN P[i] ELSE O[i - m]
  BY ConcatProperties DEF m, n
<1>5. ASSUME NEW i \in 1 .. m + n PROVE (A \o T)[i] = (P \o O)[i]
  <2>1. CASE i <= m
    <3>1. i \in 1 .. m /\ i <= m + 1
      BY <1>1, <2>1
    <3> QED
      BY <1>2, <1>3, <1>4, <2>1, <3>1
  <2>2. CASE i = m + 1
    <3>1. ~(i <= m) /\ i - m = 1 /\ i <= m + 1
      BY <1>1, <2>2
    <3> QED
      BY <1>1, <1>2, <1>3, <1>4, <2>2, <3>1
  <2>3. CASE ~(i <= m + 1)
    <3>1. i - (m + 1) \in 1 .. n - 1 /\ (i - (m + 1)) + 1 = i - m /\ ~(i <= m)
      BY <1>1, <2>3
    <3> QED
      BY <1>1, <1>3, <1>4, <2>3, <3>1
  <2>4. m \in Nat /\ i \in Nat
    BY <1>1
  <2>5. i <= m \/ i = m + 1 \/ ~(i <= m + 1)
    BY <2>4
  <2> QED
    BY <2>1, <2>2, <2>3, <2>5
<1>6. A \o T = P \o O
  BY <1>3, <1>4, <1>5, SeqEqual
<1> QED
  BY <1>6 DEF A, T, h

LEMMA OneUnit ==
  ASSUME NEW u \in Units, u.kind \in {"ready", "end", "error"}, NEW a \in Nat, NEW L
  PROVE  /\ Framed(<<u>>, 0) /\ ExactStream(<<u>>, a, a, L) /\ Len(<<u>>) = 1
         /\ u.kind # "end" => NoEnd(<<u>>)
<1> DEFINE S == <<u>>
<1>1. DOMAIN S = {1} /\ S[1] = u /\ Len(S) = 1
  OBVIOUS
<1>2. Framed(S, 0)
  BY FramedOne DEF Counts
<1> HIDE DEF S
<1>3. \A i \in DOMAIN S : S[i].kind # "frame"
  BY <1>1
<1>4. (a .. a - 1) \ L = {} /\ a <= a
  OBVIOUS
<1>5. ExactStream(S, a, a, L)
  BY <1>3, <1>4, StreamNoFrames
<1>6. u.kind # "end" => NoEnd(S)
  BY <1>1 DEF NoEnd
<1> QED
  BY <1>1, <1>2, <1>5, <1>6 DEF S

(* What the chain, the end and the samples need of a step of the helper that changes
   nothing but its own state and what it writes. *)
LEMMA HelperHandsOver ==
  ASSUME DecoderAssumption, SamplesInv, TypeOK',
         UNCHANGED <<wanted, reader, channel, worker, outcome, delivered, lost, pipe>>,
         helper.state = "decoding", helper.out = <<>>, Frontier <= Frontier',
         Framed(helper'.out, 0), ExactStream(helper'.out, Frontier, Frontier', lost),
         NoEnd(helper'.out) \/ (Len(helper'.out) = 1 /\ Complete')
  PROVE  Chain' /\ Ending' /\ SamplesExact'
<1>1. TypeOK /\ Chain /\ Ending /\ SamplesExact
  BY DEF SamplesInv
<1>2. \A read \in Nat :
        ExactStream(Stream, read, Frontier, lost) /\ Framed(Stream, reader.need)
        => ExactStream(Stream', read, Frontier', lost) /\ Framed(Stream', reader.need)
  BY <1>1, StreamGoesOn
<1>3. Frontier \in Nat /\ Frontier' \in Nat
  <2>1. Frontier \in Nat /\ wanted \in Nat /\ helper'.next \in 0 .. TrackFrames
    BY <1>1, FrontierFacts DEF TypeOK, Helpers
  <2> QED
    BY <2>1 DEF Frontier, DecoderAssumption
<1>4. lost' = lost
  OBVIOUS
<1>5. Chain'
  BY <1>1, <1>2, <1>3, <1>4, ChainBehindHelper DEF Listening
<1>6. Ending'
  BY <1>1, EndingGoesOn
<1>7. SamplesExact'
  BY <1>1, <1>4, ExactKept
<1> QED
  BY <1>5, <1>6, <1>7

LEMMA ByPacket ==
  ASSUME DecoderAssumption, SamplesInv, TypeOK',
         UNCHANGED <<wanted, reader, quiet, channel, worker, outcome, delivered>>,
         NEW frames \in 1 .. Lesser(PacketFrames, TrackFrames - helper.next), Decodes(frames)
  PROVE  Sought' /\ Chain' /\ Ending' /\ SamplesExact'
<1>1. TypeOK /\ Sought
  BY DEF SamplesInv
<1>2. /\ Sought' /\ Frontier <= Frontier'
      /\ Piece(helper'.out, Frontier, Frontier', lost)
  BY <1>1, HandedOver
<1>3. helper.state = "decoding" /\ helper.out = <<>> /\ pipe' = pipe /\ lost' = lost
  BY DEF Decodes
<1>4. /\ Framed(helper'.out, 0) /\ ExactStream(helper'.out, Frontier, Frontier', lost)
      /\ NoEnd(helper'.out)
  BY <1>2 DEF Piece
<1> QED
  BY <1>2, <1>3, <1>4, HelperHandsOver

LEMMA ByClosing ==
  ASSUME DecoderAssumption, SamplesInv, TypeOK',
         UNCHANGED <<wanted, reader, quiet, channel, worker, outcome, delivered>>,
         NEW u \in Units, Closes(u),
         u.kind = "error" \/ (u.kind = "end" /\ helper.next = TrackFrames)
  PROVE  Sought' /\ Chain' /\ Ending' /\ SamplesExact'
<1>1. TypeOK /\ Sought
  BY DEF SamplesInv
<1>2. /\ helper.state = "decoding" /\ helper.out = <<>> /\ pipe' = pipe /\ lost' = lost
      /\ helper'.out = <<u>> /\ helper'.next = helper.next /\ helper'.target = helper.target
      /\ helper'.state = "closing"
  BY DEF Closes, Becomes
<1>3. Frontier' = Frontier /\ Frontier \in Nat /\ Frontier <= Frontier
  <2>1. Frontier \in Nat
    BY <1>1, FrontierFacts
  <2> QED
    BY <1>2, <2>1 DEF Frontier
<1>4. Sought'
  BY <1>1, <1>2 DEF Sought
<1>5. /\ Framed(<<u>>, 0) /\ ExactStream(<<u>>, Frontier, Frontier, lost) /\ Len(<<u>>) = 1
      /\ u.kind # "end" => NoEnd(<<u>>)
  BY <1>3, OneUnit
<1>6. u.kind = "end" => Complete'
  BY <1>2 DEF Complete
<1>7. NoEnd(helper'.out) \/ (Len(helper'.out) = 1 /\ Complete')
  BY <1>2, <1>5, <1>6
<1>8. Framed(helper'.out, 0) /\ ExactStream(helper'.out, Frontier, Frontier', lost)
  BY <1>2, <1>3, <1>5
<1> QED
  BY <1>2, <1>3, <1>4, <1>7, <1>8, HelperHandsOver

(* Nothing that was handed over is changed by a step that keeps the stream. *)
LEMMA StreamKept ==
  ASSUME DecoderAssumption, SamplesInv,
         UNCHANGED <<wanted, reader, channel, outcome, delivered, lost>>,
         Listening' => Listening, Stream' = Stream,
         helper'.next = helper.next, helper'.target = helper.target,
         Complete => Complete'
  PROVE  Sought' /\ Chain' /\ Ending' /\ SamplesExact'
<1>1. TypeOK /\ Sought /\ Chain /\ Ending /\ SamplesExact
  BY DEF SamplesInv
<1>2. lost' = lost
  OBVIOUS
<1>3. Frontier' = Frontier /\ Frontier \in Nat
  <2>1. Frontier \in Nat
    BY <1>1, FrontierFacts
  <2> QED
    BY <2>1 DEF Frontier
<1>4. Sought'
  BY <1>1 DEF Sought
<1>5. Chain'
  <2>1. \A read \in Nat :
          wanted <= read /\ ExactStream(Stream, read, Frontier, lost)
            /\ Framed(Stream, reader.need)
          => ExactStream(Stream', read, Frontier', lost') /\ Framed(Stream', reader.need)
    BY <1>2, <1>3
  <2>2. Frontier \in Nat /\ Frontier' \in Nat /\ Frontier <= Frontier'
    BY <1>3
  <2> QED
    BY <1>1, <1>2, <2>1, <2>2, ChainBehindHelper
<1>6. Ending'
  BY <1>1 DEF Ending
<1>7. SamplesExact'
  BY <1>1, <1>2, ExactKept
<1> QED
  BY <1>4, <1>5, <1>6, <1>7

LEMMA ByWriting ==
  ASSUME DecoderAssumption, SamplesInv,
         UNCHANGED <<wanted, reader, quiet, channel, worker, outcome, delivered>>, Writes
  PROVE  Sought' /\ Chain' /\ Ending' /\ SamplesExact'
<1>1. /\ helper.out # <<>> /\ lost' = lost /\ pipe' = Append(pipe, Head(helper.out))
      /\ helper'.state = helper.state /\ helper'.next = helper.next
      /\ helper'.target = helper.target /\ helper'.out = Tail(helper.out)
  BY DEF Writes, Becomes
<1>2. pipe \in Seq(Units) /\ helper.out \in Seq(Units)
  BY StreamSeq DEF SamplesInv
<1>3. Append(pipe, Head(helper.out)) \o Tail(helper.out) = pipe \o helper.out
  BY <1>1, <1>2, HeadMoves
<1>4. Stream' = Stream
  BY <1>1, <1>3 DEF Stream
<1>5. Complete => Complete'
  BY <1>1 DEF Complete
<1> QED
  BY <1>1, <1>4, <1>5, StreamKept DEF Listening

LEMMA ByStopping ==
  ASSUME DecoderAssumption, SamplesInv, NEW state \in {"gone", "hung"},
         UNCHANGED <<wanted, reader, quiet, channel, worker, outcome, delivered>>, Stops(state)
  PROVE  Sought' /\ Chain' /\ Ending' /\ SamplesExact'
<1>1. /\ lost' = lost /\ pipe' = pipe
      /\ helper'.state = state /\ helper'.next = helper.next
      /\ helper'.target = helper.target /\ helper'.out = helper.out
  BY DEF Stops, Becomes
<1>2. Stream' = Stream /\ (Complete => Complete')
  BY <1>1 DEF Stream, Complete
<1> QED
  BY <1>1, <1>2, StreamKept DEF Listening

LEMMA ByLeavingOut ==
  ASSUME DecoderAssumption, SamplesInv,
         UNCHANGED <<wanted, reader, quiet, channel, worker, outcome, delivered>>,
         NEW frames \in 1 .. Lesser(PacketFrames, TrackFrames - helper.next), LeavesOut(frames)
  PROVE  Sought' /\ Chain' /\ Ending' /\ SamplesExact'
<1>1. TypeOK /\ Sought /\ Chain /\ Ending /\ SamplesExact /\ Killed
  BY DEF SamplesInv
<1>2. /\ Sought' /\ Frontier <= Frontier' /\ Frontier' \in Nat /\ lost \subseteq lost'
      /\ (Frontier .. Frontier' - 1) \ lost' = {}
      /\ \A x \in wanted .. Frontier - 1 : x \in lost' <=> x \in lost
  BY <1>1, GapAtFrontier
<1>3. helper.state = "decoding" /\ helper.out = <<>> /\ helper'.out = <<>> /\ pipe' = pipe
  BY DEF LeavesOut, Becomes
<1>4. Stream' = Stream /\ Frontier \in Nat /\ wanted \in Nat
  BY <1>1, <1>3, FrontierFacts DEF Stream
<1>5. ASSUME NEW read \in Nat, wanted <= read, ExactStream(Stream, read, Frontier, lost),
             Framed(Stream, reader.need)
      PROVE  ExactStream(Stream', read, Frontier', lost') /\ Framed(Stream', reader.need)
  <2>1. \A x \in read .. Frontier - 1 : x \in lost' <=> x \in lost
    <3> SUFFICES ASSUME NEW x \in read .. Frontier - 1 PROVE x \in lost' <=> x \in lost
      OBVIOUS
    <3>1. x \in wanted .. Frontier - 1
      BY <1>4, <1>5
    <3> QED
      BY <1>2, <3>1
  <2>2. ExactStream(Stream, read, Frontier', lost')
    BY <1>2, <1>5, <2>1, StreamGaps
  <2> QED
    BY <1>4, <1>5, <2>2
<1>6. Chain'
  BY <1>1, <1>2, <1>4, <1>5, ChainBehindHelper DEF Listening
<1>7. Ending'
  <2>1. \A i \in DOMAIN Stream : Stream[i].kind # "end"
    BY <1>1, <1>3 DEF Ending, Complete
  <2>2. reader.message.kind # "End"
    BY <1>1, <1>3 DEF Ending, Complete
  <2> QED
    BY <1>4, <2>1, <2>2 DEF Ending
<1>8. Listening
  BY <1>1, <1>3 DEF Killed, Listening, TypeOK
<1>9. PICK upto \in [0 .. Len(channel) -> Nat] : Linked(upto)
  BY <1>1, <1>8 DEF Chain
<1>10. upto[0] \in wanted .. Frontier /\ Exact(delivered, wanted, upto[0], lost)
  <2>1. 0 \in 0 .. Len(channel)
    BY <1>1, LenProperties DEF TypeOK
  <2> QED
    BY <1>9, <2>1 DEF Linked, InChannel
<1>11. ASSUME NEW i \in DOMAIN delivered, delivered[i] \in lost' PROVE delivered[i] \in lost
  <2>1. delivered[i] \in wanted .. upto[0] - 1
    BY <1>10 DEF Exact
  <2>2. delivered[i] \in wanted .. Frontier - 1
    BY <1>4, <1>10, <2>1
  <2> QED
    BY <1>2, <1>11, <2>2
<1>12. SamplesExact'
  BY <1>1, <1>2, <1>11, ExactKept
<1> QED
  BY <1>2, <1>6, <1>7, <1>12

LEMMA SamplesByHelper ==
  ASSUME DecoderAssumption, SamplesInv, TypeOK', HelperStep \/ HelperFault
  PROVE  SamplesInv'
<1>1. TypeOK /\ Reading /\ Killed
  BY DEF SamplesInv
<1>2. UNCHANGED <<wanted, reader, quiet, channel, worker, outcome, delivered>>
  BY <1>1, HelperActs
<1>3. \/ \E frames \in 1 .. Lesser(PacketFrames, TrackFrames - helper.next) :
           Decodes(frames) \/ LeavesOut(frames)
      \/ Closes(Unit("error", 0))
      \/ helper.next = TrackFrames /\ Closes(Unit("end", 0))
      \/ Writes
      \/ Stops("gone")
      \/ Stops("hung")
  BY <1>1, HelperActs
<1>4. /\ Unit("error", 0) \in Units /\ Unit("error", 0).kind = "error"
      /\ Unit("end", 0) \in Units /\ Unit("end", 0).kind = "end"
  BY DEF Unit, Units, UnitKinds
<1>5. Sought' /\ Chain' /\ Ending' /\ SamplesExact'
  BY <1>2, <1>3, <1>4, ByPacket, ByLeavingOut, ByClosing, ByWriting, ByStopping
<1>6. Reading'
  BY <1>1, <1>2 DEF Reading
<1>7. Killed'
  <2>1. helper.state = "gone" => helper'.state = "gone"
    BY <1>3 DEF Decodes, LeavesOut, Closes, Writes, Stops, Becomes
  <2> QED
    BY <1>1, <1>2, <2>1 DEF Killed
<1> QED
  BY <1>5, <1>6, <1>7 DEF SamplesInv

-----------------------------------------------------------------------------
(* The reader takes the stream apart. *)

LEMMA StreamHead ==
  ASSUME TypeOK, pipe # <<>>
  PROVE  /\ Stream # <<>> /\ Head(Stream) = Head(pipe) /\ Tail(Stream) \in Seq(Units)
         /\ Tail(pipe) \o helper.out = Tail(Stream)
<1> DEFINE P == pipe
           O == helper.out
           T == Tail(P)
           S == P \o O
           m == Len(P)
           n == Len(O)
<1>1. P \in Seq(Units) /\ O \in Seq(Units) /\ P # <<>>
  BY StreamSeq
<1> HIDE DEF P, O
<1>2. /\ T \in Seq(Units) /\ Len(T) = m - 1 /\ n \in Nat /\ m \in Nat /\ m # 0
      /\ \A i \in 1 .. m - 1 : T[i] = P[i + 1]
      /\ Head(P) = P[1]
  BY <1>1, HeadTailProperties, EmptySeq, LenProperties
<1> HIDE DEF T, m, n
<1>3. /\ S \in Seq(Units) /\ Len(S) = m + n
      /\ \A i \in 1 .. m + n : S[i] = IF i <= m THEN P[i] ELSE O[i - m]
  BY <1>1, ConcatProperties DEF m, n
<1> HIDE DEF S
<1>4. S # <<>> /\ Head(S) = P[1]
  <2>1. Len(S) # 0 /\ 1 \in 1 .. m + n /\ 1 <= m
    BY <1>2, <1>3
  <2>2. S # <<>>
    BY <2>1, EmptySeq
  <2>3. Head(S) = S[1]
    OBVIOUS
  <2> QED
    BY <1>3, <2>1, <2>2, <2>3
<1> DEFINE R == Tail(S)
<1>5. /\ R \in Seq(Units) /\ Len(R) = m + n - 1
      /\ \A i \in 1 .. m + n - 1 : R[i] = S[i + 1]
  <2>1. /\ R \in Seq(Units) /\ Len(R) = Len(S) - 1
        /\ \A i \in 1 .. Len(R) : R[i] = S[i + 1]
    BY <1>3, <1>4, HeadTailProperties
  <2> DEFINE k == Len(R)
  <2> HIDE DEF R
  <2>2. k = m + n - 1
    <3>1. Len(S) = m + n
      BY <1>3
    <3>2. k = Len(S) - 1
      BY <2>1
    <3> HIDE DEF k
    <3> QED
      BY <1>2, <3>1, <3>2
  <2>3. R \in Seq(Units) /\ \A i \in 1 .. k : R[i] = S[i + 1]
    BY <2>1
  <2>4. Len(R) = k
    OBVIOUS
  <2> HIDE DEF k
  <2> QED
    BY <2>2, <2>3, <2>4
<1> HIDE DEF R
<1>6. /\ T \o O \in Seq(Units) /\ Len(T \o O) = m + n - 1
      /\ \A i \in 1 .. m + n - 1 : (T \o O)[i] = IF i <= m - 1 THEN T[i] ELSE O[i - (m - 1)]
  <2>1. Len(T) + Len(O) = m + n - 1
    BY <1>2 DEF n
  <2> QED
    BY <1>1, <1>2, <2>1, ConcatProperties
<1>7. ASSUME NEW i \in 1 .. m + n - 1 PROVE (T \o O)[i] = R[i]
  <2>1. i + 1 \in 1 .. m + n
    BY <1>2
  <2>2. CASE i <= m - 1
    <3>1. i \in 1 .. m - 1 /\ i + 1 <= m
      BY <1>2, <2>2
    <3> QED
      BY <1>2, <1>3, <1>5, <1>6, <2>1, <2>2, <3>1
  <2>3. CASE ~(i <= m - 1)
    <3>1. ~(i + 1 <= m) /\ i - (m - 1) = (i + 1) - m
      BY <1>2, <2>3
    <3> QED
      BY <1>3, <1>5, <1>6, <2>1, <2>3, <3>1
  <2> QED
    BY <2>2, <2>3
<1>8. T \o O = R
  BY <1>5, <1>6, <1>7, SeqEqual
<1> QED
  BY <1>2, <1>4, <1>5, <1>8 DEF T, R, S, P, O, Stream

LEMMA FramedNat ==
  ASSUME NEW S \in Seq(Units), NEW need, Framed(S, need)
  PROVE  need \in Nat
<1>1. Len(S) \in Nat
  BY LenProperties
<1>2. 0 \in 0 .. Len(S)
  BY <1>1
<1> QED
  BY <1>2 DEF Framed

(* While the reader runs the channel only depends on what it goes on with. *)
LEMMA ChainBehindReader ==
  ASSUME TypeOK, Chain, UNCHANGED <<wanted, helper, channel, worker, delivered, lost>>,
         reader.step # "gone", reader'.step # "gone",
         \A from \in Nat : InReader(from) => InReader(from)'
  PROVE  Chain'
<1> SUFFICES ASSUME Listening' PROVE \E upto \in [0 .. Len(channel') -> Nat] : Linked(upto)'
  BY DEF Chain
<1>1. Listening /\ Len(channel) \in Nat
  BY LenProperties DEF Listening, TypeOK
<1>2. PICK upto \in [0 .. Len(channel) -> Nat] : Linked(upto)
  BY <1>1 DEF Chain
<1>3. Frontier' = Frontier
  BY DEF Frontier
<1>4. InChannel(upto)'
  BY <1>2, <1>3 DEF Linked, InChannel, Passes
<1>5. upto[Len(channel)] \in Nat
  <2>1. Len(channel) \in 0 .. Len(channel)
    BY <1>1
  <2> QED
    BY <1>2, <2>1
<1>6. PICK from \in Nat : from = upto[Len(channel)]
  BY <1>5
<1>7. InReader(from)
  BY <1>2, <1>6 DEF Linked
<1>8. InReader(from)'
  BY <1>7
<1>9. InReader(upto[Len(channel)])'
  <2>1. from = upto[Len(channel)]'
    BY <1>6
  <2> QED
    BY <1>8, <2>1 DEF InReader
<1>10. Linked(upto)'
  BY <1>2, <1>4, <1>9 DEF Linked
<1> QED
  BY <1>10

LEMMA ReaderTakes ==
  ASSUME TypeOK, Reading, ReadUnit, NEW from \in Nat, InReader(from)
  PROVE  InReader(from)'
<1> DEFINE unit == Head(pipe)
           x == unit.value
           got == Append(reader.got, x)
           S == Stream
           T == Tail(S)
<1>1. /\ UNCHANGED <<wanted, helper, channel, worker, outcome, delivered, lost>>
      /\ reader.step = "reading" /\ pipe # <<>> /\ pipe' = Tail(pipe)
      /\ x \in Nat /\ unit.kind \in UnitKinds /\ reader.got \in Seq(Nat)
      /\ \/ unit.kind = "ready" /\ Sends(Unit("Ready", <<>>))
         \/ unit.kind = "end" /\ Sends(Unit("End", <<>>))
         \/ unit.kind = "error" /\ Sends(Unit("Failed", "helper"))
         \/ unit.kind = "length" /\ Collects(x, reader.got)
         \/ unit.kind = "frame" /\ reader.need = 1 /\ Sends(Unit("Samples", got))
         \/ unit.kind = "frame" /\ reader.need # 1 /\ Collects(reader.need - 1, got)
  BY ReaderActs
<1>2. /\ S \in Seq(Units) /\ S # <<>> /\ Head(S) = unit /\ T \in Seq(Units)
      /\ Stream' = T
  <2>1. Stream' = Tail(pipe) \o helper.out
    BY <1>1 DEF Stream
  <2> QED
    BY <1>1, <2>1, StreamSeq, StreamHead
<1>3. Frontier' = Frontier /\ reader.message.kind = "none"
  BY <1>1 DEF Frontier, Reading
<1>4. PICK sent \in Nat, read \in Nat :
        /\ Passes(reader.message, from, sent, lost)
        /\ Exact(reader.got, sent, read, lost)
        /\ ExactStream(Stream, read, Frontier, lost)
        /\ Framed(Stream, reader.need)
        /\ reader.need = 0 => reader.got = <<>>
  BY <1>1, <1>3 DEF InReader
<1>5. sent = from
  BY <1>3, <1>4 DEF Passes
<1> HIDE DEF unit, x, got, S
<1>6. PICK rest \in Nat : Counts(unit, reader.need, rest) /\ Framed(T, rest)
  <2>1. Framed(S, reader.need) /\ reader.need \in Nat
    <3>1. Framed(S, reader.need)
      BY <1>4 DEF S
    <3> QED
      BY <1>2, <3>1, FramedNat
  <2> QED
    BY <1>2, <2>1, FramedTail
<1>7. /\ unit.kind # "frame" => ExactStream(T, read, Frontier, lost)
      /\ unit.kind = "frame" =>
           /\ x \in (read .. Frontier - 1) \ lost
           /\ (read .. x - 1) \ lost = {}
           /\ ExactStream(T, x + 1, Frontier, lost)
  <2>1. ExactStream(S, read, Frontier, lost)
    BY <1>4 DEF S
  <2> QED
    BY <1>2, <2>1, StreamTail DEF x
<1> HIDE DEF T
<1>8. \/ reader'.message.kind = "Failed"
      \/ \E sent2, read2 \in Nat :
           /\ Passes(reader'.message, from, sent2, lost)
           /\ Exact(reader'.got, sent2, read2, lost)
           /\ ExactStream(T, read2, Frontier, lost)
           /\ Framed(T, reader'.need)
           /\ reader'.need = 0 => reader'.got = <<>>
  <2>1. CASE unit.kind \in {"ready", "end"}
    <3>1. reader.need = 0 /\ rest = 0
      BY <1>6, <2>1 DEF Counts
    <3>2. /\ reader'.got = <<>> /\ reader'.need = 0
          /\ reader'.message.kind \in {"Ready", "End"}
      BY <1>1, <2>1 DEF Sends, Unit
    <3>3. Passes(reader'.message, from, from, lost)
      BY <3>2 DEF Passes
    <3>4. Exact(reader'.got, from, read, lost)
      BY <1>4, <1>5, <3>1, <3>2
    <3> QED
      BY <1>6, <1>7, <2>1, <3>1, <3>2, <3>3, <3>4
  <2>2. CASE unit.kind = "error"
    BY <1>1, <2>2 DEF Sends, Unit
  <2>3. CASE unit.kind = "length"
    <3>1. reader.need = 0 /\ rest = x /\ x # 0
      BY <1>6, <2>3 DEF Counts, x
    <3>2. reader'.got = reader.got /\ reader'.need = x /\ reader'.message = reader.message
      BY <1>1, <2>3 DEF Collects
    <3>3. Passes(reader'.message, from, from, lost) /\ Exact(reader'.got, from, read, lost)
      BY <1>3, <1>4, <1>5, <3>2 DEF Passes
    <3> QED
      BY <1>6, <1>7, <2>3, <3>1, <3>2, <3>3
  <2>4. CASE unit.kind = "frame"
    <3>1. reader.need = rest + 1
      BY <1>6, <2>4 DEF Counts
    <3>2. read <= x /\ x \notin lost /\ (read .. x - 1) \ lost = {} /\ x + 1 \in Nat
      BY <1>1, <1>7, <2>4
    <3>3. got \in Seq(Nat) /\ Exact(got, from, x + 1, lost)
      BY <1>1, <1>4, <1>5, <3>2, ExactAppend DEF got
    <3>4. CASE reader.need = 1
      <4>1. /\ reader'.got = <<>> /\ reader'.need = 0 /\ reader'.message.kind = "Samples"
            /\ reader'.message.value = got
        BY <1>1, <2>4, <3>4 DEF Sends, Unit
      <4>2. rest = 0
        BY <3>1, <3>4
      <4>3. Passes(reader'.message, from, x + 1, lost)
        BY <3>3, <4>1 DEF Passes
      <4>4. Exact(<<>>, x + 1, x + 1, lost)
        <5> DEFINE y == x + 1
        <5>1. y \in Nat /\ y <= y /\ (y .. y - 1) \ lost = {}
          BY <3>2
        <5> HIDE DEF y
        <5>2. Exact(<<>>, y, y, lost)
          BY <5>1, ExactEmpty
        <5> QED
          BY <5>2 DEF y
      <4> QED
        BY <1>6, <1>7, <2>4, <3>2, <4>1, <4>2, <4>3, <4>4
    <3>5. CASE reader.need # 1
      <4>1. /\ reader'.got = got /\ reader'.need = reader.need - 1
            /\ reader'.message = reader.message
        BY <1>1, <2>4, <3>5 DEF Collects
      <4>2. reader'.need = rest /\ rest # 0
        BY <3>1, <3>5, <4>1
      <4>3. Passes(reader'.message, from, from, lost)
        BY <1>3, <4>1 DEF Passes
      <4> QED
        BY <1>6, <1>7, <2>4, <3>2, <3>3, <4>1, <4>2, <4>3
    <3> QED
      BY <3>4, <3>5
  <2> QED
    BY <1>1, <2>1, <2>2, <2>3, <2>4 DEF UnitKinds
<1>9. lost' = lost
  BY <1>1
<1> QED
  BY <1>2, <1>3, <1>8, <1>9 DEF InReader

LEMMA SamplesByReading ==
  ASSUME DecoderAssumption, SamplesInv, TypeOK', ReadUnit
  PROVE  SamplesInv'
<1>1. TypeOK /\ Sought /\ Ending /\ Reading /\ Killed /\ Chain /\ SamplesExact
  BY DEF SamplesInv
<1> DEFINE unit == Head(pipe)
<1>2. /\ UNCHANGED <<wanted, helper, channel, worker, outcome, delivered, lost>>
      /\ reader.step = "reading" /\ pipe # <<>> /\ pipe' = Tail(pipe)
  BY <1>1, ReaderActs
<1>3. /\ reader'.step \in {"reading", "sending"}
      /\ reader'.step = "sending" => reader'.need = 0
      /\ reader'.step = "reading" => reader'.message = reader.message
      /\ reader'.message.kind = "End" => unit.kind = "end" \/ reader'.message = reader.message
  BY <1>1, ReaderActs DEF Sends, Collects, Unit
<1>4. reader.message.kind = "none"
  BY <1>1, <1>2 DEF Reading
<1>5. Sought' /\ Killed' /\ SamplesExact'
  BY <1>1, <1>2 DEF Sought, Killed, SamplesExact, Given
<1>6. Reading'
  BY <1>3, <1>4 DEF Reading
<1>7. Chain'
  <2>1. \A from \in Nat : InReader(from) => InReader(from)'
    BY <1>1, ReaderTakes
  <2>2. reader.step # "gone" /\ reader'.step # "gone"
    BY <1>2, <1>3
  <2> QED
    BY <1>1, <1>2, <2>1, <2>2, ChainBehindReader
<1>8. Ending'
  <2> DEFINE S == Stream
             T == Tail(S)
  <2>1. /\ S \in Seq(Units) /\ S # <<>> /\ Head(S) = unit /\ Stream' = T
    <3>1. Stream' = Tail(pipe) \o helper.out
      BY <1>2 DEF Stream
    <3> QED
      BY <1>1, <1>2, <3>1, StreamSeq, StreamHead
  <2>2. \A i \in 1 .. Len(S) : S[i].kind = "end" => i = Len(S) /\ Complete
    BY <1>1, <2>1, LenProperties DEF Ending
  <2> HIDE DEF S, unit
  <2>3. /\ Len(S) \in Nat /\ Len(S) # 0 /\ T \in Seq(Units) /\ Len(T) = Len(S) - 1
        /\ DOMAIN T = 1 .. Len(S) - 1
        /\ \A i \in 1 .. Len(S) - 1 : T[i] = S[i + 1]
        /\ unit = S[1]
    BY <2>1, HeadTailProperties, EmptySeq, LenProperties
  <2> HIDE DEF T
  <2>4. Complete' <=> Complete
    BY <1>2 DEF Complete
  <2>5. ASSUME NEW i \in DOMAIN T, T[i].kind = "end" PROVE i = Len(T) /\ Complete'
    <3>1. i \in 1 .. Len(S) - 1 /\ i + 1 \in 1 .. Len(S)
      BY <2>3
    <3>2. i + 1 = Len(S) /\ Complete
      BY <2>2, <2>3, <2>5, <3>1
    <3> QED
      BY <2>3, <2>4, <3>1, <3>2
  <2>6. ASSUME reader'.message.kind = "End" PROVE T = <<>> /\ Complete'
    <3>1. unit.kind = "end"
      BY <1>3, <1>4, <2>6
    <3>2. 1 \in 1 .. Len(S)
      BY <2>3
    <3>3. 1 = Len(S) /\ Complete
      BY <2>2, <2>3, <3>1, <3>2
    <3>4. Len(T) = Len(S) - 1 /\ T \in Seq(Units)
      BY <2>3
    <3>5. Len(T) = 0
      BY <3>3, <3>4
    <3> QED
      BY <2>4, <3>3, <3>4, <3>5, EmptySeq
  <2> QED
    BY <2>1, <2>5, <2>6 DEF Ending
<1> QED
  BY <1>1, <1>5, <1>6, <1>7, <1>8 DEF SamplesInv

LEMMA SamplesByEnding ==
  ASSUME DecoderAssumption, SamplesInv, TypeOK', ReadEnd \/ TimeOut
  PROVE  SamplesInv'
<1>1. TypeOK /\ Sought /\ Ending /\ Reading /\ Killed /\ Chain /\ SamplesExact
  BY DEF SamplesInv
<1>2. /\ UNCHANGED <<wanted, helper, pipe, channel, worker, outcome, delivered, lost>>
      /\ reader.step = "reading"
  BY DEF ReadEnd, TimeOut, ReaderKept, endVars
<1>3. reader'.step = "sending" /\ reader'.need = 0 /\ reader'.message.kind = "Failed"
  BY LettersSent, ReaderSends DEF ReadEnd, TimeOut
<1>4. Sought' /\ Killed' /\ SamplesExact' /\ Reading'
  BY <1>1, <1>2, <1>3 DEF Sought, Killed, SamplesExact, Given, Reading
<1>5. Ending'
  <2>1. Stream' = Stream /\ (Complete' <=> Complete)
    BY <1>2 DEF Stream, Complete
  <2> QED
    BY <1>1, <1>3, <2>1 DEF Ending
<1>6. Chain'
  <2>1. \A from \in Nat : InReader(from)'
    BY <1>3 DEF InReader
  <2> QED
    BY <1>1, <1>2, <1>3, <2>1, ChainBehindReader
<1> QED
  BY <1>4, <1>5, <1>6 DEF SamplesInv

-----------------------------------------------------------------------------
(* The messages. *)

(* What the reader sends goes on where the channel ends. *)
LEMMA ChainBehindSend ==
  ASSUME DecoderAssumption, TypeOK, Reading, Ending, Chain, Listening, Send
  PROVE  Chain'
<1>1. /\ UNCHANGED <<wanted, helper, pipe, worker, outcome, delivered, lost>>
      /\ reader.step = "sending" /\ channel' = Append(channel, reader.message)
      /\ reader' = IF reader.message.kind \in {"End", "Failed"}
                   THEN [Idle EXCEPT !.step = "gone"] ELSE Idle
  BY DEF Send, endVars
<1>2. PICK upto \in [0 .. Len(channel) -> Nat] : Linked(upto)
  BY DEF Chain
<1>n. PICK n : n = Len(channel)
  OBVIOUS
<1> DEFINE m == reader.message
           C == Append(channel, m)
<1>3. m \in Letters /\ channel \in Seq(Letters) /\ n \in Nat
  BY <1>n, LenProperties DEF TypeOK, Readers
<1>4. C \in Seq(Letters) /\ Len(C) = n + 1 /\ C[n + 1] = m /\ \A i \in 1 .. n : C[i] = channel[i]
  BY <1>3, <1>n
<1>5. /\ Exact(delivered, wanted, upto[0], lost)
      /\ \A i \in 0 .. n : upto[i] \in wanted .. Frontier /\ upto[i] \in Nat
      /\ \A i \in 1 .. n :
           /\ Passes(channel[i], upto[i - 1], upto[i], lost)
           /\ channel[i].kind # "End"
      /\ InReader(upto[n])
  BY <1>1, <1>2, <1>n DEF Linked, InChannel
<1>6. /\ Frontier' = Frontier /\ Stream' = Stream /\ Frontier \in Nat /\ wanted \in Nat
      /\ lost' = lost
  BY <1>1, FrontierFacts DEF Frontier, Stream
<1> DEFINE last == upto[n]
<1>7. last \in Nat /\ wanted <= last /\ last <= Frontier
  <2>1. n \in 0 .. n
    BY <1>3
  <2> QED
    BY <1>5, <1>6, <2>1
<1>8. /\ m.kind \in {"End", "Failed"} => reader'.step = "gone"
      /\ m.kind \notin {"End", "Failed"} =>
           /\ reader'.step = "reading" /\ reader'.need = 0 /\ reader'.got = <<>>
           /\ reader'.message.kind = "none"
  BY <1>1, ReaderIdles
<1>9. \E to \in Nat :
        /\ last <= to /\ to <= Frontier /\ Passes(m, last, to, lost)
        /\ m.kind = "End" => (to .. TrackFrames - 1) \ lost = {}
        /\ m.kind \notin {"End", "Failed"} =>
             \E read \in Nat :
               /\ Exact(<<>>, to, read, lost)
               /\ ExactStream(Stream, read, Frontier, lost)
               /\ Framed(Stream, 0)
  <2>1. CASE m.kind = "Failed"
    <3>1. Passes(m, last, last, lost)
      BY <2>1 DEF Passes
    <3>2. last <= last
      BY <1>7
    <3> QED
      BY <1>7, <2>1, <3>1, <3>2
  <2>2. CASE m.kind # "Failed"
    <3>1. PICK sent \in Nat, read \in Nat :
            /\ Passes(m, last, sent, lost)
            /\ Exact(reader.got, sent, read, lost)
            /\ ExactStream(Stream, read, Frontier, lost)
            /\ Framed(Stream, reader.need)
            /\ reader.need = 0 => reader.got = <<>>
      BY <1>1, <1>5, <2>2 DEF InReader
    <3>2. reader.need = 0 /\ reader.got = <<>>
      BY <1>1, <3>1 DEF Reading
    <3>3. Exact(<<>>, sent, read, lost) /\ Framed(Stream, 0)
      BY <3>1, <3>2
    <3>4. sent <= read /\ read <= Frontier
      BY <3>1 DEF Exact, ExactStream
    <3> HIDE DEF m, last
    <3>5. last <= sent
      BY <1>7, <3>1 DEF Passes, Exact
    <3>6. sent <= Frontier
      BY <1>6, <3>4
    <3>7. ASSUME m.kind = "End" PROVE (sent .. TrackFrames - 1) \ lost = {}
      <4>1. Stream = <<>> /\ Complete
        BY <3>7 DEF Ending, m
      <4>2. Frontier = TrackFrames
        <5>1. helper.next = TrackFrames /\ wanted \in 0 .. TrackFrames /\ TrackFrames \in Nat
          BY <4>1 DEF Complete, TypeOK, DecoderAssumption
        <5> QED
          BY <5>1 DEF Frontier
      <4>3. \A x : x \notin (sent .. read - 1) \ lost
        BY <3>3 DEF Exact
      <4>4. \A x : x \notin (read .. TrackFrames - 1) \ lost
        BY <3>1, <4>1, <4>2 DEF ExactStream
      <4>5. \A x \in sent .. TrackFrames - 1 :
              x \in sent .. read - 1 \/ x \in read .. TrackFrames - 1
        BY <1>6, <4>2
      <4> QED
        BY <4>3, <4>4, <4>5
    <3> QED
      BY <3>1, <3>3, <3>5, <3>6, <3>7
  <2> QED
    BY <2>1, <2>2
<1>10. PICK to \in Nat :
         /\ last <= to /\ to <= Frontier /\ Passes(m, last, to, lost)
         /\ m.kind = "End" => (to .. TrackFrames - 1) \ lost = {}
         /\ m.kind \notin {"End", "Failed"} =>
              \E read \in Nat :
                /\ Exact(<<>>, to, read, lost)
                /\ ExactStream(Stream, read, Frontier, lost)
                /\ Framed(Stream, 0)
  BY <1>9
<1>11. channel' = C
  BY <1>1
<1> HIDE DEF C, m, last
<1>12. /\ \A i \in 0 .. n : i \in 0 .. n + 1 /\ i <= n
       /\ n + 1 \in 0 .. n + 1 /\ ~(n + 1 <= n) /\ 0 \in 0 .. n /\ n \in 0 .. n
       /\ \A i \in 1 .. n : i \in 0 .. n /\ i - 1 \in 0 .. n /\ i # n + 1
       /\ (n + 1) - 1 = n
       /\ \A i \in 0 .. n + 1 : i \in 0 .. n \/ i = n + 1
       /\ \A i \in 1 .. n + 1 : i \in 1 .. n \/ i = n + 1
  BY <1>3
<1>13. PICK new \in [0 .. n + 1 -> Nat] :
         /\ \A i \in 0 .. n : new[i] = upto[i]
         /\ new[n + 1] = to
  <2> DEFINE f == [i \in 0 .. n + 1 |-> IF i <= n THEN upto[i] ELSE to]
  <2>1. \A i \in 0 .. n + 1 : (IF i <= n THEN upto[i] ELSE to) \in Nat
    BY <1>5, <1>12
  <2>2. f \in [0 .. n + 1 -> Nat]
    BY <2>1
  <2>3. (\A i \in 0 .. n : f[i] = upto[i]) /\ f[n + 1] = to
    BY <1>12
  <2> HIDE DEF f
  <2> QED
    BY <2>2, <2>3
<1>15. Exact(delivered, wanted, new[0], lost)
  BY <1>5, <1>12, <1>13
<1>16. ASSUME NEW i \in 0 .. n + 1 PROVE new[i] \in wanted .. Frontier
  <2>1. CASE i \in 0 .. n
    BY <1>5, <1>13, <2>1
  <2>2. CASE i = n + 1
    <3>1. to \in wanted .. Frontier
      BY <1>6, <1>7, <1>10
    <3> QED
      BY <1>13, <2>2, <3>1
  <2> QED
    BY <1>12, <2>1, <2>2
<1>17. ASSUME NEW i \in 1 .. n + 1
       PROVE  /\ Passes(C[i], new[i - 1], new[i], lost)
              /\ C[i].kind = "End" =>
                   /\ i = n + 1 /\ reader'.step = "gone"
                   /\ (new[i] .. TrackFrames - 1) \ lost = {}
  <2>1. CASE i \in 1 .. n
    <3>1. C[i] = channel[i] /\ new[i] = upto[i] /\ new[i - 1] = upto[i - 1]
      BY <1>4, <1>12, <1>13, <2>1
    <3>2. Passes(channel[i], upto[i - 1], upto[i], lost) /\ channel[i].kind # "End"
      BY <1>5, <2>1
    <3> QED
      BY <3>1, <3>2
  <2>2. CASE i = n + 1
    <3>1. C[i] = m /\ new[i] = to /\ new[i - 1] = last
      BY <1>4, <1>12, <1>13, <2>2 DEF last
    <3> QED
      BY <1>8, <1>10, <2>2, <3>1
  <2> QED
    BY <1>12, <2>1, <2>2
<1>18. Len(channel') = n + 1
  BY <1>4, <1>11
<1>19. InReader(to)'
  <2>1. CASE m.kind \in {"End", "Failed"}
    BY <1>8, <2>1 DEF InReader
  <2>2. CASE m.kind \notin {"End", "Failed"}
    <3>1. PICK read \in Nat :
            /\ Exact(<<>>, to, read, lost)
            /\ ExactStream(Stream, read, Frontier, lost)
            /\ Framed(Stream, 0)
      BY <1>10, <2>2
    <3>2. /\ reader'.need = 0 /\ reader'.got = <<>> /\ reader'.message.kind = "none"
      BY <1>8, <2>2
    <3>3. Passes(reader'.message, to, to, lost)
      BY <3>2 DEF Passes
    <3>4. /\ Exact(reader'.got, to, read, lost')
          /\ ExactStream(Stream', read, Frontier', lost')
          /\ Framed(Stream', reader'.need) /\ Passes(reader'.message, to, to, lost')
      BY <1>6, <3>1, <3>2, <3>3
    <3> QED
      BY <3>2, <3>4 DEF InReader
  <2> QED
    BY <2>1, <2>2
<1>20. InChannel(new)'
  BY <1>1, <1>6, <1>11, <1>16, <1>17, <1>18 DEF InChannel
<1>21. Linked(new)'
  <2>1. new[Len(channel)]' = to
    BY <1>13, <1>18
  <2>2. InReader(new[Len(channel)])'
    BY <1>19, <2>1 DEF InReader
  <2> QED
    BY <1>1, <1>15, <1>20, <2>2 DEF Linked
<1> QED
  BY <1>18, <1>21 DEF Chain

LEMMA SamplesBySending ==
  ASSUME DecoderAssumption, SamplesInv, TypeOK', Send
  PROVE  SamplesInv'
<1>1. TypeOK /\ Sought /\ Ending /\ Reading /\ Killed /\ Chain /\ SamplesExact
  BY DEF SamplesInv
<1>2. /\ UNCHANGED <<wanted, helper, pipe, worker, outcome, delivered, lost>>
  BY DEF Send, endVars
<1>3. reader'.need = 0 /\ reader'.message.kind = "none"
  BY ReaderIdles DEF Send
<1>4. Sought' /\ Killed' /\ SamplesExact' /\ Reading'
  BY <1>1, <1>2, <1>3 DEF Sought, Killed, SamplesExact, Given, Reading
<1>5. Ending'
  <2>1. Stream' = Stream /\ (Complete' <=> Complete)
    BY <1>2 DEF Stream, Complete
  <2> QED
    BY <1>1, <1>3, <2>1 DEF Ending
<1>6. Chain'
  <2>1. CASE Listening
    BY <1>1, <2>1, ChainBehindSend
  <2>2. CASE ~Listening
    BY <1>2, <2>2 DEF Chain, Listening
  <2> QED
    BY <2>1, <2>2
<1> QED
  BY <1>4, <1>5, <1>6 DEF SamplesInv

(* The frames up to some position, and at the end all of them, are the ones asked for. *)
AsAsked(frames, from, to, total, gaps) ==
  LET given == {frames[i] : i \in DOMAIN frames}
  IN  /\ \A i \in 1 .. Len(frames) - 1 : frames[i] < frames[i + 1]
      /\ given \subseteq (from .. total - 1) \ gaps
      /\ \A frame \in from .. total - 1 :
           frames # <<>> /\ frame <= Last(frames) => frame \in given \cup gaps
      /\ (to .. total - 1) \ gaps = {} =>
           \A frame \in from .. total - 1 : frame \in given \cup gaps

LEMMA ExactIsGiven ==
  ASSUME NEW F \in Seq(Nat), NEW a \in Nat, NEW to \in Nat, NEW total \in Nat, to <= total,
         NEW L, Exact(F, a, to, L)
  PROVE  AsAsked(F, a, to, total, L)
<1> DEFINE n == Len(F)
<1>1. n \in Nat /\ DOMAIN F = 1 .. n
  BY LenProperties
<1>2. /\ \A i \in 1 .. n : F[i] \in (a .. to - 1) \ L
      /\ \A i, j \in 1 .. n : i < j => F[i] < F[j]
      /\ \A x \in (a .. to - 1) \ L : \E i \in 1 .. n : F[i] = x
  BY <1>1 DEF Exact
<1>3. \A i \in 1 .. n - 1 : F[i] < F[i + 1]
  <2>1. \A i \in 1 .. n - 1 : i \in 1 .. n /\ i + 1 \in 1 .. n /\ i < i + 1
    BY <1>1
  <2> QED
    BY <1>2, <2>1
<1>4. {F[i] : i \in DOMAIN F} \subseteq (a .. total - 1) \ L
  <2>1. \A x \in a .. to - 1 : x \in a .. total - 1
    OBVIOUS
  <2> QED
    BY <1>1, <1>2, <2>1
<1>5. ASSUME NEW frame \in a .. total - 1, frame < to
      PROVE  frame \in {F[i] : i \in DOMAIN F} \cup L
  <2> SUFFICES ASSUME frame \notin L PROVE \E i \in 1 .. n : F[i] = frame
    BY <1>1
  <2>1. frame \in (a .. to - 1) \ L
    BY <1>5
  <2> QED
    BY <1>2, <2>1
<1>6. ASSUME NEW frame \in a .. total - 1, F # <<>>, frame <= Last(F)
      PROVE  frame < to
  <2>1. n \in 1 .. n
    BY <1>1, <1>6, EmptySeq
  <2>2. Last(F) = F[n]
    BY DEF Last
  <2>3. Last(F) \in a .. to - 1
    BY <1>2, <2>1, <2>2
  <2> QED
    BY <1>6, <2>3
<1>7. ASSUME NEW frame \in a .. total - 1, (to .. total - 1) \ L = {}, ~(frame < to)
      PROVE  frame \in L
  <2>1. frame \in to .. total - 1
    BY <1>7
  <2> QED
    BY <1>7, <2>1
<1> QED
  BY <1>3, <1>4, <1>5, <1>6, <1>7 DEF AsAsked

(* The worker takes the first message. *)
LEMMA SamplesByTaking ==
  ASSUME DecoderAssumption, SamplesInv, TypeOK', Poll, channel # <<>>
  PROVE  Chain' /\ SamplesExact'
<1>1. TypeOK /\ Chain
  BY DEF SamplesInv
<1>n. PICK n : n = Len(channel)
  OBVIOUS
<1> DEFINE m == Head(channel)
           C == Tail(channel)
<1>2. /\ UNCHANGED <<wanted, helper, pipe, reader, worker, lost>>
      /\ worker = "polling" /\ outcome = "none" /\ channel' = C
      /\ delivered' = IF m.kind = "Samples" THEN delivered \o m.value ELSE delivered
      /\ outcome' = IF m.kind \in {"End", "Failed"} THEN m.kind ELSE outcome
  <2>1. reader.step = "gone" /\ channel = <<>> => FALSE
    OBVIOUS
  <2> QED
    BY <2>1 DEF Poll, WorkerKept
<1>3. PICK upto \in [0 .. Len(channel) -> Nat] : Linked(upto)
  BY <1>1, <1>2 DEF Chain, Listening
<1>4. /\ channel \in Seq(Letters) /\ n \in Nat /\ n # 0 /\ m \in Letters /\ m = channel[1]
      /\ C \in Seq(Letters) /\ Len(C) = n - 1
      /\ \A i \in 1 .. n - 1 : C[i] = channel[i + 1]
      /\ delivered \in Seq(Nat)
  <2>1. channel \in Seq(Letters) /\ delivered \in Seq(Nat)
    BY <1>1 DEF TypeOK
  <2>2. m = channel[1]
    OBVIOUS
  <2> QED
    BY <1>n, <2>1, <2>2, HeadTailProperties, EmptySeq, LenProperties
<1> HIDE DEF m, C
<1>5. /\ Exact(delivered, wanted, upto[0], lost)
      /\ \A i \in 0 .. n : upto[i] \in wanted .. Frontier /\ upto[i] \in Nat
      /\ \A i \in 1 .. n :
           /\ Passes(channel[i], upto[i - 1], upto[i], lost)
           /\ channel[i].kind = "End" =>
                /\ i = n /\ reader.step = "gone"
                /\ (upto[i] .. TrackFrames - 1) \ lost = {}
      /\ InReader(upto[n])
  BY <1>3, <1>n DEF Linked, InChannel
<1>6. /\ Frontier' = Frontier /\ Frontier \in Nat /\ Frontier <= TrackFrames
      /\ TrackFrames \in Nat /\ lost' = lost /\ Stream' = Stream
  BY <1>1, <1>2, FrontierFacts DEF Frontier, Stream
<1>7. /\ \A i \in 0 .. n - 1 : i + 1 \in 0 .. n
      /\ \A i \in 1 .. n - 1 : /\ i \in 0 .. n - 1 /\ i - 1 \in 0 .. n - 1 /\ i + 1 \in 1 .. n
                               /\ (i - 1) + 1 = i /\ (i + 1) - 1 = i
      /\ 0 \in 0 .. n - 1 /\ n - 1 \in 0 .. n - 1 /\ (n - 1) + 1 = n
      /\ 1 \in 1 .. n /\ 1 \in 0 .. n /\ 1 - 1 = 0 /\ 0 + 1 = 1
      /\ \A i : i + 1 = n /\ i \in 1 .. n - 1 => i = n - 1
  BY <1>4
<1>8. PICK new \in [0 .. n - 1 -> Nat] : \A i \in 0 .. n - 1 : new[i] = upto[i + 1]
  <2> DEFINE f == [i \in 0 .. n - 1 |-> upto[i + 1]]
  <2>1. f \in [0 .. n - 1 -> Nat] /\ \A i \in 0 .. n - 1 : f[i] = upto[i + 1]
    BY <1>5, <1>7
  <2> HIDE DEF f
  <2> QED
    BY <2>1
<1>10. new[0] = upto[1] /\ new[n - 1] = upto[n]
  BY <1>7, <1>8
<1>11. Exact(delivered', wanted, upto[1], lost)
  <2>1. Passes(m, upto[0], upto[1], lost)
    BY <1>4, <1>5, <1>7
  <2>2. CASE m.kind = "Samples"
    <3>1. Exact(m.value, upto[0], upto[1], lost) /\ delivered' = delivered \o m.value
      BY <1>2, <2>1, <2>2 DEF Passes
    <3>2. m.value \in Seq(Nat)
      BY <1>4, <2>2 DEF Letters
    <3> QED
      BY <1>4, <1>5, <3>1, <3>2, ExactJoin
  <2>3. CASE m.kind # "Samples"
    BY <1>2, <1>5, <2>1, <2>3 DEF Passes
  <2> QED
    BY <2>2, <2>3
<1>12. Len(channel') = n - 1
  BY <1>2, <1>4
<1>13. ASSUME NEW i \in 1 .. n - 1
       PROVE  /\ Passes(C[i], new[i - 1], new[i], lost)
              /\ C[i].kind = "End" =>
                   /\ i = n - 1 /\ reader.step = "gone"
                   /\ (new[i] .. TrackFrames - 1) \ lost = {}
  <2>1. /\ C[i] = channel[i + 1] /\ new[i] = upto[i + 1] /\ new[i - 1] = upto[i]
        /\ i + 1 \in 1 .. n /\ (i + 1) - 1 = i
    <3>1. i \in 0 .. n - 1 /\ i - 1 \in 0 .. n - 1 /\ (i - 1) + 1 = i
      BY <1>7
    <3>2. new[i] = upto[i + 1] /\ new[i - 1] = upto[(i - 1) + 1]
      BY <1>8, <3>1
    <3> QED
      BY <1>4, <1>7, <3>1, <3>2
  <2>2. /\ Passes(channel[i + 1], upto[(i + 1) - 1], upto[i + 1], lost)
        /\ channel[i + 1].kind = "End" =>
             /\ i + 1 = n /\ reader.step = "gone"
             /\ (upto[i + 1] .. TrackFrames - 1) \ lost = {}
    BY <1>5, <2>1
  <2>3. i + 1 = n => i = n - 1
    BY <1>7
  <2> QED
    BY <2>1, <2>2, <2>3
<1>14. \A i \in 0 .. n - 1 : new[i] \in wanted .. Frontier
  BY <1>5, <1>7, <1>8
<1>15. InChannel(new)'
  BY <1>2, <1>6, <1>12, <1>13, <1>14 DEF InChannel
<1>16. InReader(new[Len(channel)])'
  <2>1. new[Len(channel)]' = upto[n]
    BY <1>10, <1>12
  <2>2. InReader(upto[n])
    BY <1>5
  <2>3. PICK from : from = upto[n]
    OBVIOUS
  <2>4. InReader(from)'
    BY <1>2, <1>6, <2>2, <2>3 DEF InReader
  <2> QED
    BY <2>1, <2>3, <2>4 DEF InReader
<1>17. Linked(new)'
  BY <1>2, <1>10, <1>11, <1>15, <1>16 DEF Linked
<1>18. Chain'
  BY <1>12, <1>17 DEF Chain
<1>19. SamplesExact'
  <2>1. upto[1] \in Nat /\ upto[1] <= TrackFrames
    <3>1. upto[1] \in Nat /\ upto[1] \in wanted .. Frontier
      BY <1>5, <1>7
    <3> QED
      BY <1>6, <3>1
  <2>2. outcome' = "End" => (upto[1] .. TrackFrames - 1) \ lost = {}
    BY <1>2, <1>4, <1>5, <1>7
  <2>3. delivered' \in Seq(Nat) /\ wanted \in Nat
    BY <1>1, FrontierFacts DEF TypeOK
  <2>4. PICK F : F = delivered'
    OBVIOUS
  <2>5. F \in Seq(Nat) /\ Exact(F, wanted, upto[1], lost)
    BY <1>11, <2>3, <2>4
  <2>6. PICK to \in Nat : to = upto[1] /\ to <= TrackFrames
    BY <2>1
  <2>7. AsAsked(F, wanted, to, TrackFrames, lost)
    BY <1>6, <2>3, <2>5, <2>6, ExactIsGiven
  <2>8. Given' = {F[i] : i \in DOMAIN F} /\ wanted' = wanted /\ lost' = lost
    BY <1>2, <2>4 DEF Given
  <2> QED
    BY <2>2, <2>4, <2>6, <2>7, <2>8 DEF SamplesExact, AsAsked
<1> QED
  BY <1>18, <1>19

LEMMA SamplesByPolling ==
  ASSUME DecoderAssumption, SamplesInv, TypeOK', Poll
  PROVE  SamplesInv'
<1>1. TypeOK /\ Sought /\ Ending /\ Reading /\ Killed /\ Chain /\ SamplesExact
  BY DEF SamplesInv
<1>2. UNCHANGED <<wanted, helper, pipe, reader, worker, lost>> /\ worker = "polling"
  BY DEF Poll, WorkerKept
<1>3. Sought' /\ Ending' /\ Reading' /\ Killed'
  BY <1>1, <1>2 DEF Sought, Ending, Reading, Killed, Stream, Complete
<1>4. CASE channel # <<>>
  BY <1>3, <1>4, SamplesByTaking DEF SamplesInv
<1>5. CASE channel = <<>>
  <2>1. UNCHANGED <<channel, delivered>> /\ outcome' = "Failed"
    BY <1>5 DEF Poll
  <2>2. Stream' = Stream /\ helper' = helper /\ lost' = lost /\ (Complete => Complete')
    BY <1>2 DEF Stream, Complete
  <2>3. PICK upto \in [0 .. Len(channel) -> Nat] : Linked(upto)
    BY <1>1, <1>2 DEF Chain, Listening
  <2>4. Linked(upto)'
    BY <1>2, <2>1, <2>3 DEF Linked, InChannel, InReader, Stream, Frontier
  <2>5. Chain'
    BY <2>1, <2>3, <2>4 DEF Chain
  <2>6. SamplesExact'
    <3>1. /\ Given' = Given /\ delivered' = delivered /\ wanted' = wanted /\ lost' = lost
          /\ outcome' # "End"
      BY <1>2, <2>1 DEF Given
    <3> QED
      BY <1>1, <3>1 DEF SamplesExact
  <2> QED
    BY <1>3, <2>5, <2>6 DEF SamplesInv
<1> QED
  BY <1>4, <1>5

(* Shutting down takes nothing back, and lets go of what was not taken. *)
LEMMA SamplesByShutdown ==
  ASSUME DecoderAssumption, SamplesInv, TypeOK', Shutdown \/ ShutdownStep
  PROVE  SamplesInv'
<1>1. TypeOK /\ Sought /\ Ending /\ Reading /\ Killed /\ Chain /\ SamplesExact
  BY DEF SamplesInv
<1>2. UNCHANGED <<wanted, pipe, reader, outcome, delivered, lost>>
  BY DEF Shutdown, ShutdownStep, Kill, DropMessages, Join, WorkerKept
<1>3. /\ helper'.next = helper.next /\ helper'.target = helper.target
      /\ helper'.out = helper.out
      /\ IF Kill THEN helper'.state = "gone" ELSE helper'.state = helper.state
  <2>1. CASE Kill
    <3>1. helper \in Helpers /\ helper' = [helper EXCEPT !.state = "gone"]
      BY <1>1, <2>1, HelperTypes DEF Kill
    <3> QED
      BY <2>1, <3>1, HelperState
  <2>2. CASE ~Kill
    BY <2>2 DEF Shutdown, ShutdownStep, DropMessages, Join, WorkerKept
  <2> QED
    BY <2>1, <2>2
<1>4. Stream' = Stream /\ (Complete => Complete')
  BY <1>2, <1>3 DEF Stream, Complete, Kill
<1>5. Reading'
  BY <1>1, <1>2 DEF Reading
<1>6. Killed'
  BY <1>1, <1>3 DEF Killed, Shutdown, ShutdownStep, Kill, DropMessages, Join
<1>7. (Listening' => Listening) /\ (Listening' => channel' = channel)
  BY DEF Listening, Shutdown, ShutdownStep, Kill, DropMessages, Join
<1>8. Sought' /\ Ending' /\ SamplesExact'
  BY <1>1, <1>2, <1>3, <1>4 DEF Sought, Ending, SamplesExact, Given
<1>9. Chain'
  <2>1. CASE Listening'
    BY <1>2, <1>3, <1>4, <1>7, <2>1, StreamKept
  <2>2. CASE ~Listening'
    BY <2>2 DEF Chain
  <2> QED
    BY <2>1, <2>2
<1> QED
  BY <1>5, <1>6, <1>8, <1>9 DEF SamplesInv

LEMMA SamplesByTime ==
  ASSUME DecoderAssumption, SamplesInv, TypeOK', Tick \/ UNCHANGED vars
  PROVE  SamplesInv'
<1>1. TypeOK /\ Reading /\ Killed
  BY DEF SamplesInv
<1>2. UNCHANGED <<wanted, pipe, reader, channel, worker, outcome, delivered, lost>>
  BY DEF Tick, vars, endVars
<1>3. /\ helper'.next = helper.next /\ helper'.target = helper.target
      /\ helper'.out = helper.out /\ helper'.state = helper.state
  <2>1. CASE helper' = helper
    BY <2>1
  <2>2. CASE helper' # helper
    <3>1. helper \in Helpers /\ helper.idle + 1 \in Nat
      BY <1>1, HelperTypes
    <3>2. helper' = [helper EXCEPT !.idle = helper.idle + 1]
      BY <2>2 DEF Tick, vars
    <3> QED
      BY <3>1, <3>2, HelperIdles
  <2> QED
    BY <2>1, <2>2
<1>4. Stream' = Stream /\ (Complete => Complete')
  BY <1>2, <1>3 DEF Stream, Complete
<1>5. Sought' /\ Chain' /\ Ending' /\ SamplesExact'
  BY <1>2, <1>3, <1>4, StreamKept DEF Listening
<1>6. Reading' /\ Killed'
  BY <1>1, <1>2, <1>3 DEF Reading, Killed
<1> QED
  BY <1>5, <1>6 DEF SamplesInv

LEMMA SamplesInit == ASSUME DecoderAssumption, Init PROVE SamplesInv
<1>1. TypeOK
  BY TypeInit
<1>2. /\ wanted \in 0 .. TrackFrames /\ pipe = <<>> /\ channel = <<>> /\ reader = Idle
      /\ worker = "polling" /\ outcome = "none" /\ delivered = <<>> /\ lost = {}
      /\ TrackFrames \in Nat /\ wanted \in Nat
  BY DEF Init, DecoderAssumption
<1>3. PICK start \in 0 .. wanted : helper = NewHelper(wanted, start)
  BY DEF Init
<1>4. /\ helper.state = "decoding" /\ helper.next = start /\ helper.out = <<>>
      /\ helper.target = IF wanted = 0 THEN NoTarget ELSE wanted
      /\ start \in Nat /\ start <= wanted
  BY <1>2, <1>3 DEF NewHelper
<1>5. Frontier = wanted
  BY <1>2, <1>4 DEF Frontier
<1>6. Stream = <<>>
  BY <1>2, <1>4 DEF Stream
<1>7. reader.step = "reading" /\ reader.need = 0 /\ reader.got = <<>>
      /\ reader.message.kind = "none"
  BY <1>2, ReaderIdles
<1>8. Sought
  BY <1>2, <1>4 DEF Sought, NoTarget
<1>9. Ending /\ Reading /\ Killed
  BY <1>2, <1>6, <1>7 DEF Ending, Reading, Killed
<1>10. SamplesExact
  <2>1. Len(delivered) = 0 /\ DOMAIN delivered = {}
    BY <1>2
  <2>2. Given = {}
    BY <2>1 DEF Given
  <2>3. \A i \in 1 .. Len(delivered) - 1 : FALSE
    BY <2>1
  <2> QED
    BY <1>2, <2>2, <2>3 DEF SamplesExact
<1>11. Chain
  <2> DEFINE upto == [i \in 0 .. 0 |-> wanted]
  <2>1. Len(channel) = 0 /\ upto \in [0 .. 0 -> Nat] /\ upto[0] = wanted
    BY <1>2
  <2>2. Exact(<<>>, wanted, wanted, lost)
    <3>1. wanted <= wanted /\ (wanted .. wanted - 1) \ lost = {}
      BY <1>2
    <3> QED
      BY <1>2, <3>1, ExactEmpty
  <2>3. Piece(<<>>, wanted, wanted, lost)
    BY <1>2, PieceEmpty
  <2>4. InReader(wanted)
    <3>1. Passes(reader.message, wanted, wanted, lost)
      BY <1>7 DEF Passes
    <3>2. ExactStream(Stream, wanted, Frontier, lost) /\ Framed(Stream, reader.need)
      BY <1>5, <1>6, <1>7, <2>3 DEF Piece
    <3>3. Exact(reader.got, wanted, wanted, lost)
      BY <1>7, <2>2
    <3> QED
      BY <1>2, <1>7, <3>1, <3>2, <3>3 DEF InReader
  <2> HIDE DEF upto
  <2>5. Exact(delivered, wanted, upto[0], lost)
    BY <1>2, <2>1, <2>2
  <2>6. InChannel(upto)
    <3>1. \A i \in 0 .. Len(channel) : i = 0
      BY <2>1
    <3>2. \A i \in 1 .. Len(channel) : FALSE
      BY <2>1
    <3>3. wanted \in wanted .. Frontier
      BY <1>2, <1>5
    <3> QED
      BY <2>1, <3>1, <3>2, <3>3 DEF InChannel
  <2>7. Linked(upto)
    <3>1. upto[Len(channel)] = wanted
      BY <2>1
    <3>2. InReader(upto[Len(channel)])
      BY <2>4, <3>1 DEF InReader
    <3> QED
      BY <2>5, <2>6, <3>2 DEF Linked
  <2> QED
    BY <2>1, <2>7 DEF Chain
<1> QED
  BY <1>1, <1>8, <1>9, <1>10, <1>11 DEF SamplesInv

LEMMA StartAsInit == ASSUME Start PROVE Init'
BY DEF Start, Init

LEMMA SamplesStep ==
  ASSUME DecoderAssumption, SamplesInv, [Next]_vars
  PROVE  SamplesInv' \/ Init'
<1>1. TypeOK'
  BY TypeStep DEF SamplesInv
<1>2. CASE HelperStep \/ HelperFault
  BY <1>1, <1>2, SamplesByHelper
<1>3. CASE ReaderStep
  BY <1>1, <1>3, SamplesByReading, SamplesByEnding, SamplesBySending DEF ReaderStep
<1>4. CASE Poll
  BY <1>1, <1>4, SamplesByPolling
<1>5. CASE Shutdown \/ ShutdownStep
  BY <1>1, <1>5, SamplesByShutdown
<1>6. CASE Start
  BY <1>6, StartAsInit
<1>7. CASE Tick \/ UNCHANGED vars
  BY <1>1, <1>7, SamplesByTime
<1> QED
  BY <1>2, <1>3, <1>4, <1>5, <1>6, <1>7 DEF Next

(* The sink, the pipe, the block in `read_protocol', the message it sends and the channel
   hold one after the other all the frames that are not with the worker yet. *)
THEOREM SamplesHold == Spec => []SamplesInv
<1>1. Init => SamplesInv
  BY DecoderAssumption, SamplesInit
<1>2. SamplesInv /\ [Next]_vars => SamplesInv' \/ Init'
  BY DecoderAssumption, SamplesStep
<1> QED
  BY <1>1, <1>2, PTL DEF Spec

(* The samples that `poll' returns are the track from the position that was sought, in
   order and without a gap but for the packets that did not decode, however they were cut
   into blocks, and all of them at the end. *)
THEOREM SamplesStayExact == Spec => []SamplesExact
<1>1. SamplesInv => SamplesExact
  BY DEF SamplesInv
<1> QED
  BY <1>1, SamplesHold, PTL
===============================================================================
