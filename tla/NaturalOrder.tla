---------------------------- MODULE NaturalOrder ----------------------------
(***************************************************************************)
(* The order of names and paths, and the search within them: pure          *)
(* functions of src/src/scan/mod.rs and src/src/app/browser.rs.  A name is *)
(* the sequence of its bytes, a path the sequence of its names.            *)
(***************************************************************************)
EXTENDS Integers, SequencesExt

IsDigit(byte) == byte \in 48 .. 57
Lower(byte) == IF byte \in 65 .. 90 THEN byte + 32 ELSE byte
IsSame(a, b) == Lower(a) = Lower(b)

(* An order is -1, 0 or 1; the first that is not 0 decides. *)
Sign(n) == IF n < 0 THEN -1 ELSE IF n > 0 THEN 1 ELSE 0
Then(order, next) == IF order # 0 THEN order ELSE next

Lexicographic(s, t, Compare(_, _)) ==
  LET differ == {i \in DOMAIN s \cap DOMAIN t : Compare(s[i], t[i]) # 0}
      first == CHOOSE i \in differ : \A j \in differ : i <= j
  IN  IF differ = {} THEN Sign(Len(s) - Len(t)) ELSE Compare(s[first], t[first])

CompareBytes(a, b) == Sign(a - b)
CompareFolded(a, b) == Sign(Lower(a) - Lower(b))

(* The maximal runs of digits, and of anything else, that make up a name. *)
Runs(name) ==
  LET starts == {i \in DOMAIN name : i = 1 \/ IsDigit(name[i]) # IsDigit(name[i - 1])}
      cuts == SetToSortSeq(starts \cup {Len(name) + 1}, <)
  IN  [k \in 1 .. Len(cuts) - 1 |-> SubSeq(name, cuts[k], cuts[k + 1] - 1)]

Significant(run) == SelectInSeq(run, LAMBDA byte : byte # 48)
WithoutZeros(run) == IF Significant(run) = 0 THEN <<>> ELSE SubSeq(run, Significant(run), Len(run))

(* Mutant: runs that differ only in case compare as equal. *)
CompareIgnoringCase(a, b) == Lexicographic(a, b, CompareFolded)

CompareRuns(a, b) ==
  LET m == WithoutZeros(a)
      n == WithoutZeros(b)
  IN  IF IsDigit(a[1]) /\ IsDigit(b[1])
      THEN Then(Sign(Len(m) - Len(n)),
           Then(Lexicographic(m, n, CompareBytes), Sign(Len(a) - Len(b))))
      ELSE Then(Lexicographic(a, b, CompareFolded), Lexicographic(a, b, CompareBytes))

CompareNames(a, b) == Lexicographic(Runs(a), Runs(b), CompareRuns)

(* A path as one text; it decides between paths that compare as equal. *)
Joined(path) == FlattenSeq([i \in DOMAIN path |-> (IF i = 1 THEN <<>> ELSE <<47>>) \o path[i]])

ComparePaths(p, q) ==
  Then(Lexicographic(p, q, CompareNames), Lexicographic(Joined(p), Joined(q), CompareBytes))

-----------------------------------------------------------------------------
(* For each prefix of the needle, the longest proper prefix that also ends it. *)
PrefixTable(needle) ==
  LET table[i \in DOMAIN needle] ==
        LET back[m \in 0 .. i - 1] ==
              IF IsSame(needle[i], needle[m + 1]) THEN m + 1
              ELSE IF m = 0 THEN 0 ELSE back[table[m]]
        IN  IF i = 1 THEN 0 ELSE back[table[i - 1]]
  IN  table

(* Mutant: a mismatch starts over with the next byte. *)
StartsOver(table, needle, matched, byte) ==
  IF IsSame(byte, needle[matched + 1]) THEN matched + 1 ELSE 0

(* How much of the needle is matched after one more byte. *)
Advance(table, needle, matched, byte) ==
  LET back[m \in 0 .. matched] ==
        IF IsSame(byte, needle[m + 1]) THEN m + 1
        ELSE IF m = 0 THEN 0 ELSE back[table[m]]
  IN  back[matched]

(* `contains_ascii_case_insensitive' *)
ContainsText(haystack, needle) ==
  LET table == PrefixTable(needle) IN
  /\ needle # <<>> /\ Len(needle) <= Len(haystack)
  /\ Len(needle) = FoldLeft(LAMBDA matched, byte :
                              IF matched = Len(needle) THEN matched
                              ELSE Advance(table, needle, matched, byte),
                            0, haystack)

=============================================================================
