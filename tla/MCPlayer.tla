------------------------------ MODULE MCPlayer ------------------------------
(* Small instances of Player for TLC. *)
EXTENDS Player

CONSTANTS e1, e2, e3, a1, a2, a3

MCAssetOf == [e \in Entries |-> CASE e = e1 -> a1 [] e = e2 -> a2 [] e = e3 -> a3]

(* e1 is two blocks long and says so; e2 is one block long, and its header
   says nothing. *)
MCLength == [e \in Entries |-> IF e = e1 THEN 2 ELSE 1]
MCDuration == [e \in Entries |-> IF e = e1 THEN 2 ELSE NoTime]

MCNone == {}
MCOne == {<<e1>>}
MCSeeks == {{"seek", "transport", "quit"}}

=============================================================================
