---------------------------- MODULE MCPlayerAsked ----------------------------
(* Small instances of PlayerAsked for TLC. *)
EXTENDS PlayerAsked

CONSTANTS e1, e2, e3, a1, a2, a3

MCAssetOf == [e \in Entries |-> CASE e = e1 -> a1 [] e = e2 -> a2 [] e = e3 -> a3]
MCLength == [e \in Entries |-> 1]
MCDuration == [e \in Entries |-> IF e = e1 THEN 1 ELSE NoTime]
MCBatches == {<<e1>>, <<e1, e2, e3>>}
MCSessions == {<<e1, e2, e3>>}

(* One listener steers the playback, one edits the queue under it, one seeks and
   one turns the sound off and on. *)
Steers == {"transport", "navigation", "repeat"}
Edits == {"edit", "shuffle", "navigation"}
Seeks == {"seek", "transport"}
Mutes == {"transport", "gain"}
MCHabits == {Steers, Edits, Seeks, Mutes}
MCStops == {{"transport", "navigation"}}

=============================================================================
