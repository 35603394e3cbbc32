------------------------------ MODULE MCQueue ------------------------------
(* Small instances of Queue for TLC: three assets, one of them reached by two
   entries (a library track and a playlist alias of the same file). *)
EXTENDS Queue

CONSTANTS e1, e2, e3, e4, a1, a2, a3

MCBatches == BoundedSeq(Entries, 2) \ {<<>>}
MCSessions == BoundedSeq(Entries \cup {Gone}, 2) \ {<<>>}

MCAssetOf == (e1 :> a1) @@ (e2 :> a2) @@ (e3 :> a3) @@ (e4 :> a1)

=============================================================================
