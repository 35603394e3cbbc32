---------------------------- MODULE MCSessionStore ----------------------------
(* Small instances of SessionStore for TLC: two entries, of which a library may
   lack one or both. *)
EXTENDS SessionStore

CONSTANTS e1, e2, a1, a2

MCAssetOf == (e1 :> a1) @@ (e2 :> a2)
MCBatches == {<<e1>>, <<e2>>}
MCLibraries == {Entries, {e2}, {}}

=============================================================================
