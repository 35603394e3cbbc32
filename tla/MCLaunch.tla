------------------------------ MODULE MCLaunch ------------------------------
(* A small instance of Launch for TLC: two processes of one user and a third with
   another runtime directory, all on one root.  The first two may be exchanged. *)
EXTENDS Launch, TLC

CONSTANTS p1, p2, p3, r1, r2

MCRuntimeOf == [p \in Processes |-> IF p = p3 THEN r2 ELSE r1]
MCSymmetry == Permutations({p1, p2})

=============================================================================
