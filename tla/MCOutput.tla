------------------------------- MODULE MCOutput -------------------------------
(* Small instances of Output for TLC. *)
EXTENDS Output
=============================================================================
