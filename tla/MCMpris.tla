-------------------------------- MODULE MCMpris --------------------------------
(* Small instances of Mpris for TLC. *)
EXTENDS Mpris
===============================================================================
