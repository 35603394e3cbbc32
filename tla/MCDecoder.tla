------------------------------- MODULE MCDecoder -------------------------------
(* Small instances of Decoder for TLC. *)
EXTENDS Decoder
===============================================================================
