---------------------------- MODULE MCLogPipeline ----------------------------
(* A small instance of LogPipeline for TLC. *)
EXTENDS LogPipeline

CONSTANT p1

MCConfigs ==
  {[maxFiles |-> n, maxFileBytes |-> 2] : n \in 1 .. MaxLogFiles}

=============================================================================
