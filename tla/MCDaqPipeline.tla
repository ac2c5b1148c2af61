--------------------------- MODULE MCDaqPipeline ---------------------------
(* Bounded instances of DaqPipeline; the constants are given in the .cfg.   *)
EXTENDS DaqPipeline
=============================================================================
