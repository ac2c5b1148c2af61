--------------------------- MODULE MCDaqCommands ---------------------------
(* Bounded instances of DaqCommands; the constants are given in the .cfg.   *)
EXTENDS DaqCommands
=============================================================================
