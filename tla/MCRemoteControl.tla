-------------------------- MODULE MCRemoteControl --------------------------
(* Bounded instances of RemoteControl; the constants are in the .cfg.       *)
EXTENDS RemoteControl
=============================================================================
