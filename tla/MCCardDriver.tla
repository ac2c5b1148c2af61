---------------------------- MODULE MCCardDriver ----------------------------
(* Bounded instances of CardDriver; the constants are given in the .cfg.    *)
EXTENDS CardDriver
=============================================================================
