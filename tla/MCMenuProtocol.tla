--------------------------- MODULE MCMenuProtocol ---------------------------
(* Bounded instances of MenuProtocol.                                       *)
EXTENDS MenuProtocol, TLC
=============================================================================
