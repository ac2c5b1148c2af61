------------------------- MODULE MCAcquisitionPath -------------------------
(* Bounded instances of AcquisitionPath; the constants are in the .cfg.     *)
EXTENDS AcquisitionPath
=============================================================================
