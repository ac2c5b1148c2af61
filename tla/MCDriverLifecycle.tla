------------------------- MODULE MCDriverLifecycle -------------------------
(* A bounded instance of DriverLifecycle; the users are in the .cfg.        *)
EXTENDS DriverLifecycle, TLC

UserSymmetry == Permutations(Users)
=============================================================================
