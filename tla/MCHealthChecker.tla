--------------------------- MODULE MCHealthChecker ---------------------------
(***************************************************************************)
(* Model-checking instances of HealthChecker.                              *)
(***************************************************************************)
EXTENDS HealthChecker, TLC

ServerSymmetry == Permutations(Server)

==============================================================================
