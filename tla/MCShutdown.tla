----------------------------- MODULE MCShutdown -----------------------------
(***************************************************************************)
(* Model-checking instance of Shutdown: a few requests at every stage of   *)
(* their life when the signal lands.                                       *)
(***************************************************************************)
EXTENDS Shutdown, TLC

RequestSymmetry == Permutations(Request)

=============================================================================
