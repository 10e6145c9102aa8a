--------------------------- MODULE MCRunLifecycle ---------------------------
(* A small instance of RunLifecycle for TLC. *)
EXTENDS RunLifecycle, TLC

Symmetry == Permutations(Reason) \cup Permutations(Time)
=============================================================================
