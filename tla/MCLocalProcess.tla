--------------------------- MODULE MCLocalProcess ---------------------------
(* Small instances of LocalProcess for TLC. *)
EXTENDS LocalProcess, TLC

\* Not of Kernel: only some kernels are privileged.
Symmetry == Permutations(Caller)
=============================================================================
