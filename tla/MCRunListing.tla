---------------------------- MODULE MCRunListing ----------------------------
(* Small instances of RunListing for TLC. *)
EXTENDS RunListing

(* Two binary digits: a second of four ticks. *)
TwoBits == <<2, 1>>

Symmetry == Permutations(Worker) \cup Permutations(Project) \cup Permutations(RunId)
=============================================================================
