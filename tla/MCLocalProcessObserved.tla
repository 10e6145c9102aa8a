----------------------- MODULE MCLocalProcessObserved -----------------------
(* Small instances of LocalProcessObserved for TLC. *)
EXTENDS LocalProcessObserved, TLC
=============================================================================
