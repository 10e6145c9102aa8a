----------------------------- MODULE MCRunLedger -----------------------------
(* Small instances of RunLedger for TLC. *)
EXTENDS RunLedger, TLC

CONSTANTS p1, p2, known, unknown, data, lr

(* Drafts that succeed, and one for every way to fail. *)
Small      == [project |-> p1, items |-> {[table |-> "datasets", key |-> data]},
               numeric |-> TRUE]
Full       == [Small EXCEPT !.items = @ \cup {[table |-> "presets", key |-> known],
                                              [table |-> "parameters", key |-> lr]}]
Elsewhere  == [Small EXCEPT !.project = p2]
BadPreset  == [Small EXCEPT !.items = {[table |-> "presets", key |-> unknown]}]
NotNumeric == [Small EXCEPT !.numeric = FALSE]

SmallDrafts == {Small, BadPreset}
AllDrafts   == {Full, Small, Elsewhere, BadPreset, NotNumeric}

Symmetry == Permutations(Worker) \cup Permutations(SpecId) \cup Permutations(RunId)
=============================================================================
