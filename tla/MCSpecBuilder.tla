--------------------------- MODULE MCSpecBuilder ---------------------------
(* Small instances of SpecBuilder for TLC. *)
EXTENDS SpecBuilder, TLC

CONSTANTS trainer, resource, stranger, a, b, lr, rank

Bare == [model |-> None, data |-> None, resource |-> None]

(* One preset with parameters only, as the registered ones, and one with *)
(* everything the interface allows.                                      *)
Presets ==
    (trainer  :> [sections |-> Bare,
                  params |-> lr :> [type |-> "float64", value |-> 1] @@
                             rank :> [type |-> "int", value |-> 6]]) @@
    (resource :> [sections |-> [Bare EXCEPT !.model = b, !.data = <<b, a>>],
                  params |-> rank :> [type |-> "int", value |-> 2]])

Sections == { [model |-> a, resource |-> a, data |-> d] : d \in {<<a, b>>, <<b, a, a>>} }

Number(n) == [type |-> "number", value |-> n]

Parameters ==
    {NoParams, lr :> Number(1), rank :> Number(5), rank :> [type |-> "other"],
     lr :> Number(11) @@ rank :> Number(3)}

SmallRefs == [Category -> {trainer, NilId, None}] \cup [Category -> {trainer, resource}]
             \cup [Category -> {stranger, resource}]

Requests == [refs : SmallRefs, sections : Sections, params : Parameters]

FewRequests ==
    [refs : {[c \in Category |-> IF c = "trainer" THEN trainer ELSE None]},
     sections : Sections, params : Parameters]
=============================================================================
