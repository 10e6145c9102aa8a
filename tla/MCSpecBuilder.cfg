\* Every combination of two registered presets, an unknown one, uuid.Nil and
\* nil in three categories, with parameters that collide or do not.
SPECIFICATION Spec
CONSTANTS
    trainer = trainer
    resource = resource
    stranger = stranger
    a = a
    b = b
    lr = lr
    rank = rank
    Id = {trainer, resource, stranger}
    Catalog <- Presets
    Request <- Requests
    Key = {lr, rank}
    Scalar = {a, b}
    NilId = nilId
    None = none
    Exact = 8
    Plain = 4
INVARIANTS TypeOK IInv Precedence RoundTrip NumbersSurvive
