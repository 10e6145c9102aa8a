\* One preset: a large whole number comes back with an exponent.
SPECIFICATION Spec
CONSTANTS
    trainer = trainer
    resource = resource
    stranger = stranger
    a = a
    b = b
    lr = lr
    rank = rank
    Id = {trainer, resource, stranger}
    Catalog <- Presets
    Request <- FewRequests
    Key = {lr, rank}
    Scalar = {a, b}
    NilId = nilId
    None = none
    Exact = 8
    Plain = 4
INVARIANTS IntegersCast
