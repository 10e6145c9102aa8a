\* Two workers, one project, a connection that may be replaced: liveness, and the invariant of the proofs, which needs no foreign keys.
SPECIFICATION FairSpec
CONSTANTS
    p1 = p1
    p2 = p2
    known = known
    unknown = unknown
    data = data
    lr = lr
    Worker = {w1, w2}
    Project = {p1}
    SpecId = {s1, s2}
    RunId = {r1, r2}
    Draft <- SmallDrafts
    Registry = {known, unknown}
    PresetTable = {known}
    MayReplace = TRUE
    None = none
INVARIANTS IInv
PROPERTIES RequestsAreAnswered
