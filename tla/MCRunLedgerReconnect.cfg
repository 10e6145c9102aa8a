\* One worker, a connection that may be replaced: a project is removed between the check and the insert.
SPECIFICATION Spec
CONSTANTS
    p1 = p1
    p2 = p2
    known = known
    unknown = unknown
    data = data
    lr = lr
    Worker = {w1}
    Project = {p1, p2}
    SpecId = {s1, s2}
    RunId = {r1, r2}
    Draft <- AllDrafts
    Registry = {known}
    PresetTable = {known}
    MayReplace = TRUE
    None = none
INVARIANTS ProjectsExist
