\* Two workers, two runs, drafts of every kind: safety, and RunLedger implements Ledger.
SPECIFICATION Spec
CONSTANTS
    p1 = p1
    p2 = p2
    known = known
    unknown = unknown
    data = data
    lr = lr
    Worker = {w1, w2}
    Project = {p1, p2}
    SpecId = {s1, s2}
    RunId = {r1, r2}
    Draft <- AllDrafts
    Registry = {known}
    PresetTable = {known}
    MayReplace = FALSE
    None = none
SYMMETRY Symmetry
INVARIANTS TypeOK RunsAreWhole NoLeftovers ProjectsExist RepliesAreTrue GetSpecIsExact
PROPERTIES ImplementsLedger
