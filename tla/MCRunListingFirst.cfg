\* Two submits at a time, three runs, two seconds of four ticks; the list shows both of a second.
SPECIFICATION Spec
CONSTANTS
    Base = 2
    Weight <- TwoBits
    Worker = {w1, w2}
    Project = {p1}
    RunId = {r1, r2, r3}
    Limit = 2
    LastTick = 6
    None = none
INVARIANTS MostRecentFirst
