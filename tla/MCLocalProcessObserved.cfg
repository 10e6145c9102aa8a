\* Two callers on one kernel: LocalProcess implements KernelRuntime, its calls return and
\* its children are reaped.
SPECIFICATION ObservedFairSpec
CONSTANTS
    Caller = {c1, c2}
    Kernel = {k1}
    Unknown = unknown
    Privileged = {}
    Code = {0, 1}
INVARIANTS SeenInv
PROPERTIES DestroyReturns ZombiesAreReaped CancelStopsChild ImplementsRuntime
