\* Two callers and two kernels: safety of the table.  The second
\* kernel cannot be killed by the agent.
SPECIFICATION Spec
CONSTANTS
    Caller = {c1, c2}
    Kernel = {k1, k2}
    Unknown = unknown
    Privileged = {k2}
    Code = {0, 1}
SYMMETRY Symmetry
INVARIANTS TypeOK NoOrphan ExitCodeTrue DestroyedIsGone IInv
