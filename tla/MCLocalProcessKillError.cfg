\* One caller and one kernel: a Destroy of an exited child does return an error.
SPECIFICATION Spec
CONSTANTS
    Caller = {c1}
    Kernel = {k1}
    Unknown = unknown
    Privileged = {}
    Code = {0}
PROPERTIES ExitedIsNotAnError
