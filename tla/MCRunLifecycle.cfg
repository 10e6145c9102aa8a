\* Every sequence of requests, with two reasons and three instants.
SPECIFICATION Spec
CONSTANTS
    Reason = {oom, timeout}
    Empty = empty
    Time = {t1, t2, t3}
    None = none
INVARIANTS TypeOK RecordConsistent
PROPERTIES StampsAreFinal RefusalsLeaveNoTrace
