---------------------------- MODULE RunLifecycle ----------------------------
(***************************************************************************)
(* The lifecycle of a run, src/internal/common/data/run/status.go: created *)
(* queued, then driven by Transition requests that callers may get wrong   *)
(* in every way: any status, with or without a reason, at any time.        *)
(***************************************************************************)
CONSTANTS
    Reason,     \* the machine-readable failure reasons, the empty one apart
    Empty,      \* the empty failure reason
    Time,       \* the instants a caller may pass
    None        \* a nil pointer

ASSUME NoneAssumption  == None \notin Reason \cup Time \cup {Empty}
ASSUME EmptyAssumption == Empty \notin Reason

VARIABLES
    status, failureReason, createdAt, startedAt, finishedAt,
    err         \* the error of the last Transition, or None

stamps == <<createdAt, startedAt, finishedAt>>
record == <<status, failureReason, stamps>>
vars   == <<record, err>>

Statuses == {"queued", "preparing", "running", "succeeded", "failed"}

TypeOK ==
    /\ status \in Statuses
    /\ failureReason \in Reason \cup {None}
    /\ createdAt \in Time
    /\ startedAt \in Time \cup {None}
    /\ finishedAt \in Time \cup {None}
    /\ err \in {None, "invalidTransition", "reasonRequired"}

-----------------------------------------------------------------------------

NewLifecycle ==
    /\ status = "queued"
    /\ createdAt \in Time
    /\ failureReason = None
    /\ startedAt = None
    /\ finishedAt = None

Init == NewLifecycle /\ err = None

\* Faulty variant: a preparing run may be declared a success.
CanSucceedEarly(s, next) ==
    \/ s = "queued"    /\ next = "preparing"
    \/ s = "preparing" /\ next \in {"running", "failed", "succeeded"}
    \/ s = "running"   /\ next \in {"succeeded", "failed"}

\* Faulty variant: a failed run may be retried in place.
CanRetry(s, next) ==
    \/ s = "queued"    /\ next = "preparing"
    \/ s = "preparing" /\ next \in {"running", "failed"}
    \/ s = "running"   /\ next \in {"succeeded", "failed"}
    \/ s = "failed"    /\ next = "preparing"

CanTransitionTo(s, next) ==
    \/ s = "queued"    /\ next = "preparing"
    \/ s = "preparing" /\ next \in {"running", "failed"}
    \/ s = "running"   /\ next \in {"succeeded", "failed"}

\* Faulty variant: clears the reason before it checks the request.
RefuseClears(error) == err' = error /\ failureReason' = None /\ UNCHANGED <<status, stamps>>

(* The request refused: the record is not touched. *)
Refuse(error) == err' = error /\ UNCHANGED record

Apply(next, reason, at) ==
    /\ status' = next
    /\ failureReason' = IF next = "failed" THEN reason ELSE None
    /\ startedAt' = IF next = "running" /\ startedAt = None THEN at ELSE startedAt
    /\ finishedAt' = IF next \in {"succeeded", "failed"} THEN at ELSE finishedAt
    /\ err' = None
    /\ UNCHANGED createdAt

\* Faulty variant: the reason is not checked.
TransitionUnchecked(next, reason, at) ==
    \/ ~CanTransitionTo(status, next) /\ Refuse("invalidTransition")
    \/ CanTransitionTo(status, next) /\ Apply(next, reason, at)

Transition(next, reason, at) ==
    \/ ~CanTransitionTo(status, next) /\ Refuse("invalidTransition")
    \/ /\ CanTransitionTo(status, next)
       /\ next = "failed" /\ reason \in {None, Empty}
       /\ Refuse("reasonRequired")
    \/ /\ CanTransitionTo(status, next)
       /\ next = "failed" => reason \notin {None, Empty}
       /\ Apply(next, reason, at)

(* What a caller may ask for: Next(status), with any string for a status, and *)
(* Fail(reason).                                                              *)
Request ==
    { <<s, None>> : s \in Statuses \cup {"other"} } \cup { <<"failed", r>> : r \in Reason \cup {Empty} }

Next == \E r \in Request, at \in Time : Transition(r[1], r[2], at)

Spec == Init /\ [][Next]_vars

-----------------------------------------------------------------------------
(***************************************************************************)
(* Properties.                                                             *)
(***************************************************************************)
Terminal == {"succeeded", "failed"}

\* The record never contradicts itself, whatever was requested: a reason
\* exactly when failed, a finish time exactly when terminal, a start time if
\* it runs or has succeeded and none before it runs.
RecordConsistent ==
    /\ failureReason # None <=> status = "failed"
    /\ finishedAt # None <=> status \in Terminal
    /\ status \in {"running", "succeeded"} => startedAt # None
    /\ status \in {"queued", "preparing"} => startedAt = None

\* Nothing that happened is rewritten: a time stamp is never changed or lost.
StampsAreFinal ==
    [][/\ createdAt' = createdAt
       /\ startedAt # None => startedAt' = startedAt
       /\ finishedAt # None => finishedAt' = finishedAt]_vars

\* A terminal record is frozen, and a refused request leaves no trace on any
\* record: Transition checks everything before it assigns anything.
RefusalsLeaveNoTrace ==
    [][err' # None \/ status \in Terminal => record' = record]_vars
=============================================================================
