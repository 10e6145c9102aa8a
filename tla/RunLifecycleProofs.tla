------------------------- MODULE RunLifecycleProofs -------------------------
(***************************************************************************)
(* RunLifecycle for any reasons and any times: the record is typed, never  *)
(* contradicts itself, and is only ever added to.                          *)
(***************************************************************************)
EXTENDS RunLifecycle, TLAPS

Inv == TypeOK /\ RecordConsistent

(* A request either applies, with a reason where one is due, or is refused. *)
LEMMA Outcomes ==
    ASSUME NEW next, NEW reason, NEW at \in Time, Transition(next, reason, at),
           <<next, reason>> \in Request
    PROVE  \/ UNCHANGED record /\ err' \in {"invalidTransition", "reasonRequired"}
           \/ /\ CanTransitionTo(status, next)
              /\ next = "failed" => reason \in Reason
              /\ Apply(next, reason, at)
<1>1. next = "failed" => reason \in Reason \cup {None, Empty}
    BY DEF Request
<1> QED BY <1>1 DEF Transition, Refuse

(* Every step is a request for a next status with a reason or without. *)
LEMMA Requested ==
    ASSUME Next
    PROVE  \E next, reason, at :
               at \in Time /\ <<next, reason>> \in Request /\ Transition(next, reason, at)
<1>1. PICK r \in Request, at \in Time : Transition(r[1], r[2], at)
    BY DEF Next
<1>2. r = <<r[1], r[2]>>
    BY DEF Request
<1> QED BY <1>1, <1>2

LEMMA StepKeepsInv == Inv /\ [Next]_vars => Inv'
<1> SUFFICES ASSUME Inv, [Next]_vars PROVE Inv'
    OBVIOUS
<1> USE NoneAssumption DEF Inv, TypeOK, RecordConsistent, Statuses, Terminal, record, stamps
<1>1. CASE Next
    <2>1. PICK next, reason, at :
                  at \in Time /\ <<next, reason>> \in Request /\ Transition(next, reason, at)
        BY <1>1, Requested
    <2>2. CASE UNCHANGED record /\ err' \in {"invalidTransition", "reasonRequired"}
        BY <2>2
    <2>3. CASE /\ CanTransitionTo(status, next)
               /\ next = "failed" => reason \in Reason
               /\ Apply(next, reason, at)
        BY <2>1, <2>3 DEF CanTransitionTo, Apply
    <2> QED BY <2>1, <2>2, <2>3, Outcomes
<1>2. CASE UNCHANGED vars
    BY <1>2 DEF vars
<1> QED BY <1>1, <1>2

(* What a step may do to a consistent record. *)
LEMMA StepOnlyAdds ==
    ASSUME Inv, [Next]_vars
    PROVE  /\ createdAt' = createdAt
           /\ startedAt # None => startedAt' = startedAt
           /\ finishedAt # None => finishedAt' = finishedAt
           /\ status \in Terminal => record' = record
<1> USE NoneAssumption DEF Inv, TypeOK, RecordConsistent, Statuses, Terminal, record, stamps
<1>1. CASE Next
    <2>1. PICK next, reason, at :
                  at \in Time /\ <<next, reason>> \in Request /\ Transition(next, reason, at)
        BY <1>1, Requested
    <2>2. CASE UNCHANGED record /\ err' \in {"invalidTransition", "reasonRequired"}
        BY <2>2
    <2>3. CASE CanTransitionTo(status, next) /\ Apply(next, reason, at)
        BY <2>1, <2>3 DEF CanTransitionTo, Apply
    <2> QED BY <2>1, <2>2, <2>3, Outcomes
<1>2. CASE UNCHANGED vars
    BY <1>2 DEF vars
<1> QED BY <1>1, <1>2

(* An error goes with an untouched record. *)
LEMMA ErrorLeavesRecord == Next /\ err' # None => record' = record
BY DEF Next, Transition, Refuse, Apply, record, stamps

LEMMA InvHolds == Spec => []Inv
<1>1. Init => Inv
    BY NoneAssumption
    DEF Init, NewLifecycle, Inv, TypeOK, RecordConsistent, Statuses, Terminal
<1> QED BY <1>1, StepKeepsInv, PTL DEF Spec

\* Every field of the record and the last error keep their types, whatever
\* Transition is asked for.
THEOREM TypeCorrect == Spec => []TypeOK
BY InvHolds, PTL DEF Inv

\* The record of a run never contradicts itself: the reason, the start and
\* the finish time agree with the status after any sequence of Transitions.
THEOREM RecordConsistentHolds == Spec => []RecordConsistent
BY InvHolds, PTL DEF Inv

\* Transition never changes or clears a time stamp that is set.
THEOREM StampsAreFinalHolds == Spec => StampsAreFinal
<1>1. Inv /\ [Next]_vars =>
        [/\ createdAt' = createdAt
         /\ startedAt # None => startedAt' = startedAt
         /\ finishedAt # None => finishedAt' = finishedAt]_vars
    BY StepOnlyAdds
<1> QED BY <1>1, InvHolds, PTL DEF Spec, StampsAreFinal

\* Transition leaves a terminal record alone, and a refused one too.
THEOREM RefusalsLeaveNoTraceHolds == Spec => RefusalsLeaveNoTrace
<1>1. Inv /\ [Next]_vars => [err' # None \/ status \in Terminal => record' = record]_vars
    BY StepOnlyAdds, ErrorLeavesRecord
<1> QED BY <1>1, InvHolds, PTL DEF Spec, RefusalsLeaveNoTrace
=============================================================================
