------------------------ MODULE LocalProcessObserved ------------------------
(***************************************************************************)
(* LocalProcess implements KernelRuntime.  To say so needs one history     *)
(* variable, the states that the target of each call has had since the     *)
(* call started; it is recorded after every step and influences none.      *)
(***************************************************************************)
EXTENDS LocalProcess

VARIABLE seen

(* The state a caller of the runtime can attribute to an ID. *)
StateOf(k) ==
    CASE k = Unknown                   -> Reply("absent")
      [] k \in processes /\ k \in done -> Exited(processState[k])
      [] k \in processes \ done        -> Running
      [] k \in Issued \ processes      -> Reply("gone")
      [] OTHER                         -> Reply("absent")

OpOf(label) ==
    CASE label = "idle"                                                         -> "idle"
      [] label \in {"start", "insert"}                                          -> "create"
      [] label \in {"lookupDestroy", "kill", "killFailed", "waitDone", "delete"} -> "destroy"
      [] label \in {"lookupStatus", "poll"}                                     -> "status"

TargetState(c) == StateOf(target[c])

Observe ==
    seen' = [c \in Caller |->
                IF OpOf(pc'[c]) \in {"idle", "create"} THEN {}
                ELSE (IF pc[c] = "idle" THEN {} ELSE seen[c]) \cup {TargetState(c)'}]

ObservedVars == <<vars, seen>>

ObservedSpec ==
    /\ Init /\ seen = [c \in Caller |-> {}]
    /\ [][Next /\ Observe]_ObservedVars

ObservedFairSpec == ObservedSpec /\ Fairness

-----------------------------------------------------------------------------
Runtime == INSTANCE KernelRuntime WITH
    state <- [k \in Kernel |-> StateOf(k)],
    op    <- [c \in Caller |-> OpOf(pc[c])]

\* Every step of LocalProcess is a step the interface allows, or none at all:
\* kernels are only destroyed once they have exited and never come back, and
\* every answer was true of the kernel at some moment of the call.
ImplementsRuntime == Runtime!Spec

\* What carries that, besides the invariant of LocalProcess: seen has the
\* present state of the target, and whoever found the entry has also seen the
\* exit of the child, should it have exited, even if the entry is gone by now.
\* A target is an ID that some Create has returned, or one that none draws.
SeenInv ==
    /\ seen \in [Caller -> SUBSET (Status \cup {Reply("absent"), Reply("gone")})]
    /\ \A c \in Caller :
        /\ OpOf(pc[c]) \in {"idle", "create"} => seen[c] = {}
        /\ OpOf(pc[c]) \in {"destroy", "status"} => TargetState(c) \in seen[c]
        /\ pc[c] = "poll" /\ target[c] \in done => Exited(processState[target[c]]) \in seen[c]
        /\ pc[c] # "insert" => target[c] \in Issued \cup {Unknown}
=============================================================================
