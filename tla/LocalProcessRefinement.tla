------------------------ MODULE LocalProcessRefinement ------------------------
(***************************************************************************)
(* LocalProcess implements KernelRuntime, for any number of callers,       *)
(* kernels and codes: every step is a step of the interface, or one that   *)
(* no caller can see.                                                      *)
(***************************************************************************)
EXTENDS LocalProcessObserved, LocalProcessProofs

Ids    == Kernel \cup {Unknown}
Absent == Reply("absent")
Gone   == Reply("gone")
States == Status \cup {Absent, Gone}

(* What the interface sees: the state of each ID, the call of each caller. *)
State == [k \in Ids |-> StateOf(k)]
Ops   == [c \in Caller |-> OpOf(pc[c])]

-----------------------------------------------------------------------------
(* The states of a kernel are told apart by their tags. *)
LEMMA StateTags ==
    /\ Absent # Gone /\ Running \notin {Absent, Gone}
    /\ \A x : Exited(x) \notin {Absent, Gone, Running}
    /\ \A x \in ExitStatus : Exited(x) \in Status
    /\ Running \in Status
BY DEF Absent, Gone, Running, Reply, Exited, Status

(* The labels of a caller, as calls. *)
LEMMA OpOfLabel ==
    /\ OpOf("idle") = "idle"
    /\ \A l \in {"start", "insert"} : OpOf(l) = "create"
    /\ \A l \in {"lookupDestroy", "kill", "killFailed", "waitDone", "delete"} : OpOf(l) = "destroy"
    /\ \A l \in {"lookupStatus", "poll"} : OpOf(l) = "status"
BY DEF OpOf

LEMMA Calls ==
    \A l \in Label : /\ OpOf(l) \in {"idle", "create", "destroy", "status"}
                     /\ OpOf(l) = "idle" <=> l = "idle"
BY DEF OpOf, Label

(* The state of an ID, by what is known of its child. *)
StateFacts ==
    /\ State \in [Ids -> States]
    /\ State[Unknown] = Absent
    /\ \A k \in Kernel :
        /\ k \in processes \cap done => State[k] = Exited(status[k]) /\ State[k] \in Status
        /\ k \in processes \ done => State[k] = Running
        /\ k \in Issued \ processes => State[k] = Gone
        /\ k \notin Issued \cup processes => State[k] = Absent

LEMMA StateAt == IInv => StateFacts
<1> SUFFICES ASSUME IInv PROVE StateFacts
    OBVIOUS
<1>1. \A k \in Kernel : k # Unknown
    BY UnknownAssumption
<1>2. \A k \in done : processState[k] = status[k] /\ status[k] \in ExitStatus
    BY DEF IInv, ChildInv, TypeOK
<1>3. \A k \in Kernel :
        /\ k \in processes \cap done => StateOf(k) = Exited(status[k])
        /\ k \in processes \ done => StateOf(k) = Running
        /\ k \in Issued \ processes => StateOf(k) = Gone
        /\ k \notin Issued \cup processes => StateOf(k) = Absent
    BY <1>1, <1>2 DEF StateOf, Absent, Gone
<1>4. StateOf(Unknown) = Absent
    BY UnknownAssumption DEF StateOf, Absent, IInv, TypeOK, Issued
<1>5. \A k \in Ids : StateOf(k) \in States
    BY <1>2, <1>3, <1>4, StateTags DEF Ids, States
<1> QED BY <1>2, <1>3, <1>4, <1>5, StateTags DEF State, Ids, StateFacts

LEMMA StateAtNext == IInv' => StateFacts'
BY StateAt, PTL

(* The interface's reading of the mapping. *)
LEMMA Mapped ==
    ASSUME IInv
    PROVE  /\ \A k \in Ids : Runtime!StateOf(k) = State[k]
           /\ [k \in Kernel |-> StateOf(k)] = [k \in Kernel |-> State[k]]
           /\ [k \in Kernel |-> StateOf(k)]' = [k \in Kernel |-> State'[k]]
<1>1. Runtime!StateOf(Unknown) = State[Unknown]
    BY StateAt
    DEF Runtime!StateOf, Runtime!Absent, Runtime!Reply, Runtime!NoCode, StateFacts, Absent, Reply, NoCode
<1>2. \A k \in Kernel : Runtime!StateOf(k) = StateOf(k)
    BY UnknownAssumption DEF Runtime!StateOf
<1>3. [k \in Kernel |-> StateOf(k)]' = [k \in Kernel |-> State'[k]]
    BY DEF State, Ids, StateOf
<1> QED BY <1>1, <1>2, <1>3 DEF State, Ids

-----------------------------------------------------------------------------
(***************************************************************************)
(* How the state of an ID changes.                                         *)
(***************************************************************************)
(* The state depends on the table, on the exits that are announced and on  *)
(* which IDs Creates have returned, and on nothing else.                   *)
LEMMA StateKept ==
    ASSUME UNCHANGED <<processes, done>>, Issued' = Issued,
           \A k \in done : processState'[k] = processState[k]
    PROVE  State' = State
BY DEF State, StateOf

LEMMA IssuedKept ==
    ASSUME \A k \in Kernel : os'[k] = "none" <=> os[k] = "none",
           \A d \in Caller : pc'[d] = "insert" <=> pc[d] = "insert",
           \A d \in Caller : pc[d] = "insert" => target'[d] = target[d]
    PROVE  Issued' = Issued
BY DEF Issued, Pending

(* A caller's step leaves the others where they are. *)
LEMMA CallerMoves ==
    ASSUME TypeOK, NEW c \in Caller, NEW from, NEW to, Goto(c, from, to),
           from # "insert", to # "insert", UNCHANGED <<child, processState, done, processes>>,
           \A d \in Caller \ {c} : target'[d] = target[d]
    PROVE  State' = State /\ Issued' = Issued
<1>1. Issued' = Issued
    BY IssuedKept DEF TypeOK, Goto, child
<1> QED BY <1>1, StateKept

LEMMA StartState ==
    ASSUME IInv, NEW c \in Caller, NEW k \in Kernel, CreateStart(c, k)
    PROVE  State' = State /\ Issued' = Issued /\ State[k] = Absent
<1>1. k \notin Issued /\ k \notin processes
    BY DEF IInv, ChildInv, CreateStart, Issued
<1>2. \A l \in Kernel \ {k} : Pending(l)' <=> Pending(l)
    BY DEF CreateStart, Goto, Pending, IInv, TypeOK
<1>3. Pending(k)'
    BY DEF CreateStart, Goto, Pending, IInv, TypeOK
<1>4. Issued' = Issued
    BY <1>1, <1>2, <1>3 DEF CreateStart, Issued, IInv, TypeOK
<1>5. State' = State
    BY <1>4, StateKept DEF CreateStart, entries
<1> QED BY <1>1, <1>4, <1>5, StateAt DEF StateFacts, Ids

(* The entry makes the kernel known, whether it runs or has ended already. *)
LEMMA InsertState ==
    ASSUME IInv, IInv', NEW c \in Caller, CreateInsert(c)
    PROVE  /\ target[c] \in Kernel /\ State[target[c]] = Absent
           /\ \E s \in Status : State' = [State EXCEPT ![target[c]] = s]
           /\ Issued' = Issued \cup {target[c]}
<1> DEFINE k == target[c]
<1>1. k \in Kernel /\ pc[c] = "insert" /\ Pending(k) /\ os[k] # "none"
    BY DEF IInv, InsertInv, CreateInsert, Return, Goto, Pending
<1>2. k \notin Issued /\ k \notin processes
    BY <1>1 DEF IInv, ChildInv, Issued
<1>3. \A l \in Kernel \ {k} : Pending(l)' <=> Pending(l)
    BY <1>1 DEF CreateInsert, Return, Goto, Pending, IInv, TypeOK
<1>4. ~Pending(k)'
    BY <1>1 DEF CreateInsert, Return, Goto, Pending, IInv, TypeOK, InsertInv
<1>5. Issued' = Issued \cup {k}
    BY <1>1, <1>2, <1>3, <1>4 DEF CreateInsert, Issued, IInv, TypeOK, child
<1>6. processes' = processes \cup {k} /\ done' = done /\ processState' = processState
    BY DEF CreateInsert
<1>7. \A l \in Ids \ {k} : StateOf(l)' = StateOf(l)
    BY <1>5, <1>6 DEF StateOf, Ids
<1>8. State'[k] \in Status
    BY <1>1, <1>6, StateAtNext, StateTags DEF StateFacts
<1>9. State' = [State EXCEPT ![k] = State'[k]]
    BY <1>1, <1>7 DEF State, Ids
<1> QED BY <1>1, <1>2, <1>5, <1>8, <1>9, StateAt DEF StateFacts

(* The entry is deleted of a kernel that has exited, if nobody did before. *)
LEMMA DeleteState ==
    ASSUME IInv, IInv', NEW c \in Caller, DestroyDelete(c)
    PROVE  /\ target[c] \in Kernel /\ State[target[c]] \notin {Absent, Running}
           /\ State' = [State EXCEPT ![target[c]] = Gone]
           /\ Issued' = Issued
<1> DEFINE k == target[c]
<1>1. pc[c] = "delete" /\ k \in Issued /\ k \in done /\ k \in Kernel
    BY DEF IInv, CallerInv, DestroyDelete, Return, Goto, Held, Issued
<1>2. Issued' = Issued
    BY IssuedKept DEF DestroyDelete, Return, Goto, IInv, TypeOK, child
<1>3. processes' = processes \ {k} /\ done' = done /\ processState' = processState
    BY DEF DestroyDelete
<1>4. \A l \in Ids \ {k} : StateOf(l)' = StateOf(l)
    BY <1>2, <1>3 DEF StateOf, Ids
<1>5. State'[k] = Gone
    BY <1>1, <1>2, <1>3, StateAtNext DEF StateFacts
<1>6. State[k] \notin {Absent, Running}
    BY <1>1, StateAt, StateTags DEF StateFacts
<1> QED BY <1>1, <1>2, <1>4, <1>5, <1>6 DEF State, Ids

(* A kernel that runs exits, for its callers, when done is closed; one     *)
(* that is being inserted is not there for anyone.                         *)
LEMMA CloseState ==
    ASSUME IInv, IInv', NEW k \in Kernel, ReaperClose(k)
    PROVE  /\ Issued' = Issued
           /\ \/ k \notin Issued /\ State' = State
              \/ /\ State[k] = Running
                 /\ status[k] \in ExitStatus
                 /\ State' = [State EXCEPT ![k] = Exited(status[k])]
<1>1. os[k] = "reaped" /\ k \notin done /\ done' = done \cup {k}
    BY DEF ReaperClose
<1>2. processes' = processes /\ processState' = processState
    BY DEF ReaperClose
<1>3. Issued' = Issued
    BY IssuedKept DEF ReaperClose, child, callers
<1>4. \A l \in Ids \ {k} : StateOf(l)' = StateOf(l)
    BY <1>1, <1>2, <1>3 DEF StateOf, Ids
<1>5. CASE k \in processes
    <2>1. State[k] = Running
        BY <1>1, <1>5, StateAt DEF StateFacts
    <2>2. State'[k] = Exited(status'[k]) /\ status' = status
        BY <1>1, <1>2, <1>5, StateAtNext DEF ReaperClose, child, StateFacts
    <2>3. status[k] \in ExitStatus
        BY <1>1 DEF IInv, ChildInv
    <2> QED BY <1>3, <1>4, <2>1, <2>2, <2>3 DEF State, Ids
<1>6. CASE k \notin processes
    <2>1. Pending(k) /\ k \notin Issued
        BY <1>1, <1>6 DEF IInv, NoOrphan, Issued
    <2>2. State'[k] = Absent /\ State[k] = Absent
        BY <1>2, <1>3, <1>6, <2>1, StateAt, StateAtNext DEF StateFacts
    <2> QED BY <1>3, <1>4, <2>1, <2>2 DEF State, Ids
<1> QED BY <1>5, <1>6

-----------------------------------------------------------------------------
(***************************************************************************)
(* What the calls have seen.                                               *)
(***************************************************************************)
TargetStates == \A c \in Caller : TargetState(c) = State[target[c]]

LEMMA TargetStateAt == IInv => TargetStates
BY DEF IInv, TypeOK, TargetState, TargetStates, State, Ids

LEMMA TargetStateNext == IInv' => TargetStates'
BY TargetStateAt, PTL

(* Observe, in terms of State. *)
LEMMA Observed ==
    ASSUME IInv', SeenInv, Observe
    PROVE  /\ seen' \in [Caller -> SUBSET States]
           /\ \A c \in Caller :
                seen'[c] = IF OpOf(pc'[c]) \in {"idle", "create"} THEN {}
                           ELSE (IF pc[c] = "idle" THEN {} ELSE seen[c]) \cup {State'[target'[c]]}
<1>1. \A c \in Caller : State'[target'[c]] \in States
    BY StateAtNext DEF StateFacts, IInv, TypeOK, Ids
<1>2. seen' = [c \in Caller |->
                IF OpOf(pc'[c]) \in {"idle", "create"} THEN {}
                ELSE (IF pc[c] = "idle" THEN {} ELSE seen[c]) \cup {State'[target'[c]]}]
    BY TargetStateNext DEF Observe, TargetStates
<1>3. \A c \in Caller : seen[c] \subseteq States
    BY DEF SeenInv, States, Absent, Gone
<1> QED BY <1>1, <1>2, <1>3

(* A call that goes on, about the same ID, sees the state it has now. *)
LEMMA SeenNow ==
    ASSUME IInv, IInv', SeenInv, Observe, NEW d \in Caller,
           OpOf(pc'[d]) = OpOf(pc[d]), target'[d] = target[d]
    PROVE  /\ OpOf(pc[d]) \in {"idle", "create"} => seen'[d] = {} /\ seen[d] = {}
           /\ OpOf(pc[d]) \in {"destroy", "status"} =>
                /\ seen'[d] = seen[d] \cup {State'[target[d]]}
                /\ State[target[d]] \in seen[d]
<1>1. pc[d] \in Label /\ pc'[d] \in Label
    BY DEF IInv, TypeOK
<1>2. TargetState(d) = State[target[d]]
    BY TargetStateAt DEF TargetStates
<1> QED BY <1>1, <1>2, Observed, Calls, OpOfLabel DEF SeenInv

(* If it is the state it had, nothing new is seen. *)
LEMMA SeenSame ==
    ASSUME IInv, IInv', SeenInv, Observe, NEW d \in Caller,
           OpOf(pc'[d]) = OpOf(pc[d]), target'[d] = target[d], State'[target[d]] = State[target[d]]
    PROVE  seen'[d] = seen[d]
<1>1. OpOf(pc[d]) \in {"idle", "create", "destroy", "status"}
    BY Calls DEF IInv, TypeOK
<1> QED BY <1>1, SeenNow

(* What a step does to the facts that seen depends on: an announced exit   *)
(* stays, and comes without a change of the table; an ID that was returned *)
(* stays so, and callers take no others.                                   *)
Persisting ==
    /\ Issued \subseteq Issued'
    /\ \A k \in done : k \in done' /\ processState'[k] = processState[k]
    /\ done' # done => processes' = processes

Following(d) ==
    /\ pc'[d] = "poll" => /\ target'[d] = target[d]
                          /\ pc[d] = "poll" \/ target[d] \in processes'
    /\ pc'[d] # "insert" => \/ target'[d] \in Issued' \cup {Unknown}
                            \/ pc[d] # "insert" /\ target'[d] = target[d]

LEMMA Changes ==
    ASSUME IInv, IInv', Next
    PROVE  Persisting /\ \A d \in Caller : Following(d)
<1> USE DEF Persisting, Following
<1>1. ASSUME NEW c \in Caller, Enter(c) PROVE Persisting /\ \A d \in Caller : Following(d)
    <2>1. CASE CallCreate(c)
        <3>1. Issued' = Issued
            BY <2>1, CallerMoves DEF CallCreate, Call, IInv, entries
        <3> QED BY <2>1, <3>1 DEF CallCreate, Call, Goto, IInv, TypeOK, entries
    <2>2. ASSUME NEW k \in Ids, CallDestroy(c, k) \/ CallStatus(c, k)
          PROVE  Persisting /\ \A d \in Caller : Following(d)
        <3>1. Issued' = Issued
            BY <2>2, CallerMoves DEF CallDestroy, CallStatus, Call, IInv, TypeOK, entries
        <3> QED BY <2>2, <3>1 DEF CallDestroy, CallStatus, Call, Goto, IInv, TypeOK, entries
    <2> QED BY <1>1, <2>1, <2>2 DEF Enter, Ids
<1>2. ASSUME NEW c \in Caller, Proceed(c) PROVE Persisting /\ \A d \in Caller : Following(d)
    <2>1. ASSUME NEW k \in Kernel, CreateStart(c, k)
          PROVE  Persisting /\ \A d \in Caller : Following(d)
        <3>1. Issued' = Issued
            BY <2>1, StartState
        <3> QED BY <2>1, <3>1 DEF CreateStart, Goto, IInv, TypeOK, entries
    <2>2. CASE CreateInsert(c)
        <3>1. Issued' = Issued \cup {target[c]}
            BY <2>2, InsertState
        <3> QED BY <2>2, <3>1 DEF CreateInsert, Return, Goto, IInv, TypeOK
    <2>3. CASE DestroyDelete(c)
        <3>1. Issued' = Issued
            BY <2>3, DeleteState
        <3> QED BY <2>3, <3>1 DEF DestroyDelete, Return, Goto, IInv, TypeOK
    <2>4. CASE DestroyKill(c)
        <3>1. Issued' = Issued
            BY <2>4, IssuedKept DEF DestroyKill, Goto, IInv, TypeOK
        <3> QED BY <2>4, <3>1 DEF DestroyKill, Goto, IInv, TypeOK, entries
    <2>5. CASE \/ CreateFails(c) \/ DestroyNotFound(c) \/ DestroyFound(c) \/ DestroyKillFails(c)
               \/ DestroyAlreadyExited(c) \/ DestroyError(c) \/ DestroyWait(c)
               \/ StatusNotFound(c) \/ StatusExited(c) \/ StatusRunning(c)
        <3> USE DEF CreateFails, DestroyNotFound, DestroyFound, DestroyKillFails,
                    DestroyAlreadyExited, DestroyError, DestroyWait,
                    StatusNotFound, StatusExited, StatusRunning
        <3>1. Issued' = Issued
            BY <2>5, IssuedKept DEF Return, Goto, IInv, TypeOK, child
        <3> QED BY <2>5, <3>1 DEF Return, Goto, IInv, TypeOK, entries
    <2>6. CASE StatusFound(c)
        <3>1. Issued' = Issued
            BY <2>6, CallerMoves DEF StatusFound, IInv, entries
        <3> QED BY <2>6, <3>1 DEF StatusFound, Goto, IInv, TypeOK, entries
    <2> QED BY <1>2, <2>1, <2>2, <2>3, <2>4, <2>5, <2>6 DEF Proceed
<1>3. ASSUME NEW k \in Kernel,
             Reaper(k) \/ ChildExits(k) \/ ChildKilled(k) \/ CancelContext(k) \/ WatchContext(k)
      PROVE  Persisting /\ \A d \in Caller : Following(d)
    <2>1. CASE ReaperWait(k)
        <3>1. Issued' = Issued
            BY <2>1, IssuedKept DEF ReaperWait, IInv, TypeOK, callers
        <3>2. k \notin done
            BY <2>1 DEF ReaperWait, IInv, ChildInv
        <3> QED BY <2>1, <3>1, <3>2 DEF ReaperWait, IInv, TypeOK, callers
    <2>2. CASE ReaperClose(k)
        <3>1. Issued' = Issued
            BY <2>2, CloseState
        <3> QED BY <2>2, <3>1 DEF ReaperClose, callers
    <2>3. CASE ChildExits(k) \/ ChildKilled(k) \/ CancelContext(k) \/ WatchContext(k)
        <3>1. Issued' = Issued
            BY <2>3, IssuedKept
            DEF ChildExits, ChildKilled, ChildEnds, CancelContext, WatchContext, IInv, TypeOK, callers
        <3> QED BY <2>3, <3>1
            DEF ChildExits, ChildKilled, ChildEnds, CancelContext, WatchContext, entries, callers
    <2> QED BY <1>3, <2>1, <2>2, <2>3 DEF Reaper
<1> QED BY <1>1, <1>2, <1>3 DEF Next

LEMMA SeenStep ==
    ASSUME IInv, IInv', SeenInv, Next, Observe
    PROVE  SeenInv'
<1>1. seen' \in [Caller -> SUBSET (Status \cup {Reply("absent"), Reply("gone")})]
    BY Observed DEF States, Absent, Gone
<1>2. ASSUME NEW d \in Caller, OpOf(pc'[d]) \in {"idle", "create"} PROVE seen'[d] = {}
    BY <1>2, Observed
<1>3. ASSUME NEW d \in Caller, OpOf(pc'[d]) \in {"destroy", "status"}
      PROVE  TargetState(d)' \in seen'[d]
    BY <1>3, Observed, TargetStateNext DEF TargetStates
<1>4. ASSUME NEW d \in Caller, pc'[d] = "poll", target'[d] \in done'
      PROVE  Exited(processState'[target'[d]]) \in seen'[d]
    <2> DEFINE k == target'[d]
    <2>1. k \in Issued' /\ k \in Kernel /\ processState'[k] = status'[k]
        BY <1>4 DEF IInv, TypeOK, CallerInv, ChildInv, Held, Issued
    <2>2. seen'[d] = (IF pc[d] = "idle" THEN {} ELSE seen[d]) \cup {State'[k]}
        BY <1>4, Observed, OpOfLabel
    <2>3. CASE k \in processes'
        <3>1. State'[k] = Exited(status'[k])
            BY <1>4, <2>1, <2>3, StateAtNext DEF StateFacts
        <3> QED BY <2>1, <2>2, <3>1
    <2>4. CASE k \notin processes'
        <3>1. pc[d] = "poll" /\ target[d] = k
            BY <1>4, <2>4, Changes DEF Following
        <3>2. CASE k \in done
            <4>1. processState'[k] = processState[k]
                BY <3>2, Changes DEF Persisting
            <4>2. Exited(processState[k]) \in seen[d]
                BY <3>1, <3>2 DEF SeenInv
            <4> QED BY <2>2, <3>1, <4>1, <4>2
        <3>3. CASE k \notin done
            <4>1. k \notin processes
                BY <1>4, <2>4, <3>3, Changes DEF Persisting
            <4>2. k \in Issued
                BY <3>1 DEF IInv, CallerInv, Held
            <4> QED BY <2>1, <3>3, <4>1, <4>2 DEF IInv, NoOrphan, Issued
        <3> QED BY <3>2, <3>3
    <2> QED BY <2>3, <2>4
<1>5. ASSUME NEW d \in Caller, pc'[d] # "insert" PROVE target'[d] \in Issued' \cup {Unknown}
    BY <1>5, Changes DEF Persisting, Following, SeenInv
<1> QED BY <1>1, <1>2, <1>3, <1>4, <1>5 DEF SeenInv

-----------------------------------------------------------------------------
(***************************************************************************)
(* Each step as one of the interface.                                      *)
(***************************************************************************)
(* A step that no caller can see. *)
LEMMA Silent ==
    ASSUME IInv, IInv', SeenInv, Observe, State' = State, UNCHANGED <<target, answer>>,
           \A d \in Caller : OpOf(pc'[d]) = OpOf(pc[d])
    PROVE  UNCHANGED Runtime!vars
<1>1. \A d \in Caller : seen'[d] = seen[d]
    BY SeenSame
<1>2. seen' = seen
    BY <1>1, Observed DEF SeenInv
<1>3. Ops' = Ops
    BY DEF Ops
<1> QED BY <1>2, <1>3, Mapped DEF Ops, Runtime!vars

(* The start of a call. *)
LEMMA Beginning ==
    ASSUME IInv, IInv', SeenInv, Observe, NEW c \in Caller, NEW label \in Label,
           Call(c, label), label \notin {"idle", "insert"}, NEW k \in Ids,
           target' = [target EXCEPT ![c] = k]
    PROVE  Runtime!Begin(c, OpOf(label), k)
<1>1. State' = State
    BY CallerMoves DEF Call, IInv, TypeOK, entries
<1>2. Ops[c] = "idle" /\ Ops' = [Ops EXCEPT ![c] = OpOf(label)]
    BY OpOfLabel DEF Ops, Call, Goto, IInv, TypeOK
<1>3. \A d \in Caller \ {c} : seen'[d] = seen[d]
    BY <1>1, SeenSame DEF Call, Goto, IInv, TypeOK
<1>4. seen'[c] = IF OpOf(label) = "create" THEN {} ELSE {State[k]}
    BY <1>1, Observed, Calls DEF Call, Goto, IInv, TypeOK
<1>5. seen' = [seen EXCEPT ![c] = IF OpOf(label) = "create" THEN {} ELSE {State[k]}]
    BY <1>3, <1>4, Observed DEF SeenInv
<1>6. answer' = [answer EXCEPT ![c] = Runtime!Reply("none")]
    BY DEF Call, Runtime!Reply, Reply, Runtime!NoCode, NoCode
<1> QED BY <1>1, <1>2, <1>5, <1>6, Mapped DEF Ops, Runtime!Begin

(* A call that returns without a change of any kernel. *)
LEMMA Returning ==
    ASSUME IInv, IInv', SeenInv, Observe, NEW c \in Caller, NEW from \in Label, NEW reply,
           from # "insert", Return(c, from, reply),
           UNCHANGED <<child, entries, target>>
    PROVE  Runtime!Return(c, OpOf(from), reply)
<1>1. State' = State
    BY CallerMoves DEF Return, entries, IInv
<1>2. Ops[c] = OpOf(from) /\ Ops' = [Ops EXCEPT ![c] = "idle"]
    BY OpOfLabel DEF Ops, Return, Goto, IInv, TypeOK
<1>3. \A d \in Caller \ {c} : seen'[d] = seen[d]
    BY <1>1, SeenSame DEF Return, Goto, IInv, TypeOK
<1>4. seen'[c] = {}
    BY Observed, OpOfLabel DEF Return, Goto, IInv, TypeOK
<1>5. seen' = [seen EXCEPT ![c] = {}]
    BY <1>3, <1>4, Observed DEF SeenInv
<1> QED BY <1>1, <1>2, <1>5, Mapped DEF Ops, Runtime!Return, Runtime!End, Return

(* A change of a kernel: the calls about it see it, those that end do not. *)
LEMMA Becoming ==
    ASSUME IInv, IInv', SeenInv, Observe, NEW k \in Kernel, NEW s,
           State' = [State EXCEPT ![k] = s],
           NEW ending \in SUBSET Caller, \A d \in ending : pc'[d] = "idle",
           UNCHANGED target,
           \A d \in Caller \ ending : OpOf(pc'[d]) = OpOf(pc[d])
    PROVE  Runtime!Become(k, s, ending)
<1>1. State \in [Ids -> States] /\ k \in Ids /\ \A d \in Caller : target[d] \in Ids
    BY StateAt DEF StateFacts, Ids, IInv, TypeOK
<1>2. [l \in Kernel |-> State'[l]] = [[l \in Kernel |-> State[l]] EXCEPT ![k] = s]
    BY <1>1 DEF Ids
<1>3. \A d \in ending : seen'[d] = {}
    BY Observed, OpOfLabel
<1>4. \A d \in Caller \ ending :
        seen'[d] = IF OpOf(pc[d]) \in {"destroy", "status"} /\ target[d] = k
                   THEN seen[d] \cup {s} ELSE seen[d]
    <2> SUFFICES ASSUME NEW d \in Caller \ ending
                 PROVE  seen'[d] = IF OpOf(pc[d]) \in {"destroy", "status"} /\ target[d] = k
                                   THEN seen[d] \cup {s} ELSE seen[d]
        OBVIOUS
    <2>1. OpOf(pc[d]) \in {"idle", "create", "destroy", "status"}
        BY Calls DEF IInv, TypeOK
    <2>2. CASE target[d] # k
        BY <1>1, <2>2, SeenSame
    <2>3. CASE target[d] = k
        BY <1>1, <2>1, <2>3, SeenNow
    <2> QED BY <2>2, <2>3
<1>5. seen' = [d \in Caller |->
                IF d \in ending THEN {}
                ELSE IF Ops[d] \in {"destroy", "status"} /\ target[d] = k THEN seen[d] \cup {s}
                ELSE seen[d]]
    BY <1>3, <1>4, Observed DEF Ops
<1> QED BY <1>2, <1>5, Mapped DEF Ops, Runtime!Become

(* The values of the two modules are the same. *)
LEMMA Values ==
    /\ \A t : Runtime!Reply(t) = Reply(t)
    /\ \A x : Runtime!Exited(x) = Exited(x)
    /\ Runtime!Absent = Absent /\ Runtime!Gone = Gone /\ Runtime!Running = Running
    /\ Runtime!ExitStatus = ExitStatus
    /\ Runtime!Status = Status
<1>1. \A t : Runtime!Reply(t) = Reply(t)
    BY DEF Runtime!Reply, Reply, Runtime!NoCode, NoCode
<1>2. \A x : Runtime!Exited(x) = Exited(x)
    BY DEF Runtime!Exited, Exited
<1>3. Runtime!ExitStatus = ExitStatus
    BY DEF Runtime!ExitStatus, ExitStatus, Runtime!KilledCode, KilledCode
<1>4. Runtime!Absent = Absent /\ Runtime!Gone = Gone /\ Runtime!Running = Running
    BY <1>1 DEF Runtime!Absent, Absent, Runtime!Gone, Gone, Runtime!Running, Running
<1>5. Runtime!Status = Status
    BY <1>2, <1>3, <1>4 DEF Runtime!Status, Status
<1> QED BY <1>1, <1>2, <1>3, <1>4, <1>5

(* What a caller may answer: not found if the entry is not there, running  *)
(* if it is and done is open, the exit if done is closed.                  *)
LEMMA Answerable ==
    ASSUME IInv, SeenInv, NEW c \in Caller
    PROVE  /\ pc[c] \in {"lookupDestroy", "lookupStatus"} /\ target[c] \notin processes
                => seen[c] \cap {Absent, Gone} # {}
           /\ pc[c] \in Held /\ target[c] \notin done => State[target[c]] = Running
           /\ pc[c] = "poll" /\ target[c] \notin done => Running \in seen[c]
           /\ pc[c] = "poll" /\ target[c] \in done => Exited(processState[target[c]]) \in seen[c]
<1>1. TargetState(c) = State[target[c]]
    BY TargetStateAt DEF TargetStates
<1>2. pc[c] \in Held \cup {"lookupDestroy", "lookupStatus"} => State[target[c]] \in seen[c]
    BY <1>1, OpOfLabel DEF SeenInv, Held
<1>3. target[c] \in Ids
    BY DEF IInv, TypeOK, Ids
<1>4. pc[c] \in Held /\ target[c] \notin done => State[target[c]] = Running
    BY StateAt DEF StateFacts, IInv, CallerInv, NoOrphan, Issued
<1>5. target[c] \notin processes => State[target[c]] \in {Absent, Gone}
    BY <1>3, StateAt DEF StateFacts, Ids
<1>6. pc[c] = "poll" /\ target[c] \in done => Exited(processState[target[c]]) \in seen[c]
    BY DEF SeenInv
<1>7. pc[c] \in {"lookupDestroy", "lookupStatus"} /\ target[c] \notin processes
        => seen[c] \cap {Absent, Gone} # {}
    BY <1>2, <1>5
<1>8. pc[c] = "poll" /\ target[c] \notin done => Running \in seen[c]
    BY <1>2, <1>4 DEF Held
<1> QED BY <1>4, <1>6, <1>7, <1>8

LEMMA StepRefines ==
    ASSUME IInv, IInv', SeenInv, Next, Observe
    PROVE  Runtime!Next \/ UNCHANGED Runtime!vars
<1>1. ASSUME NEW c \in Caller, Enter(c) PROVE Runtime!Next
    <2>1. CASE CallCreate(c)
        <3>1. target' = [target EXCEPT ![c] = target[c]] /\ target[c] \in Ids
            BY <2>1 DEF CallCreate, IInv, TypeOK, Ids
        <3>2. Runtime!Begin(c, "create", target[c])
            BY <2>1, <3>1, Beginning, OpOfLabel DEF CallCreate, Label
        <3> QED BY <3>2 DEF Runtime!Next
    <2>2. ASSUME NEW k \in Ids, CallDestroy(c, k) PROVE Runtime!Next
        <3>1. Runtime!Begin(c, "destroy", k)
            BY <2>2, Beginning, OpOfLabel DEF CallDestroy, Label
        <3> QED BY <3>1 DEF Runtime!Next, Ids
    <2>3. ASSUME NEW k \in Ids, CallStatus(c, k) PROVE Runtime!Next
        <3>1. Runtime!Begin(c, "status", k)
            BY <2>3, Beginning, OpOfLabel DEF CallStatus, Label
        <3> QED BY <3>1 DEF Runtime!Next, Ids
    <2> QED BY <1>1, <2>1, <2>2, <2>3 DEF Enter, Ids
<1>2. ASSUME NEW c \in Caller, Proceed(c) PROVE Runtime!Next \/ UNCHANGED Runtime!vars
    <2>1. CASE CreateFails(c)
        <3>1. Runtime!Return(c, "create", Reply("errRuntime"))
            BY <2>1, Returning, OpOfLabel DEF CreateFails, Label
        <3> QED BY <3>1, Values DEF Runtime!Next, Runtime!CreateFails
    <2>2. ASSUME NEW k \in Kernel, CreateStart(c, k) PROVE Runtime!Next
        <3>1. State' = State /\ State[k] = Absent
            BY <2>2, StartState
        <3>2. target[c] # k
            BY <2>2, UnknownAssumption DEF CreateStart, Goto, SeenInv, Issued
        <3>3. Ops[c] = "create" /\ Ops' = Ops
            BY <2>2, OpOfLabel DEF Ops, CreateStart, Goto, IInv, TypeOK
        <3>4. \A d \in Caller : seen'[d] = seen[d]
            <4>1. \A d \in Caller \ {c} : seen'[d] = seen[d]
                BY <2>2, <3>1, SeenSame DEF CreateStart, Goto, IInv, TypeOK
            <4>2. seen'[c] = {} /\ seen[c] = {}
                BY <2>2, Observed, OpOfLabel DEF SeenInv, CreateStart, Goto, IInv, TypeOK
            <4> QED BY <4>1, <4>2
        <3>5. seen' = seen
            BY <3>4, Observed DEF SeenInv
        <3>6. Runtime!Draw(c, k)
            BY <2>2, <3>1, <3>2, <3>3, <3>5, Mapped, Values DEF Ops, Runtime!Draw, CreateStart
        <3> QED BY <3>6 DEF Runtime!Next
    <2>3. CASE CreateInsert(c)
        <3>1. PICK s \in Status : State' = [State EXCEPT ![target[c]] = s]
            BY <2>3, InsertState
        <3>2. target[c] \in Kernel /\ State[target[c]] = Absent
            BY <2>3, InsertState
        <3>3. Runtime!Become(target[c], s, {c})
            BY <2>3, <3>1, <3>2, Becoming DEF CreateInsert, Return, Goto, IInv, TypeOK
        <3>4. Runtime!End(c, "create", Reply("created"))
            BY <2>3, OpOfLabel DEF Ops, Runtime!End, CreateInsert, Return, Goto, IInv, TypeOK
        <3>5. Runtime!Created(c)
            BY <2>3, <3>2, <3>3, <3>4, Mapped, Values DEF Runtime!Created, CreateInsert, Ids
        <3> QED BY <3>5 DEF Runtime!Next
    <2>4. CASE DestroyNotFound(c)
        <3>1. Runtime!Return(c, "destroy", Reply("notFound"))
            BY <2>4, Returning, OpOfLabel DEF DestroyNotFound, Label
        <3>2. seen[c] \cap {Absent, Gone} # {}
            BY <2>4, Answerable DEF DestroyNotFound, Return, Goto
        <3> QED BY <3>1, <3>2, Values DEF Runtime!Next, Runtime!NotFound
    <2>5. CASE DestroyFound(c) \/ DestroyAlreadyExited(c) \/ DestroyKillFails(c) \/ DestroyWait(c)
        <3>1. State' = State
            BY <2>5, CallerMoves
            DEF DestroyFound, DestroyAlreadyExited, DestroyKillFails, DestroyWait, entries, IInv
        <3> QED BY <2>5, <3>1, Silent, OpOfLabel
            DEF DestroyFound, DestroyAlreadyExited, DestroyKillFails, DestroyWait, Goto, IInv, TypeOK
    <2>6. CASE DestroyKill(c)
        <3>1. Issued' = Issued
            BY <2>6, IssuedKept DEF DestroyKill, Goto, IInv, TypeOK
        <3>2. State' = State
            BY <2>6, <3>1, StateKept DEF DestroyKill, entries
        <3> QED BY <2>6, <3>2, Silent, OpOfLabel DEF DestroyKill, Goto, IInv, TypeOK
    <2>7. CASE DestroyError(c)
        <3>1. Runtime!Return(c, "destroy", Reply("errRuntime"))
            BY <2>7, Returning, OpOfLabel DEF DestroyError, Label
        <3>2. State[target[c]] = Running /\ target[c] \in Ids
            BY <2>7, Answerable DEF DestroyError, Return, Goto, Held, IInv, TypeOK, Ids
        <3> QED BY <3>1, <3>2, Mapped, Values DEF Runtime!Next, Runtime!DestroyFails
    <2>8. CASE DestroyDelete(c)
        <3>1. target[c] \in Kernel /\ State[target[c]] \notin {Absent, Running}
            BY <2>8, DeleteState
        <3>2. State' = [State EXCEPT ![target[c]] = Gone]
            BY <2>8, DeleteState
        <3>3. Runtime!Become(target[c], Gone, {c})
            <4>1. \A d \in Caller \ {c} : pc'[d] = pc[d]
                BY <2>8 DEF DestroyDelete, Return, Goto, IInv, TypeOK
            <4>2. pc'[c] = "idle" /\ target' = target
                BY <2>8 DEF DestroyDelete, Return, Goto, IInv, TypeOK
            <4> QED BY <3>1, <3>2, <4>1, <4>2, Becoming
        <3>4. Runtime!End(c, "destroy", Reply("ok"))
            BY <2>8, OpOfLabel DEF Ops, Runtime!End, DestroyDelete, Return, Goto, IInv, TypeOK
        <3>5. Runtime!Destroyed(c)
            BY <2>8, <3>1, <3>3, <3>4, Mapped, Values DEF Runtime!Destroyed, DestroyDelete, Ids
        <3> QED BY <3>5 DEF Runtime!Next
    <2>9. CASE StatusNotFound(c)
        <3>1. Runtime!Return(c, "status", Reply("notFound"))
            BY <2>9, Returning, OpOfLabel DEF StatusNotFound, Label
        <3>2. seen[c] \cap {Absent, Gone} # {}
            BY <2>9, Answerable DEF StatusNotFound, Return, Goto
        <3> QED BY <3>1, <3>2, Values DEF Runtime!Next, Runtime!NotFound
    <2>10. CASE StatusFound(c)
        <3>1. State' = State
            BY <2>10, CallerMoves DEF StatusFound, entries, IInv
        <3> QED BY <2>10, <3>1, Silent, OpOfLabel DEF StatusFound, Goto, IInv, TypeOK
    <2>11. CASE StatusExited(c)
        <3>1. target[c] \in done /\ processState[target[c]] \in ExitStatus
            BY <2>11 DEF StatusExited, IInv, ChildInv, TypeOK
        <3>2. Runtime!Return(c, "status", Exited(processState[target[c]]))
            BY <2>11, <3>1, Returning, OpOfLabel, StatusValues DEF StatusExited, Label
        <3>3. Exited(processState[target[c]]) \in seen[c] \cap Status
            BY <2>11, <3>1, Answerable, StateTags DEF StatusExited, Return, Goto
        <3> QED BY <3>2, <3>3, Values DEF Runtime!Next, Runtime!StatusAnswers
    <2>12. CASE StatusRunning(c)
        <3>1. Runtime!Return(c, "status", Running)
            BY <2>12, Returning, OpOfLabel DEF StatusRunning, Label
        <3>2. Running \in seen[c] \cap Status
            BY <2>12, Answerable, StateTags DEF StatusRunning, Return, Goto
        <3> QED BY <3>1, <3>2, Values DEF Runtime!Next, Runtime!StatusAnswers
    <2> QED BY <1>2, <2>1, <2>2, <2>3, <2>4, <2>5, <2>6, <2>7, <2>8, <2>9, <2>10, <2>11, <2>12
        DEF Proceed
<1>3. ASSUME NEW k \in Kernel,
             Reaper(k) \/ ChildExits(k) \/ ChildKilled(k) \/ CancelContext(k) \/ WatchContext(k)
      PROVE  Runtime!Next \/ UNCHANGED Runtime!vars
    <2>0. UNCHANGED <<pc, target, answer>>
        BY <1>3 DEF Reaper, ReaperWait, ReaperClose, ChildExits, ChildKilled, ChildEnds,
                    CancelContext, WatchContext, callers
    <2>1. CASE ~ReaperClose(k)
        <3>1. Issued' = Issued
            BY <1>3, <2>0, <2>1, IssuedKept
            DEF Reaper, ReaperWait, ChildExits, ChildKilled, ChildEnds, CancelContext, WatchContext,
                IInv, TypeOK
        <3>2. processes' = processes /\ done' = done
            BY <1>3, <2>1
            DEF Reaper, ReaperWait, ChildExits, ChildKilled, ChildEnds, CancelContext, WatchContext,
                entries
        <3>3. State' = State
            BY <1>3, <3>1, <3>2, StateKept, Changes DEF Persisting
        <3> QED BY <2>0, <3>3, Silent
    <2>2. CASE ReaperClose(k) /\ State' = State
        BY <2>0, <2>2, Silent
    <2>3. CASE ReaperClose(k) /\ State' # State
        <3>1. /\ State[k] = Running /\ status[k] \in ExitStatus
              /\ State' = [State EXCEPT ![k] = Exited(status[k])]
            BY <2>3, CloseState
        <3>2. Runtime!Become(k, Exited(status[k]), {})
            BY <2>0, <3>1, Becoming
        <3>3. Runtime!Exit(k, status[k])
            BY <2>0, <3>1, <3>2, Mapped, Values DEF Runtime!Exit, Ids
        <3> QED BY <3>1, <3>3, Values DEF Runtime!Next
    <2> QED BY <2>1, <2>2, <2>3
<1> QED BY <1>1, <1>2, <1>3 DEF Next

-----------------------------------------------------------------------------
(* Observing changes nothing that is observed. *)
LEMMA ObservedNext == [Next /\ Observe]_ObservedVars => [Next]_vars
BY DEF ObservedVars

(* What callers have seen is as SeenInv says, for any number of them. *)
THEOREM SeenInvHolds == ObservedSpec => []SeenInv
<1>1. Init /\ seen = [c \in Caller |-> {}] => SeenInv
    BY OpOfLabel DEF Init, SeenInv, Issued
<1>2. ObservedSpec => Spec
    BY ObservedNext, PTL DEF ObservedSpec, Spec
<1>3. IInv /\ IInv' /\ SeenInv /\ [Next /\ Observe]_ObservedVars => SeenInv'
    <2>1. CASE UNCHANGED ObservedVars
        BY <2>1 DEF ObservedVars, vars, child, entries, callers, SeenInv, TargetState, StateOf,
                    Issued, Pending
    <2> QED BY <2>1, SeenStep
<1> QED BY <1>1, <1>2, <1>3, Inductive, PTL DEF ObservedSpec

(* LocalProcess implements KernelRuntime: a kernel is only destroyed once  *)
(* it has exited and never comes back, and what a call answers was true of *)
(* the kernel at some moment of the call, whoever calls at the same time.  *)
THEOREM ImplementsRuntimeHolds == ObservedSpec => ImplementsRuntime
<1>1. Init /\ seen = [c \in Caller |-> {}] => Runtime!Init
    BY OpOfLabel, Values, UnknownAssumption
    DEF Init, Runtime!Init, StateOf, Issued, Absent
<1>2. ObservedSpec => Spec
    BY ObservedNext, PTL DEF ObservedSpec, Spec
<1>3. IInv /\ IInv' /\ SeenInv /\ [Next /\ Observe]_ObservedVars => [Runtime!Next]_Runtime!vars
    <2>1. CASE UNCHANGED ObservedVars
        BY <2>1 DEF ObservedVars, vars, child, entries, callers, StateOf, Issued, Pending, Runtime!vars
    <2> QED BY <2>1, StepRefines
<1> QED BY <1>1, <1>2, <1>3, Inductive, SeenInvHolds, PTL
    DEF ObservedSpec, ImplementsRuntime, Runtime!Spec
=============================================================================
