---------------------------- MODULE KernelRuntime ----------------------------
(***************************************************************************)
(* What kernel.Runtime (src/internal/common/kernel/kernel.go) promises to  *)
(* its callers, with no process, no reaper and no lock in sight.  A kernel *)
(* is absent, then running, then exited with one code for good, then gone  *)
(* for good.  Calls overlap; each takes effect somewhere between its start *)
(* and its return: what it answers about a kernel was true of that kernel  *)
(* at some moment of the call.                                             *)
(***************************************************************************)
EXTENDS KernelAnswers

CONSTANTS Caller, Kernel, Unknown

VARIABLES
    state,      \* the state of each kernel
    op,         \* what each caller is calling, or "idle"
    target,     \* the ID of the call
    seen,       \* the states the target has had since the call started
    answer      \* what the last call returned

vars == <<state, op, target, seen, answer>>

Absent == Reply("absent")
Gone   == Reply("gone")

StateOf(k) == IF k = Unknown THEN Absent ELSE state[k]

Init ==
    /\ state = [k \in Kernel |-> Absent]
    /\ op = [c \in Caller |-> "idle"]
    /\ target = [c \in Caller |-> Unknown]
    /\ seen = [c \in Caller |-> {}]
    /\ answer = [c \in Caller |-> Reply("none")]

-----------------------------------------------------------------------------
(* The calls about a kernel see every change of it; a call that ends does not. *)
Become(k, s, ending) ==
    /\ state' = [state EXCEPT ![k] = s]
    /\ seen' = [c \in Caller |->
                  IF c \in ending THEN {}
                  ELSE IF op[c] \in {"destroy", "status"} /\ target[c] = k THEN seen[c] \cup {s}
                  ELSE seen[c]]

Begin(c, o, k) ==
    /\ op[c] = "idle"
    /\ op' = [op EXCEPT ![c] = o]
    /\ target' = [target EXCEPT ![c] = k]
    /\ seen' = [seen EXCEPT ![c] = IF o = "create" THEN {} ELSE {StateOf(k)}]
    /\ answer' = [answer EXCEPT ![c] = Reply("none")]
    /\ UNCHANGED state

End(c, o, reply) ==
    /\ op[c] = o
    /\ op' = [op EXCEPT ![c] = "idle"]
    /\ answer' = [answer EXCEPT ![c] = reply]

Return(c, o, reply) ==
    /\ End(c, o, reply)
    /\ seen' = [seen EXCEPT ![c] = {}]
    /\ UNCHANGED <<state, target>>

(* Create draws the ID, and later returns it: the kernel exists from then on. *)
Draw(c, k) ==
    /\ op[c] = "create"
    /\ target[c] # k
    /\ state[k] = Absent
    /\ target' = [target EXCEPT ![c] = k]
    /\ UNCHANGED <<state, op, seen, answer>>

Created(c) ==
    /\ End(c, "create", Reply("created"))
    /\ StateOf(target[c]) = Absent
    /\ \E s \in Status : Become(target[c], s, {c})
    /\ UNCHANGED target

CreateFails(c) == Return(c, "create", Reply("errRuntime"))

Exit(k, x) ==
    /\ state[k] = Running
    /\ Become(k, Exited(x), {})
    /\ UNCHANGED <<op, target, answer>>

(* Only an exited kernel is removed, and the call says so when it is gone. *)
Destroyed(c) ==
    /\ End(c, "destroy", Reply("ok"))
    /\ StateOf(target[c]) \notin {Absent, Running}
    /\ Become(target[c], Gone, {c})
    /\ UNCHANGED target

(* A Destroy that fails leaves the kernel as it is, still to be destroyed. *)
DestroyFails(c) == StateOf(target[c]) = Running /\ Return(c, "destroy", Reply("errRuntime"))

NotFound(c, o) ==
    /\ seen[c] \cap {Absent, Gone} # {}
    /\ Return(c, o, Reply("notFound"))

StatusAnswers(c) == \E s \in seen[c] \cap Status : Return(c, "status", s)

Next ==
    \/ \E c \in Caller :
        \/ Begin(c, "create", target[c])
        \/ \E k \in Kernel \cup {Unknown} : Begin(c, "destroy", k) \/ Begin(c, "status", k)
        \/ \E k \in Kernel : Draw(c, k)
        \/ Created(c) \/ CreateFails(c)
        \/ Destroyed(c) \/ DestroyFails(c)
        \/ NotFound(c, "destroy") \/ NotFound(c, "status")
        \/ StatusAnswers(c)
    \/ \E k \in Kernel, x \in ExitStatus : Exit(k, x)

Spec == Init /\ [][Next]_vars
=============================================================================
