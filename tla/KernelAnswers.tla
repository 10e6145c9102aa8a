---------------------------- MODULE KernelAnswers ----------------------------
(***************************************************************************)
(* The values the operations of kernel.Runtime answer with                 *)
(* (src/internal/common/kernel/kernel.go): a nil error, one of the errors, *)
(* or a Status.                                                            *)
(***************************************************************************)
EXTENDS Integers

CONSTANT Code       \* exit codes a process may end with on its own

ASSUME CodeAssumption == Code \subseteq Nat

KilledCode == -1    \* ExitCode of a process ended by a signal
NoCode     == -2    \* no exit status yet

ExitStatus == Code \cup {KilledCode}

Reply(tag)   == [tag |-> tag, code |-> NoCode]
Exited(code) == [tag |-> "exited", code |-> code]

Running      == Reply("running")

(* The statuses a kernel can have while it is known to the runtime. *)
Status == {Running} \cup { Exited(x) : x \in ExitStatus }

Answer == { Reply(t) : t \in {"none", "created", "ok", "notFound", "errRuntime"} } \cup Status
=============================================================================
