---------------------------- MODULE LocalProcess ----------------------------
(***************************************************************************)
(* The agent's LocalProcess runtime, src/internal/agent/local_process.go:  *)
(* an in-memory table of child processes, used by any number of concurrent *)
(* callers (goroutines that call Create, Destroy and Status), with one     *)
(* reaper goroutine per child and the operating system underneath.         *)
(*                                                                         *)
(* Every section the code runs under lp.mu touches only the table, so each *)
(* is one atomic step here.  Everything the code does outside lp.mu (Kill, *)
(* the wait on done, the non-blocking look at done) is a step of its own   *)
(* and interleaves with the other callers, the reaper and the kernel.      *)
(***************************************************************************)
EXTENDS KernelAnswers

CONSTANTS
    Caller,     \* goroutines that use the runtime
    Kernel,     \* kernel.ID values that NewID may draw; never drawn twice
    Unknown,    \* an ID that no Create ever returned
    Privileged  \* children the agent may not signal (a setuid program)

ASSUME UnknownAssumption == Unknown \notin Kernel

ASSUME PrivilegedAssumption == Privileged \subseteq Kernel

VARIABLES
    os,             \* what the operating system knows of the child
    status,         \* the exit status the child ended with
    killed,         \* children with a SIGKILL that is not yet delivered
    cancelled,      \* children whose Create context has been cancelled
    processState,   \* cmd.ProcessState, filled in by cmd.Wait
    done,           \* entries whose done channel is closed
    processes,      \* the IDs in lp.processes
    pc,             \* where each caller is
    target,         \* the ID each caller works on
    answer          \* what each caller's last call returned

child   == <<os, status, killed, cancelled>>
entries == <<processState, done, processes>>
callers == <<pc, target, answer>>
vars    == <<child, entries, callers>>

-----------------------------------------------------------------------------

OSState == {"none", "alive", "zombie", "reaped"}

Label == {"idle", "start", "insert",
          "lookupDestroy", "kill", "killFailed", "waitDone", "delete",
          "lookupStatus", "poll"}

TypeOK ==
    /\ os \in [Kernel -> OSState]
    /\ status \in [Kernel -> ExitStatus \cup {NoCode}]
    /\ killed \subseteq Kernel
    /\ cancelled \subseteq Kernel
    /\ processState \in [Kernel -> ExitStatus \cup {NoCode}]
    /\ done \subseteq Kernel
    /\ processes \subseteq Kernel
    /\ pc \in [Caller -> Label]
    /\ target \in [Caller -> Kernel \cup {Unknown}]
    /\ answer \in [Caller -> Answer]

Init ==
    /\ os = [k \in Kernel |-> "none"]
    /\ status = [k \in Kernel |-> NoCode]
    /\ killed = {}
    /\ cancelled = {}
    /\ processState = [k \in Kernel |-> NoCode]
    /\ done = {}
    /\ processes = {}
    /\ pc = [c \in Caller |-> "idle"]
    /\ target = [c \in Caller |-> Unknown]
    /\ answer = [c \in Caller |-> Reply("none")]

-----------------------------------------------------------------------------
(***************************************************************************)
(* Moving a caller along, and letting its call return.                     *)
(***************************************************************************)
Goto(c, from, to) ==
    /\ pc[c] = from
    /\ pc' = [pc EXCEPT ![c] = to]

Return(c, from, reply) ==
    /\ Goto(c, from, "idle")
    /\ answer' = [answer EXCEPT ![c] = reply]

Call(c, label) ==
    /\ Goto(c, "idle", label)
    /\ answer' = [answer EXCEPT ![c] = Reply("none")]
    /\ UNCHANGED <<child, entries>>

(***************************************************************************)
(* Create.                                                                 *)
(***************************************************************************)
CallCreate(c) ==
    /\ Call(c, "start")
    /\ UNCHANGED target

\* The command is empty, or cmd.Start fails (no such program, or the
\* context is cancelled already): nothing was started.
CreateFails(c) ==
    /\ Return(c, "start", Reply("errRuntime"))
    /\ UNCHANGED <<child, entries, target>>

\* cmd.Start succeeds, the ID is drawn and the reaper is on its way.
CreateStart(c, k) ==
    /\ Goto(c, "start", "insert")
    /\ os[k] = "none"
    /\ os' = [os EXCEPT ![k] = "alive"]
    /\ target' = [target EXCEPT ![c] = k]
    /\ UNCHANGED <<status, killed, cancelled, entries, answer>>

CreateInsert(c) ==
    /\ Return(c, "insert", Reply("created"))
    /\ processes' = processes \cup {target[c]}
    /\ UNCHANGED <<child, processState, done, target>>

(***************************************************************************)
(* Destroy.  A caller has an ID that some Create returned, or one that no  *)
(* Create ever draws; it cannot guess the ID of a Create under way.        *)
(***************************************************************************)
Pending(k) == \E c \in Caller : pc[c] = "insert" /\ target[c] = k

Issued == { k \in Kernel : os[k] # "none" /\ ~Pending(k) }

CallDestroy(c, k) ==
    /\ k \in Issued \cup {Unknown}
    /\ Call(c, "lookupDestroy")
    /\ target' = [target EXCEPT ![c] = k]

DestroyNotFound(c) ==
    /\ target[c] \notin processes
    /\ Return(c, "lookupDestroy", Reply("notFound"))
    /\ UNCHANGED <<child, entries, target>>

\* Faulty variant: forgets the entry as soon as it is found.
DestroyFoundForgets(c) ==
    /\ target[c] \in processes
    /\ Goto(c, "lookupDestroy", "kill")
    /\ processes' = processes \ {target[c]}
    /\ UNCHANGED <<child, processState, done, target, answer>>

DestroyFound(c) ==
    /\ target[c] \in processes
    /\ Goto(c, "lookupDestroy", "kill")
    /\ UNCHANGED <<child, entries, target, answer>>

\* Faulty variant: the signal is never sent.
DestroyKillNothing(c) ==
    /\ Goto(c, "kill", "waitDone")
    /\ os[target[c]] \in {"alive", "zombie"}
    /\ UNCHANGED <<child, entries, target, answer>>

\* Kill succeeds on a live child and on a zombie, which it leaves alone.
DestroyKill(c) ==
    /\ Goto(c, "kill", "waitDone")
    /\ os[target[c]] \in {"alive", "zombie"}
    /\ target[c] \notin Privileged
    /\ killed' = IF os[target[c]] = "alive" THEN killed \cup {target[c]} ELSE killed
    /\ UNCHANGED <<os, status, cancelled, entries, target, answer>>

\* Faulty variant: forgets the entry whatever the reason of the failure.
DestroyKillFailsForgets(c) ==
    /\ Goto(c, "kill", "killFailed")
    /\ os[target[c]] = "reaped" \/ target[c] \in Privileged
    /\ processes' = processes \ {target[c]}
    /\ UNCHANGED <<child, processState, done, target, answer>>

\* os: process already finished, or the signal is not permitted and the child
\* runs on.
DestroyKillFails(c) ==
    /\ Goto(c, "kill", "killFailed")
    /\ os[target[c]] = "reaped" \/ target[c] \in Privileged
    /\ UNCHANGED <<child, entries, target, answer>>

\* Faulty variant: returns nil without deleting the entry.
DestroyAlreadyExitedKeeps(c) ==
    /\ target[c] \in done
    /\ Return(c, "killFailed", Reply("ok"))
    /\ UNCHANGED <<child, entries, target>>

DestroyAlreadyExited(c) ==
    /\ target[c] \in done
    /\ Goto(c, "killFailed", "delete")
    /\ UNCHANGED <<child, entries, target, answer>>

DestroyError(c) ==
    /\ target[c] \notin done
    /\ Return(c, "killFailed", Reply("errRuntime"))
    /\ UNCHANGED <<child, entries, target>>

\* Faulty variant: does not wait for the reaper.
DestroyWaitNot(c) ==
    /\ Goto(c, "waitDone", "delete")
    /\ UNCHANGED <<child, entries, target, answer>>

DestroyWait(c) ==
    /\ target[c] \in done
    /\ Goto(c, "waitDone", "delete")
    /\ UNCHANGED <<child, entries, target, answer>>

DestroyDelete(c) ==
    /\ Return(c, "delete", Reply("ok"))
    /\ processes' = processes \ {target[c]}
    /\ UNCHANGED <<child, processState, done, target>>

(***************************************************************************)
(* Status.                                                                 *)
(***************************************************************************)
CallStatus(c, k) ==
    /\ k \in Issued \cup {Unknown}
    /\ Call(c, "lookupStatus")
    /\ target' = [target EXCEPT ![c] = k]

StatusNotFound(c) ==
    /\ target[c] \notin processes
    /\ Return(c, "lookupStatus", Reply("notFound"))
    /\ UNCHANGED <<child, entries, target>>

StatusFound(c) ==
    /\ target[c] \in processes
    /\ Goto(c, "lookupStatus", "poll")
    /\ UNCHANGED <<child, entries, target, answer>>

\* Faulty variant: reads ProcessState whether done is closed or not.
StatusExitedUnchecked(c) ==
    /\ Return(c, "poll", Exited(processState[target[c]]))
    /\ UNCHANGED <<child, entries, target>>

\* ExitCode of a nil ProcessState is -1.
StatusExited(c) ==
    /\ target[c] \in done
    /\ LET state == processState[target[c]] IN
       Return(c, "poll", Exited(IF state = NoCode THEN KilledCode ELSE state))
    /\ UNCHANGED <<child, entries, target>>

StatusRunning(c) ==
    /\ target[c] \notin done
    /\ Return(c, "poll", Running)
    /\ UNCHANGED <<child, entries, target>>

-----------------------------------------------------------------------------
(***************************************************************************)
(* The reaper goroutine of child k: cmd.Wait, then close(done).            *)
(***************************************************************************)
\* Faulty variant: no goroutine of its own, a Destroy does the waiting.
ReaperWaitOnDestroy(k) ==
    /\ os[k] = "zombie"
    /\ \E c \in Caller : pc[c] = "waitDone" /\ target[c] = k
    /\ os' = [os EXCEPT ![k] = "reaped"]
    /\ processState' = [processState EXCEPT ![k] = status[k]]
    /\ UNCHANGED <<status, killed, cancelled, done, processes, callers>>

ReaperWait(k) ==
    /\ os[k] = "zombie"
    /\ os' = [os EXCEPT ![k] = "reaped"]
    /\ processState' = [processState EXCEPT ![k] = status[k]]
    /\ UNCHANGED <<status, killed, cancelled, done, processes, callers>>

\* Faulty variant: closes done without waiting for cmd.Wait.
ReaperCloseEarly(k) ==
    /\ os[k] # "none"
    /\ k \notin done
    /\ done' = done \cup {k}
    /\ UNCHANGED <<child, processState, processes, callers>>

ReaperClose(k) ==
    /\ os[k] = "reaped"
    /\ k \notin done
    /\ done' = done \cup {k}
    /\ UNCHANGED <<child, processState, processes, callers>>

(***************************************************************************)
(* The operating system and os/exec: a child ends on its own or by a       *)
(* delivered SIGKILL; the owner of the context cancels it, and the watcher *)
(* of os/exec then kills the child.                                        *)
(***************************************************************************)
ChildEnds(k, x) ==
    /\ os[k] = "alive"
    /\ os' = [os EXCEPT ![k] = "zombie"]
    /\ status' = [status EXCEPT ![k] = x]
    /\ UNCHANGED <<killed, cancelled, entries, callers>>

ChildExits(k) == \E x \in Code : ChildEnds(k, x)

ChildKilled(k) == k \in killed /\ ChildEnds(k, KilledCode)

CancelContext(k) ==
    /\ os[k] # "none"
    /\ k \notin cancelled
    /\ cancelled' = cancelled \cup {k}
    /\ UNCHANGED <<os, status, killed, entries, callers>>

\* Faulty variant: exec.Command in place of exec.CommandContext.
WatchContextDetached(k) == FALSE

WatchContext(k) ==
    /\ k \in cancelled \ (killed \cup Privileged)
    /\ os[k] = "alive"
    /\ killed' = killed \cup {k}
    /\ UNCHANGED <<os, status, cancelled, entries, callers>>

-----------------------------------------------------------------------------

Enter(c) ==
    \/ CallCreate(c)
    \/ \E k \in Kernel \cup {Unknown} : CallDestroy(c, k) \/ CallStatus(c, k)

\* A step of a call under way.
Proceed(c) ==
    \/ CreateFails(c) \/ (\E k \in Kernel : CreateStart(c, k)) \/ CreateInsert(c)
    \/ DestroyNotFound(c) \/ DestroyFound(c)
    \/ DestroyKill(c) \/ DestroyKillFails(c)
    \/ DestroyAlreadyExited(c) \/ DestroyError(c)
    \/ DestroyWait(c) \/ DestroyDelete(c)
    \/ StatusNotFound(c) \/ StatusFound(c)
    \/ StatusExited(c) \/ StatusRunning(c)

Reaper(k) == ReaperWait(k) \/ ReaperClose(k)

Next ==
    \/ \E c \in Caller : Enter(c) \/ Proceed(c)
    \/ \E k \in Kernel : Reaper(k) \/ ChildExits(k) \/ ChildKilled(k)
                         \/ CancelContext(k) \/ WatchContext(k)

Spec == Init /\ [][Next]_vars

(***************************************************************************)
(* Goroutines that can run do run, and a SIGKILL is delivered.  Nothing    *)
(* makes a caller call, a context end or a child end on its own.           *)
(***************************************************************************)
Fairness ==
    /\ \A c \in Caller : WF_vars(Proceed(c))
    /\ \A k \in Kernel : /\ WF_vars(Reaper(k))
                         /\ WF_vars(ChildKilled(k))
                         /\ WF_vars(WatchContext(k))

-----------------------------------------------------------------------------
(***************************************************************************)
(* Properties.                                                             *)
(***************************************************************************)

\* No orphan: a child that the reaper has not finished with is in the table,
\* or its Create is about to put it there.  Destroy may forget a child only
\* after the child is known to be dead, so one that failed, also because the
\* signal was not permitted, can be repeated.
NoOrphan ==
    \A k \in Kernel :
        os[k] # "none" /\ k \notin done => k \in processes \/ Pending(k)

\* Status tells the truth about an ended child: the code it reports is the
\* code the child ended with, and only a reaped child is reported as exited.
ExitCodeTrue ==
    \A c \in Caller :
        pc[c] = "idle" /\ answer[c].tag = "exited" =>
            /\ os[target[c]] = "reaped"
            /\ answer[c].code = status[target[c]]

\* When Destroy returns nil the child is reaped and the ID is unknown from
\* then on, whatever the other callers of Destroy and Create are doing.
DestroyedIsGone ==
    \A c \in Caller :
        pc[c] = "idle" /\ answer[c].tag = "ok" =>
            os[target[c]] = "reaped" /\ target[c] \notin processes

\* The inductive invariant behind the three above.  A child, its reaper and
\* its entry move in step, the IDs being inserted are fresh, and what a caller
\* has learnt about its target stays true while it acts on it.
ChildInv ==
    \A k \in Kernel :
        /\ os[k] \in {"zombie", "reaped"} => status[k] \in ExitStatus
        /\ os[k] = "reaped" => processState[k] = status[k]
        /\ k \in done => os[k] = "reaped"
        /\ k \in processes => os[k] # "none" /\ ~Pending(k)

InsertInv ==
    \A c \in Caller :
        pc[c] = "insert" =>
            /\ target[c] \in Kernel
            /\ os[target[c]] # "none"
            /\ \A d \in Caller : pc[d] = "insert" /\ target[d] = target[c] => d = c

Held == {"kill", "killFailed", "waitDone", "delete", "poll"}

CallerInv ==
    \A c \in Caller :
        /\ pc[c] \in Held => target[c] \in Issued
        /\ pc[c] = "delete" => target[c] \in done
        /\ pc[c] = "idle" /\ answer[c].tag \in {"exited", "ok"} => target[c] \in Issued \cap done

IInv == /\ TypeOK /\ ChildInv /\ InsertInv /\ CallerInv
        /\ NoOrphan /\ ExitCodeTrue /\ DestroyedIsGone

\* Every Destroy returns: the killed child dies, the reaper closes done and
\* the caller that waits for it is released, whoever else destroys the child.
DestroyReturns ==
    \A c \in Caller :
        pc[c] \in {"kill", "waitDone"} ~> pc[c] = "idle"

\* No zombies: an ended child is always reaped and its entry closed, even
\* when nobody ever asks for it again (the reason for the reaper goroutine).
ZombiesAreReaped == \A k \in Kernel : os[k] = "zombie" ~> k \in done

\* Cancelling the context given to Create ends the child, if it can be killed,
\* even if the cancellation falls between cmd.Start and the insertion.
CancelStopsChild == \A k \in Kernel \ Privileged : k \in cancelled ~> k \in done

\* The comment on the failed Kill: "Process may have already exited; not an
\* error."  A Destroy of a child that has exited does not return an error.
ExitedIsNotAnError ==
    [][\A c \in Caller : pc[c] = "killFailed" /\ os[target[c]] = "reaped"
            => answer'[c].tag # "errRuntime"]_vars

=============================================================================
