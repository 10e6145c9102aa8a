------------------------------- MODULE Ledger -------------------------------
(***************************************************************************)
(* What the run ledger promises to its clients, with no tables, statements *)
(* or transactions: a set of entries that is only ever appended to, one    *)
(* whole entry at a time, and replies that agree with it.                  *)
(***************************************************************************)
CONSTANTS Worker, Project, RunId, Draft, None

VARIABLES
    projects,   \* the projects there are
    entries,    \* the ledger: [run, project, items]
    op,         \* what each worker is doing
    draft, run, \* the request of each worker
    reply,      \* the class of its response
    read        \* the items a GetSpec response carries

vars == <<projects, entries, op, draft, run, reply, read>>

Rejections == {"validationError", "notFound", "internal"}

Idle ==
    /\ op = [w \in Worker |-> "idle"]
    /\ draft = [w \in Worker |-> None]
    /\ run = [w \in Worker |-> None]
    /\ reply = [w \in Worker |-> "none"]
    /\ read = [w \in Worker |-> {}]

Init == projects = {} /\ entries = {} /\ Idle

InLedger(r) == \E e \in entries : e.run = r

-----------------------------------------------------------------------------
Request(w, label, d, r) ==
    /\ op[w] = "idle"
    /\ op' = [op EXCEPT ![w] = label]
    /\ draft' = [draft EXCEPT ![w] = d]
    /\ run' = [run EXCEPT ![w] = r]
    /\ reply' = [reply EXCEPT ![w] = "none"]
    /\ read' = [read EXCEPT ![w] = {}]
    /\ UNCHANGED <<projects, entries>>

Respond(w, label, class, found) ==
    /\ op[w] = label
    /\ op' = [op EXCEPT ![w] = "idle"]
    /\ reply' = [reply EXCEPT ![w] = class]
    /\ read' = [read EXCEPT ![w] = found]
    /\ UNCHANGED <<projects, entries, draft, run>>

(* A body or a run ID that is refused on sight. *)
Refuse(w, class) ==
    /\ op[w] = "idle"
    /\ draft' = [draft EXCEPT ![w] = None]
    /\ run' = [run EXCEPT ![w] = None]
    /\ reply' = [reply EXCEPT ![w] = class]
    /\ read' = [read EXCEPT ![w] = {}]
    /\ UNCHANGED <<projects, entries, op>>

Submit(w, d, r) == ~InLedger(r) /\ Request(w, "submit", d, r)

(* The one moment a Submit takes effect. *)
Append(w) ==
    /\ op[w] = "submit"
    /\ draft[w].project \in projects
    /\ ~InLedger(run[w])
    /\ entries' = entries \cup {[run     |-> run[w],
                                 project |-> draft[w].project,
                                 items   |-> draft[w].items]}
    /\ op' = [op EXCEPT ![w] = "appended"]
    /\ UNCHANGED <<projects, draft, run, reply, read>>

GetSpec(w, r) == (r = None \/ InLedger(r)) /\ Request(w, "get", None, r)

GetSpecFound(w) == \E e \in entries : e.run = run[w] /\ Respond(w, "get", "spec", e.items)

GetSpecMissing(w) == ~InLedger(run[w]) /\ Respond(w, "get", "notFound", {})

Crash ==
    /\ op' = [w \in Worker |-> "idle"]
    /\ draft' = [w \in Worker |-> None]
    /\ run' = [w \in Worker |-> None]
    /\ reply' = [w \in Worker |-> "none"]
    /\ read' = [w \in Worker |-> {}]
    /\ UNCHANGED <<projects, entries>>

(* Projects are the operator's; one with entries cannot be removed. *)
ChangeProjects ==
    /\ \E p \in Project :
        \/ projects' = projects \cup {p}
        \/ (\A e \in entries : e.project # p) /\ projects' = projects \ {p}
    /\ UNCHANGED <<entries, op, draft, run, reply, read>>

Next ==
    \/ \E w \in Worker :
        \/ \E class \in {"validationError", "invalidRunID"} : Refuse(w, class)
        \/ \E d \in Draft, r \in RunId : Submit(w, d, r)
        \/ Append(w)
        \/ Respond(w, "appended", "created", {})
        \/ \E class \in Rejections : Respond(w, "submit", class, {})
        \/ \E r \in RunId \cup {None} : GetSpec(w, r)
        \/ GetSpecFound(w) \/ GetSpecMissing(w) \/ Respond(w, "get", "internal", {})
    \/ Crash
    \/ ChangeProjects

Spec == Init /\ [][Next]_vars
=============================================================================
