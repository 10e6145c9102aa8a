------------------------------- MODULE Manager -------------------------------
(***************************************************************************)
(* The manager from main to its end: NewApp opens and migrates the ledger, *)
(* wires the registry, the service and the routes, Start listens, a failed *)
(* start closes what was opened and exits.  Managers may be started at any *)
(* time, on the same database file and the same port: by an operator who   *)
(* restarts one that died, or forgets that one is running.  Nothing stops  *)
(* a second one before it has migrated the file that the first one serves. *)
(*                                                                         *)
(* The file outlives every process.  A manager may be killed between any   *)
(* two steps, and any statement may fail (the disk, the lock of the other  *)
(* process).                                                               *)
(***************************************************************************)
EXTENDS Schema

CONSTANTS
    Process,        \* manager processes
    RunId,          \* the IDs of submitted runs
    UsedCategory,   \* the categories under which clients name presets
    Edited,         \* the presets an operator may disable
    None            \* no process, no registry

ASSUME NoneAssumption == None \notin Process

ASSUME ClientAssumption == UsedCategory \subseteq Category /\ Edited \subseteq PresetId

VARIABLES
    tables,     \* in the file: the tables and indexes there are
    rows,       \* in the file: the rows of each table
    port,       \* the process that listens on the port, or None
    pc,         \* where each process is
    next,       \* the position in Migration of the next statement, if it migrates
    handle,     \* its database handle and what its connection enforces
    registry    \* its presets in memory

file  == <<tables, rows>>
vars  == <<file, port, pc, next, handle, registry>>

Startup == {"open", "pragma", "ping", "migrate", "wire", "listen"}
Ending  == {"closeApp", "exit"}

(* Closed; open without a connection that enforces foreign keys, because *)
(* there is none yet or it has been replaced; open with one that does.   *)
Handle == {"closed", "open", "enforcing"}

TypeOK ==
    /\ tables \subseteq Table
    /\ DOMAIN rows = Table
    /\ \A t \in Table \ tables : DOMAIN rows[t] = {}
    /\ port \in Process \cup {None}
    /\ pc \in [Process -> {"down", "serving"} \cup Startup \cup Ending]
    /\ next \in [Process -> 1..(Len(Migration) + 1)]
    /\ handle \in [Process -> Handle]
    /\ registry \in [Process -> {None, Phase0Presets}]
    /\ \A p \in Process : port = p <=> pc[p] = "serving"
    /\ \A p \in Process : pc[p] \in {"down", "open", "exit"} => handle[p] = "closed"

Init ==
    /\ tables = {}
    /\ rows = [t \in Table |-> NoRows]
    /\ port = None
    /\ pc = [p \in Process |-> "down"]
    /\ next = [p \in Process |-> 1]
    /\ handle = [p \in Process |-> "closed"]
    /\ registry = [p \in Process |-> None]

-----------------------------------------------------------------------------
Goto(p, from, to) ==
    /\ pc[p] = from
    /\ pc' = [pc EXCEPT ![p] = to]

Enforced(p) == handle[p] = "enforcing"

(* main, run *)
Launch(p) ==
    /\ Goto(p, "down", "open")
    /\ UNCHANGED <<file, port, next, handle, registry>>

(***************************************************************************)
(* db.Open and Migrate.                                                    *)
(***************************************************************************)
Open(p) ==
    /\ Goto(p, "open", "pragma")
    /\ handle' = [handle EXCEPT ![p] = "open"]
    /\ UNCHANGED <<file, port, next, registry>>

(* The first statement makes the connection, and the setting is its own: *)
(* it lasts as long as this connection does (ReplaceConn).               *)
EnableForeignKeys(p) ==
    /\ Goto(p, "pragma", "ping")
    /\ handle' = [handle EXCEPT ![p] = "enforcing"]
    /\ UNCHANGED <<file, port, next, registry>>

Ping(p) ==
    /\ Goto(p, "ping", "migrate")
    /\ UNCHANGED <<file, port, next, handle, registry>>

Statement(p) == Migration[next[p]]

Migrating(p) == pc[p] = "migrate" /\ next[p] <= Len(Migration)

Accepted(p) == Executable(Statement(p), tables, rows, Enforced(p))

Migrate(p) ==
    /\ Migrating(p)
    /\ Accepted(p)
    /\ tables' = TablesAfter(Statement(p), tables)
    /\ rows' = RowsAfter(Statement(p), rows)
    /\ next' = [next EXCEPT ![p] = @ + 1]
    /\ UNCHANGED <<port, pc, handle, registry>>

\* Faulty variant: an error of the migration is logged and passed over.
MigratedSomehow(p) ==
    /\ Goto(p, "migrate", "wire")
    /\ next' = [next EXCEPT ![p] = 1]
    /\ UNCHANGED <<file, port, handle, registry>>

Migrated(p) ==
    /\ Goto(p, "migrate", "wire")
    /\ next[p] = Len(Migration) + 1
    /\ next' = [next EXCEPT ![p] = 1]
    /\ UNCHANGED <<file, port, handle, registry>>

\* Faulty variant: the error is returned with the database left open.
StatementFailsOpen(p) ==
    /\ \/ pc[p] \in {"pragma", "ping"}
       \/ Migrating(p)
    /\ pc' = [pc EXCEPT ![p] = "exit"]
    /\ next' = [next EXCEPT ![p] = 1]
    /\ UNCHANGED <<file, port, handle, registry>>

(* A statement fails: Open closes the database and NewApp returns. *)
StatementFails(p) ==
    /\ \/ pc[p] \in {"pragma", "ping"}
       \/ Migrating(p)
    /\ pc' = [pc EXCEPT ![p] = "exit"]
    /\ next' = [next EXCEPT ![p] = 1]
    /\ handle' = [handle EXCEPT ![p] = "closed"]
    /\ UNCHANGED <<file, port, registry>>

(***************************************************************************)
(* The rest of NewApp, and Start.  NewServer cannot fail: NewApp has given *)
(* it the service that the routes ask for.                                 *)
(***************************************************************************)
Wire(p) ==
    /\ Goto(p, "wire", "listen")
    /\ registry' = [registry EXCEPT ![p] = Phase0Presets]
    /\ UNCHANGED <<file, port, next, handle>>

Listen(p) ==
    /\ Goto(p, "listen", "serving")
    /\ port = None
    /\ port' = p
    /\ UNCHANGED <<file, next, handle, registry>>

\* Faulty variant: waits for the port to come free.
ListenWaits(p) == FALSE

(* The port is another manager's. *)
ListenFails(p) ==
    /\ Goto(p, "listen", "closeApp")
    /\ port # None
    /\ UNCHANGED <<file, port, next, handle, registry>>

(* The listener breaks, and Start returns the error. *)
ServeFails(p) ==
    /\ Goto(p, "serving", "closeApp")
    /\ port' = None
    /\ UNCHANGED <<file, next, handle, registry>>

(* The deferred app.Close. *)
CloseApp(p) ==
    /\ Goto(p, "closeApp", "exit")
    /\ handle' = [handle EXCEPT ![p] = "closed"]
    /\ UNCHANGED <<file, port, next, registry>>

(* os.Exit(1) *)
Exit(p) ==
    /\ Goto(p, "exit", "down")
    /\ registry' = [registry EXCEPT ![p] = None]
    /\ UNCHANGED <<file, port, next, handle>>

(***************************************************************************)
(* Submit, as far as it concerns the file: a run with a reference to a     *)
(* registered preset, under any category (GetMany looks at the ID alone),  *)
(* in one transaction.                                                     *)
(***************************************************************************)
Storable(r, c, id) == Resolves(rows, "spec_preset_refs", <<r, c>>, id)

Submit(p, r, c, id) ==
    /\ pc[p] = "serving"
    /\ id \in DOMAIN registry[p]
    /\ ~Present(rows, "runs", r)
    /\ Enforced(p) => Storable(r, c, id)
    /\ rows' = [rows EXCEPT !["spec_preset_refs"] = Insert(@, <<r, c>>, id),
                            !["runs"] = Insert(@, r, "queued")]
    /\ UNCHANGED <<tables, port, pc, next, handle, registry>>

(***************************************************************************)
(* The world around.                                                       *)
(***************************************************************************)
Kill(p) ==
    /\ pc[p] # "down"
    /\ pc' = [pc EXCEPT ![p] = "down"]
    /\ port' = IF port = p THEN None ELSE port
    /\ handle' = [handle EXCEPT ![p] = "closed"]
    /\ next' = [next EXCEPT ![p] = 1]
    /\ registry' = [registry EXCEPT ![p] = None]
    /\ UNCHANGED file

\* An operator disables a preset, in the file.  Nobody deletes seeded rows.
Disable(id) ==
    /\ Present(rows, "presets", id)
    /\ rows' = [rows EXCEPT !["presets"][id] = "disabled"]
    /\ UNCHANGED <<tables, port, pc, next, handle, registry>>

\* database/sql gives the idle connection up and opens another, on which
\* nobody runs the PRAGMA: SQLite's default is off.  The migration is one Exec,
\* which keeps its connection from the first of its statements to the last.
ReplaceConn(p) ==
    /\ handle[p] = "enforcing"
    /\ pc[p] = "migrate" => next[p] = 1
    /\ handle' = [handle EXCEPT ![p] = "open"]
    /\ UNCHANGED <<file, port, pc, next, registry>>

-----------------------------------------------------------------------------
Step(p) ==
    \/ Open(p) \/ EnableForeignKeys(p) \/ Ping(p)
    \/ Migrate(p) \/ Migrated(p)
    \/ Wire(p) \/ Listen(p) \/ ListenFails(p)
    \/ CloseApp(p) \/ Exit(p)

Next ==
    \/ \E p \in Process :
        \/ Launch(p) \/ Step(p) \/ StatementFails(p) \/ ServeFails(p)
        \/ Kill(p) \/ ReplaceConn(p)
        \/ \E r \in RunId, c \in UsedCategory, id \in PresetId : Submit(p, r, c, id)
    \/ \E id \in Edited : Disable(id)

Spec == Init /\ [][Next]_vars

(***************************************************************************)
(* A process that has been started runs, and a statement that SQLite       *)
(* refuses returns.  Nothing starts a process, and no other failure is     *)
(* certain to happen.                                                      *)
(***************************************************************************)
FairSpec ==
    /\ Spec
    /\ \A p \in Process :
        WF_vars(Step(p) \/ (Migrating(p) /\ ~Accepted(p) /\ StatementFails(p)))

-----------------------------------------------------------------------------
(***************************************************************************)
(* Properties.                                                             *)
(***************************************************************************)

\* A manager that serves has a database to serve from, whichever processes
\* died in the middle of migrating it: a handle that is not closed, all tables,
\* all seeded rows, and for every preset a client may refer to the rows the
\* reference needs.  Its connection need not enforce foreign keys any more.
ServingIsReady ==
    \A p \in Process :
        pc[p] = "serving" =>
            /\ handle[p] # "closed"
            /\ tables = Table
            /\ \A i \in DOMAIN Migration :
                 DOMAIN Migration[i].rows \subseteq DOMAIN rows[Migration[i].table]
            /\ \A r \in RunId, c \in Category, id \in DOMAIN registry[p] : Storable(r, c, id)

\* The migration can be run again on whatever earlier runs and other
\* processes have left: SQLite never refuses its next statement.  So no
\* crash leaves a file that no manager can open any more.
MigrationIsRepeatable == \A p \in Process : Migrating(p) => Accepted(p)

\* No two sources of truth: what a manager that serves knows of its presets
\* (fixtures.go) is what the tables say of them (001_init.sql).
PresetsAgree ==
    \A p \in Process :
        pc[p] = "serving" =>
            \A id \in DOMAIN registry[p] :
                /\ Present(rows, "presets", id)
                /\ rows["trainer_presets"][id] = registry[p][id].image
                /\ rows["preset_option_rules"][id] = registry[p][id].policy
                /\ rows["preset_default_values"][id] = registry[p][id].defaults

\* Starting a manager loses nothing and takes nothing back: no step but an
\* operator's changes or removes a row that is there, so runs and edits
\* survive restarts and the start of a second manager.
RowsSurvive ==
    [][\/ UNCHANGED rows
       \/ \E id \in Edited : Disable(id)
       \/ \A t \in Table : \A key \in DOMAIN rows[t] :
            Present(rows', t, key) /\ rows'[t][key] = rows[t][key]]_vars

\* Why they hold, an invariant that every step preserves: a manager that
\* migrates has done the statements it has passed, whoever else migrates the
\* same file, and has its database open; the seeded tables hold what the
\* migration seeds; and no preset reference is without its run or its preset,
\* although the connection that inserted it may have enforced nothing.
Done(stmt) == stmt.table \in tables /\ DOMAIN stmt.rows \subseteq DOMAIN rows[stmt.table]

MigratedBefore(n) == \A i \in DOMAIN Migration : i < n => Done(Migration[i])

ProgressInv ==
    \A p \in Process :
        /\ pc[p] # "migrate" => next[p] = 1
        /\ pc[p] = "migrate" => MigratedBefore(next[p])
        /\ pc[p] \in {"wire", "listen", "serving"} => MigratedBefore(Len(Migration) + 1)
        /\ pc[p] \in {"pragma", "ping", "migrate", "wire", "listen", "serving", "closeApp"} =>
             handle[p] # "closed"
        /\ pc[p] \in {"listen", "serving"} => registry[p] = Phase0Presets

SeededOnly == {"trainer_presets", "preset_option_rules", "preset_default_values"}

SeededInv ==
    \A i \in DOMAIN Migration :
        LET stmt == Migration[i] IN
        stmt.op = "seed" /\ stmt.table \in SeededOnly =>
            \A key \in DOMAIN rows[stmt.table] :
                key \in DOMAIN stmt.rows /\ rows[stmt.table][key] = stmt.rows[key]

ReferenceInv ==
    \A ref \in DOMAIN rows["spec_preset_refs"] :
        /\ Present(rows, "runs", ref[1])
        /\ Resolves(rows, "spec_preset_refs", ref, rows["spec_preset_refs"][ref])

IInv == TypeOK /\ ProgressInv /\ SeededInv /\ ReferenceInv

\* A manager that is started comes to serve or ends: no start hangs on a
\* table, on the other manager's port or on an error.
StartupSettles ==
    \A p \in Process :
        pc[p] \in Startup \cup Ending ~> pc[p] \in {"down", "serving"}
=============================================================================
