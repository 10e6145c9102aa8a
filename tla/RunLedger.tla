------------------------------ MODULE RunLedger ------------------------------
(***************************************************************************)
(* The run ledger of the manager: POST of a run draft and GET of a run's   *)
(* spec, from the handler (servers/v1serv/runserv) through the service     *)
(* (service/runsvc) to the SQLite repository (repository/db).              *)
(*                                                                         *)
(* Requests are served concurrently, one goroutine each.  They share one   *)
(* database connection (SetMaxOpenConns(1)): a statement outside a         *)
(* transaction takes it, runs and gives it back, which is one step here; a *)
(* transaction keeps it from BeginTxx to Commit or Rollback.  Any database *)
(* statement may fail, a request context may be cancelled, the connection  *)
(* may be replaced by one that enforces no foreign keys (MayReplace), and  *)
(* the process may crash and restart, keeping what was committed and       *)
(* nothing else.                                                           *)
(***************************************************************************)

CONSTANTS
    Worker,         \* goroutines serving requests
    Project,        \* project IDs clients use
    SpecId, RunId,  \* UUIDs drawn for specs and runs
    Draft,          \* submitted drafts: see Drafts
    Registry,       \* preset IDs the in-memory registry resolves
    PresetTable,    \* preset IDs in table presets
    MayReplace,     \* whether database/sql may replace the connection
    None            \* nil

Tables == {"presets", "datasets", "parameters"}

(***************************************************************************)
(* A draft as far as the ledger tells drafts apart: its project, the child *)
(* rows its finalized spec consists of (a preset reference is a row whose  *)
(* key is the preset ID), and whether every training parameter is a        *)
(* number.                                                                 *)
(***************************************************************************)
ASSUME DraftAssumption ==
    \A d \in Draft :
        /\ d.project \in Project
        /\ \A item \in d.items : item.table \in Tables
        /\ d.numeric \in BOOLEAN

ASSUME MayReplaceAssumption == MayReplace \in BOOLEAN

ASSUME NoneAssumption == None \notin Worker \cup SpecId \cup RunId \cup Draft

PresetsOf(items) == { i.key : i \in { j \in items : j.table = "presets" } }

Items == UNION { d.items : d \in Draft }

VARIABLES
    projects,       \* committed: rows of table projects, run by the operator
    specs,          \* committed: rows of table specs, [id, project]
    children,       \* committed: rows of the spec_* tables, <<spec id, item>>
    runs,           \* committed: rows of table runs, [id, project, spec]
    conn,           \* who holds the connection: a worker's transaction or None
    pending,        \* the uncommitted rows of that transaction
    enforced,       \* whether foreign keys are enforced on the connection
    pc,             \* where each worker is
    draft,          \* the draft a worker submits
    spec, run,      \* the IDs a worker works with
    items,          \* items still to insert, or items read so far
    reply,          \* the class of each worker's last response
    asked           \* history: the draft that was submitted as each run

committed == <<projects, specs, children, runs>>
tx        == <<conn, pending>>
locals    == <<draft, spec, run, items>>
session   == <<tx, enforced>>
vars      == <<committed, session, pc, locals, reply, asked>>

NoRows == [specs |-> {}, children |-> {}, runs |-> {}]

SpecRow  == [id : SpecId, project : Project]
ChildRow == SpecId \X Items
RunRow   == [id : RunId, project : Project, spec : SpecId]

SubmitLabel == {"checkProject", "build", "begin", "insertSpec", "insertChildren",
                "insertRun", "commit", "respond"}
TxLabel     == {"insertSpec", "insertChildren", "insertRun", "commit"}
GetLabel    == {"getSpec", "getPresets", "getDatasets", "getParameters"}

Errors == {"validationError", "invalidRunID", "notFound", "internal"}

TypeOK ==
    /\ projects \subseteq Project
    /\ specs \subseteq SpecRow
    /\ children \subseteq ChildRow
    /\ runs \subseteq RunRow
    /\ conn \in Worker \cup {None}
    /\ pending \in [specs : SUBSET SpecRow, children : SUBSET ChildRow, runs : SUBSET RunRow]
    /\ enforced \in BOOLEAN
    /\ pc \in [Worker -> {"idle"} \cup SubmitLabel \cup GetLabel]
    /\ draft \in [Worker -> Draft \cup {None}]
    /\ spec \in [Worker -> SpecId \cup {None}]
    /\ run \in [Worker -> RunId \cup {None}]
    /\ items \in [Worker -> SUBSET Items]
    /\ reply \in [Worker -> {"none", "created", "spec"} \cup Errors]
    /\ asked \in [RunId -> Draft \cup {None}]

AllIdle ==
    /\ conn = None
    /\ pending = NoRows
    /\ enforced = TRUE
    /\ pc = [w \in Worker |-> "idle"]
    /\ draft = [w \in Worker |-> None]
    /\ spec = [w \in Worker |-> None]
    /\ run = [w \in Worker |-> None]
    /\ items = [w \in Worker |-> {}]
    /\ reply = [w \in Worker |-> "none"]

Init ==
    /\ projects = {} /\ specs = {} /\ children = {} /\ runs = {}
    /\ asked = [r \in RunId |-> None]
    /\ AllIdle

-----------------------------------------------------------------------------
Goto(w, from, to) ==
    /\ pc[w] = from
    /\ pc' = [pc EXCEPT ![w] = to]

Reply(w, from, class) ==
    /\ Goto(w, from, "idle")
    /\ reply' = [reply EXCEPT ![w] = class]

(* A statement outside a transaction needs the connection for itself. *)
ConnFree == conn = None

(***************************************************************************)
(* Submit.                                                                 *)
(***************************************************************************)

\* Bind fails: the body is not JSON of the right shape.
SubmitMalformed(w) ==
    /\ Reply(w, "idle", "validationError")
    /\ draft' = [draft EXCEPT ![w] = None]
    /\ run' = [run EXCEPT ![w] = None]
    /\ UNCHANGED <<committed, session, spec, items, asked>>

(* uuid.New never draws an ID that somebody has already. *)
Fresh(s, r) ==
    /\ \A w \in Worker : spec[w] # s /\ run[w] # r
    /\ \A row \in specs : row.id # s
    /\ \A row \in runs : row.id # r

\* Bind succeeds.  The IDs the request will draw are chosen here; the pools
\* SpecId and RunId bound how many there can be.
Submit(w, d, s, r) ==
    /\ Goto(w, "idle", "checkProject")
    /\ Fresh(s, r)
    /\ draft' = [draft EXCEPT ![w] = d]
    /\ spec' = [spec EXCEPT ![w] = s]
    /\ run' = [run EXCEPT ![w] = r]
    /\ items' = [items EXCEPT ![w] = {}]
    /\ reply' = [reply EXCEPT ![w] = "none"]
    /\ asked' = [asked EXCEPT ![r] = d]
    /\ UNCHANGED <<committed, session>>

ProjectExists(w) ==
    /\ Goto(w, "checkProject", "build")
    /\ ConnFree
    /\ draft[w].project \in projects
    /\ UNCHANGED <<committed, session, locals, reply, asked>>

ProjectMissing(w) ==
    /\ Reply(w, "checkProject", "notFound")
    /\ ConnFree
    /\ draft[w].project \notin projects
    /\ UNCHANGED <<committed, session, locals, asked>>

(* Build resolves every preset or none, the validator accepts, FromData *)
(* turns the spec into rows; nothing is shared until BeginTxx.          *)
Resolved(d) == PresetsOf(d.items) \subseteq Registry

Build(w) ==
    /\ Goto(w, "build", "begin")
    /\ Resolved(draft[w])
    /\ draft[w].numeric
    /\ items' = [items EXCEPT ![w] = draft[w].items]
    /\ UNCHANGED <<committed, session, draft, spec, run, reply, asked>>

\* A preset is not registered, a parameter is not a number, or GetMany, which
\* is called if there are presets to look up, finds the context cancelled.
BuildFails(w) ==
    /\ pc[w] = "build"
    /\ \/ ~Resolved(draft[w]) /\ Reply(w, "build", "notFound")
       \/ Resolved(draft[w]) /\ ~draft[w].numeric /\ Reply(w, "build", "internal")
       \/ PresetsOf(draft[w].items) # {} /\ Reply(w, "build", "internal")
    /\ UNCHANGED <<committed, session, locals, asked>>

BeginTx(w) ==
    /\ Goto(w, "begin", "insertSpec")
    /\ ConnFree
    /\ conn' = w
    /\ UNCHANGED <<committed, pending, enforced, locals, reply, asked>>

(* Foreign keys, where the connection enforces them, at every insert. *)
\* Faulty variant: foreign keys left off, the default of SQLite.
ProjectKeyOff(w) == TRUE

ProjectKey(w)   == enforced => draft[w].project \in projects
PresetKey(item) == enforced /\ item.table = "presets" => item.key \in PresetTable

\* Faulty variant: the spec is inserted on the connection, not in the transaction.
InsertSpecOutsideTx(w) ==
    /\ Goto(w, "insertSpec", "insertChildren")
    /\ conn = w
    /\ ProjectKey(w)
    /\ specs' = specs \cup {[id |-> spec[w], project |-> draft[w].project]}
    /\ UNCHANGED <<projects, children, runs, session, locals, reply, asked>>

InsertSpec(w) ==
    /\ Goto(w, "insertSpec", "insertChildren")
    /\ conn = w
    /\ ProjectKey(w)
    /\ pending' = [pending EXCEPT !.specs =
                     @ \cup {[id |-> spec[w], project |-> draft[w].project]}]
    /\ UNCHANGED <<committed, conn, enforced, locals, reply, asked>>

InsertChild(w, item) ==
    /\ pc[w] = "insertChildren"
    /\ conn = w
    /\ item \in items[w]
    /\ PresetKey(item)
    /\ pending' = [pending EXCEPT !.children = @ \cup {<<spec[w], item>>}]
    /\ items' = [items EXCEPT ![w] = @ \ {item}]
    /\ UNCHANGED <<committed, conn, enforced, pc, draft, spec, run, reply, asked>>

\* Faulty variant: gives up on the children at the first one that fails.
ChildrenInsertedAnyway(w) ==
    /\ Goto(w, "insertChildren", "insertRun")
    /\ UNCHANGED <<committed, session, locals, reply, asked>>

ChildrenInserted(w) ==
    /\ Goto(w, "insertChildren", "insertRun")
    /\ items[w] = {}
    /\ UNCHANGED <<committed, session, locals, reply, asked>>

\* Faulty variant: the run is inserted on the connection, not in the transaction.
InsertRunOutsideTx(w) ==
    /\ Goto(w, "insertRun", "commit")
    /\ conn = w
    /\ runs' = runs \cup {[id |-> run[w], project |-> draft[w].project, spec |-> spec[w]]}
    /\ UNCHANGED <<projects, specs, children, session, locals, reply, asked>>

\* Faulty variant: the IDs are swapped.
InsertRunSwapped(w) ==
    /\ Goto(w, "insertRun", "commit")
    /\ conn = w
    /\ pending' = [pending EXCEPT !.runs =
                     @ \cup {[id |-> spec[w], project |-> draft[w].project, spec |-> run[w]]}]
    /\ UNCHANGED <<committed, conn, enforced, locals, reply, asked>>

InsertRun(w) ==
    /\ Goto(w, "insertRun", "commit")
    /\ conn = w
    /\ pending' = [pending EXCEPT !.runs =
                     @ \cup {[id |-> run[w], project |-> draft[w].project, spec |-> spec[w]]}]
    /\ UNCHANGED <<committed, conn, enforced, locals, reply, asked>>

\* Faulty variant: returns without Commit, so the deferred Rollback strikes.
CommitForgotten(w) ==
    /\ Goto(w, "commit", "respond")
    /\ conn = w
    /\ conn' = None
    /\ pending' = NoRows
    /\ UNCHANGED <<committed, enforced, locals, reply, asked>>

Commit(w) ==
    /\ Goto(w, "commit", "respond")
    /\ conn = w
    /\ specs' = specs \cup pending.specs
    /\ children' = children \cup pending.children
    /\ runs' = runs \cup pending.runs
    /\ conn' = None
    /\ pending' = NoRows
    /\ UNCHANGED <<projects, enforced, locals, reply, asked>>

Respond(w) ==
    /\ Reply(w, "respond", "created")
    /\ UNCHANGED <<committed, session, locals, asked>>

\* Faulty variant: an early return without Rollback.
RollbackForgotten(w) == UNCHANGED tx

(* The deferred Rollback, a no-op unless w still has its transaction. *)
Rollback(w) ==
    IF conn = w THEN conn' = None /\ pending' = NoRows ELSE UNCHANGED tx

\* A statement fails: the disk, a lock of another process, a foreign key, a
\* cancelled context, or a transaction that is no longer there.
SubmitFails(w) ==
    /\ pc[w] \in {"checkProject", "begin"} \cup TxLabel
    /\ Reply(w, pc[w], "internal")
    /\ Rollback(w)
    /\ UNCHANGED <<committed, enforced, locals, asked>>

(* The statement at hand has no other way to end. *)
Doomed(w) ==
    \/ pc[w] \in TxLabel /\ conn # w
    \/ pc[w] = "insertSpec" /\ ~ProjectKey(w)
    \/ pc[w] = "insertChildren" /\ items[w] # {} /\ \A i \in items[w] : ~PresetKey(i)

(***************************************************************************)
(* GetSpec: the spec row, then its child rows, one query per table.        *)
(***************************************************************************)
Known(r) == \E row \in runs : row.id = r

\* Clients know the IDs of committed runs; None is an ID that is not one.
GetSpec(w, r) ==
    /\ Goto(w, "idle", "getSpec")
    /\ r = None \/ Known(r)
    /\ run' = [run EXCEPT ![w] = r]
    /\ draft' = [draft EXCEPT ![w] = None]
    /\ spec' = [spec EXCEPT ![w] = None]
    /\ items' = [items EXCEPT ![w] = {}]
    /\ reply' = [reply EXCEPT ![w] = "none"]
    /\ UNCHANGED <<committed, session, asked>>

\* The path parameter is not a UUID.
GetSpecMalformed(w) ==
    /\ Reply(w, "idle", "invalidRunID")
    /\ draft' = [draft EXCEPT ![w] = None]
    /\ run' = [run EXCEPT ![w] = None]
    /\ UNCHANGED <<committed, session, spec, items, asked>>

\* Faulty variant: joined on the project.
JoinedOnProject(r) ==
    { s \in specs : \E row \in runs : row.id = r /\ row.project = s.project }

(* runs JOIN specs ON specs.id = runs.spec_id *)
Joined(r) == { s \in specs : \E row \in runs : row.id = r /\ row.spec = s.id }

SpecFound(w) ==
    /\ Goto(w, "getSpec", "getPresets")
    /\ ConnFree
    /\ \E s \in Joined(run[w]) : spec' = [spec EXCEPT ![w] = s.id]
    /\ UNCHANGED <<committed, session, draft, run, items, reply, asked>>

SpecMissing(w) ==
    /\ Reply(w, "getSpec", "notFound")
    /\ ConnFree
    /\ Joined(run[w]) = {}
    /\ UNCHANGED <<committed, session, locals, asked>>

ReadChildren(w, table) ==
    /\ ConnFree
    /\ items' = [items EXCEPT ![w] =
                   @ \cup { i \in Items : i.table = table /\ <<spec[w], i>> \in children }]
    /\ UNCHANGED <<committed, session, draft, spec, run, asked>>

ReadPresets(w) ==
    Goto(w, "getPresets", "getDatasets") /\ ReadChildren(w, "presets") /\ UNCHANGED reply

ReadDatasets(w) ==
    Goto(w, "getDatasets", "getParameters") /\ ReadChildren(w, "datasets") /\ UNCHANGED reply

ReadParameters(w) ==
    Reply(w, "getParameters", "spec") /\ ReadChildren(w, "parameters")

GetSpecFails(w) ==
    /\ pc[w] \in GetLabel
    /\ Reply(w, pc[w], "internal")
    /\ UNCHANGED <<committed, session, locals, asked>>

-----------------------------------------------------------------------------
(***************************************************************************)
(* The world around the requests.                                          *)
(***************************************************************************)

\* The context of a request is cancelled in its transaction: database/sql
\* rolls back at once, the worker finds out at its next statement.
CancelTx(w) ==
    /\ conn = w
    /\ Rollback(w)
    /\ UNCHANGED <<committed, enforced, pc, locals, reply, asked>>

\* The driver gives the idle connection up, for instance after a statement
\* was interrupted, and database/sql opens another.  Open has set
\* foreign_keys on the first one, and SQLite's default is off.
ReplaceConn ==
    /\ MayReplace
    /\ ConnFree
    /\ enforced' = FALSE
    /\ UNCHANGED <<committed, tx, pc, locals, reply, asked>>

\* The process dies and is started again on the same database file.
Crash ==
    /\ conn' = None /\ pending' = NoRows /\ enforced' = TRUE
    /\ pc' = [w \in Worker |-> "idle"]
    /\ draft' = [w \in Worker |-> None] /\ spec' = [w \in Worker |-> None]
    /\ run' = [w \in Worker |-> None] /\ items' = [w \in Worker |-> {}]
    /\ reply' = [w \in Worker |-> "none"]
    /\ UNCHANGED <<committed, asked>>

\* Projects come and go in another process, the operator's: not while the
\* transaction has written (SQLite has one writer), and not if rows refer to
\* them (foreign keys).
AddProject(p) ==
    /\ pending = NoRows
    /\ p \notin projects
    /\ projects' = projects \cup {p}
    /\ UNCHANGED <<specs, children, runs, session, pc, locals, reply, asked>>

RemoveProject(p) ==
    /\ pending = NoRows
    /\ p \in projects
    /\ \A row \in specs \cup runs : row.project # p
    /\ projects' = projects \ {p}
    /\ UNCHANGED <<specs, children, runs, session, pc, locals, reply, asked>>

-----------------------------------------------------------------------------
Arrive(w) ==
    \/ SubmitMalformed(w) \/ GetSpecMalformed(w)
    \/ \E d \in Draft, s \in SpecId, r \in RunId : Submit(w, d, s, r)
    \/ \E r \in RunId \cup {None} : GetSpec(w, r)

\* Steps that wait for the connection.
TakeConn(w) ==
    \/ ProjectExists(w) \/ ProjectMissing(w) \/ BeginTx(w)
    \/ SpecFound(w) \/ SpecMissing(w)
    \/ ReadPresets(w) \/ ReadDatasets(w) \/ ReadParameters(w)

Proceed(w) ==
    \/ Build(w) \/ BuildFails(w)
    \/ InsertSpec(w) \/ (\E item \in Items : InsertChild(w, item)) \/ ChildrenInserted(w)
    \/ InsertRun(w) \/ Commit(w) \/ Respond(w)

Fail(w) == SubmitFails(w) \/ GetSpecFails(w)

Next ==
    \/ \E w \in Worker : Arrive(w) \/ TakeConn(w) \/ Proceed(w) \/ Fail(w) \/ CancelTx(w)
    \/ Crash \/ ReplaceConn
    \/ \E p \in Project : AddProject(p) \/ RemoveProject(p)

Spec == Init /\ [][Next]_vars

(***************************************************************************)
(* Every goroutine runs, a statement that cannot succeed fails, and        *)
(* database/sql hands the connection to somebody who waits for it whenever *)
(* it comes free.  No other failure is certain to happen.                  *)
(***************************************************************************)
FairSpec ==
    /\ Spec
    /\ \A w \in Worker : /\ WF_vars(Proceed(w) \/ (Doomed(w) /\ SubmitFails(w)))
                         /\ SF_vars(TakeConn(w))

-----------------------------------------------------------------------------
(***************************************************************************)
(* Properties.                                                             *)
(***************************************************************************)
ChildrenOf(s) == { i \in Items : <<s, i>> \in children }

\* Every committed run is whole and is what was submitted: one spec row, of
\* the run's own project, with all child rows of the draft and no others.
\* However submits, failures, cancellations and crashes interleave.
RunsAreWhole ==
    \A row \in runs :
        /\ asked[row.id] # None
        /\ row.project = asked[row.id].project
        /\ { s \in specs : s.id = row.spec } = {[id |-> row.spec, project |-> row.project]}
        /\ ChildrenOf(row.spec) = asked[row.id].items

\* Nothing is left of a Submit that failed or was cut short: every spec and
\* every child row belongs to exactly one run, every run has its own ID.
NoLeftovers ==
    /\ \A s \in specs : \E row \in runs : row.spec = s.id
    /\ \A c \in children : \E s \in specs : s.id = c[1]
    /\ \A r1, r2 \in runs : r1.id = r2.id \/ r1.spec = r2.spec => r1 = r2

\* The foreign keys to projects hold, though the project is checked in one
\* statement and used in later ones.  They do not where database/sql has
\* replaced the connection, and everything else here does.
ProjectsExist == \A row \in specs \cup runs : row.project \in projects

\* A client that was told of its run finds it in the ledger, and one that was
\* told of an error does not.
RepliesAreTrue ==
    \A w \in Worker :
        pc[w] = "idle" /\ draft[w] # None =>
            /\ reply[w] = "created" => Known(run[w])
            /\ reply[w] \in Errors => ~Known(run[w])

\* GetSpec returns the spec exactly as it was submitted, though it takes four
\* queries between which other requests commit; a known run is never missing.
GetSpecIsExact ==
    \A w \in Worker :
        pc[w] = "idle" /\ draft[w] = None /\ run[w] # None =>
            /\ reply[w] = "spec" => items[w] = asked[run[w]].items
            /\ reply[w] # "notFound"

\* Every request is answered, by success or by error: nobody waits for the
\* connection forever, because every transaction ends and gives it back.
RequestsAreAnswered == \A w \in Worker : pc[w] # "idle" ~> pc[w] = "idle"

-----------------------------------------------------------------------------
(***************************************************************************)
(* Why they hold: an invariant that every step preserves.                  *)
(***************************************************************************)

\* A Submit works for a draft with IDs of its own; a GetSpec for no draft, and
\* for a run that is in the ledger if it is any.
RequestInv ==
    \A w \in Worker :
        /\ pc[w] \in SubmitLabel => draft[w] # None
        /\ pc[w] \in GetLabel => draft[w] = None
        /\ draft[w] # None => /\ spec[w] \in SpecId
                             /\ run[w] \in RunId
                             /\ asked[run[w]] = draft[w]
        /\ draft[w] = None /\ run[w] # None => Known(run[w])

\* No two workers ever submit under the same ID.
IdInv ==
    \A v, w \in Worker :
        draft[v] # None /\ draft[w] # None /\ v # w => spec[v] # spec[w] /\ run[v] # run[w]

\* Until a worker commits, its IDs are not in the ledger.
UncommittedInv ==
    \A w \in Worker :
        pc[w] \in SubmitLabel \ {"respond"} =>
            ~Known(run[w]) /\ \A s \in specs : s.id # spec[w]

\* How far a worker has come with its rows.
ItemsInv ==
    \A w \in Worker :
        /\ pc[w] \in {"begin", "insertSpec"} => items[w] = draft[w].items
        /\ pc[w] = "insertChildren" => items[w] \subseteq draft[w].items
        /\ pc[w] \in {"insertRun", "commit"} => items[w] = {}

\* The open transaction has written exactly the rows its worker has done, and
\* has the foreign key of the project if any key is enforced.
TxInv ==
    /\ conn = None => pending = NoRows
    /\ conn # None =>
         /\ pc[conn] \in TxLabel
         /\ pending.specs = IF pc[conn] = "insertSpec" THEN {}
                            ELSE {[id |-> spec[conn], project |-> draft[conn].project]}
         /\ pending.children = {spec[conn]} \X (draft[conn].items \ items[conn])
         /\ pending.runs = IF pc[conn] # "commit" THEN {}
                           ELSE {[id |-> run[conn], project |-> draft[conn].project,
                                  spec |-> spec[conn]]}
         /\ enforced /\ pc[conn] # "insertSpec" => draft[conn].project \in projects

\* How far a GetSpec has come: it holds the spec of its run, and the child
\* rows of the tables it has read.
ReadTables(label) ==
    CASE label = "getDatasets"   -> {"presets"}
      [] label = "getParameters" -> {"presets", "datasets"}
      [] OTHER                   -> {}

GetInv ==
    \A w \in Worker :
        /\ pc[w] \in GetLabel =>
              items[w] = { i \in Items : /\ i.table \in ReadTables(pc[w])
                                        /\ <<spec[w], i>> \in children }
        /\ pc[w] \in GetLabel \ {"getSpec"} =>
              \E row \in runs : row.id = run[w] /\ row.spec = spec[w]

\* The worker about to say that a run was created has committed it.
RespondInv == \A w \in Worker : pc[w] = "respond" => Known(run[w])

IInv ==
    /\ TypeOK
    /\ RequestInv /\ IdInv /\ UncommittedInv
    /\ ItemsInv /\ TxInv /\ GetInv /\ RespondInv
    /\ RunsAreWhole /\ NoLeftovers /\ RepliesAreTrue /\ GetSpecIsExact

-----------------------------------------------------------------------------
(***************************************************************************)
(* RunLedger implements Ledger.                                            *)
(***************************************************************************)
OpOf(label) ==
    CASE label = "idle"                        -> "idle"
      [] label \in SubmitLabel \ {"respond"}   -> "submit"
      [] label = "respond"                     -> "appended"
      [] label \in GetLabel                    -> "get"

Abstract == INSTANCE Ledger WITH
    entries <- { [run |-> row.id, project |-> row.project, items |-> ChildrenOf(row.spec)]
                 : row \in runs },
    op      <- [w \in Worker |-> OpOf(pc[w])],
    read    <- [w \in Worker |-> IF pc[w] = "idle" /\ reply[w] = "spec" THEN items[w] ELSE {}]

\* Each Submit takes effect in one step, the commit, or not at all; entries
\* are never changed or lost, by crashes neither; replies agree with them.
ImplementsLedger == Abstract!Spec
=============================================================================
