# nano-backend.ai: specification and verification

TLA+ models of the program under `src/`, with TLC runs and TLAPS proofs.
`PROJECT.json` names every component, run, finding, hazard and theorem, and the
source lines each definition translates.

## The system

The repository has two binaries. The **manager** (`cmd/manager`) is an HTTP
server with a SQLite ledger of fine-tuning runs; the **agent** (`cmd/agent`)
will run them as kernels and so far only logs a line, but its runtime for local
processes is complete. `SPEC.md` describes a scheduler, workload backends and an
artifact store as well; there is no code for them.

| Component | State | Operations | Hard about it |
|---|---|---|---|
| LocalProcess (`internal/agent`) | table of children under a mutex; per child a `done` channel | Create, Destroy, Status; one reaper goroutine per child; the watcher of the context in os/exec | callers, reapers and the operating system interleave; Destroy waits for a goroutine |
| Runtime interface (`internal/common/kernel`) | none | the contract of the three calls | what overlapping calls may answer |
| Run lifecycle (`internal/common/data/run`) | status, reason, three time stamps | Transition | requests in any order, refused ones included |
| Run submission and lookup (`runserv`, `runsvc`, `repository/db`) | six tables, one connection | POST a draft, GET a spec | concurrent requests, transactions, failing statements, cancelled contexts, crashes, lost answers |
| Project run list (`projectserv`, `repository/db`) | the same tables | GET a project's runs | time stamps as text, runs committed out of order, the limit |
| Spec builder (`runspec/specbuilder`) | none, but reads shared preset maps | Build | precedence of draft and presets; aliasing |
| Preset registry (`runspec/preset`) | presets in memory | GetMany (Get and List are unused) | shared by all requests |
| Encoding (`common/encoding`, `repository/db/entity`) | none | times and numbers to text and back | loss, and order of the text |
| Manager process (`main.go`, `app.go`, `servers.go`, `db.Open`, `001_init.sql`) | the database file, the port, the handle | start, migrate, listen, fail | a migration without a transaction, crashes in it, a second process on the same file; nothing calls Stop or handles a signal |

A request goes handler -> service -> (project check, builder -> registry,
transaction). The service calls the repository and the builder directly, nothing
calls back. Concurrency comes from net/http's goroutine per request, which meet
at the single database connection, and from the goroutines of LocalProcess,
which meet at its mutex, at `done` and in the operating system. The lifecycle's
`Transition` and the runtime have no caller outside tests yet: they are
modelled under every call a caller could make.

What makes each of them correct is stated by the properties below; `hazards` in
`PROJECT.json` lists what can go wrong, line by line, with the properties that
would show it.

## Modules

| Module | Models | Checked by |
|---|---|---|
| `KernelAnswers` | statuses and errors of `kernel.go`, as answers | through the next four |
| `LocalProcess` | `local_process.go` | `MCLocalProcess` |
| `KernelRuntime` | the contract of `kernel.Runtime`, abstract | as a property |
| `LocalProcessObserved` | LocalProcess with a history variable and the mapping to `KernelRuntime` | `MCLocalProcessObserved` |
| `RunLifecycle` | `status.go` | `MCRunLifecycle` |
| `RunLedger` | submit and getSpec from handler to SQL | `MCRunLedger` |
| `Ledger` | an append-only ledger, abstract | as a property |
| `Timestamps` | FormatTime, ParseTime, order of TEXT | through RunListing |
| `RunListing` | listRuns, concurrent with submits | `MCRunListing` |
| `Numbers` | JSON number -> Go value -> TEXT | through SpecBuilder |
| `SpecBuilder` | Bind, readPresets, overridePresets, FromData, insertSpec, GetSpec | `MCSpecBuilder` |
| `Presets` | the registered presets (`fixtures.go`) | through Manager |
| `Schema` | the statements of `001_init.sql`, and what SQLite does with each | through Manager |
| `Manager` | `main`, `NewApp`, `db.Open`, `Migrate`, `Start`, `Close`, by several processes | `MCManager` |
| `LocalProcessProofs`, `RunLifecycleProofs`, `SpecBuilderProofs`, `RunListingProofs`, `RunLedgerProofs`, `ManagerProofs` | theorems about the module of that name | tlapm |
| `LocalProcessRefinement`, `RunLedgerRefinement` | theorems: LocalProcess implements KernelRuntime, RunLedger implements Ledger | tlapm |

A definition introduced by the comment *Faulty variant* belongs to no
specification. It is what the definition after it would be with a plausible bug;
`mutants` in `PROJECT.json` says which property it breaks when it takes that
definition's place.

### LocalProcess

`processes` is the map, `done` the closed channels, `processState` what
`cmd.Wait` stored, `os` what the operating system has: a child is `alive`,
`zombie` after it ended, `reaped` after Wait. Every section under `lp.mu` is one
step, and so is each of Start, Kill, Wait, close, the receive from `done` and
the two non-blocking looks at it. Kill succeeds on a live child and on a zombie
and fails on a reaped one, as in package os; on a child in `Privileged`, which
the agent may not signal (a setuid program, say), it always fails, Destroy's as
well as that of the watcher of the context. `CreateStart` contains the drawing
of the ID and the launch of the reaper, which nobody can observe apart. A caller
passes an ID that some Create has returned, or one that none ever returns; it
cannot guess the ID of a Create under way. Cancelling the context may happen at
any time after Start; before it, Start fails.

`KernelRuntime` has no process and no reaper. A kernel is absent, running,
exited with one code, gone, in this order. A call takes effect between its start
and its return: Status may answer anything that was true of the kernel during
the call (`seen`), NotFound only if the kernel was not there at some moment of
it, a failed Destroy leaves the kernel as it was. `LocalProcessObserved` records
`seen` after each step; TLC then finds every step of LocalProcess to be one of
KernelRuntime or a stutter.

### RunLedger

One program counter per worker (`pc`), one label per statement. A statement
outside a transaction is atomic and needs the connection to be free; BeginTx
takes it (`conn`), the inserts collect rows in `pending`, Commit moves them to
the committed tables, the deferred Rollback drops them. Data is abstracted to
what the ledger tells apart: a draft is its project and the set of child rows
of its finalized spec. Which rows those are is the subject of SpecBuilder.
Children are inserted in any order, which contains the order of the code.
The four reads of GetSpec are four steps.

The environment: any statement may fail; the context may be cancelled inside the
transaction, and database/sql then rolls back while the goroutine is still
inserting, or before it, where GetMany notices (`BuildFails`); the process may die and restart on the same file; an operator may add
projects, and remove ones without rows, in another process (no endpoint does).
A Commit that reports an error is taken not to have committed.

`enforced` is the setting `PRAGMA foreign_keys` of the one connection. `Open`
sets it once; `ReplaceConn` is database/sql discarding a connection that the
driver calls bad or unusable, and opening another, with SQLite's default, off.
The constant `MayReplace` says whether that happens: with FALSE the foreign keys
are a second line of defence behind the project check, with TRUE the runs show
what holds without them, which is everything but `ProjectsExist`.

`asked` is a history variable, what was submitted as which run.

### RunListing and Timestamps

An instant is a number of ticks. `Weight` says how many of them each digit of the
fraction counts, from the left; the last counts one, and a second is `Base` times
the first (nine weights, from 10^8 down to 1, in the program). It is a constant,
and not computed as powers of the base, because the provers do not know
exponentiation. FormatTime writes the second as one symbol, then the digits of the fraction without the trailing
zeros, then `Z`; the order of the symbols is that of ASCII. Runs are stamped and
committed in two steps, so they commit in any order. A list is two queries.
Statements that fail leave no list, and a project ID that is not a UUID is
refused before the first of them.

### SpecBuilder and Numbers

One request after the other, because a request touches nothing shared but the
registry, which `Precedence` shows unchanged by earlier requests. Sections
(model, data, resource) are replaced as wholes by each preset that has them,
**over** the draft; training parameters are merged by key with the draft last,
as in the code. The two registered presets have parameters only, but the
`Preset` interface and the tests of the builder have sections, so `Catalog` has
presets with them. Number texts are a value and whether there is an exponent;
only whole numbers are modelled. Names and descriptions are copied through and
left out.

### Manager, Schema and Presets

`Migration` is the migration file as a sequence of statements: create a table or
an index if it is not there, insert rows whose key is not there. SQLite commits
each of them on its own, so every statement is a step, of a process that may be
killed between any two, and of two processes at once, whose file (`tables`,
`rows`) is the same. A statement is refused (`Executable`) if its table is
missing or a row it inserts breaks a foreign key; it may fail for reasons of its
own at any time (`StatementFails`: the disk, the other process's lock). A row is
its key and one value that stands for the other columns; the rules of a preset
are one row, and so are its defaults. From a process that serves come submits,
as far as they concern the file; an operator may disable a preset in it.

`handle` follows the closing of the database on every way out. Failures that the
program cannot meet are left out: an empty path (`main` passes a constant), an
unknown driver, a `NewServer` without a service, a migration file that cannot be
read (it is embedded).

The setting `PRAGMA foreign_keys` lasts as long as its connection: `ReplaceConn`
takes a `handle` from `enforcing` back to `open`, in start-up or while the
manager serves, at any time but within the migration, which is one Exec and keeps
its connection. So nothing here may rely on foreign keys being enforced:
`ServingIsReady` asks for the rows themselves, and the theorem
`ReferencesResolve` says that no reference is ever stored without its preset.

## Runs

| Run | Instance | Shows |
|---|---|---|
| `process_safety` | 2 callers, 2 children of which 1 cannot be killed, 2 exit codes | NoOrphan, ExitCodeTrue, DestroyedIsGone |
| `process_runtime` | 2 callers, 1 child that can be killed, 2 exit codes | LocalProcess implements KernelRuntime (with `SeenInv`, which carries the proof of it); Destroy returns, zombies are reaped, a cancelled context ends the child |
| `lifecycle` | 2 reasons, 3 instants, unbounded sequences of requests | the record stays consistent, stamps are final, refusals leave no trace |
| `ledger_safety` | 2 workers, 2 runs, 2 projects, 5 drafts | runs are whole, nothing is left over, foreign keys hold, replies and GetSpec are exact; RunLedger implements Ledger |
| `ledger_liveness` | 2 workers, 2 runs, 1 project, a connection that may be replaced | every request is answered; without foreign keys too, runs are whole, nothing is left over, replies and GetSpec are exact (conjuncts of `IInv`) |
| `listing` | 2 workers, 3 runs, 1 project, 2 seconds of 4 ticks, limit 2 | times survive; the list is right to the second |
| `builder` | 2 presets and an unknown one, uuid.Nil and nil, 3 categories, 5 parameter maps, 2 dataset lists | merge, storing and reading back |
| `manager` | 2 processes whose connections may be replaced, 1 run, 2 presets of which 1 may be disabled, 2 categories clients use | who serves has an open database with all tables and rows, the migration can always be run again, presets agree with their rows, no start changes a row, every start comes to an end |
| `process_kill_error`, `ledger_reconnect`, `listing_order`, `builder_integers` | 1 or 2 actors | one finding each, below |

The runs `process_safety`, `ledger_liveness`, `listing`, `builder` and `manager`
also check the inductive invariant (`IInv`) of the proofs about their module.

**Why the bounds are enough.** Interference in LocalProcess is between two
Destroys, or a Destroy and a Status, on one child; two children show that IDs are
not mixed up. Three callers were affordable only with symmetry, which liveness
forbids; the invariants and the refinement are proved for any number, and for
any set of children that cannot be killed. Two workers suffice for one connection: one holds it, one waits;
projects, presets and drafts include one of every way to succeed and to fail.
The pools of IDs bound how many runs there are; replies and reads repeat without
bound. Three runs exceed the limit of two and fit two into one second.
Two digits to the base two have all kinds of fractions: none, one that ends in a
zero, one that is a prefix of another. `Exact` = 8 stands for 2^53 and `Plain` =
4 for 10^6, from which on strconv writes a float64 with an exponent (format `'g'`,
shortest precision); numbers on both sides of both occur. Two managers are one that serves, or has
died half way, and one that starts; the file of a third can be no other than
theirs, because the migration only adds. TLC checks deadlock in
every run.

**Symmetry** is used in runs with safety properties only, over sets of model
values the specification treats alike.

**Fairness.** LocalProcess: the goroutines of calls under way, of reapers and of
the os/exec watcher run when they can (weak fairness, Go's scheduler), and a
SIGKILL is delivered. Nothing makes a child end on its own, a context be
cancelled or a caller call. RunLedger: goroutines run; a statement that cannot
succeed fails; and `TakeConn` is strongly fair, since database/sql hands the
connection, whenever it comes free, to a waiting request, and in a way that
serves each in the end. No failure is assumed to happen and none to stop.
Manager: a process that has been started goes on (no connection need be replaced), and a statement that SQLite
refuses returns; nobody is bound to start one, and a listener need not fail.

## Findings

The run finds the counterexample; the quoted line says what it should be.

| Run | Code | What |
|---|---|---|
| `process_kill_error` | `local_process.go:92` | Destroy of an exited child fails if it comes between Wait and close(done), though "Process may have already exited; not an error." (`:85`). A repeated Destroy succeeds |
| `listing_order` | `db/run.go:108` | runs of one second are ordered by the text of their fraction, in which "." sorts before "Z"; the list is not "the most recent runs" (`:87`), and with more runs than the limit a more recent one can be cut off |
| `builder_integers` | `encoding.go:58` | 1000000 is stored as `1e+06`, which `json.Number.Int64` refuses (`entity/spec.go:42`) |
| `ledger_reconnect` | `dbrepo.go:33` | the PRAGMA is run on one connection; if database/sql replaces it, a run is stored for a project removed since it was checked, against `REFERENCES projects(id)` (`001_init.sql:136`) and the test that wants an "FK violation" (`run_test.go:383`). The setting would belong in the data source name |

Other differences from `SPEC.md` are work that the repository has put off, and no
findings: idempotency keys (`docs/learn/0018-run-submit-flow/backend-ai.md:75`),
option policies (the TODO in `validator/noop.go`), required fields (no request
type has a validation tag yet). A body that cannot be decoded is answered with
validation_error, where `errordef/error.go:31` would have invalid_input; that is
one line of the handler and needs no run. A parameter that is not a number is noticed only
when the spec is turned into rows, and answered with internal_error
(`BuildFails`), until the validator exists.

## Proofs

Every invariant and action property that a passing run checks is a theorem, and
so are both refinements; liveness is not. The theorems hold for all values of the
constants that satisfy the named `ASSUME`s: nil and unknown IDs are not IDs,
children that cannot be killed are children,
inputs have the shape of the Go types (`DraftAssumption`, `RequestAssumption`,
`CatalogAssumption`), the limit is positive, the clock of RunListing stops
somewhere, and the weights of digits are those of a positional system
(`PrecisionAssumption`). No set of workers, callers, managers, IDs or children is
required to be finite; a spec is, because it is finitely many rows.

Each module has one inductive invariant, `IInv`, one theorem `Inductive` that
proves it action by action, and the rest follows. What the invariants add to the
properties, and why that is needed:

* **LocalProcess.** `NoOrphan`, `ExitCodeTrue` and `DestroyedIsGone` speak of the
  table and of answers, and depend on what a caller in the middle of a call
  knows. `IInv` adds that (1) the child, its reaper and its entry move in step
  (`ChildInv`: done implies reaped implies ProcessState is the exit status; an
  entry in the table has been started and is not being inserted), (2) an ID being
  inserted is held by one caller (`InsertInv`), and (3) what a caller has learnt
  of its target stays true (`CallerInv`: a target found in the table was issued,
  a caller about to delete has seen done).
* **LocalProcess implements KernelRuntime** (`ImplementsRuntimeHolds`, of the
  specification with the history variable `seen`). Only three actions change what
  callers can attribute to an ID: the insertion of the entry, its deletion, and
  the closing of `done`, in the terms of the interface Created, Destroyed and
  Exit. All others are a begin, a return, the drawing of an ID, or silent. What
  a return answers must have been seen: `SeenInv` says that a call has seen
  the present state, and that a Status that found the entry has seen the
  exit if `done` is closed, although another caller may have destroyed the kernel
  since; that is where `NoOrphan` is needed, for done is not closed on a
  forgotten child.
* **RunLifecycle.** `RecordConsistent` with the type invariant is inductive;
  the two action properties follow from the shape of `Transition` and from it.
* **RunLedger.** The properties are about the tables and about finished requests.
  `IInv` ties them to requests under way: what a worker works for (`RequestInv`),
  that no two submit under one ID (`IdInv`), that IDs in use are not in
  the ledger before their commit and are after it (`UncommittedInv`,
  `RespondInv`), which rows remain to be written (`ItemsInv`), that the pending
  rows are exactly those its one owner has written, and none if nobody holds
  the connection (`TxInv`), and what a GetSpec has read after each of its
  queries (`GetInv`). A commit then adds one whole run with all its children.
  These theorems hold whether or not the connection may be replaced.
  `ProjectsExistHolds` and `ImplementsLedgerHolds` assume `MayReplace = FALSE`,
  the value of `ledger_safety`, by `KeyInv` (keys are enforced, and every
  row has its project); with TRUE the first is false, which is the finding of
  `ledger_reconnect`.
* **RunLedger implements Ledger.** An entry is a run with the rows of its spec; the
  commit is Append, everything before it is silent, a request that ends is
  Respond or Refuse, and a GetSpec that finds its run reads exactly its entry.
* **SpecBuilder.** `Precedence` speaks of a finished spec; `MergeInv` is the loop
  invariant of `overridePresets`: after n presets, each section and each
  parameter is that of the last of the first n presets that offers it. It also
  says that the registry is the catalog, without which a preset could change
  under the merge. For `RoundTrip`, `StoreInv` says of each phase where its data
  comes from. The heart is `ReadBack`: ToData undoes FromData for any number of
  datasets and parameters. Datasets are read in the order of their positions,
  which no two rows share, so that one order is all that CHOOSE can find.
* **RunListing.** `TimesSurvive` needs `ParseFormat`: parsing gives back what was
  formatted, whatever the base and the number of digits. That is a
  fact about all digits, and about the recursive function `Prefix`; the provers
  have no induction, so each such step is proved of the smallest counterexample,
  which the library's theorems on well-founded relations provide (`Smallest`).
  The lists are right to the second because the first symbol of a text is the
  second (`SecondsInOrder`); that nothing newer is left out uses that the
  selection sorts all rows before it cuts.
* **Manager.** `ServingIsReady` and `MigrationIsRepeatable` follow from how far
  each process has come (`ProgressInv`): before statement n of a migration, the
  tables and rows of the statements before n are there, and nothing in the
  program removes them (`FileGrows`), not even the other process, nor a crash.
  None of this depends on what a connection enforces, so it holds whether or not
  connections are replaced. `SeededInv` says that what is in a seeded table is
  what the file seeds, from which `PresetsAgree`; `ReferenceInv`, that rows that
  refer to presets belong to runs and find their preset and their category. It
  needs `ProgressInv`: a manager that serves resolves only presets that its
  migration has seeded.

**Model-checked only.** Liveness, which needs fairness and ENABLED
(`DestroyReturns`, `ZombiesAreReaped`, `CancelStopsChild`, `RequestsAreAnswered`,
`StartupSettles`), and the four findings, which are counterexamples.

## Not modelled

* `Server.Stop`: never called, so its race with a closing repository cannot
  happen in this program. The health route answers a constant.
* Deletion of seeded rows: nothing in the program does it, and an operator who
  does is assumed away. Another version of the program: `PresetsAgree` compares
  the two texts of this one. OR IGNORE never updates the rows that an older
  version has seeded, so a changed preset would need a migration file of its own;
  and the column `enabled` is never read by the program.
* The copies that `TrainerPreset.Options` and `OptionPolicy` return: values here;
  what would happen without them is the faulty variant of `OverrideDraft`.
* The text form of kernel IDs, HTTP statuses and error codes beyond their class.
* `CanonicalJSON`, `StaticRegistry.Get` and `List`, `JSONField`: no caller.
* Columns the program never writes (idempotency key, reason, start and finish of
  a run) and rows it never adds (artifacts, preset options in SQL).
* Wording of errors and hints, envelopes, logs.
* What `SPEC.md` describes and the repository does not contain.

## Plan

Done in this order: LocalProcess with its contract and proofs; RunLifecycle with
proofs; RunLedger and Ledger; RunListing; SpecBuilder with the proof of
Precedence; the connection that may be replaced; Manager with Schema and Presets;
the proofs about RunLedger, SpecBuilder, Manager and RunListing; the two
refinements as theorems. Left:

1. That the order of a listing is total where fractions have the same number of
   digits, the part of `MostRecentFirst` that does hold.
2. What the abstract specifications imply by themselves, as theorems: a kernel of
   KernelRuntime that is gone stays gone, an entry of Ledger is never changed.
3. Idempotency keys, option policies and Stop, when the program gets or calls
   them.
