----------------------------- MODULE RunListing -----------------------------
(***************************************************************************)
(* GET of a project's recent runs (servers/v1serv/projectserv), while runs *)
(* are submitted: a run is stamped by NewWithSpec when its Submit reaches  *)
(* that line, committed some time later with the stamp as text, and listed *)
(* by ListProjectRuns in the order of that text.  A list is two queries,   *)
(* and the database may change between them.  How a submit is committed,   *)
(* statement by statement, is the subject of RunLedger.                    *)
(***************************************************************************)
EXTENDS Timestamps, SequencesExt

CONSTANTS
    Worker,     \* goroutines serving submits
    Project, RunId,
    Limit,      \* defaultProjectRunsLimit
    LastTick,   \* bound: the clock stops here
    None

ASSUME LimitAssumption == Limit \in Nat \ {0}

ASSUME BoundAssumption == LastTick \in Nat

VARIABLES
    now,        \* the clock of the host
    projects,   \* the projects table
    stamped,    \* the run each worker has created and not yet committed
    runs,       \* committed rows: [id, project, created_at]
    asked,      \* the project a list has found to exist, None outside a list
    listed,     \* the answer to the last list: [id, project, createdAt], or None
                \* for errordef.ErrNotFound
    stamp       \* history: when each run was created

vars == <<now, projects, stamped, runs, asked, listed, stamp>>

Run == [id : RunId, project : Project, createdAt : 0..LastTick]

TypeOK ==
    /\ now \in 0..LastTick
    /\ projects \subseteq Project
    /\ stamped \in [Worker -> Run \cup {None}]
    /\ \A row \in runs :
        /\ row.id \in RunId /\ row.project \in Project
        /\ row.created_at = FormatTime(stamp[row.id])
    /\ asked \in Project \cup {None}
    /\ listed # None => \A i \in DOMAIN listed : listed[i] \in Run
    /\ stamp \in [RunId -> 0..LastTick]

Init ==
    /\ now = 0
    /\ projects = {}
    /\ stamped = [w \in Worker |-> None]
    /\ runs = {}
    /\ asked = None
    /\ listed = <<>>
    /\ stamp = [r \in RunId |-> 0]

Tick ==
    /\ now < LastTick
    /\ now' = now + 1
    /\ UNCHANGED <<projects, stamped, runs, asked, listed, stamp>>

AddProject(p) ==
    /\ projects' = projects \cup {p}
    /\ UNCHANGED <<now, stamped, runs, asked, listed, stamp>>

Fresh(r) ==
    /\ \A row \in runs : row.id # r
    /\ \A w \in Worker : stamped[w] # None => stamped[w].id # r

NewWithSpec(w, r, p) ==
    /\ stamped[w] = None
    /\ p \in projects
    /\ Fresh(r)
    /\ stamped' = [stamped EXCEPT ![w] = [id |-> r, project |-> p, createdAt |-> now]]
    /\ stamp' = [stamp EXCEPT ![r] = now]
    /\ UNCHANGED <<now, projects, runs, asked, listed>>

\* Faulty variant: the row gets the time of the commit.
CreateRunLate(w) ==
    /\ stamped[w] # None
    /\ runs' = runs \cup {[id         |-> stamped[w].id,
                           project    |-> stamped[w].project,
                           created_at |-> FormatTime(now)]}
    /\ stamped' = [stamped EXCEPT ![w] = None]
    /\ UNCHANGED <<now, projects, asked, listed, stamp>>

CreateRun(w) ==
    /\ stamped[w] # None
    /\ runs' = runs \cup {[id         |-> stamped[w].id,
                           project    |-> stamped[w].project,
                           created_at |-> FormatTime(stamped[w].createdAt)]}
    /\ stamped' = [stamped EXCEPT ![w] = None]
    /\ UNCHANGED <<now, projects, asked, listed, stamp>>

CreateRunFails(w) ==
    /\ stamped[w] # None
    /\ stamped' = [stamped EXCEPT ![w] = None]
    /\ UNCHANGED <<now, projects, runs, asked, listed, stamp>>

ToData(row) == [id |-> row.id, project |-> row.project, createdAt |-> ParseTime(row.created_at)]

\* Faulty variant: oldest first.
InOrderAscending(rows) ==
    \A i, j \in DOMAIN rows : i < j => ~TextLess(rows[j].created_at, rows[i].created_at)

(* ORDER BY created_at DESC; rows with equal text come in any order. *)
InOrder(rows) ==
    \A i, j \in DOMAIN rows : i < j => ~TextLess(rows[i].created_at, rows[j].created_at)

\* Faulty variant: the limit is applied before the order.
SelectUnordered(p) ==
    LET all == { row \in runs : row.project = p } IN
    { rows \in UNION { SetToSeqs(some) : some \in SUBSET all } :
        Len(rows) = Min({Limit, Cardinality(all)}) /\ InOrder(rows) }

Select(p) ==
    LET all == { row \in runs : row.project = p } IN
    { SubSeq(rows, 1, Min({Limit, Len(rows)})) : rows \in { q \in SetToSeqs(all) : InOrder(q) } }

ListProjectRuns(p) ==
    /\ asked = None
    /\ p \in projects
    /\ asked' = p
    /\ UNCHANGED <<now, projects, stamped, runs, listed, stamp>>

ListProjectMissing(p) ==
    /\ asked = None
    /\ p \notin projects
    /\ listed' = None
    /\ UNCHANGED <<now, projects, stamped, runs, asked, stamp>>

ListSelected ==
    /\ asked # None
    /\ \E rows \in Select(asked) : listed' = [i \in DOMAIN rows |-> ToData(rows[i])]
    /\ asked' = None
    /\ UNCHANGED <<now, projects, stamped, runs, stamp>>

(* A query that fails: the request is answered with an error, not a list. *)
ListFails ==
    /\ asked # None
    /\ asked' = None
    /\ UNCHANGED <<now, projects, stamped, runs, listed, stamp>>

Next ==
    \/ Tick
    \/ \E w \in Worker :
        \/ \E r \in RunId, p \in Project : NewWithSpec(w, r, p)
        \/ CreateRun(w) \/ CreateRunFails(w)
    \/ \E p \in Project : AddProject(p) \/ ListProjectRuns(p) \/ ListProjectMissing(p)
    \/ ListSelected \/ ListFails

Spec == Init /\ [][Next]_vars

-----------------------------------------------------------------------------
(***************************************************************************)
(* Properties.                                                             *)
(***************************************************************************)

\* A time survives its trip through the database, whatever its fraction.
TimesSurvive ==
    listed # None => \A i \in DOMAIN listed : listed[i].createdAt = stamp[listed[i].id]

\* Two runs created in different seconds are always listed in the right order.
NewestSecondFirst ==
    listed # None => \A i, j \in DOMAIN listed :
        i < j => Second(listed[i].createdAt) >= Second(listed[j].createdAt)

\* The list a request gets now leaves out no run that was created in a later
\* second than one it shows, however many were committed in whatever order.
NothingNewerIsLeftOut ==
    \A p \in Project : \A rows \in Select(p) :
        \A row \in runs, i \in DOMAIN rows :
            row.project = p /\ Second(stamp[row.id]) > Second(stamp[rows[i].id])
                => row \in ToSet(rows)

\* Why they hold: a row is stamped once, with the text of its time, and what
\* was listed are rows that are still there.
RowsInv ==
    /\ IsFiniteSet(runs)
    /\ \A w \in Worker : stamped[w] # None => stamp[stamped[w].id] = stamped[w].createdAt
    /\ listed # None => \A i \in DOMAIN listed : \E row \in runs : row.id = listed[i].id

IInv == TypeOK /\ RowsInv /\ TimesSurvive /\ NewestSecondFirst

\* The comment on ListProjectRuns: "returns the most recent runs for a
\* project".  A listed run is no older than the ones listed after it.
MostRecentFirst ==
    listed # None =>
        \A i, j \in DOMAIN listed : i < j => listed[i].createdAt >= listed[j].createdAt
=============================================================================
