---------------------------- MODULE RunLedgerProofs ----------------------------
(***************************************************************************)
(* Safety of RunLedger for any number of workers, IDs and drafts.          *)
(***************************************************************************)
EXTENDS RunLedger, TLAPS

(* None is a value of its own. *)
LEMMA NoneApart ==
    /\ \A w \in Worker : w # None
    /\ \A s \in SpecId : s # None
    /\ \A r \in RunId : r # None
    /\ \A d \in Draft : d # None
BY NoneAssumption

(* What a draft consists of. *)
LEMMA DraftFields ==
    ASSUME NEW d \in Draft
    PROVE  d.project \in Project /\ d.items \subseteq Items /\ \A i \in d.items : i.table \in Tables
BY DraftAssumption DEF Items

(* TypeCorrect. *)
LEMMA TypeStep ==
    ASSUME TypeOK, RequestInv, [Next]_vars
    PROVE  TypeOK'
<1> USE DEF TypeOK, SubmitLabel, GetLabel, Errors, committed, session, tx, locals
<1>1. ASSUME NEW w \in Worker, Arrive(w) PROVE TypeOK'
    <2>1. CASE SubmitMalformed(w)
        BY <2>1 DEF SubmitMalformed, Reply, Goto
    <2>2. CASE GetSpecMalformed(w)
        BY <2>2 DEF GetSpecMalformed, Reply, Goto
    <2>3. ASSUME NEW d \in Draft, NEW s \in SpecId, NEW r \in RunId, Submit(w, d, s, r)
          PROVE  TypeOK'
        BY <2>3 DEF Submit, Goto
    <2>4. ASSUME NEW r \in RunId \cup {None}, GetSpec(w, r) PROVE TypeOK'
        BY <2>4 DEF GetSpec, Goto
    <2> QED BY <1>1, <2>1, <2>2, <2>3, <2>4 DEF Arrive
<1>2. ASSUME NEW w \in Worker, TakeConn(w) PROVE TypeOK'
    <2>1. CASE ProjectExists(w)
        BY <2>1 DEF ProjectExists, Goto
    <2>2. CASE ProjectMissing(w)
        BY <2>2 DEF ProjectMissing, Reply, Goto
    <2>3. CASE BeginTx(w)
        BY <2>3 DEF BeginTx, Goto
    <2>4. CASE SpecFound(w)
        BY <2>4 DEF SpecFound, Goto, Joined, SpecRow
    <2>5. CASE SpecMissing(w)
        BY <2>5 DEF SpecMissing, Reply, Goto
    <2>6. CASE ReadPresets(w)
        BY <2>6 DEF ReadPresets, ReadChildren, Goto
    <2>7. CASE ReadDatasets(w)
        BY <2>7 DEF ReadDatasets, ReadChildren, Goto
    <2>8. CASE ReadParameters(w)
        BY <2>8 DEF ReadParameters, ReadChildren, Reply, Goto
    <2> QED BY <1>2, <2>1, <2>2, <2>3, <2>4, <2>5, <2>6, <2>7, <2>8 DEF TakeConn
<1>3. ASSUME NEW w \in Worker, Proceed(w) PROVE TypeOK'
    <2>0. pc[w] \in SubmitLabel => /\ draft[w] \in Draft /\ spec[w] \in SpecId /\ run[w] \in RunId
                                   /\ draft[w].project \in Project /\ draft[w].items \subseteq Items
        BY DraftFields, NoneApart DEF RequestInv
    <2>1. CASE Build(w)
        BY <2>0, <2>1 DEF Build, Goto
    <2>2. CASE BuildFails(w)
        BY <2>2 DEF BuildFails, Reply, Goto
    <2>3. CASE InsertSpec(w)
        BY <2>0, <2>3 DEF InsertSpec, Goto, SpecRow
    <2>4. ASSUME NEW item \in Items, InsertChild(w, item) PROVE TypeOK'
        BY <2>0, <2>4 DEF InsertChild, ChildRow
    <2>5. CASE ChildrenInserted(w)
        BY <2>5 DEF ChildrenInserted, Goto
    <2>6. CASE InsertRun(w)
        BY <2>0, <2>6 DEF InsertRun, Goto, RunRow
    <2>7. CASE Commit(w)
        BY <2>7 DEF Commit, Goto, NoRows
    <2>8. CASE Respond(w)
        BY <2>8 DEF Respond, Reply, Goto
    <2> QED BY <1>3, <2>1, <2>2, <2>3, <2>4, <2>5, <2>6, <2>7, <2>8 DEF Proceed
<1>4. ASSUME NEW w \in Worker, Fail(w) PROVE TypeOK'
    <2>1. CASE SubmitFails(w)
        BY <2>1 DEF SubmitFails, Reply, Goto, Rollback, NoRows
    <2>2. CASE GetSpecFails(w)
        BY <2>2 DEF GetSpecFails, Reply, Goto
    <2> QED BY <1>4, <2>1, <2>2 DEF Fail
<1>5. ASSUME NEW w \in Worker, CancelTx(w) PROVE TypeOK'
    BY <1>5 DEF CancelTx, Rollback, NoRows
<1>6. CASE Crash
    BY <1>6 DEF Crash, NoRows
<1>7. CASE ReplaceConn
    BY <1>7 DEF ReplaceConn
<1>8. ASSUME NEW p \in Project, AddProject(p) \/ RemoveProject(p) PROVE TypeOK'
    BY <1>8 DEF AddProject, RemoveProject
<1>9. CASE UNCHANGED vars
    BY <1>9 DEF vars
<1> QED BY <1>1, <1>2, <1>3, <1>4, <1>5, <1>6, <1>7, <1>8, <1>9 DEF Next

(* The committed rows change at a commit and at no other step. *)
LEMMA LedgerChanges ==
    ASSUME [Next]_vars
    PROVE  UNCHANGED <<specs, children, runs>> \/ \E w \in Worker : Commit(w)
<1> USE DEF committed
<1>1. ASSUME NEW w \in Worker, Arrive(w) PROVE UNCHANGED <<specs, children, runs>>
    BY <1>1 DEF Arrive, SubmitMalformed, GetSpecMalformed, Submit, GetSpec
<1>2. ASSUME NEW w \in Worker, TakeConn(w) PROVE UNCHANGED <<specs, children, runs>>
    BY <1>2 DEF TakeConn, ProjectExists, ProjectMissing, BeginTx, SpecFound, SpecMissing,
                ReadPresets, ReadDatasets, ReadParameters, ReadChildren
<1>3. ASSUME NEW w \in Worker, Proceed(w)
      PROVE  UNCHANGED <<specs, children, runs>> \/ Commit(w)
    BY <1>3 DEF Proceed, Build, BuildFails, InsertSpec, InsertChild, ChildrenInserted,
                InsertRun, Respond
<1>4. ASSUME NEW w \in Worker, Fail(w) \/ CancelTx(w)
      PROVE  UNCHANGED <<specs, children, runs>>
    BY <1>4 DEF Fail, SubmitFails, GetSpecFails, CancelTx
<1>5. CASE Crash \/ ReplaceConn
    BY <1>5 DEF Crash, ReplaceConn
<1>6. ASSUME NEW p \in Project, AddProject(p) \/ RemoveProject(p)
      PROVE  UNCHANGED <<specs, children, runs>>
    BY <1>6 DEF AddProject, RemoveProject
<1>7. CASE UNCHANGED vars
    BY <1>7 DEF vars
<1> QED BY <1>1, <1>2, <1>3, <1>4, <1>5, <1>6, <1>7 DEF Next

(* A commit only adds rows. *)
LEMMA LedgerGrows ==
    ASSUME [Next]_vars
    PROVE  specs \subseteq specs' /\ children \subseteq children' /\ runs \subseteq runs'
BY LedgerChanges DEF Commit

(* What was submitted as a run changes only when that run ID is drawn. *)
LEMMA AskedChanges ==
    ASSUME [Next]_vars
    PROVE  UNCHANGED asked
           \/ \E w \in Worker, d \in Draft, s \in SpecId, r \in RunId : Submit(w, d, s, r)
<1>1. ASSUME NEW w \in Worker, Arrive(w)
      PROVE  UNCHANGED asked \/ \E d \in Draft, s \in SpecId, r \in RunId : Submit(w, d, s, r)
    BY <1>1 DEF Arrive, SubmitMalformed, GetSpecMalformed, GetSpec
<1>2. ASSUME NEW w \in Worker, TakeConn(w) PROVE UNCHANGED asked
    BY <1>2 DEF TakeConn, ProjectExists, ProjectMissing, BeginTx, SpecFound, SpecMissing,
                ReadPresets, ReadDatasets, ReadParameters, ReadChildren
<1>3. ASSUME NEW w \in Worker, Proceed(w) PROVE UNCHANGED asked
    BY <1>3 DEF Proceed, Build, BuildFails, InsertSpec, InsertChild, ChildrenInserted,
                InsertRun, Commit, Respond
<1>4. ASSUME NEW w \in Worker, Fail(w) \/ CancelTx(w) PROVE UNCHANGED asked
    BY <1>4 DEF Fail, SubmitFails, GetSpecFails, CancelTx
<1>5. CASE Crash \/ ReplaceConn
    BY <1>5 DEF Crash, ReplaceConn
<1>6. ASSUME NEW p \in Project, AddProject(p) \/ RemoveProject(p) PROVE UNCHANGED asked
    BY <1>6 DEF AddProject, RemoveProject
<1>7. CASE UNCHANGED vars
    BY <1>7 DEF vars
<1> QED BY <1>1, <1>2, <1>3, <1>4, <1>5, <1>6, <1>7 DEF Next

(* So a run in the ledger stays in it and keeps the draft it was submitted as. *)
LEMMA KnownStays ==
    ASSUME TypeOK, [Next]_vars, NEW r, Known(r)
    PROVE  Known(r)' /\ asked'[r] = asked[r]
<1>1. Known(r)'
    BY LedgerGrows DEF Known
<1>2. asked'[r] = asked[r]
    BY AskedChanges DEF Submit, Fresh, Known, TypeOK, RunRow
<1> QED BY <1>1, <1>2

(* A worker's step changes nothing that belongs to another worker. *)
LEMMA OthersKept ==
    ASSUME TypeOK, NEW w \in Worker, NEW v \in Worker, v # w,
           Arrive(w) \/ TakeConn(w) \/ Proceed(w) \/ Fail(w) \/ CancelTx(w)
    PROVE  /\ pc'[v] = pc[v] /\ draft'[v] = draft[v] /\ spec'[v] = spec[v]
           /\ run'[v] = run[v] /\ items'[v] = items[v] /\ reply'[v] = reply[v]
<1> USE DEF TypeOK, locals, Goto, Reply
<1>1. CASE Arrive(w)
    BY <1>1 DEF Arrive, SubmitMalformed, GetSpecMalformed, Submit, GetSpec
<1>2. CASE TakeConn(w)
    BY <1>2 DEF TakeConn, ProjectExists, ProjectMissing, BeginTx, SpecFound, SpecMissing,
                ReadPresets, ReadDatasets, ReadParameters, ReadChildren
<1>3. CASE Proceed(w)
    BY <1>3 DEF Proceed, Build, BuildFails, InsertSpec, InsertChild, ChildrenInserted,
                InsertRun, Commit, Respond
<1>4. CASE Fail(w) \/ CancelTx(w)
    BY <1>4 DEF Fail, SubmitFails, GetSpecFails, CancelTx
<1> QED BY <1>1, <1>2, <1>3, <1>4

(* Requests keep what they work for. *)
LEMMA RequestStep ==
    ASSUME TypeOK, RequestInv, [Next]_vars
    PROVE  RequestInv'
<1> USE DEF TypeOK, RequestInv, SubmitLabel, GetLabel, committed, session, locals
<1>1. ASSUME NEW w \in Worker, Arrive(w) PROVE RequestInv'
    <2>1. CASE SubmitMalformed(w)
        BY NoneApart, KnownStays, <2>1 DEF SubmitMalformed, Reply, Goto
    <2>2. CASE GetSpecMalformed(w)
        BY NoneApart, KnownStays, <2>2 DEF GetSpecMalformed, Reply, Goto
    <2>3. ASSUME NEW d \in Draft, NEW s \in SpecId, NEW r \in RunId, Submit(w, d, s, r)
          PROVE  RequestInv'
        BY NoneApart, KnownStays, <2>3 DEF Submit, Fresh, Goto
    <2>4. ASSUME NEW r \in RunId \cup {None}, GetSpec(w, r) PROVE RequestInv'
        BY NoneApart, KnownStays, <2>4 DEF GetSpec, Goto, Known
    <2> QED BY <1>1, <2>1, <2>2, <2>3, <2>4 DEF Arrive
<1>2. ASSUME NEW w \in Worker, TakeConn(w) PROVE RequestInv'
    <2>1. CASE ProjectExists(w)
        BY NoneApart, KnownStays, <2>1 DEF ProjectExists, Goto
    <2>2. CASE ProjectMissing(w)
        BY NoneApart, KnownStays, <2>2 DEF ProjectMissing, Reply, Goto
    <2>3. CASE BeginTx(w)
        BY NoneApart, KnownStays, <2>3 DEF BeginTx, ConnFree, Goto
    <2>4. CASE SpecFound(w)
        BY NoneApart, KnownStays, <2>4 DEF SpecFound, Joined, Goto
    <2>5. CASE SpecMissing(w)
        BY NoneApart, KnownStays, <2>5 DEF SpecMissing, Reply, Goto
    <2>6. CASE ReadPresets(w)
        BY NoneApart, KnownStays, <2>6 DEF ReadPresets, ReadChildren, Goto, Known
    <2>7. CASE ReadDatasets(w)
        BY NoneApart, KnownStays, <2>7 DEF ReadDatasets, ReadChildren, Goto
    <2>8. CASE ReadParameters(w)
        BY NoneApart, KnownStays, <2>8 DEF ReadParameters, ReadChildren, Reply, Goto
    <2> QED BY <1>2, <2>1, <2>2, <2>3, <2>4, <2>5, <2>6, <2>7, <2>8 DEF TakeConn
<1>3. ASSUME NEW w \in Worker, Proceed(w) PROVE RequestInv'
    <2>1. CASE Build(w)
        BY NoneApart, KnownStays, <2>1 DEF Build, Goto
    <2>2. CASE BuildFails(w)
        BY NoneApart, KnownStays, <2>2 DEF BuildFails, Reply, Goto
    <2>3. CASE InsertSpec(w)
        BY NoneApart, KnownStays, <2>3 DEF InsertSpec, Goto
    <2>4. ASSUME NEW item \in Items, InsertChild(w, item) PROVE RequestInv'
        BY NoneApart, KnownStays, <2>4 DEF InsertChild
    <2>5. CASE ChildrenInserted(w)
        BY NoneApart, KnownStays, <2>5 DEF ChildrenInserted, Goto
    <2>6. CASE InsertRun(w)
        BY NoneApart, KnownStays, <2>6 DEF InsertRun, Goto
    <2>7. CASE Commit(w)
        BY NoneApart, KnownStays, <2>7 DEF Commit, Goto, Known
    <2>8. CASE Respond(w)
        BY NoneApart, KnownStays, <2>8 DEF Respond, Reply, Goto
    <2> QED BY <1>3, <2>1, <2>2, <2>3, <2>4, <2>5, <2>6, <2>7, <2>8 DEF Proceed
<1>4. ASSUME NEW w \in Worker, Fail(w) PROVE RequestInv'
    <2>1. CASE SubmitFails(w)
        BY NoneApart, KnownStays, <2>1 DEF SubmitFails, Reply, Rollback, Goto, TxLabel
    <2>2. CASE GetSpecFails(w)
        BY NoneApart, KnownStays, <2>2 DEF GetSpecFails, Reply, Goto
    <2> QED BY <1>4, <2>1, <2>2 DEF Fail
<1>5. ASSUME NEW w \in Worker, CancelTx(w) PROVE RequestInv'
    BY NoneApart, KnownStays, <1>5 DEF CancelTx, Rollback
<1>6. CASE Crash
    BY NoneApart, KnownStays, <1>6 DEF Crash
<1>7. CASE ReplaceConn
    BY NoneApart, KnownStays, <1>7 DEF ReplaceConn
<1>8. ASSUME NEW p \in Project, AddProject(p) \/ RemoveProject(p) PROVE RequestInv'
    BY NoneApart, KnownStays, <1>8 DEF AddProject, RemoveProject
<1>9. CASE UNCHANGED vars
    BY NoneApart, KnownStays, <1>9 DEF vars
<1> QED BY <1>1, <1>2, <1>3, <1>4, <1>5, <1>6, <1>7, <1>8, <1>9 DEF Next

(* Submits keep IDs of their own. *)
LEMMA IdStep ==
    ASSUME TypeOK, RequestInv, IdInv, [Next]_vars
    PROVE  IdInv'
<1> USE DEF TypeOK, IdInv, committed, session, locals
<1>1. ASSUME NEW w \in Worker, Arrive(w) PROVE IdInv'
    <2>1. CASE SubmitMalformed(w)
        BY NoneApart, <2>1 DEF SubmitMalformed, Reply, Goto
    <2>2. CASE GetSpecMalformed(w)
        BY NoneApart, <2>2 DEF GetSpecMalformed, Reply, Goto
    <2>3. ASSUME NEW d \in Draft, NEW s \in SpecId, NEW r \in RunId, Submit(w, d, s, r)
          PROVE  IdInv'
        BY NoneApart, <2>3 DEF Submit, Fresh, Goto
    <2>4. ASSUME NEW r \in RunId \cup {None}, GetSpec(w, r) PROVE IdInv'
        BY NoneApart, <2>4 DEF GetSpec, Goto
    <2> QED BY <1>1, <2>1, <2>2, <2>3, <2>4 DEF Arrive
<1>2. ASSUME NEW w \in Worker, TakeConn(w) PROVE IdInv'
    <2>1. CASE ProjectExists(w)
        BY NoneApart, <2>1 DEF ProjectExists, Goto
    <2>2. CASE ProjectMissing(w)
        BY NoneApart, <2>2 DEF ProjectMissing, Reply, Goto
    <2>3. CASE BeginTx(w)
        BY NoneApart, <2>3 DEF BeginTx, ConnFree, Goto
    <2>4. CASE SpecFound(w)
        BY NoneApart, <2>4 DEF SpecFound, Joined, Goto, RequestInv, GetLabel
    <2>5. CASE SpecMissing(w)
        BY NoneApart, <2>5 DEF SpecMissing, Reply, Goto
    <2>6. CASE ReadPresets(w)
        BY NoneApart, <2>6 DEF ReadPresets, ReadChildren, Goto
    <2>7. CASE ReadDatasets(w)
        BY NoneApart, <2>7 DEF ReadDatasets, ReadChildren, Goto
    <2>8. CASE ReadParameters(w)
        BY NoneApart, <2>8 DEF ReadParameters, ReadChildren, Reply, Goto
    <2> QED BY <1>2, <2>1, <2>2, <2>3, <2>4, <2>5, <2>6, <2>7, <2>8 DEF TakeConn
<1>3. ASSUME NEW w \in Worker, Proceed(w) PROVE IdInv'
    <2>1. CASE Build(w)
        BY NoneApart, <2>1 DEF Build, Goto
    <2>2. CASE BuildFails(w)
        BY NoneApart, <2>2 DEF BuildFails, Reply, Goto
    <2>3. CASE InsertSpec(w)
        BY NoneApart, <2>3 DEF InsertSpec, Goto
    <2>4. ASSUME NEW item \in Items, InsertChild(w, item) PROVE IdInv'
        BY NoneApart, <2>4 DEF InsertChild
    <2>5. CASE ChildrenInserted(w)
        BY NoneApart, <2>5 DEF ChildrenInserted, Goto
    <2>6. CASE InsertRun(w)
        BY NoneApart, <2>6 DEF InsertRun, Goto
    <2>7. CASE Commit(w)
        BY NoneApart, <2>7 DEF Commit, Goto
    <2>8. CASE Respond(w)
        BY NoneApart, <2>8 DEF Respond, Reply, Goto
    <2> QED BY <1>3, <2>1, <2>2, <2>3, <2>4, <2>5, <2>6, <2>7, <2>8 DEF Proceed
<1>4. ASSUME NEW w \in Worker, Fail(w) PROVE IdInv'
    <2>1. CASE SubmitFails(w)
        BY NoneApart, <2>1 DEF SubmitFails, Reply, Rollback, Goto
    <2>2. CASE GetSpecFails(w)
        BY NoneApart, <2>2 DEF GetSpecFails, Reply, Goto
    <2> QED BY <1>4, <2>1, <2>2 DEF Fail
<1>5. ASSUME NEW w \in Worker, CancelTx(w) PROVE IdInv'
    BY NoneApart, <1>5 DEF CancelTx, Rollback
<1>6. CASE Crash
    BY NoneApart, <1>6 DEF Crash
<1>7. CASE ReplaceConn
    BY NoneApart, <1>7 DEF ReplaceConn
<1>8. ASSUME NEW p \in Project, AddProject(p) \/ RemoveProject(p) PROVE IdInv'
    BY NoneApart, <1>8 DEF AddProject, RemoveProject
<1>9. CASE UNCHANGED vars
    BY NoneApart, <1>9 DEF vars
<1> QED BY <1>1, <1>2, <1>3, <1>4, <1>5, <1>6, <1>7, <1>8, <1>9 DEF Next

(* What a commit adds: the rows of the request, all of them. *)
LEMMA CommitRows ==
    ASSUME TypeOK, RequestInv, ItemsInv, TxInv, NEW w \in Worker, Commit(w)
    PROVE  /\ specs' = specs \cup {[id |-> spec[w], project |-> draft[w].project]}
           /\ children' = children \cup ({spec[w]} \X draft[w].items)
           /\ runs' = runs \cup {[id |-> run[w], project |-> draft[w].project,
                                  spec |-> spec[w]]}
           /\ draft[w] # None /\ draft[w] \in Draft /\ spec[w] \in SpecId /\ run[w] \in RunId
           /\ asked[run[w]] = draft[w]
<1>1. conn = w /\ conn # None /\ pc[w] = "commit" /\ draft[w] # None
    BY NoneApart DEF Commit, Goto, RequestInv, SubmitLabel
<1>2. pending.specs = {[id |-> spec[w], project |-> draft[w].project]}
    BY <1>1 DEF TxInv
<1>3. pending.children = {spec[w]} \X draft[w].items
    BY <1>1 DEF TxInv, ItemsInv
<1>4. pending.runs = {[id |-> run[w], project |-> draft[w].project, spec |-> spec[w]]}
    BY <1>1 DEF TxInv
<1> QED BY <1>1, <1>2, <1>3, <1>4 DEF Commit, RequestInv, TypeOK

(* A commit adds the IDs of its own request to the ledger and no others. *)
LEMMA UncommittedStep ==
    ASSUME TypeOK, RequestInv, IdInv, ItemsInv, TxInv, UncommittedInv, [Next]_vars
    PROVE  UncommittedInv'
<1> USE DEF TypeOK, UncommittedInv, SubmitLabel, GetLabel, committed, session, locals, Known
<1>1. ASSUME NEW w \in Worker, Arrive(w) PROVE UncommittedInv'
    <2>1. CASE SubmitMalformed(w)
        BY <2>1 DEF SubmitMalformed, Reply, Goto
    <2>2. CASE GetSpecMalformed(w)
        BY <2>2 DEF GetSpecMalformed, Reply, Goto
    <2>3. ASSUME NEW d \in Draft, NEW s \in SpecId, NEW r \in RunId, Submit(w, d, s, r)
          PROVE  UncommittedInv'
        BY <2>3 DEF Submit, Fresh, Goto
    <2>4. ASSUME NEW r \in RunId \cup {None}, GetSpec(w, r) PROVE UncommittedInv'
        BY <2>4 DEF GetSpec, Goto
    <2> QED BY <1>1, <2>1, <2>2, <2>3, <2>4 DEF Arrive
<1>2. ASSUME NEW w \in Worker, TakeConn(w) PROVE UncommittedInv'
    <2>1. CASE ProjectExists(w)
        BY <2>1 DEF ProjectExists, Goto
    <2>2. CASE ProjectMissing(w)
        BY <2>2 DEF ProjectMissing, Reply, Goto
    <2>3. CASE BeginTx(w)
        BY <2>3 DEF BeginTx, ConnFree, Goto
    <2>4. CASE SpecFound(w)
        BY <2>4 DEF SpecFound, Joined, Goto, RequestInv
    <2>5. CASE SpecMissing(w)
        BY <2>5 DEF SpecMissing, Reply, Goto
    <2>6. CASE ReadPresets(w)
        BY <2>6 DEF ReadPresets, ReadChildren, Goto
    <2>7. CASE ReadDatasets(w)
        BY <2>7 DEF ReadDatasets, ReadChildren, Goto
    <2>8. CASE ReadParameters(w)
        BY <2>8 DEF ReadParameters, ReadChildren, Reply, Goto
    <2> QED BY <1>2, <2>1, <2>2, <2>3, <2>4, <2>5, <2>6, <2>7, <2>8 DEF TakeConn
<1>3. ASSUME NEW w \in Worker, Proceed(w) PROVE UncommittedInv'
    <2>1. CASE Build(w)
        BY <2>1 DEF Build, Goto
    <2>2. CASE BuildFails(w)
        BY <2>2 DEF BuildFails, Reply, Goto
    <2>3. CASE InsertSpec(w)
        BY <2>3 DEF InsertSpec, Goto
    <2>4. ASSUME NEW item \in Items, InsertChild(w, item) PROVE UncommittedInv'
        BY <2>4 DEF InsertChild
    <2>5. CASE ChildrenInserted(w)
        BY <2>5 DEF ChildrenInserted, Goto
    <2>6. CASE InsertRun(w)
        BY <2>6 DEF InsertRun, Goto
    <2>7. CASE Commit(w)
        <3> SUFFICES ASSUME NEW v \in Worker, pc'[v] \in SubmitLabel \ {"respond"}
                     PROVE  (~Known(run[v]) /\ \A s \in specs : s.id # spec[v])'
            OBVIOUS
        <3>1. v # w /\ pc[v] = pc'[v] /\ UNCHANGED <<spec, run>>
            BY <2>7 DEF Commit, Goto
        <3>2. spec[v] # spec[w] /\ run[v] # run[w]
            BY <2>7, <3>1, CommitRows DEF RequestInv, IdInv
        <3> QED BY <2>7, CommitRows, <3>1, <3>2
    <2>8. CASE Respond(w)
        BY <2>8 DEF Respond, Reply, Goto
    <2> QED BY <1>3, <2>1, <2>2, <2>3, <2>4, <2>5, <2>6, <2>7, <2>8 DEF Proceed
<1>4. ASSUME NEW w \in Worker, Fail(w) PROVE UncommittedInv'
    <2>1. CASE SubmitFails(w)
        BY <2>1 DEF SubmitFails, Reply, Rollback, Goto, TxLabel
    <2>2. CASE GetSpecFails(w)
        BY <2>2 DEF GetSpecFails, Reply, Goto
    <2> QED BY <1>4, <2>1, <2>2 DEF Fail
<1>5. ASSUME NEW w \in Worker, CancelTx(w) PROVE UncommittedInv'
    BY <1>5 DEF CancelTx, Rollback
<1>6. CASE Crash
    BY <1>6 DEF Crash
<1>7. CASE ReplaceConn
    BY <1>7 DEF ReplaceConn
<1>8. ASSUME NEW p \in Project, AddProject(p) \/ RemoveProject(p) PROVE UncommittedInv'
    BY <1>8 DEF AddProject, RemoveProject
<1>9. CASE UNCHANGED vars
    BY <1>9 DEF vars
<1> QED BY <1>1, <1>2, <1>3, <1>4, <1>5, <1>6, <1>7, <1>8, <1>9 DEF Next

(* The spec row a run refers to is there. *)
LEMMA SpecOfRun ==
    ASSUME RunsAreWhole, NEW row \in runs
    PROVE  [id |-> row.spec, project |-> row.project] \in specs
<1>1. { s \in specs : s.id = row.spec } = {[id |-> row.spec, project |-> row.project]}
    BY DEF RunsAreWhole
<1> QED BY <1>1

(* The items still to insert. *)
LEMMA ItemsStep ==
    ASSUME TypeOK, RequestInv, ItemsInv, [Next]_vars
    PROVE  ItemsInv'
<1> USE DEF TypeOK, ItemsInv, SubmitLabel, GetLabel, committed, session, locals
<1>1. ASSUME NEW w \in Worker, Arrive(w) PROVE ItemsInv'
    <2>1. CASE SubmitMalformed(w)
        BY <2>1 DEF SubmitMalformed, Reply, Goto
    <2>2. CASE GetSpecMalformed(w)
        BY <2>2 DEF GetSpecMalformed, Reply, Goto
    <2>3. ASSUME NEW d \in Draft, NEW s \in SpecId, NEW r \in RunId, Submit(w, d, s, r)
          PROVE  ItemsInv'
        BY <2>3 DEF Submit, Fresh, Goto, RequestInv
    <2>4. ASSUME NEW r \in RunId \cup {None}, GetSpec(w, r) PROVE ItemsInv'
        BY <2>4 DEF GetSpec, Goto, RequestInv
    <2> QED BY <1>1, <2>1, <2>2, <2>3, <2>4 DEF Arrive
<1>2. ASSUME NEW w \in Worker, TakeConn(w) PROVE ItemsInv'
    <2>1. CASE ProjectExists(w)
        BY <2>1 DEF ProjectExists, Goto
    <2>2. CASE ProjectMissing(w)
        BY <2>2 DEF ProjectMissing, Reply, Goto
    <2>3. CASE BeginTx(w)
        BY <2>3 DEF BeginTx, ConnFree, Goto
    <2>4. CASE SpecFound(w)
        BY <2>4 DEF SpecFound, Joined, Goto
    <2>5. CASE SpecMissing(w)
        BY <2>5 DEF SpecMissing, Reply, Goto
    <2>6. CASE ReadPresets(w)
        BY <2>6 DEF ReadPresets, ReadChildren, Goto
    <2>7. CASE ReadDatasets(w)
        BY <2>7 DEF ReadDatasets, ReadChildren, Goto
    <2>8. CASE ReadParameters(w)
        BY <2>8 DEF ReadParameters, ReadChildren, Reply, Goto
    <2> QED BY <1>2, <2>1, <2>2, <2>3, <2>4, <2>5, <2>6, <2>7, <2>8 DEF TakeConn
<1>3. ASSUME NEW w \in Worker, Proceed(w) PROVE ItemsInv'
    <2>1. CASE Build(w)
        BY <2>1 DEF Build, Goto
    <2>2. CASE BuildFails(w)
        BY <2>2 DEF BuildFails, Reply, Goto
    <2>3. CASE InsertSpec(w)
        BY <2>3 DEF InsertSpec, Goto
    <2>4. ASSUME NEW item \in Items, InsertChild(w, item) PROVE ItemsInv'
        BY <2>4 DEF InsertChild
    <2>5. CASE ChildrenInserted(w)
        BY <2>5 DEF ChildrenInserted, Goto
    <2>6. CASE InsertRun(w)
        BY <2>6 DEF InsertRun, Goto
    <2>7. CASE Commit(w)
        BY <2>7 DEF Commit, Goto
    <2>8. CASE Respond(w)
        BY <2>8 DEF Respond, Reply, Goto
    <2> QED BY <1>3, <2>1, <2>2, <2>3, <2>4, <2>5, <2>6, <2>7, <2>8 DEF Proceed
<1>4. ASSUME NEW w \in Worker, Fail(w) PROVE ItemsInv'
    <2>1. CASE SubmitFails(w)
        BY <2>1 DEF SubmitFails, Reply, Rollback, Goto, TxLabel
    <2>2. CASE GetSpecFails(w)
        BY <2>2 DEF GetSpecFails, Reply, Goto
    <2> QED BY <1>4, <2>1, <2>2 DEF Fail
<1>5. ASSUME NEW w \in Worker, CancelTx(w) PROVE ItemsInv'
    BY <1>5 DEF CancelTx, Rollback
<1>6. CASE Crash
    BY <1>6 DEF Crash
<1>7. CASE ReplaceConn
    BY <1>7 DEF ReplaceConn
<1>8. ASSUME NEW p \in Project, AddProject(p) \/ RemoveProject(p) PROVE ItemsInv'
    BY <1>8 DEF AddProject, RemoveProject
<1>9. CASE UNCHANGED vars
    BY <1>9 DEF vars
<1> QED BY <1>1, <1>2, <1>3, <1>4, <1>5, <1>6, <1>7, <1>8, <1>9 DEF Next

(* The transaction has written the rows of its worker. *)
LEMMA TxStep ==
    ASSUME TypeOK, RequestInv, ItemsInv, TxInv, [Next]_vars
    PROVE  TxInv'
<1> USE DEF TypeOK, TxInv, TxLabel, committed, session, tx, locals, NoRows
<1>1. ASSUME NEW w \in Worker, Arrive(w) PROVE TxInv'
    <2>1. CASE SubmitMalformed(w)
        BY NoneApart, <2>1 DEF SubmitMalformed, Reply, Goto
    <2>2. CASE GetSpecMalformed(w)
        BY NoneApart, <2>2 DEF GetSpecMalformed, Reply, Goto
    <2>3. ASSUME NEW d \in Draft, NEW s \in SpecId, NEW r \in RunId, Submit(w, d, s, r)
          PROVE  TxInv'
        BY NoneApart, <2>3 DEF Submit, Fresh, Goto
    <2>4. ASSUME NEW r \in RunId \cup {None}, GetSpec(w, r) PROVE TxInv'
        BY NoneApart, <2>4 DEF GetSpec, Goto
    <2> QED BY <1>1, <2>1, <2>2, <2>3, <2>4 DEF Arrive
<1>2. ASSUME NEW w \in Worker, TakeConn(w) PROVE TxInv'
    <2>1. CASE ProjectExists(w)
        BY NoneApart, <2>1 DEF ProjectExists, Goto
    <2>2. CASE ProjectMissing(w)
        BY NoneApart, <2>2 DEF ProjectMissing, Reply, Goto
    <2>3. CASE BeginTx(w)
        BY NoneApart, <2>3 DEF BeginTx, ConnFree, Goto, ItemsInv
    <2>4. CASE SpecFound(w)
        BY NoneApart, <2>4 DEF SpecFound, Joined, Goto
    <2>5. CASE SpecMissing(w)
        BY NoneApart, <2>5 DEF SpecMissing, Reply, Goto
    <2>6. CASE ReadPresets(w)
        BY NoneApart, <2>6 DEF ReadPresets, ReadChildren, Goto
    <2>7. CASE ReadDatasets(w)
        BY NoneApart, <2>7 DEF ReadDatasets, ReadChildren, Goto
    <2>8. CASE ReadParameters(w)
        BY NoneApart, <2>8 DEF ReadParameters, ReadChildren, Reply, Goto
    <2> QED BY <1>2, <2>1, <2>2, <2>3, <2>4, <2>5, <2>6, <2>7, <2>8 DEF TakeConn
<1>3. ASSUME NEW w \in Worker, Proceed(w) PROVE TxInv'
    <2>1. CASE Build(w)
        BY NoneApart, <2>1 DEF Build, Goto
    <2>2. CASE BuildFails(w)
        BY NoneApart, <2>2 DEF BuildFails, Reply, Goto
    <2>3. CASE InsertSpec(w)
        BY NoneApart, <2>3 DEF InsertSpec, Goto, ItemsInv, RequestInv, ProjectKey
    <2>4. ASSUME NEW item \in Items, InsertChild(w, item) PROVE TxInv'
        BY NoneApart, <2>4 DEF InsertChild, ItemsInv, RequestInv, ChildRow
    <2>5. CASE ChildrenInserted(w)
        BY NoneApart, <2>5 DEF ChildrenInserted, Goto
    <2>6. CASE InsertRun(w)
        BY NoneApart, <2>6 DEF InsertRun, Goto
    <2>7. CASE Commit(w)
        BY NoneApart, <2>7 DEF Commit, Goto
    <2>8. CASE Respond(w)
        BY NoneApart, <2>8 DEF Respond, Reply, Goto
    <2> QED BY <1>3, <2>1, <2>2, <2>3, <2>4, <2>5, <2>6, <2>7, <2>8 DEF Proceed
<1>4. ASSUME NEW w \in Worker, Fail(w) PROVE TxInv'
    <2>1. CASE SubmitFails(w)
        <3>1. CASE conn = w
            BY NoneApart, <2>1, <3>1 DEF SubmitFails, Rollback
        <3>2. CASE conn # w
            BY NoneApart, <2>1, <3>2 DEF SubmitFails, Reply, Rollback, Goto
        <3> QED BY <3>1, <3>2
    <2>2. CASE GetSpecFails(w)
        BY NoneApart, <2>2 DEF GetSpecFails, Reply, Goto, GetLabel
    <2> QED BY <1>4, <2>1, <2>2 DEF Fail
<1>5. ASSUME NEW w \in Worker, CancelTx(w) PROVE TxInv'
    BY NoneApart, <1>5 DEF CancelTx, Rollback
<1>6. CASE Crash
    BY NoneApart, <1>6 DEF Crash
<1>7. CASE ReplaceConn
    BY NoneApart, <1>7 DEF ReplaceConn
<1>8. ASSUME NEW p \in Project, AddProject(p) \/ RemoveProject(p) PROVE TxInv'
    <2>1. pending = NoRows /\ projects' \in SUBSET Project /\ UNCHANGED <<session, pc, locals>>
        BY <1>8 DEF AddProject, RemoveProject
    <2>2. conn = None \/ pc[conn] = "insertSpec"
        BY <2>1
    <2> QED BY <2>1, <2>2
<1>9. CASE UNCHANGED vars
    BY NoneApart, <1>9 DEF vars
<1> QED BY <1>1, <1>2, <1>3, <1>4, <1>5, <1>6, <1>7, <1>8, <1>9 DEF Next

(* Between the queries of a GetSpec nothing it has read changes. *)
LEMMA GetStep ==
    ASSUME TypeOK, RequestInv, UncommittedInv, ItemsInv, TxInv, RunsAreWhole, GetInv, [Next]_vars
    PROVE  GetInv'
<1> USE DEF TypeOK, GetInv, GetLabel, SubmitLabel, ReadTables, committed, session, locals
<1>1. ASSUME NEW w \in Worker, Arrive(w) PROVE GetInv'
    <2>1. CASE SubmitMalformed(w)
        BY <2>1 DEF SubmitMalformed, Reply, Goto
    <2>2. CASE GetSpecMalformed(w)
        BY <2>2 DEF GetSpecMalformed, Reply, Goto
    <2>3. ASSUME NEW d \in Draft, NEW s \in SpecId, NEW r \in RunId, Submit(w, d, s, r)
          PROVE  GetInv'
        BY <2>3 DEF Submit, Fresh, Goto
    <2>4. ASSUME NEW r \in RunId \cup {None}, GetSpec(w, r) PROVE GetInv'
        BY <2>4 DEF GetSpec, Goto
    <2> QED BY <1>1, <2>1, <2>2, <2>3, <2>4 DEF Arrive
<1>2. ASSUME NEW w \in Worker, TakeConn(w) PROVE GetInv'
    <2>1. CASE ProjectExists(w)
        BY <2>1 DEF ProjectExists, Goto
    <2>2. CASE ProjectMissing(w)
        BY <2>2 DEF ProjectMissing, Reply, Goto
    <2>3. CASE BeginTx(w)
        BY <2>3 DEF BeginTx, ConnFree, Goto
    <2>4. CASE SpecFound(w)
        <3>1. PICK s \in Joined(run[w]) : spec' = [spec EXCEPT ![w] = s.id]
            BY <2>4 DEF SpecFound
        <3>2. pc' = [pc EXCEPT ![w] = "getPresets"] /\ pc[w] = "getSpec" /\ items' = items
            BY <2>4 DEF SpecFound, Goto
        <3>3. items'[w] = {} /\ ReadTables(pc'[w]) = {}
            BY <3>2
        <3>4. \E row \in runs' : row.id = run'[w] /\ row.spec = spec'[w]
            BY <2>4, <3>1 DEF SpecFound, Joined
        <3> SUFFICES ASSUME NEW v \in Worker, v # w, pc'[v] \in GetLabel
                     PROVE  /\ items'[v] = { i \in Items : /\ i.table \in ReadTables(pc'[v])
                                                          /\ <<spec'[v], i>> \in children' }
                            /\ pc'[v] # "getSpec" =>
                                 \E row \in runs' : row.id = run'[v] /\ row.spec = spec'[v]
            BY <3>2, <3>3, <3>4
        <3>5. pc'[v] = pc[v] /\ spec'[v] = spec[v]
            BY <3>1, <3>2
        <3> QED BY <2>4, <3>5 DEF SpecFound
    <2>5. CASE SpecMissing(w)
        BY <2>5 DEF SpecMissing, Reply, Goto
    <2>6. CASE ReadPresets(w)
        BY <2>6 DEF ReadPresets, ReadChildren, Goto
    <2>7. CASE ReadDatasets(w)
        BY <2>7 DEF ReadDatasets, ReadChildren, Goto
    <2>8. CASE ReadParameters(w)
        BY <2>8 DEF ReadParameters, ReadChildren, Reply, Goto
    <2> QED BY <1>2, <2>1, <2>2, <2>3, <2>4, <2>5, <2>6, <2>7, <2>8 DEF TakeConn
<1>3. ASSUME NEW w \in Worker, Proceed(w) PROVE GetInv'
    <2>1. CASE Build(w)
        BY <2>1 DEF Build, Goto
    <2>2. CASE BuildFails(w)
        BY <2>2 DEF BuildFails, Reply, Goto
    <2>3. CASE InsertSpec(w)
        BY <2>3 DEF InsertSpec, Goto
    <2>4. ASSUME NEW item \in Items, InsertChild(w, item) PROVE GetInv'
        BY <2>4 DEF InsertChild
    <2>5. CASE ChildrenInserted(w)
        BY <2>5 DEF ChildrenInserted, Goto
    <2>6. CASE InsertRun(w)
        BY <2>6 DEF InsertRun, Goto
    <2>7. CASE Commit(w)
        <3> SUFFICES ASSUME NEW v \in Worker, pc'[v] \in GetLabel
                     PROVE  /\ items'[v] = { i \in Items : /\ i.table \in ReadTables(pc'[v])
                                                          /\ <<spec'[v], i>> \in children' }
                            /\ pc'[v] # "getSpec" =>
                                 \E row \in runs' : row.id = run'[v] /\ row.spec = spec'[v]
            OBVIOUS
        <3>1. /\ v # w /\ pc[v] = pc'[v] /\ UNCHANGED <<spec, run, items>>
              /\ pc[w] = "commit"
            BY <2>7 DEF Commit, Goto
        <3>2. CASE pc[v] = "getSpec"
            BY <3>1, <3>2
        <3>3. CASE pc[v] # "getSpec"
            <4>1. PICK row \in runs : row.id = run[v] /\ row.spec = spec[v]
                BY <3>1, <3>3
            <4>2. spec[v] # spec[w]
                <5>1. \E s \in specs : s.id = spec[v]
                    BY <4>1, SpecOfRun
                <5> QED BY <3>1, <5>1 DEF UncommittedInv
            <4>3. \A i \in Items : <<spec[v], i>> \in children' <=> <<spec[v], i>> \in children
                BY <2>7, <4>2, CommitRows
            <4>4. row \in runs'
                BY <2>7, <4>1, CommitRows
            <4> QED BY <3>1, <4>1, <4>3, <4>4
        <3> QED BY <3>2, <3>3
    <2>8. CASE Respond(w)
        BY <2>8 DEF Respond, Reply, Goto
    <2> QED BY <1>3, <2>1, <2>2, <2>3, <2>4, <2>5, <2>6, <2>7, <2>8 DEF Proceed
<1>4. ASSUME NEW w \in Worker, Fail(w) PROVE GetInv'
    <2>1. CASE SubmitFails(w)
        BY <2>1 DEF SubmitFails, Reply, Rollback, Goto, TxLabel
    <2>2. CASE GetSpecFails(w)
        BY <2>2 DEF GetSpecFails, Reply, Goto
    <2> QED BY <1>4, <2>1, <2>2 DEF Fail
<1>5. ASSUME NEW w \in Worker, CancelTx(w) PROVE GetInv'
    BY <1>5 DEF CancelTx, Rollback
<1>6. CASE Crash
    BY <1>6 DEF Crash
<1>7. CASE ReplaceConn
    BY <1>7 DEF ReplaceConn
<1>8. ASSUME NEW p \in Project, AddProject(p) \/ RemoveProject(p) PROVE GetInv'
    BY <1>8 DEF AddProject, RemoveProject
<1>9. CASE UNCHANGED vars
    BY <1>9 DEF vars
<1> QED BY <1>1, <1>2, <1>3, <1>4, <1>5, <1>6, <1>7, <1>8, <1>9 DEF Next

(* A run is announced only after its commit. *)
LEMMA RespondStep ==
    ASSUME TypeOK, RequestInv, ItemsInv, TxInv, RespondInv, [Next]_vars
    PROVE  RespondInv'
<1> USE DEF TypeOK, RespondInv, GetLabel, SubmitLabel, committed, session, locals
<1>1. ASSUME NEW w \in Worker, Arrive(w) PROVE RespondInv'
    <2>1. CASE SubmitMalformed(w)
        BY KnownStays, <2>1 DEF SubmitMalformed, Reply, Goto
    <2>2. CASE GetSpecMalformed(w)
        BY KnownStays, <2>2 DEF GetSpecMalformed, Reply, Goto
    <2>3. ASSUME NEW d \in Draft, NEW s \in SpecId, NEW r \in RunId, Submit(w, d, s, r)
          PROVE  RespondInv'
        BY KnownStays, <2>3 DEF Submit, Fresh, Goto
    <2>4. ASSUME NEW r \in RunId \cup {None}, GetSpec(w, r) PROVE RespondInv'
        BY KnownStays, <2>4 DEF GetSpec, Goto
    <2> QED BY <1>1, <2>1, <2>2, <2>3, <2>4 DEF Arrive
<1>2. ASSUME NEW w \in Worker, TakeConn(w) PROVE RespondInv'
    <2>1. CASE ProjectExists(w)
        BY KnownStays, <2>1 DEF ProjectExists, Goto
    <2>2. CASE ProjectMissing(w)
        BY KnownStays, <2>2 DEF ProjectMissing, Reply, Goto
    <2>3. CASE BeginTx(w)
        BY KnownStays, <2>3 DEF BeginTx, ConnFree, Goto
    <2>4. CASE SpecFound(w)
        BY KnownStays, <2>4 DEF SpecFound, Joined, Goto
    <2>5. CASE SpecMissing(w)
        BY KnownStays, <2>5 DEF SpecMissing, Reply, Goto
    <2>6. CASE ReadPresets(w)
        BY KnownStays, <2>6 DEF ReadPresets, ReadChildren, Goto
    <2>7. CASE ReadDatasets(w)
        BY KnownStays, <2>7 DEF ReadDatasets, ReadChildren, Goto
    <2>8. CASE ReadParameters(w)
        BY KnownStays, <2>8 DEF ReadParameters, ReadChildren, Reply, Goto
    <2> QED BY <1>2, <2>1, <2>2, <2>3, <2>4, <2>5, <2>6, <2>7, <2>8 DEF TakeConn
<1>3. ASSUME NEW w \in Worker, Proceed(w) PROVE RespondInv'
    <2>1. CASE Build(w)
        BY KnownStays, <2>1 DEF Build, Goto
    <2>2. CASE BuildFails(w)
        BY KnownStays, <2>2 DEF BuildFails, Reply, Goto
    <2>3. CASE InsertSpec(w)
        BY KnownStays, <2>3 DEF InsertSpec, Goto
    <2>4. ASSUME NEW item \in Items, InsertChild(w, item) PROVE RespondInv'
        BY KnownStays, <2>4 DEF InsertChild
    <2>5. CASE ChildrenInserted(w)
        BY KnownStays, <2>5 DEF ChildrenInserted, Goto
    <2>6. CASE InsertRun(w)
        BY KnownStays, <2>6 DEF InsertRun, Goto
    <2>7. CASE Commit(w)
        <3>1. \E row \in runs' : row.id = run[w]
            <4> DEFINE new == [id |-> run[w], project |-> draft[w].project, spec |-> spec[w]]
            <4>1. new \in runs' /\ new.id = run[w]
                BY <2>7, CommitRows
            <4> QED BY <4>1
        <3> QED BY <2>7, <3>1, KnownStays DEF Commit, Goto, Known
    <2>8. CASE Respond(w)
        BY KnownStays, <2>8 DEF Respond, Reply, Goto
    <2> QED BY <1>3, <2>1, <2>2, <2>3, <2>4, <2>5, <2>6, <2>7, <2>8 DEF Proceed
<1>4. ASSUME NEW w \in Worker, Fail(w) PROVE RespondInv'
    <2>1. CASE SubmitFails(w)
        BY KnownStays, <2>1 DEF SubmitFails, Reply, Rollback, Goto, TxLabel
    <2>2. CASE GetSpecFails(w)
        BY KnownStays, <2>2 DEF GetSpecFails, Reply, Goto
    <2> QED BY <1>4, <2>1, <2>2 DEF Fail
<1>5. ASSUME NEW w \in Worker, CancelTx(w) PROVE RespondInv'
    BY KnownStays, <1>5 DEF CancelTx, Rollback
<1>6. CASE Crash
    BY KnownStays, <1>6 DEF Crash
<1>7. CASE ReplaceConn
    BY KnownStays, <1>7 DEF ReplaceConn
<1>8. ASSUME NEW p \in Project, AddProject(p) \/ RemoveProject(p) PROVE RespondInv'
    BY KnownStays, <1>8 DEF AddProject, RemoveProject
<1>9. CASE UNCHANGED vars
    BY KnownStays, <1>9 DEF vars
<1> QED BY <1>1, <1>2, <1>3, <1>4, <1>5, <1>6, <1>7, <1>8, <1>9 DEF Next

(* Every run in the ledger stays whole. *)
LEMMA WholeStep ==
    ASSUME TypeOK, RequestInv, UncommittedInv, ItemsInv, TxInv,
           RunsAreWhole, NoLeftovers, [Next]_vars
    PROVE  RunsAreWhole'
<1> SUFFICES ASSUME NEW row \in runs'
             PROVE  /\ asked'[row.id] # None
                    /\ row.project = asked'[row.id].project
                    /\ { s \in specs' : s.id = row.spec }
                         = {[id |-> row.spec, project |-> row.project]}
                    /\ ChildrenOf(row.spec)' = asked'[row.id].items
    BY DEF RunsAreWhole
<1>1. ASSUME row \in runs
      PROVE  /\ asked'[row.id] # None /\ row.project = asked'[row.id].project
             /\ { s \in specs : s.id = row.spec }
                  = {[id |-> row.spec, project |-> row.project]}
             /\ ChildrenOf(row.spec) = asked'[row.id].items
    BY <1>1, KnownStays DEF RunsAreWhole, Known
<1>2. CASE UNCHANGED <<specs, children, runs>>
    BY <1>1, <1>2 DEF ChildrenOf
<1>3. ASSUME NEW w \in Worker, Commit(w)
      PROVE  /\ asked'[row.id] # None /\ row.project = asked'[row.id].project
             /\ { s \in specs' : s.id = row.spec }
                  = {[id |-> row.spec, project |-> row.project]}
             /\ ChildrenOf(row.spec)' = asked'[row.id].items
    <2> DEFINE new == [id |-> run[w], project |-> draft[w].project, spec |-> spec[w]]
               own == [id |-> spec[w], project |-> draft[w].project]
    <2>1. /\ specs' = specs \cup {own}
          /\ children' = children \cup ({spec[w]} \X draft[w].items)
          /\ runs' = runs \cup {new}
          /\ draft[w] \in Draft /\ asked[run[w]] = draft[w] /\ asked' = asked
        BY <1>3, CommitRows DEF Commit
    <2>2. ~Known(run[w]) /\ \A s \in specs : s.id # spec[w]
        BY <1>3 DEF UncommittedInv, SubmitLabel, Commit, Goto
    <2>3. CASE row \in runs
        <3>1. row.spec # spec[w]
            BY <1>1, <2>2, <2>3
        <3>2. { s \in specs' : s.id = row.spec } = { s \in specs : s.id = row.spec }
            BY <2>1, <3>1
        <3>3. ChildrenOf(row.spec)' = ChildrenOf(row.spec)
            BY <2>1, <3>1 DEF ChildrenOf
        <3> QED BY <1>1, <2>3, <3>2, <3>3
    <2>4. CASE row = new
        <3>1. { s \in specs' : s.id = spec[w] } = {own}
            BY <2>1, <2>2
        <3>2. \A i \in Items : <<spec[w], i>> \notin children
            BY <2>2 DEF NoLeftovers
        <3>3. { i \in Items : <<spec[w], i>> \in children' } = draft[w].items
            BY <2>1, <3>2, DraftFields
        <3> QED BY <2>1, <2>4, <3>1, <3>3, NoneApart DEF ChildrenOf
    <2> QED BY <2>1, <2>3, <2>4
<1> QED BY <1>2, <1>3, LedgerChanges

(* A commit leaves nothing over, and no other step adds anything. *)
LEMMA LeftoverStep ==
    ASSUME TypeOK, RequestInv, UncommittedInv, ItemsInv, TxInv,
           RunsAreWhole, NoLeftovers, [Next]_vars
    PROVE  NoLeftovers'
<1>1. CASE UNCHANGED <<specs, children, runs>>
    BY <1>1 DEF NoLeftovers
<1>2. ASSUME NEW w \in Worker, Commit(w) PROVE NoLeftovers'
    <2> DEFINE new == [id |-> run[w], project |-> draft[w].project, spec |-> spec[w]]
               own == [id |-> spec[w], project |-> draft[w].project]
    <2>1. /\ specs' = specs \cup {own}
          /\ children' = children \cup ({spec[w]} \X draft[w].items)
          /\ runs' = runs \cup {new}
        BY <1>2, CommitRows
    <2>2. ~Known(run[w]) /\ \A s \in specs : s.id # spec[w]
        BY <1>2 DEF UncommittedInv, SubmitLabel, Commit, Goto
    <2>3. \A row \in runs : row.id # run[w] /\ row.spec # spec[w]
        BY <2>2, SpecOfRun DEF Known
    <2>4. \A s \in specs' : \E row \in runs' : row.spec = s.id
        <3>1. new \in runs' /\ new.spec = own.id
            BY <2>1
        <3> HIDE DEF new, own
        <3> QED BY <2>1, <3>1 DEF NoLeftovers
    <2>5. \A c \in children' : \E s \in specs' : s.id = c[1]
        <3>1. own \in specs' /\ own.id = spec[w]
            BY <2>1
        <3> HIDE DEF new, own
        <3> QED BY <2>1, <3>1 DEF NoLeftovers
    <2>6. \A r1, r2 \in runs' : r1.id = r2.id \/ r1.spec = r2.spec => r1 = r2
        BY <2>1, <2>3 DEF NoLeftovers
    <2> QED BY <2>4, <2>5, <2>6 DEF NoLeftovers
<1> QED BY <1>1, <1>2, LedgerChanges

(* Clients are told the truth, and it stays true. *)
LEMMA ReplyStep ==
    ASSUME TypeOK, RequestInv, IdInv, UncommittedInv, ItemsInv, TxInv, RespondInv, RepliesAreTrue,
           [Next]_vars
    PROVE  RepliesAreTrue'
<1> USE DEF TypeOK, RepliesAreTrue, GetLabel, SubmitLabel, Errors, committed, session, locals
<1>1. ASSUME NEW w \in Worker, Arrive(w) PROVE RepliesAreTrue'
    <2>1. CASE SubmitMalformed(w)
        BY KnownStays, <2>1 DEF SubmitMalformed, Reply, Goto, Known
    <2>2. CASE GetSpecMalformed(w)
        BY KnownStays, <2>2 DEF GetSpecMalformed, Reply, Goto, Known
    <2>3. ASSUME NEW d \in Draft, NEW s \in SpecId, NEW r \in RunId, Submit(w, d, s, r)
          PROVE  RepliesAreTrue'
        BY KnownStays, <2>3 DEF Submit, Fresh, Goto, Known
    <2>4. ASSUME NEW r \in RunId \cup {None}, GetSpec(w, r) PROVE RepliesAreTrue'
        BY KnownStays, <2>4 DEF GetSpec, Goto, Known
    <2> QED BY <1>1, <2>1, <2>2, <2>3, <2>4 DEF Arrive
<1>2. ASSUME NEW w \in Worker, TakeConn(w) PROVE RepliesAreTrue'
    <2>1. CASE ProjectExists(w)
        BY KnownStays, <2>1 DEF ProjectExists, Goto, Known
    <2>2. CASE ProjectMissing(w)
        BY KnownStays, <2>2 DEF ProjectMissing, Reply, Goto, Known, UncommittedInv
    <2>3. CASE BeginTx(w)
        BY KnownStays, <2>3 DEF BeginTx, ConnFree, Goto, Known
    <2>4. CASE SpecFound(w)
        BY KnownStays, <2>4 DEF SpecFound, Joined, Goto, Known
    <2>5. CASE SpecMissing(w)
        BY KnownStays, <2>5 DEF SpecMissing, Reply, Goto, Known, RequestInv
    <2>6. CASE ReadPresets(w)
        BY KnownStays, <2>6 DEF ReadPresets, ReadChildren, Goto, Known
    <2>7. CASE ReadDatasets(w)
        BY KnownStays, <2>7 DEF ReadDatasets, ReadChildren, Goto, Known
    <2>8. CASE ReadParameters(w)
        BY KnownStays, <2>8 DEF ReadParameters, ReadChildren, Reply, Goto, Known, RequestInv
    <2> QED BY <1>2, <2>1, <2>2, <2>3, <2>4, <2>5, <2>6, <2>7, <2>8 DEF TakeConn
<1>3. ASSUME NEW w \in Worker, Proceed(w) PROVE RepliesAreTrue'
    <2>1. CASE Build(w)
        BY KnownStays, <2>1 DEF Build, Goto, Known
    <2>2. CASE BuildFails(w)
        BY KnownStays, <2>2 DEF BuildFails, Reply, Goto, Known, UncommittedInv
    <2>3. CASE InsertSpec(w)
        BY KnownStays, <2>3 DEF InsertSpec, Goto, Known
    <2>4. ASSUME NEW item \in Items, InsertChild(w, item) PROVE RepliesAreTrue'
        BY KnownStays, <2>4 DEF InsertChild, Known
    <2>5. CASE ChildrenInserted(w)
        BY KnownStays, <2>5 DEF ChildrenInserted, Goto, Known
    <2>6. CASE InsertRun(w)
        BY KnownStays, <2>6 DEF InsertRun, Goto, Known
    <2>7. CASE Commit(w)
        <3> SUFFICES ASSUME NEW v \in Worker, pc'[v] = "idle", draft'[v] # None
                     PROVE  /\ reply'[v] = "created" => Known(run[v])'
                            /\ reply'[v] \in Errors => ~Known(run[v])'
            BY DEF Known
        <3>1. /\ v # w /\ pc[v] = "idle" /\ pc[w] = "commit"
              /\ UNCHANGED <<draft, run, reply>>
            BY <2>7 DEF Commit, Goto
        <3>2. run[v] # run[w]
            BY <2>7, <3>1, CommitRows DEF IdInv
        <3> QED BY <2>7, <3>1, <3>2, CommitRows DEF Known
    <2>8. CASE Respond(w)
        BY KnownStays, <2>8 DEF Respond, Reply, Goto, RespondInv, Known
    <2> QED BY <1>3, <2>1, <2>2, <2>3, <2>4, <2>5, <2>6, <2>7, <2>8 DEF Proceed
<1>4. ASSUME NEW w \in Worker, Fail(w) PROVE RepliesAreTrue'
    <2>1. CASE SubmitFails(w)
        BY KnownStays, <2>1 DEF SubmitFails, Reply, Rollback, Goto, TxLabel, UncommittedInv, Known
    <2>2. CASE GetSpecFails(w)
        BY KnownStays, <2>2 DEF GetSpecFails, Reply, Goto, Known, RequestInv
    <2> QED BY <1>4, <2>1, <2>2 DEF Fail
<1>5. ASSUME NEW w \in Worker, CancelTx(w) PROVE RepliesAreTrue'
    BY KnownStays, <1>5 DEF CancelTx, Rollback, Known
<1>6. CASE Crash
    BY KnownStays, <1>6 DEF Crash, Known
<1>7. CASE ReplaceConn
    BY KnownStays, <1>7 DEF ReplaceConn, Known
<1>8. ASSUME NEW p \in Project, AddProject(p) \/ RemoveProject(p) PROVE RepliesAreTrue'
    BY KnownStays, <1>8 DEF AddProject, RemoveProject, Known
<1>9. CASE UNCHANGED vars
    BY KnownStays, <1>9 DEF vars, Known
<1> QED BY <1>1, <1>2, <1>3, <1>4, <1>5, <1>6, <1>7, <1>8, <1>9 DEF Next

(* After the last query a GetSpec holds all child rows of its spec. *)
LEMMA AllRead ==
    ASSUME TypeOK, GetInv, NEW w \in Worker, ReadParameters(w)
    PROVE  items'[w] = ChildrenOf(spec[w])
<1>1. items[w] = { i \in Items : /\ i.table \in {"presets", "datasets"}
                                /\ <<spec[w], i>> \in children }
    BY DEF ReadParameters, Reply, Goto, GetLabel, GetInv, ReadTables
<1>2. items'[w] = items[w] \cup { i \in Items : /\ i.table = "parameters"
                                              /\ <<spec[w], i>> \in children }
    BY DEF ReadParameters, ReadChildren, TypeOK
<1>3. \A i \in Items : i.table \in Tables
    BY DraftFields DEF Items
<1> QED BY <1>1, <1>2, <1>3 DEF ChildrenOf, Tables

(* A GetSpec that found its run answers with all of its spec. *)
LEMMA ExactStep ==
    ASSUME TypeOK, RequestInv, RunsAreWhole, GetInv, GetSpecIsExact, [Next]_vars
    PROVE  GetSpecIsExact'
<1> USE DEF TypeOK, GetSpecIsExact, GetLabel, SubmitLabel, Errors, committed, session, locals
<1>1. ASSUME NEW w \in Worker, Arrive(w) PROVE GetSpecIsExact'
    <2>1. CASE SubmitMalformed(w)
        BY KnownStays, <2>1 DEF SubmitMalformed, Reply, Goto
    <2>2. CASE GetSpecMalformed(w)
        BY KnownStays, <2>2 DEF GetSpecMalformed, Reply, Goto
    <2>3. ASSUME NEW d \in Draft, NEW s \in SpecId, NEW r \in RunId, Submit(w, d, s, r)
          PROVE  GetSpecIsExact'
        BY KnownStays, <2>3 DEF Submit, Fresh, Goto, RequestInv
    <2>4. ASSUME NEW r \in RunId \cup {None}, GetSpec(w, r) PROVE GetSpecIsExact'
        BY KnownStays, <2>4 DEF GetSpec, Goto
    <2> QED BY <1>1, <2>1, <2>2, <2>3, <2>4 DEF Arrive
<1>2. ASSUME NEW w \in Worker, TakeConn(w) PROVE GetSpecIsExact'
    <2>1. CASE ProjectExists(w)
        BY KnownStays, <2>1 DEF ProjectExists, Goto
    <2>2. CASE ProjectMissing(w)
        BY KnownStays, <2>2 DEF ProjectMissing, Reply, Goto, RequestInv
    <2>3. CASE BeginTx(w)
        BY KnownStays, <2>3 DEF BeginTx, ConnFree, Goto
    <2>4. CASE SpecFound(w)
        BY KnownStays, <2>4 DEF SpecFound, Joined, Goto
    <2>5. CASE SpecMissing(w)
        <3>1. ASSUME Known(run[w]) PROVE FALSE
            <4>1. PICK row \in runs : row.id = run[w]
                BY <3>1 DEF Known
            <4>2. [id |-> row.spec, project |-> row.project] \in Joined(run[w])
                BY <4>1, SpecOfRun DEF Joined
            <4> QED BY <2>5, <4>2 DEF SpecMissing
        <3>2. run[w] = None
            BY <2>5, <3>1 DEF SpecMissing, Reply, Goto, RequestInv
        <3> QED BY <2>5, <3>2 DEF SpecMissing, Reply, Goto
    <2>6. CASE ReadPresets(w)
        BY KnownStays, <2>6 DEF ReadPresets, ReadChildren, Goto
    <2>7. CASE ReadDatasets(w)
        BY KnownStays, <2>7 DEF ReadDatasets, ReadChildren, Goto
    <2>8. CASE ReadParameters(w)
        <3>1. pc[w] = "getParameters" /\ pc' = [pc EXCEPT ![w] = "idle"]
              /\ reply' = [reply EXCEPT ![w] = "spec"] /\ UNCHANGED <<draft, run, asked>>
            BY <2>8 DEF ReadParameters, ReadChildren, Reply, Goto
        <3>2. PICK row \in runs : row.id = run[w] /\ row.spec = spec[w]
            BY <3>1 DEF GetInv
        <3>3. items'[w] = asked[run[w]].items
            BY <2>8, <3>2, AllRead DEF RunsAreWhole
        <3>4. \A v \in Worker \ {w} : items'[v] = items[v]
            BY <2>8 DEF ReadParameters, ReadChildren
        <3> QED BY <3>1, <3>3, <3>4
    <2> QED BY <1>2, <2>1, <2>2, <2>3, <2>4, <2>5, <2>6, <2>7, <2>8 DEF TakeConn
<1>3. ASSUME NEW w \in Worker, Proceed(w) PROVE GetSpecIsExact'
    <2>1. CASE Build(w)
        BY KnownStays, <2>1 DEF Build, Goto
    <2>2. CASE BuildFails(w)
        BY KnownStays, <2>2 DEF BuildFails, Reply, Goto, RequestInv
    <2>3. CASE InsertSpec(w)
        BY KnownStays, <2>3 DEF InsertSpec, Goto
    <2>4. ASSUME NEW item \in Items, InsertChild(w, item) PROVE GetSpecIsExact'
        BY KnownStays, <2>4 DEF InsertChild
    <2>5. CASE ChildrenInserted(w)
        BY KnownStays, <2>5 DEF ChildrenInserted, Goto
    <2>6. CASE InsertRun(w)
        BY KnownStays, <2>6 DEF InsertRun, Goto
    <2>7. CASE Commit(w)
        BY KnownStays, <2>7 DEF Commit, Goto
    <2>8. CASE Respond(w)
        BY KnownStays, <2>8 DEF Respond, Reply, Goto, RequestInv
    <2> QED BY <1>3, <2>1, <2>2, <2>3, <2>4, <2>5, <2>6, <2>7, <2>8 DEF Proceed
<1>4. ASSUME NEW w \in Worker, Fail(w) PROVE GetSpecIsExact'
    <2>1. CASE SubmitFails(w)
        BY KnownStays, <2>1 DEF SubmitFails, Reply, Rollback, Goto, RequestInv
    <2>2. CASE GetSpecFails(w)
        BY KnownStays, <2>2 DEF GetSpecFails, Reply, Goto, RequestInv
    <2> QED BY <1>4, <2>1, <2>2 DEF Fail
<1>5. ASSUME NEW w \in Worker, CancelTx(w) PROVE GetSpecIsExact'
    BY KnownStays, <1>5 DEF CancelTx, Rollback
<1>6. CASE Crash
    BY KnownStays, <1>6 DEF Crash
<1>7. CASE ReplaceConn
    BY KnownStays, <1>7 DEF ReplaceConn
<1>8. ASSUME NEW p \in Project, AddProject(p) \/ RemoveProject(p) PROVE GetSpecIsExact'
    BY KnownStays, <1>8 DEF AddProject, RemoveProject
<1>9. CASE UNCHANGED vars
    BY KnownStays, <1>9 DEF vars
<1> QED BY <1>1, <1>2, <1>3, <1>4, <1>5, <1>6, <1>7, <1>8, <1>9 DEF Next

-----------------------------------------------------------------------------
LEMMA InitInv == Init => IInv
BY DEF Init, AllIdle, IInv, TypeOK, RequestInv, IdInv, UncommittedInv, ItemsInv, TxInv, GetInv,
       RespondInv, RunsAreWhole, NoLeftovers, RepliesAreTrue, GetSpecIsExact, Known, NoRows,
       SubmitLabel, GetLabel, Errors

LEMMA StepInv == IInv /\ [Next]_vars => IInv'
BY TypeStep, RequestStep, IdStep, UncommittedStep, ItemsStep, TxStep, GetStep, RespondStep,
   WholeStep, LeftoverStep, ReplyStep, ExactStep DEF IInv

(* The inductive invariant holds in every behaviour. *)
THEOREM Inductive == Spec => []IInv
BY InitInv, StepInv, PTL DEF Spec

(* Every variable keeps its type: in particular the IDs in the tables are  *)
(* UUIDs that were drawn, and their items are items of drafts.             *)
THEOREM TypeCorrect == Spec => []TypeOK
BY Inductive, PTL DEF IInv

(* However submits, failures, cancellations and crashes interleave, every  *)
(* committed run is whole and is what was submitted (SubmitRun).           *)
THEOREM RunsAreWholeHolds == Spec => []RunsAreWhole
BY Inductive, PTL DEF IInv

(* A Submit that fails or is cut short leaves no spec and no child behind, *)
(* and no two runs share an ID or a spec.                                  *)
THEOREM NoLeftoversHolds == Spec => []NoLeftovers
BY Inductive, PTL DEF IInv

(* "created" is said of runs that are in the ledger, an error of runs that *)
(* are not.                                                                *)
THEOREM RepliesAreTrueHolds == Spec => []RepliesAreTrue
BY Inductive, PTL DEF IInv

(* The four queries of GetSpec, between which others commit, together      *)
(* return the spec as it was submitted, and find every known run.          *)
THEOREM GetSpecIsExactHolds == Spec => []GetSpecIsExact
BY Inductive, PTL DEF IInv

-----------------------------------------------------------------------------
(***************************************************************************)
(* As long as the connection is never replaced it enforces foreign keys.   *)
(***************************************************************************)
KeyInv == enforced = TRUE /\ ProjectsExist

(* Only a new connection stops enforcing keys, only the operator removes   *)
(* projects.                                                               *)
LEMMA KeysChange ==
    ASSUME [Next]_vars
    PROVE  /\ enforced' = enforced \/ enforced' = TRUE \/ ReplaceConn
           /\ projects \subseteq projects' \/ \E p \in Project : RemoveProject(p)
<1> USE DEF committed, session
<1>1. ASSUME NEW w \in Worker, Arrive(w) PROVE UNCHANGED <<enforced, projects>>
    BY <1>1 DEF Arrive, SubmitMalformed, GetSpecMalformed, Submit, GetSpec
<1>2. ASSUME NEW w \in Worker, TakeConn(w) PROVE UNCHANGED <<enforced, projects>>
    BY <1>2 DEF TakeConn, ProjectExists, ProjectMissing, BeginTx, SpecFound, SpecMissing,
                ReadPresets, ReadDatasets, ReadParameters, ReadChildren
<1>3. ASSUME NEW w \in Worker, Proceed(w) PROVE UNCHANGED <<enforced, projects>>
    BY <1>3 DEF Proceed, Build, BuildFails, InsertSpec, InsertChild, ChildrenInserted,
                InsertRun, Commit, Respond
<1>4. ASSUME NEW w \in Worker, Fail(w) \/ CancelTx(w) PROVE UNCHANGED <<enforced, projects>>
    BY <1>4 DEF Fail, SubmitFails, GetSpecFails, CancelTx
<1>5. CASE Crash
    BY <1>5 DEF Crash
<1>6. CASE ReplaceConn
    BY <1>6 DEF ReplaceConn
<1>7. ASSUME NEW p \in Project, AddProject(p)
      PROVE  enforced' = enforced /\ projects \subseteq projects'
    BY <1>7 DEF AddProject
<1>8. ASSUME NEW p \in Project, RemoveProject(p) PROVE enforced' = enforced
    BY <1>8 DEF RemoveProject
<1>9. CASE UNCHANGED vars
    BY <1>9 DEF vars
<1> QED BY <1>1, <1>2, <1>3, <1>4, <1>5, <1>6, <1>7, <1>8, <1>9 DEF Next

LEMMA KeyStep ==
    ASSUME MayReplace = FALSE, IInv, KeyInv, [Next]_vars
    PROVE  KeyInv'
<1> USE DEF KeyInv
<1>1. enforced' = TRUE
    BY KeysChange DEF ReplaceConn
<1>2. ASSUME NEW w \in Worker, Commit(w) PROVE ProjectsExist'
    <2>1. draft[w].project \in projects
        BY <1>2, NoneApart DEF Commit, Goto, TxInv, IInv
    <2>2. projects' = projects
        BY <1>2 DEF Commit
    <2> QED BY <1>2, <2>1, <2>2, CommitRows DEF IInv, ProjectsExist
<1>3. ASSUME UNCHANGED <<specs, children, runs>>, projects \subseteq projects'
      PROVE  ProjectsExist'
    BY <1>3 DEF ProjectsExist
<1>4. ASSUME NEW p \in Project, RemoveProject(p) PROVE ProjectsExist'
    BY <1>4 DEF RemoveProject, ProjectsExist
<1> QED BY <1>1, <1>2, <1>3, <1>4, LedgerChanges, KeysChange

(* Where the connection is never replaced, every row in the ledger belongs *)
(* to a project that exists, though the project is checked in one          *)
(* statement, used in later ones and may be removed in between.            *)
THEOREM ProjectsExistHolds ==
    ASSUME MayReplace = FALSE
    PROVE  Spec => []ProjectsExist
<1>1. Init => KeyInv
    BY DEF Init, AllIdle, KeyInv, ProjectsExist
<1>2. IInv /\ KeyInv /\ [Next]_vars => KeyInv'
    BY KeyStep
<1>3. KeyInv => ProjectsExist
    BY DEF KeyInv
<1> QED BY <1>1, <1>2, <1>3, Inductive, PTL DEF Spec
=============================================================================
