-------------------------- MODULE RunLedgerRefinement --------------------------
(***************************************************************************)
(* RunLedger implements Ledger, as long as the connection is not replaced: *)
(* every step is a step of Ledger or changes nothing a client can see.     *)
(***************************************************************************)
EXTENDS RunLedgerProofs

(* What Ledger sees of the tables: one entry for every run. *)
Entry(row) == [run |-> row.id, project |-> row.project, items |-> ChildrenOf(row.spec)]

Entries == { Entry(row) : row \in runs }
Ops     == [w \in Worker |-> OpOf(pc[w])]
Reads   == [w \in Worker |-> IF pc[w] = "idle" /\ reply[w] = "spec" THEN items[w] ELSE {}]

(* The labels of a worker, as operations. *)
LEMMA OpOfLabel ==
    /\ OpOf("idle") = "idle"
    /\ OpOf("respond") = "appended"
    /\ \A l \in SubmitLabel \ {"respond"} : OpOf(l) = "submit"
    /\ \A l \in GetLabel : OpOf(l) = "get"
BY DEF OpOf, SubmitLabel, GetLabel

(* A run is in the ledger of one module when it is in that of the other. *)
LEMMA InLedgerKnown ==
    ASSUME NEW r PROVE Abstract!InLedger(r) <=> Known(r)
<1>1. \A row \in runs : Entry(row) \in Entries /\ Entry(row).run = row.id
    BY DEF Entries, Entry
<1>2. \A e \in Entries : \E row \in runs : e.run = row.id
    BY DEF Entries, Entry
<1>3. Abstract!InLedger(r) <=> \E e \in Entries : e.run = r
    BY DEF Abstract!InLedger, Entries, Entry
<1> QED BY <1>1, <1>2, <1>3 DEF Known

(* A step on a worker's way, with the same operation and nothing decided. *)
LEMMA Silent ==
    ASSUME TypeOK, NEW w \in Worker, NEW from, NEW to,
           Goto(w, from, to), from # "idle", to # "idle", OpOf(from) = OpOf(to),
           \A v \in Worker \ {w} : items'[v] = items[v],
           UNCHANGED <<projects, children, runs, draft, run, reply>>
    PROVE  UNCHANGED Abstract!vars
<1>1. Ops' = Ops
    BY DEF Ops, TypeOK, Goto
<1>2. Reads' = Reads
    BY DEF Reads, TypeOK, Goto
<1>3. Entries' = Entries
    BY DEF Entries, Entry, ChildrenOf
<1> QED BY <1>1, <1>2, <1>3 DEF Abstract!vars, Ops, Reads, Entries, Entry

(* A request that ends without a spec to show. *)
LEMMA Answer ==
    ASSUME TypeOK, NEW w \in Worker, NEW from, NEW class,
           Reply(w, from, class), class # "spec",
           UNCHANGED <<projects, children, runs, draft, run, items>>
    PROVE  Abstract!Respond(w, OpOf(from), class, {})
<1>1. Ops[w] = OpOf(from) /\ Ops' = [Ops EXCEPT ![w] = "idle"]
    BY OpOfLabel DEF Ops, TypeOK, Reply, Goto
<1>2. Reads' = [Reads EXCEPT ![w] = {}]
    BY DEF Reads, TypeOK, Reply, Goto
<1>3. Entries' = Entries
    BY DEF Entries, Entry, ChildrenOf
<1> QED BY <1>1, <1>2, <1>3 DEF Abstract!Respond, Ops, Reads, Entries, Entry, Reply

(* A request that is taken in. *)
LEMMA Accept ==
    ASSUME TypeOK, NEW w \in Worker, NEW to \in SubmitLabel \cup GetLabel, NEW d, NEW r,
           Goto(w, "idle", to),
           draft' = [draft EXCEPT ![w] = d], run' = [run EXCEPT ![w] = r],
           reply' = [reply EXCEPT ![w] = "none"],
           \A v \in Worker \ {w} : items'[v] = items[v],
           UNCHANGED <<projects, children, runs>>
    PROVE  Abstract!Request(w, OpOf(to), d, r)
<1>1. Ops[w] = "idle" /\ Ops' = [Ops EXCEPT ![w] = OpOf(to)]
    BY OpOfLabel DEF Ops, TypeOK, Goto
<1>2. Reads' = [Reads EXCEPT ![w] = {}]
    BY DEF Reads, TypeOK, Goto, SubmitLabel, GetLabel
<1>3. Entries' = Entries
    BY DEF Entries, Entry, ChildrenOf
<1> QED BY <1>1, <1>2, <1>3 DEF Abstract!Request, Ops, Reads, Entries, Entry

(* A request that is refused on sight. *)
LEMMA Refusal ==
    ASSUME TypeOK, NEW w \in Worker, NEW class \in Errors,
           Reply(w, "idle", class),
           draft' = [draft EXCEPT ![w] = None], run' = [run EXCEPT ![w] = None],
           UNCHANGED <<projects, children, runs, items>>
    PROVE  Abstract!Refuse(w, class)
<1>1. Ops[w] = "idle" /\ Ops' = Ops
    BY OpOfLabel DEF Ops, TypeOK, Reply, Goto
<1>2. Reads' = [Reads EXCEPT ![w] = {}]
    BY DEF Reads, TypeOK, Reply, Goto, Errors
<1>3. Entries' = Entries
    BY DEF Entries, Entry, ChildrenOf
<1> QED BY <1>1, <1>2, <1>3 DEF Abstract!Refuse, Ops, Reads, Entries, Entry, Reply

(* The commit: the one entry of the request appears, and no other changes. *)
LEMMA Appending ==
    ASSUME IInv, KeyInv, NEW w \in Worker, Commit(w)
    PROVE  Abstract!Append(w)
<1> DEFINE new == [id |-> run[w], project |-> draft[w].project, spec |-> spec[w]]
           entry == [run |-> run[w], project |-> draft[w].project, items |-> draft[w].items]
<1>1. /\ Ops[w] = "submit" /\ Ops' = [Ops EXCEPT ![w] = "appended"]
      /\ Reads' = Reads
    BY OpOfLabel DEF Ops, Reads, IInv, TypeOK, Commit, Goto, SubmitLabel, locals
<1>2. draft[w].project \in projects
    BY NoneApart DEF Commit, Goto, TxInv, IInv, KeyInv
<1>3. ~Abstract!InLedger(run[w]) /\ \A s \in specs : s.id # spec[w]
    BY InLedgerKnown DEF UncommittedInv, SubmitLabel, Commit, Goto, IInv
<1>4. /\ children' = children \cup ({spec[w]} \X draft[w].items)
      /\ runs' = runs \cup {new}
      /\ draft[w] \in Draft
    BY CommitRows DEF IInv
<1>5. \A row \in runs : Entry(row)' = Entry(row)
    <2> SUFFICES ASSUME NEW row \in runs PROVE Entry(row)' = Entry(row)
        OBVIOUS
    <2>1. row.spec # spec[w]
        <3>1. \E s \in specs : s.id = row.spec
            BY SpecOfRun DEF IInv
        <3> QED BY <1>3, <3>1
    <2>2. { i \in Items : <<row.spec, i>> \in children' } = ChildrenOf(row.spec)
        BY <1>4, <2>1 DEF ChildrenOf
    <2> QED BY <2>2 DEF Entry, ChildrenOf
<1>6. ASSUME NEW row, row = new PROVE Entry(row)' = entry
    <2>1. \A i \in Items : <<spec[w], i>> \notin children
        BY <1>3 DEF NoLeftovers, IInv
    <2>2. { i \in Items : <<spec[w], i>> \in children' } = draft[w].items
        BY <1>4, <2>1, DraftFields
    <2> QED BY <1>6, <2>2 DEF Entry, ChildrenOf
<1>7. Entries' = Entries \cup {entry}
    <2>1. Entries' = { Entry(row)' : row \in runs' }
        BY DEF Entries, Entry, ChildrenOf
    <2> HIDE DEF new, entry
    <2>2. \A e : e \in Entries' => e \in Entries \cup {entry}
        BY <1>4, <1>5, <1>6, <2>1 DEF Entries
    <2>3. \A e : e \in Entries \cup {entry} => e \in Entries'
        BY <1>4, <1>5, <1>6, <2>1 DEF Entries
    <2> QED BY <2>2, <2>3
<1> QED BY <1>1, <1>2, <1>3, <1>7 DEF Abstract!Append, Ops, Reads, Entries, Entry, Commit, locals

(* The last query of a GetSpec: all child rows have been read. *)
LEMMA Found ==
    ASSUME IInv, NEW w \in Worker, ReadParameters(w)
    PROVE  Abstract!GetSpecFound(w)
<1>1. PICK row \in runs : row.id = run[w] /\ row.spec = spec[w]
    BY DEF ReadParameters, Reply, Goto, GetLabel, GetInv, IInv
<1>2. items'[w] = ChildrenOf(spec[w])
    BY AllRead DEF IInv
<1>3. /\ pc[w] = "getParameters" /\ pc' = [pc EXCEPT ![w] = "idle"]
      /\ reply' = [reply EXCEPT ![w] = "spec"]
      /\ \A v \in Worker \ {w} : items'[v] = items[v]
      /\ UNCHANGED <<projects, children, runs, draft, run>>
    BY DEF IInv, TypeOK, ReadParameters, ReadChildren, Reply, Goto, committed
<1>4. Ops[w] = "get" /\ Ops' = [Ops EXCEPT ![w] = "idle"]
    BY <1>3, OpOfLabel DEF IInv, TypeOK, Ops, GetLabel
<1>5. Reads' = [Reads EXCEPT ![w] = ChildrenOf(spec[w])]
    BY <1>2, <1>3 DEF IInv, TypeOK, Reads
<1>6. Entries' = Entries
    BY <1>3 DEF Entries, Entry, ChildrenOf
<1>7. Abstract!Respond(w, "get", "spec", ChildrenOf(spec[w]))
    BY <1>3, <1>4, <1>5, <1>6 DEF Abstract!Respond, Ops, Reads, Entries, Entry
<1>8. Entry(row) \in Entries /\ Entry(row).run = run[w] /\ Entry(row).items = ChildrenOf(spec[w])
    BY <1>1 DEF Entries, Entry
<1> QED BY <1>7, <1>8 DEF Abstract!GetSpecFound, Abstract!Respond, Entries, Entry

(* Every step of the ledger is a step of Ledger, or one it does not see. *)
LEMMA StepRefines ==
    ASSUME IInv, KeyInv, [Next]_vars
    PROVE  [Abstract!Next]_Abstract!vars
<1> USE DEF SubmitLabel, GetLabel, committed, session, locals
<1>0. TypeOK /\ RequestInv
    BY DEF IInv
<1>1. ASSUME NEW w \in Worker, Arrive(w) PROVE Abstract!Next
    <2>1. CASE SubmitMalformed(w)
        BY <1>0, <2>1, Refusal DEF SubmitMalformed, Abstract!Next, Errors
    <2>2. CASE GetSpecMalformed(w)
        BY <1>0, <2>2, Refusal DEF GetSpecMalformed, Abstract!Next, Errors
    <2>3. ASSUME NEW d \in Draft, NEW s \in SpecId, NEW r \in RunId, Submit(w, d, s, r)
          PROVE  Abstract!Next
        <3>1. Abstract!Request(w, "submit", d, r)
            <4>1. \A v \in Worker \ {w} : items'[v] = items[v]
                BY <1>0, <2>3 DEF Submit, TypeOK
            <4>2. Abstract!Request(w, OpOf("checkProject"), d, r)
                BY <1>0, <2>3, <4>1, Accept DEF Submit
            <4> QED BY <4>2, OpOfLabel
        <3>2. ~Abstract!InLedger(r)
            BY <2>3, InLedgerKnown DEF Submit, Fresh, Known
        <3> QED BY <3>1, <3>2 DEF Abstract!Next, Abstract!Submit
    <2>4. ASSUME NEW r \in RunId \cup {None}, GetSpec(w, r) PROVE Abstract!Next
        <3>1. Abstract!Request(w, "get", None, r)
            <4>1. \A v \in Worker \ {w} : items'[v] = items[v]
                BY <1>0, <2>4 DEF GetSpec, TypeOK
            <4>2. Abstract!Request(w, OpOf("getSpec"), None, r)
                BY <1>0, <2>4, <4>1, Accept DEF GetSpec
            <4> QED BY <4>2, OpOfLabel
        <3>2. r = None \/ Abstract!InLedger(r)
            BY <2>4, InLedgerKnown DEF GetSpec
        <3> QED BY <3>1, <3>2 DEF Abstract!Next, Abstract!GetSpec
    <2> QED BY <1>1, <2>1, <2>2, <2>3, <2>4 DEF Arrive
<1>2. ASSUME NEW w \in Worker, TakeConn(w) PROVE Abstract!Next \/ UNCHANGED Abstract!vars
    <2>1. CASE ProjectExists(w)
        BY <1>0, <2>1, Silent, OpOfLabel DEF ProjectExists, TypeOK
    <2>2. CASE ProjectMissing(w)
        BY <1>0, <2>2, Answer, OpOfLabel DEF ProjectMissing, Abstract!Next, Abstract!Rejections
    <2>3. CASE BeginTx(w)
        BY <1>0, <2>3, Silent, OpOfLabel DEF BeginTx, TypeOK
    <2>4. CASE SpecFound(w)
        BY <1>0, <2>4, Silent, OpOfLabel DEF SpecFound, TypeOK
    <2>5. CASE SpecMissing(w)
        <3>1. Abstract!Respond(w, "get", "notFound", {})
            BY <1>0, <2>5, Answer, OpOfLabel DEF SpecMissing
        <3>2. ~Known(run[w])
            <4> SUFFICES ASSUME NEW row \in runs, row.id = run[w] PROVE FALSE
                BY DEF Known
            <4>1. [id |-> row.spec, project |-> row.project] \in Joined(run[w])
                BY SpecOfRun DEF Joined, IInv
            <4> QED BY <2>5, <4>1 DEF SpecMissing
        <3> QED BY <3>1, <3>2, InLedgerKnown DEF Abstract!Next, Abstract!GetSpecMissing
    <2>6. CASE ReadPresets(w)
        BY <1>0, <2>6, Silent, OpOfLabel DEF ReadPresets, ReadChildren, TypeOK
    <2>7. CASE ReadDatasets(w)
        BY <1>0, <2>7, Silent, OpOfLabel DEF ReadDatasets, ReadChildren, TypeOK
    <2>8. CASE ReadParameters(w)
        BY <2>8, Found DEF Abstract!Next, IInv
    <2> QED BY <1>2, <2>1, <2>2, <2>3, <2>4, <2>5, <2>6, <2>7, <2>8 DEF TakeConn
<1>3. ASSUME NEW w \in Worker, Proceed(w) PROVE Abstract!Next \/ UNCHANGED Abstract!vars
    <2>1. CASE Build(w)
        BY <1>0, <2>1, Silent, OpOfLabel DEF Build, TypeOK
    <2>2. CASE BuildFails(w)
        BY <1>0, <2>2, Answer, OpOfLabel DEF BuildFails, Abstract!Next, Abstract!Rejections
    <2>3. CASE InsertSpec(w)
        BY <1>0, <2>3, Silent, OpOfLabel DEF InsertSpec, TypeOK
    <2>4. ASSUME NEW item \in Items, InsertChild(w, item) PROVE UNCHANGED Abstract!vars
        <3>1. Goto(w, "insertChildren", "insertChildren")
            BY <1>0, <2>4 DEF InsertChild, Goto, TypeOK
        <3> QED BY <1>0, <2>4, <3>1, Silent DEF InsertChild, TypeOK
    <2>5. CASE ChildrenInserted(w)
        BY <1>0, <2>5, Silent, OpOfLabel DEF ChildrenInserted, TypeOK
    <2>6. CASE InsertRun(w)
        BY <1>0, <2>6, Silent, OpOfLabel DEF InsertRun, TypeOK
    <2>7. CASE Commit(w)
        BY <2>7, Appending DEF Abstract!Next
    <2>8. CASE Respond(w)
        BY <1>0, <2>8, Answer, OpOfLabel DEF Respond, Abstract!Next
    <2> QED BY <1>3, <2>1, <2>2, <2>3, <2>4, <2>5, <2>6, <2>7, <2>8 DEF Proceed
<1>4. ASSUME NEW w \in Worker, Fail(w) PROVE Abstract!Next
    <2>1. CASE SubmitFails(w)
        BY <1>0, <2>1, Answer, OpOfLabel DEF SubmitFails, TxLabel, Abstract!Next, Abstract!Rejections
    <2>2. CASE GetSpecFails(w)
        BY <1>0, <2>2, Answer, OpOfLabel DEF GetSpecFails, Abstract!Next
    <2> QED BY <1>4, <2>1, <2>2 DEF Fail
<1>5. ASSUME NEW w \in Worker, CancelTx(w) PROVE UNCHANGED Abstract!vars
    BY <1>5 DEF CancelTx, Abstract!vars, ChildrenOf
<1>6. CASE Crash
    BY <1>6, OpOfLabel DEF Crash, Abstract!Next, Abstract!Crash, ChildrenOf
<1>7. CASE ReplaceConn
    BY <1>7 DEF ReplaceConn, Abstract!vars, ChildrenOf, tx
<1>8. ASSUME NEW p \in Project, AddProject(p) \/ RemoveProject(p) PROVE Abstract!Next
    BY <1>8 DEF AddProject, RemoveProject, Abstract!Next, Abstract!ChangeProjects, ChildrenOf
<1>9. CASE UNCHANGED vars
    BY <1>9 DEF vars, Abstract!vars, ChildrenOf
<1> QED BY <1>1, <1>2, <1>3, <1>4, <1>5, <1>6, <1>7, <1>8, <1>9 DEF Next

(* Each Submit takes effect in one step, its commit, or not at all; what   *)
(* is in the ledger is never changed, by crashes neither; and replies      *)
(* agree with it.                                                          *)
THEOREM ImplementsLedgerHolds ==
    ASSUME MayReplace = FALSE
    PROVE  Spec => ImplementsLedger
<1>1. Init => Abstract!Init
    BY OpOfLabel DEF Init, AllIdle, Abstract!Init, Abstract!Idle
<1>2. Init => KeyInv
    BY DEF Init, AllIdle, KeyInv, ProjectsExist
<1>3. IInv /\ KeyInv /\ [Next]_vars => KeyInv'
    BY KeyStep
<1>4. IInv /\ KeyInv /\ [Next]_vars => [Abstract!Next]_Abstract!vars
    BY StepRefines
<1> QED BY <1>1, <1>2, <1>3, <1>4, Inductive, PTL DEF Spec, ImplementsLedger, Abstract!Spec
=============================================================================
