---------------------------- MODULE SpecBuilder ----------------------------
(***************************************************************************)
(* What a submitted draft becomes: specbuilder.PresetBacked resolves the   *)
(* presets it refers to and merges them with it into a spec, entity.Spec   *)
(* turns the spec into rows, and GetSpec reads the rows back into a spec.  *)
(* One request after the other; how requests share the database is the     *)
(* subject of RunLedger.                                                   *)
(*                                                                         *)
(* A spec has sections (model, data and resource options), which a preset  *)
(* replaces as a whole, and training parameters, which are merged by key.  *)
(* The presets registered today have parameters only; the interface        *)
(* preset.Preset, and so the merge, allows for sections too.               *)
(***************************************************************************)
EXTENDS Numbers, Sequences, FiniteSets

CONSTANTS
    Id,         \* preset IDs a client may refer to
    Catalog,    \* the presets the registry is created with, by ID
    Request,    \* request bodies: [refs, sections, params]
    Key,        \* names of parameters
    Scalar,     \* contents of a model or resource section, and of a dataset
    NilId,      \* uuid.Nil
    None        \* a nil pointer

Category == {"trainer", "resource", "output"}

(* preset.Presets.All *)
All == <<"trainer", "resource", "output">>

Section == {"model", "data", "resource"}

Refs == [Category -> Id \cup {NilId, None}]

IsContent(s, content) == content \in IF s = "data" THEN Seq(Scalar) ELSE Scalar

IsParams(params) == DOMAIN params \subseteq Key /\ \A k \in DOMAIN params : IsNative(params[k])

IsOptions(o) ==
    /\ \A s \in Section : o.sections[s] = None \/ IsContent(s, o.sections[s])
    /\ IsParams(o.params)

ASSUME CatalogAssumption ==
    /\ NilId \notin Id /\ None \notin Id /\ NilId # None
    /\ DOMAIN Catalog \subseteq Id
    /\ \A id \in DOMAIN Catalog : Catalog[id] # None /\ IsOptions(Catalog[id])

Shaped(s) == s = [refs |-> s.refs, sections |-> [t \in Section |-> s.sections[t]], params |-> s.params]

ASSUME RequestAssumption ==
    \A r \in Request :
        /\ Shaped(r)
        /\ r.refs \in Refs
        /\ \A s \in Section : IsContent(s, r.sections[s])
        /\ DOMAIN r.params \subseteq Key /\ \A k \in DOMAIN r.params : IsJSON(r.params[k])

VARIABLES
    phase,      \* how far the request has come
    request,    \* its body
    draft,      \* draft.Draft
    registry,   \* the presets in memory, shared by all requests
    presets,    \* the resolved ones by category, None where there is no ref
    next,       \* the position in All of the next preset to merge
    spec,       \* the spec being built
    rows,       \* the rows it was stored as
    found       \* the spec GetSpec returned

vars == <<phase, request, draft, registry, presets, next, spec, rows, found>>

IsSpec(s) ==
    /\ Shaped(s)
    /\ s.refs \in Refs
    /\ \A t \in Section : IsContent(t, s.sections[t])
    /\ IsParams(s.params)

Final == {"notFound", "failed", "read"}

TypeOK ==
    /\ phase \in {"idle", "bound", "resolved", "merging", "built", "stored"} \cup Final
    /\ request \in Request \cup {None}
    /\ (draft # None => IsSpec(draft))
    /\ DOMAIN registry = DOMAIN Catalog /\ \A id \in DOMAIN registry : IsOptions(registry[id])
    /\ presets # None => \A c \in Category : presets[c] # None => IsOptions(presets[c])
    /\ next \in 1..(Len(All) + 1)
    /\ (spec # None => IsSpec(spec))
    /\ rows # None =>
        /\ rows.refs \subseteq Category \X Id
        /\ \A row \in rows.params : row[1] \in Key /\ IsText(row[2])
        /\ rows.datasets \subseteq Nat \X Scalar
    /\ found # None => found.refs \in [Category -> Id \cup {None}]

Init ==
    /\ phase = "idle"
    /\ request = None /\ draft = None
    /\ registry = Catalog
    /\ presets = None /\ next = 1
    /\ spec = None /\ rows = None /\ found = None

-----------------------------------------------------------------------------
(***************************************************************************)
(* Bind and ToDraft.                                                       *)
(***************************************************************************)
Bind(r) ==
    /\ phase \in {"idle"} \cup Final
    /\ phase' = "bound"
    /\ request' = r
    /\ draft' = [r EXCEPT !.params = [k \in DOMAIN r.params |-> Decode(r.params[k])]]
    /\ presets' = None /\ next' = 1
    /\ spec' = None /\ rows' = None /\ found' = None
    /\ UNCHANGED registry

(***************************************************************************)
(* Build.                                                                  *)
(***************************************************************************)
Skipped(ref) == ref \in {None, NilId}

CollectPresetIDs(refs) == { refs[c] : c \in Category } \ {None, NilId}

PresetByRef(ref) == IF Skipped(ref) THEN None ELSE registry[ref]

ReadPresets ==
    /\ phase = "bound"
    /\ CollectPresetIDs(draft.refs) \subseteq DOMAIN registry
    /\ presets' = [c \in Category |-> PresetByRef(draft.refs[c])]
    /\ phase' = "resolved"
    /\ UNCHANGED <<request, draft, registry, next, spec, rows, found>>

PresetMissing ==
    /\ phase = "bound"
    /\ ~ CollectPresetIDs(draft.refs) \subseteq DOMAIN registry
    /\ phase' = "notFound"
    /\ UNCHANGED <<request, draft, registry, presets, next, spec, rows, found>>

(* GetMany is asked only if there is something to look up. *)
ContextCancelled ==
    /\ phase = "bound"
    /\ CollectPresetIDs(draft.refs) # {}
    /\ phase' = "failed"
    /\ UNCHANGED <<request, draft, registry, presets, next, spec, rows, found>>

(* The validator accepts everything; overridePresets begins with the draft. *)
NoParams == [k \in {} |-> None]

Start ==
    /\ phase = "resolved"
    /\ spec' = [draft EXCEPT !.params = NoParams]
    /\ phase' = "merging"
    /\ UNCHANGED <<request, draft, registry, presets, next, rows, found>>

Override(base, over) ==
    [k \in DOMAIN base \cup DOMAIN over |-> IF k \in DOMAIN over THEN over[k] ELSE base[k]]

OverridePreset ==
    /\ phase = "merging"
    /\ next <= Len(All)
    /\ LET options == presets[All[next]] IN
        spec' = IF options = None THEN spec
                ELSE [spec EXCEPT
                        !.sections = [s \in Section |-> IF options.sections[s] = None
                                                        THEN @[s] ELSE options.sections[s]],
                        !.params = Override(@, options.params)]
    /\ next' = next + 1
    /\ UNCHANGED <<phase, request, draft, registry, presets, rows, found>>

\* Faulty variant: the parameters are merged into the trainer preset's own map.
OverrideDraftInPlace ==
    /\ phase = "merging"
    /\ next > Len(All)
    /\ spec' = [spec EXCEPT !.params = Override(@, draft.params)]
    /\ registry' = [id \in DOMAIN registry |->
                      IF id = draft.refs["trainer"]
                      THEN [registry[id] EXCEPT !.params = Override(@, draft.params)]
                      ELSE registry[id]]
    /\ phase' = "built"
    /\ UNCHANGED <<request, draft, presets, next, rows, found>>

OverrideDraft ==
    /\ phase = "merging"
    /\ next > Len(All)
    /\ spec' = [spec EXCEPT !.params = Override(@, draft.params)]
    /\ phase' = "built"
    /\ UNCHANGED <<request, draft, registry, presets, next, rows, found>>

-----------------------------------------------------------------------------
(***************************************************************************)
(* The rows of a spec.                                                     *)
(***************************************************************************)
Storable == \A k \in DOMAIN spec.params : Numeric(spec.params[k])

\* Faulty variant: a row for every category.
NilRefRows(refs) == { <<c, refs[c]>> : c \in Category }

RefRows(refs) == { <<c, refs[c]>> : c \in { x \in Category : ~Skipped(refs[x]) } }

FromData(s) ==
    [refs     |-> RefRows(s.refs),
     model    |-> s.sections["model"],
     resource |-> s.sections["resource"],
     datasets |-> { <<i - 1, s.sections["data"][i]>> : i \in DOMAIN s.sections["data"] },
     params   |-> { <<k, FormatNumber(s.params[k])>> : k \in DOMAIN s.params }]

InsertSpec ==
    /\ phase = "built"
    /\ Storable
    /\ rows' = FromData(spec)
    /\ phase' = "stored"
    /\ UNCHANGED <<request, draft, registry, presets, next, spec, found>>

InsertSpecFails ==
    /\ phase = "built"
    /\ ~Storable
    /\ phase' = "failed"
    /\ UNCHANGED <<request, draft, registry, presets, next, spec, rows, found>>

\* Faulty variant: ORDER BY ordinal DESC.
OrderByOrdinalDesc(datasets) ==
    LET After(row) == Cardinality({ other \in datasets : other[1] > row[1] }) IN
    [i \in 1..Cardinality(datasets) |-> (CHOOSE row \in datasets : After(row) = i - 1)[2]]

(* ORDER BY ordinal *)
OrderByOrdinal(datasets) ==
    LET Before(row) == Cardinality({ other \in datasets : other[1] < row[1] }) IN
    [i \in 1..Cardinality(datasets) |-> (CHOOSE row \in datasets : Before(row) = i - 1)[2]]

(* GetSpec and entity.Spec.ToData *)
ToData(r) ==
    [refs     |-> [c \in Category |->
                     IF \E row \in r.refs : row[1] = c
                     THEN (CHOOSE row \in r.refs : row[1] = c)[2] ELSE None],
     sections |-> [s \in Section |->
                     CASE s = "model"    -> r.model
                       [] s = "resource" -> r.resource
                       [] s = "data"     -> OrderByOrdinal(r.datasets)],
     params   |-> [k \in { row[1] : row \in r.params } |->
                     (CHOOSE row \in r.params : row[1] = k)[2]]]

GetSpec ==
    /\ phase = "stored"
    /\ found' = ToData(rows)
    /\ phase' = "read"
    /\ UNCHANGED <<request, draft, registry, presets, next, spec, rows>>

-----------------------------------------------------------------------------
Next ==
    \/ \E r \in Request : Bind(r)
    \/ ReadPresets \/ PresetMissing \/ ContextCancelled
    \/ Start \/ OverridePreset \/ OverrideDraft
    \/ InsertSpec \/ InsertSpecFails \/ GetSpec

Spec == Init /\ [][Next]_vars

-----------------------------------------------------------------------------
(***************************************************************************)
(* Properties.                                                             *)
(***************************************************************************)

(* What the i-th preset of the request, as registered at the start, offers. *)
HasPreset(i) == ~Skipped(draft.refs[All[i]])
Offer(i) == Catalog[draft.refs[All[i]]]
OffersParam(i, k) == HasPreset(i) /\ k \in DOMAIN Offer(i).params
OffersSection(i, s) == HasPreset(i) /\ Offer(i).sections[s] # None

(* The last of the first n presets to offer something has its way, over the *)
(* draft too.                                                               *)
SectionsMerged(n) ==
    \A s \in Section :
        \/ /\ \A i \in 1..n : ~OffersSection(i, s)
           /\ spec.sections[s] = draft.sections[s]
        \/ \E i \in 1..n :
            /\ OffersSection(i, s)
            /\ \A j \in (i + 1)..n : ~OffersSection(j, s)
            /\ spec.sections[s] = Offer(i).sections[s]

ParamMerged(n, k) ==
    \/ /\ \A i \in 1..n : ~OffersParam(i, k)
       /\ k \notin DOMAIN spec.params
    \/ \E i \in 1..n :
        /\ OffersParam(i, k)
        /\ \A j \in (i + 1)..n : ~OffersParam(j, k)
        /\ k \in DOMAIN spec.params
        /\ spec.params[k] = Offer(i).params[k]

\* A built spec follows the order of precedence, whatever the draft and its
\* presets have in common: a section is the last preset's that has one, else
\* the draft's; a parameter is the draft's, else the last preset's that has
\* one.  Nothing is lost or made up, and no earlier request shows through the
\* shared registry.
Precedence ==
    phase \in {"built", "stored", "read"} =>
        /\ SectionsMerged(Len(All))
        /\ \A k \in Key :
            IF k \in DOMAIN draft.params
            THEN k \in DOMAIN spec.params /\ spec.params[k] = draft.params[k]
            ELSE ParamMerged(Len(All), k)

\* Why Precedence holds: the registry never changes, the presets are those
\* the draft refers to, and after n presets the spec is merged up to n.
MergeInv ==
    /\ registry = Catalog
    /\ phase # "idle" => Shaped(draft) /\ draft.refs \in Refs
    /\ phase \in {"resolved", "merging"} =>
        /\ CollectPresetIDs(draft.refs) \subseteq DOMAIN Catalog
        /\ presets = [c \in Category |-> PresetByRef(draft.refs[c])]
    /\ phase \in {"bound", "resolved"} => next = 1
    /\ phase = "merging" =>
        /\ Shaped(spec)
        /\ next \in 1..(Len(All) + 1)
        /\ SectionsMerged(next - 1)
        /\ \A k \in Key : ParamMerged(next - 1, k)
    /\ Precedence

\* The spec that is read is the spec that was built: refs in their categories
\* (uuid.Nil becomes nil), datasets in their order, every parameter's number.
RoundTrip ==
    phase = "read" =>
        /\ \A c \in Category :
            found.refs[c] = IF Skipped(spec.refs[c]) THEN None ELSE spec.refs[c]
        /\ found.sections = spec.sections
        /\ DOMAIN found.params = DOMAIN spec.params
        /\ \A k \in DOMAIN spec.params : found.params[k] = FormatNumber(spec.params[k])

\* A whole number up to 2^53 comes back as the number the client sent.
NumbersSurvive ==
    phase = "read" =>
        \A k \in DOMAIN request.params :
            request.params[k].value <= Exact => found.params[k].value = request.params[k].value

\* Why RoundTrip and NumbersSurvive hold: the draft is the decoded body, the
\* rows are those of the built spec, which has numbers only, and what is read
\* is what they say.
StoreInv ==
    /\ phase # "idle" =>
        /\ request \in Request
        /\ draft = [request EXCEPT !.params =
                      [k \in DOMAIN request.params |-> Decode(request.params[k])]]
    /\ phase \in {"merging", "built", "stored", "read"} => IsSpec(spec)
    /\ phase \in {"stored", "read"} => Storable /\ rows = FromData(spec)
    /\ phase = "read" => found = ToData(rows)

IInv == TypeOK /\ MergeInv /\ StoreInv

\* entity/spec.go on the stored text of a parameter: "does not commit to int vs
\* float; consumers that need a typed view cast via json.Number".  A whole
\* number the client sent can be cast by Int64, which refuses an exponent.
IntegersCast ==
    phase = "read" =>
        \A k \in DOMAIN request.params : ~found.params[k].exponent
=============================================================================
