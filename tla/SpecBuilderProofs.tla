-------------------------- MODULE SpecBuilderProofs --------------------------
(***************************************************************************)
(* SpecBuilder for any registry, any requests and any parameters: how a    *)
(* spec is merged, and that its rows read back as the spec that was built. *)
(***************************************************************************)
EXTENDS SpecBuilder, FiniteSetTheorems, TLAPS

LEMMA AllCategories ==
    /\ Len(All) = 3
    /\ \A i \in 1..3 : All[i] \in Category
BY DEF All, Category

(* What is looked up for the i-th category is what the draft refers to. *)
LEMMA Resolved ==
    ASSUME MergeInv, phase = "merging", NEW i \in 1..3
    PROVE  IF HasPreset(i)
           THEN /\ presets[All[i]] = Offer(i)
                /\ Offer(i) # None
           ELSE presets[All[i]] = None
<1>1. presets[All[i]] = PresetByRef(draft.refs[All[i]])
    BY AllCategories DEF MergeInv
<1>2. CASE HasPreset(i)
    <2>1. draft.refs[All[i]] \in DOMAIN Catalog
        BY <1>2, AllCategories DEF MergeInv, HasPreset, Skipped, CollectPresetIDs
    <2> QED BY <1>1, <1>2, <2>1, CatalogAssumption DEF MergeInv, PresetByRef, HasPreset, Offer
<1>3. CASE ~HasPreset(i)
    BY <1>1, <1>3 DEF PresetByRef, HasPreset
<1> QED BY <1>2, <1>3

(* One preset more: what was merged up to the last one is merged up to it. *)
LEMMA MergeStep ==
    ASSUME MergeInv, OverridePreset
    PROVE  /\ Shaped(spec)'
           /\ next' \in 1..4
           /\ SectionsMerged(next - 1)'
           /\ \A k \in Key : ParamMerged(next - 1, k)'
<1>1. /\ phase = "merging" /\ next \in 1..3 /\ next' = next + 1
      /\ draft' = draft
      /\ Shaped(spec)
    BY AllCategories DEF OverridePreset, MergeInv
<1>2. /\ SectionsMerged(next - 1)
      /\ \A k \in Key : ParamMerged(next - 1, k)
    BY <1>1 DEF MergeInv
<1>3. IF HasPreset(next)
      THEN presets[All[next]] = Offer(next) /\ Offer(next) # None
      ELSE presets[All[next]] = None
    BY <1>1, Resolved
<1>4. /\ \A i \in 1..3, s \in Section : OffersSection(i, s)' <=> OffersSection(i, s)
      /\ \A i \in 1..3, k \in Key : OffersParam(i, k)' <=> OffersParam(i, k)
      /\ \A i \in 1..3 : Offer(i)' = Offer(i)
    BY <1>1 DEF OffersSection, OffersParam, HasPreset, Offer
<1>5. Shaped(spec)'
    BY <1>1 DEF OverridePreset, Shaped, Section
<1>6. ASSUME NEW s \in Section
      PROVE  spec'.sections[s] = IF OffersSection(next, s) THEN Offer(next).sections[s]
                                                           ELSE spec.sections[s]
    BY <1>1, <1>3, <1>6 DEF OverridePreset, Shaped, OffersSection
<1>7. ASSUME NEW k \in Key
      PROVE  /\ k \in DOMAIN spec'.params <=> k \in DOMAIN spec.params \/ OffersParam(next, k)
             /\ OffersParam(next, k) => spec'.params[k] = Offer(next).params[k]
             /\ ~OffersParam(next, k) /\ k \in DOMAIN spec.params
                    => spec'.params[k] = spec.params[k]
    BY <1>1, <1>3 DEF OverridePreset, Shaped, OffersParam, Override
<1>8. SectionsMerged(next - 1)'
    <2> SUFFICES ASSUME NEW s \in Section
                 PROVE  \/ /\ \A i \in 1..next : ~OffersSection(i, s)
                           /\ spec'.sections[s] = draft.sections[s]
                        \/ \E i \in 1..next :
                            /\ OffersSection(i, s)
                            /\ \A j \in (i + 1)..next : ~OffersSection(j, s)
                            /\ spec'.sections[s] = Offer(i).sections[s]
        BY <1>1, <1>4 DEF SectionsMerged
    <2>1. CASE OffersSection(next, s)
        BY <1>1, <1>6, <2>1
    <2>2. CASE ~OffersSection(next, s)
        BY <1>1, <1>2, <1>6, <2>2 DEF SectionsMerged
    <2> QED BY <2>1, <2>2
<1>9. ASSUME NEW k \in Key PROVE ParamMerged(next - 1, k)'
    <2> SUFFICES \/ /\ \A i \in 1..next : ~OffersParam(i, k)
                    /\ k \notin DOMAIN spec'.params
                 \/ \E i \in 1..next :
                     /\ OffersParam(i, k)
                     /\ \A j \in (i + 1)..next : ~OffersParam(j, k)
                     /\ k \in DOMAIN spec'.params
                     /\ spec'.params[k] = Offer(i).params[k]
        BY <1>1, <1>4 DEF ParamMerged
    <2>1. CASE OffersParam(next, k)
        BY <1>1, <1>7, <2>1
    <2>2. CASE ~OffersParam(next, k)
        BY <1>1, <1>2, <1>7, <2>2 DEF ParamMerged
    <2> QED BY <2>1, <2>2
<1> QED BY <1>1, <1>5, <1>8, <1>9

(* Every action keeps the invariant. *)
LEMMA InvStep ==
    ASSUME MergeInv, [Next]_vars
    PROVE  MergeInv'
<1> USE DEF MergeInv
<1>1. ASSUME NEW r \in Request, Bind(r) PROVE MergeInv'
    <2>1. Shaped(r) /\ r.refs \in Refs
        BY RequestAssumption
    <2>2. Shaped(draft') /\ draft'.refs = r.refs
        BY <1>1, <2>1 DEF Bind, Shaped
    <2> QED BY <1>1, <2>1, <2>2 DEF Bind, Precedence, Shaped
<1>2. CASE ReadPresets
    BY <1>2 DEF ReadPresets, Precedence, PresetByRef, CollectPresetIDs, Shaped
<1>3. CASE PresetMissing \/ ContextCancelled
    BY <1>3 DEF PresetMissing, ContextCancelled, Precedence, Shaped
<1>4. CASE Start
    <2>1. Shaped(spec)' /\ spec'.sections = draft.sections /\ DOMAIN spec'.params = {}
        BY <1>4 DEF Start, Shaped, NoParams
    <2>2. SectionsMerged(next - 1)' /\ \A k \in Key : ParamMerged(next - 1, k)'
        BY <1>4, <2>1 DEF Start, SectionsMerged, ParamMerged
    <2> QED BY <1>4, <2>1, <2>2, AllCategories
        DEF Start, Precedence, CollectPresetIDs, PresetByRef, Shaped
<1>5. CASE OverridePreset
    <2>1. /\ Shaped(spec)' /\ next' \in 1..4
          /\ SectionsMerged(next - 1)' /\ \A k \in Key : ParamMerged(next - 1, k)'
        BY <1>5, MergeStep
    <2> QED BY <1>5, <2>1, AllCategories
        DEF OverridePreset, Precedence, CollectPresetIDs, PresetByRef, Shaped
<1>6. CASE OverrideDraft
    <2>1. /\ phase = "merging" /\ next = Len(All) + 1
          /\ draft' = draft /\ Shaped(spec)
        BY <1>6, AllCategories DEF OverrideDraft
    <2>2. /\ spec'.sections = spec.sections
          /\ DOMAIN spec'.params = DOMAIN spec.params \cup DOMAIN draft.params
          /\ \A k \in DOMAIN spec'.params :
               spec'.params[k] = IF k \in DOMAIN draft.params THEN draft.params[k]
                                                              ELSE spec.params[k]
        BY <1>6, <2>1 DEF OverrideDraft, Shaped, Override
    <2>3. SectionsMerged(Len(All))'
        BY <2>1, <2>2, AllCategories
        DEF SectionsMerged, OffersSection, HasPreset, Offer
    <2>4. ASSUME NEW k \in Key
          PROVE  (IF k \in DOMAIN draft.params
                  THEN k \in DOMAIN spec.params /\ spec.params[k] = draft.params[k]
                  ELSE ParamMerged(Len(All), k))'
        BY <2>1, <2>2, <2>4, AllCategories
        DEF ParamMerged, OffersParam, HasPreset, Offer
    <2>5. Precedence'
        BY <2>3, <2>4 DEF Precedence
    <2> QED BY <1>6, <2>1, <2>5 DEF OverrideDraft, Shaped
<1>7. CASE InsertSpec \/ InsertSpecFails \/ GetSpec
    <2>1. phase \in {"built", "stored"} /\ draft' = draft /\ spec' = spec /\ registry' = registry
          /\ phase' \in {"stored", "failed", "read"}
        BY <1>7 DEF InsertSpec, InsertSpecFails, GetSpec
    <2>2. Precedence'
        BY <2>1 DEF Precedence, SectionsMerged, ParamMerged, OffersSection, OffersParam, HasPreset, Offer
    <2> QED BY <2>1, <2>2 DEF Shaped
<1>8. CASE UNCHANGED vars
    BY <1>8 DEF vars, Precedence, SectionsMerged, ParamMerged, OffersSection, OffersParam, HasPreset,
                Offer, PresetByRef, CollectPresetIDs, Shaped
<1> QED BY <1>1, <1>2, <1>3, <1>4, <1>5, <1>6, <1>7, <1>8 DEF Next

(* The rows of the first n elements of a sequence are n rows. *)
LEMMA RowsOfPrefix ==
    ASSUME NEW data, NEW n \in Nat
    PROVE  /\ IsFiniteSet({ <<i - 1, data[i]>> : i \in 1..n })
           /\ Cardinality({ <<i - 1, data[i]>> : i \in 1..n }) = n
<1> DEFINE rowsOf == { <<i - 1, data[i]>> : i \in 1..n }
           row == [i \in 1..n |-> <<i - 1, data[i]>>]
<1>1. row \in Bijection(1..n, rowsOf)
    <2>1. row \in [1..n -> rowsOf]
        OBVIOUS
    <2>2. \A i, j \in 1..n : row[i] = row[j] => i = j
        OBVIOUS
    <2>3. \A x \in rowsOf : \E i \in 1..n : row[i] = x
        OBVIOUS
    <2> HIDE DEF row, rowsOf
    <2> QED BY <2>1, <2>2, <2>3 DEF Bijection, Injection, Surjection, IsInjective
<1>2. IsFiniteSet(1..n) /\ Cardinality(1..n) = n
    BY FS_Interval
<1> QED BY <1>1, <1>2, FS_Bijection DEF ExistsBijection

(* Read in the order of their ordinals, the rows of a sequence are the sequence. *)
LEMMA OrderOfRows ==
    ASSUME NEW S, NEW data \in Seq(S)
    PROVE  OrderByOrdinal({ <<i - 1, data[i]>> : i \in DOMAIN data }) = data
<1> DEFINE all == { <<i - 1, data[i]>> : i \in DOMAIN data }
           Before(row) == Cardinality({ other \in all : other[1] < row[1] })
<1>1. PICK n \in Nat : DOMAIN data = 1..n
    <2>1. Len(data) \in Nat /\ DOMAIN data = 1..Len(data)
        OBVIOUS
    <2> QED BY <2>1
<1>2. Cardinality(all) = n
    BY <1>1, RowsOfPrefix
<1>3. ASSUME NEW i \in 1..n PROVE Before(<<i - 1, data[i]>>) = i - 1
    <2>1. { other \in all : other[1] < i - 1 } = { <<j - 1, data[j]>> : j \in 1..(i - 1) }
        <3>1. ASSUME NEW other \in all, other[1] < i - 1
              PROVE  other \in { <<j - 1, data[j]>> : j \in 1..(i - 1) }
            BY <1>1, <3>1
        <3>2. ASSUME NEW j \in 1..(i - 1)
              PROVE  <<j - 1, data[j]>> \in all /\ <<j - 1, data[j]>>[1] < i - 1
            BY <1>1
        <3> QED BY <3>1, <3>2
    <2>2. i - 1 \in Nat
        OBVIOUS
    <2>3. Cardinality({ <<j - 1, data[j]>> : j \in 1..(i - 1) }) = i - 1
        BY <2>2, RowsOfPrefix
    <2>4. <<i - 1, data[i]>>[1] = i - 1
        OBVIOUS
    <2> HIDE DEF all
    <2> QED BY <2>1, <2>3, <2>4
<1>4. ASSUME NEW i \in 1..n PROVE (CHOOSE row \in all : Before(row) = i - 1)[2] = data[i]
    <2>1. <<i - 1, data[i]>> \in all
        BY <1>1
    <2>2. ASSUME NEW row \in all, Before(row) = i - 1 PROVE row = <<i - 1, data[i]>>
        <3>1. PICK j \in 1..n : row = <<j - 1, data[j]>>
            BY <1>1
        <3> HIDE DEF Before
        <3> QED BY <1>3, <2>2, <3>1
    <2> HIDE DEF Before, all
    <2> QED BY <1>3, <2>1, <2>2
<1>5. data = [i \in 1..n |-> data[i]]
    BY <1>1
<1>6. OrderByOrdinal(all) =
          [i \in 1..Cardinality(all) |-> (CHOOSE row \in all : Before(row) = i - 1)[2]]
    BY DEF OrderByOrdinal
<1> HIDE DEF all, Before
<1>7. OrderByOrdinal(all) = data
    BY <1>2, <1>4, <1>5, <1>6
<1> QED BY <1>7 DEF all

(* A decoded body is a draft of the right type. *)
LEMMA DecodedIsSpec ==
    ASSUME NEW r \in Request
    PROVE  LET d == [r EXCEPT !.params = [k \in DOMAIN r.params |-> Decode(r.params[k])]] IN
           IsSpec(d) /\ d.params = [k \in DOMAIN r.params |-> Decode(r.params[k])]
<1> DEFINE d == [r EXCEPT !.params = [k \in DOMAIN r.params |-> Decode(r.params[k])]]
<1>1. /\ Shaped(r) /\ r.refs \in Refs
      /\ \A s \in Section : IsContent(s, r.sections[s])
      /\ DOMAIN r.params \subseteq Key /\ \A k \in DOMAIN r.params : IsJSON(r.params[k])
    BY RequestAssumption
<1>2. /\ d.refs = r.refs /\ d.sections = r.sections
      /\ d.params = [k \in DOMAIN r.params |-> Decode(r.params[k])]
      /\ Shaped(d)
    BY <1>1 DEF Shaped
<1>3. ASSUME NEW v, IsJSON(v) PROVE IsNative(Decode(v))
    <2>1. ASSUME NEW n \in Nat PROVE Float64(n) \in Nat
        BY NumberAssumption DEF Float64
    <2> QED BY <1>3, <2>1 DEF IsJSON, IsNative, IsOther, Decode
<1> QED BY <1>1, <1>2, <1>3 DEF IsSpec, IsParams

(* Override keeps parameters parameters. *)
LEMMA OverrideIsParams ==
    ASSUME NEW base, NEW over, IsParams(base), IsParams(over)
    PROVE  IsParams(Override(base, over))
BY DEF IsParams, Override

(* A spec that merges a preset of the registry, or the draft, stays a spec. *)
LEMMA MergedIsSpec ==
    ASSUME NEW s, NEW options, IsSpec(s), IsOptions(options)
    PROVE  IsSpec([s EXCEPT
                    !.sections = [t \in Section |-> IF options.sections[t] = None
                                                    THEN @[t] ELSE options.sections[t]],
                    !.params = Override(@, options.params)])
<1> DEFINE sections == [t \in Section |-> IF options.sections[t] = None
                                        THEN s.sections[t] ELSE options.sections[t]]
           params == Override(s.params, options.params)
           m == [s EXCEPT !.sections = sections, !.params = params]
<1>1. /\ m.refs = s.refs /\ m.sections = sections /\ m.params = params
      /\ m = [refs |-> m.refs, sections |-> m.sections, params |-> m.params]
    <2>1. s = [x \in {"refs", "sections", "params"} |-> s[x]]
        BY DEF IsSpec, Shaped
    <2> HIDE DEF sections, params
    <2>2. m = [x \in {"refs", "sections", "params"} |->
                 CASE x = "refs" -> s.refs [] x = "sections" -> sections [] OTHER -> params]
        BY <2>1
    <2> HIDE DEF m
    <2>3. m.refs = s.refs
        BY <2>2
    <2>4. m.sections = sections
        BY <2>2
    <2>5. m.params = params
        BY <2>2
    <2>6. m = [refs |-> m.refs, sections |-> m.sections, params |-> m.params]
        BY <2>2
    <2> QED BY <2>3, <2>4, <2>5, <2>6
<1>2. IsParams(m.params)
    BY <1>1, OverrideIsParams DEF IsSpec, IsOptions
<1> HIDE DEF m
<1>3. Shaped(m)
    BY <1>1 DEF Shaped
<1>4. \A t \in Section : IsContent(t, m.sections[t])
    BY <1>1 DEF IsSpec, IsOptions
<1>5. IsSpec(m)
    BY <1>1, <1>2, <1>3, <1>4 DEF IsSpec
<1> QED BY <1>5 DEF m

(* The rows of a spec have the types of their columns. *)
LEMMA RowsAreTyped ==
    ASSUME IsSpec(spec), Storable
    PROVE  LET r == FromData(spec) IN
           /\ r.refs \subseteq Category \X Id
           /\ \A row \in r.params : row[1] \in Key /\ IsText(row[2])
           /\ r.datasets \subseteq Nat \X Scalar
<1>1. FromData(spec).refs \subseteq Category \X Id
    BY DEF IsSpec, FromData, RefRows, Refs, Skipped
<1>2. \A row \in FromData(spec).params : row[1] \in Key /\ IsText(row[2])
    <2>1. ASSUME NEW k \in DOMAIN spec.params
          PROVE  k \in Key /\ IsText(FormatNumber(spec.params[k]))
        <3>1. k \in Key /\ IsNative(spec.params[k]) /\ Numeric(spec.params[k])
            BY DEF IsSpec, IsParams, Storable
        <3>2. spec.params[k].value \in Nat
            BY <3>1 DEF IsNative, IsOther, Numeric
        <3> QED BY <3>1, <3>2 DEF FormatNumber, IsText
    <2> QED BY <2>1 DEF FromData
<1>3. FromData(spec).datasets \subseteq Nat \X Scalar
    <2> DEFINE data == spec.sections["data"]
    <2>1. data \in Seq(Scalar)
        BY DEF IsSpec, IsContent, Section
    <2>2. \A i \in DOMAIN data : i - 1 \in Nat /\ data[i] \in Scalar
        <3>1. DOMAIN data = 1..Len(data) /\ Len(data) \in Nat
            BY <2>1
        <3> QED BY <2>1, <3>1
    <2> HIDE DEF data
    <2>3. { <<i - 1, data[i]>> : i \in DOMAIN data } \subseteq Nat \X Scalar
        BY <2>2
    <2> QED BY <2>3 DEF FromData, data
<1> QED BY <1>1, <1>2, <1>3

(* What is read of the rows of a spec. *)
LEMMA ReadBack ==
    ASSUME IsSpec(spec)
    PROVE  LET f == ToData(FromData(spec)) IN
           /\ \A c \in Category :
                f.refs[c] = IF Skipped(spec.refs[c]) THEN None ELSE spec.refs[c]
           /\ f.refs \in [Category -> Id \cup {None}]
           /\ f.sections = spec.sections
           /\ DOMAIN f.params = DOMAIN spec.params
           /\ \A k \in DOMAIN spec.params : f.params[k] = FormatNumber(spec.params[k])
<1> DEFINE r == FromData(spec)
           f == ToData(r)
<1>1. /\ r.refs = RefRows(spec.refs)
      /\ r.model = spec.sections["model"] /\ r.resource = spec.sections["resource"]
      /\ r.datasets = { <<i - 1, spec.sections["data"][i]>> : i \in DOMAIN spec.sections["data"] }
      /\ r.params = { <<k, FormatNumber(spec.params[k])>> : k \in DOMAIN spec.params }
    BY DEF FromData
<1> HIDE DEF r
<1>2. /\ f.refs = [c \in Category |->
                     IF \E row \in r.refs : row[1] = c
                     THEN (CHOOSE row \in r.refs : row[1] = c)[2] ELSE None]
      /\ f.sections = [s \in Section |->
                     CASE s = "model"    -> r.model
                       [] s = "resource" -> r.resource
                       [] s = "data"     -> OrderByOrdinal(r.datasets)]
      /\ f.params = [k \in { row[1] : row \in r.params } |->
                     (CHOOSE row \in r.params : row[1] = k)[2]]
    BY DEF ToData
<1> HIDE DEF f
<1>3. ASSUME NEW c \in Category
      PROVE  f.refs[c] = IF Skipped(spec.refs[c]) THEN None ELSE spec.refs[c]
    <2>1. CASE Skipped(spec.refs[c])
        BY <1>1, <1>2, <2>1 DEF RefRows
    <2>2. CASE ~Skipped(spec.refs[c])
        <3>1. <<c, spec.refs[c]>> \in r.refs
            BY <1>1, <2>2 DEF RefRows
        <3>2. \A row \in r.refs : row[1] = c => row = <<c, spec.refs[c]>>
            BY <1>1 DEF RefRows
        <3>3. (CHOOSE row \in r.refs : row[1] = c) = <<c, spec.refs[c]>>
            BY <3>1, <3>2
        <3> QED BY <1>2, <2>2, <3>1, <3>3
    <2> QED BY <2>1, <2>2
<1>4. f.refs \in [Category -> Id \cup {None}]
    BY <1>2, <1>3 DEF IsSpec, Refs, Skipped
<1>5. f.sections = spec.sections
    <2>1. spec.sections["data"] \in Seq(Scalar)
        BY DEF IsSpec, IsContent, Section
    <2>2. OrderByOrdinal(r.datasets) = spec.sections["data"]
        BY <1>1, <2>1, OrderOfRows
    <2>3. spec.sections = [s \in Section |-> spec.sections[s]]
        BY DEF IsSpec, Shaped
    <2>4. \A s \in Section : f.sections[s] = spec.sections[s]
        BY <1>1, <1>2, <2>2 DEF Section
    <2> QED BY <1>2, <2>3, <2>4
<1>6. DOMAIN f.params = DOMAIN spec.params
    <2>1. DOMAIN f.params = { row[1] : row \in r.params }
        BY <1>2
    <2>2. \A row \in r.params : row[1] \in DOMAIN spec.params
        BY <1>1
    <2>3. ASSUME NEW k \in DOMAIN spec.params PROVE \E row \in r.params : row[1] = k
        <3>1. <<k, FormatNumber(spec.params[k])>> \in r.params
            BY <1>1
        <3>2. <<k, FormatNumber(spec.params[k])>>[1] = k
            OBVIOUS
        <3> QED BY <3>1, <3>2, Zenon
    <2> QED BY <2>1, <2>2, <2>3
<1>7. ASSUME NEW k \in DOMAIN spec.params PROVE f.params[k] = FormatNumber(spec.params[k])
    <2>1. <<k, FormatNumber(spec.params[k])>> \in r.params
        BY <1>1, Zenon
    <2>2. ASSUME NEW row \in r.params, row[1] = k
          PROVE  row = <<k, FormatNumber(spec.params[k])>>
        <3>1. PICK l \in DOMAIN spec.params : row = <<l, FormatNumber(spec.params[l])>>
            BY <1>1
        <3>2. l = k
            BY <2>2, <3>1
        <3> QED BY <3>1, <3>2
    <2>3. (CHOOSE row \in r.params : row[1] = k) = <<k, FormatNumber(spec.params[k])>>
        BY <2>1, <2>2
    <2>4. f.params[k] = (CHOOSE row \in r.params : row[1] = k)[2]
        BY <1>2, <1>6, Zenon
    <2>5. <<k, FormatNumber(spec.params[k])>>[2] = FormatNumber(spec.params[k])
        OBVIOUS
    <2> QED BY <2>3, <2>4, <2>5, Zenon
<1> QED BY <1>3, <1>4, <1>5, <1>6, <1>7 DEF f, r

(* Every action keeps the types and what the rows say of the spec. *)
LEMMA StoreStep ==
    ASSUME IInv, [Next]_vars
    PROVE  TypeOK' /\ StoreInv'
<1> USE DEF IInv, TypeOK, StoreInv, Final
<1>1. ASSUME NEW r \in Request, Bind(r) PROVE TypeOK' /\ StoreInv'
    BY <1>1, DecodedIsSpec, AllCategories DEF Bind
<1>2. CASE ReadPresets
    <2>1. \A c \in Category : presets'[c] # None => IsOptions(presets'[c])
        BY <1>2, CatalogAssumption
        DEF ReadPresets, MergeInv, PresetByRef, CollectPresetIDs, Skipped
    <2> QED BY <1>2, <2>1 DEF ReadPresets
<1>3. CASE PresetMissing \/ ContextCancelled
    BY <1>3 DEF PresetMissing, ContextCancelled
<1>4. CASE Start
    <2>1. IsSpec(draft)
        BY <1>4, DecodedIsSpec DEF Start
    <2>2. IsSpec(spec')
        BY <1>4, <2>1 DEF Start, IsSpec, IsParams, Shaped, NoParams
    <2> QED BY <1>4, <2>2 DEF Start
<1>5. CASE OverridePreset
    <2>1. /\ next \in 1..3 /\ next' = next + 1 /\ next' \in 1..(Len(All) + 1)
          /\ All[next] \in Category /\ IsSpec(spec)
        BY <1>5, AllCategories DEF OverridePreset
    <2>2. presets[All[next]] # None => IsOptions(presets[All[next]])
        BY <1>5, <2>1, CatalogAssumption
        DEF OverridePreset, MergeInv, PresetByRef, CollectPresetIDs, Skipped
    <2>3. IsSpec(spec')
        BY <1>5, <2>1, <2>2, MergedIsSpec DEF OverridePreset
    <2> QED BY <1>5, <2>1, <2>3 DEF OverridePreset
<1>6. CASE OverrideDraft
    <2>1. IsSpec(draft) /\ IsSpec(spec)
        BY <1>6, DecodedIsSpec DEF OverrideDraft
    <2>2. IsParams(Override(spec.params, draft.params))
        BY <2>1, OverrideIsParams DEF IsSpec
    <2>3. IsSpec(spec')
        BY <1>6, <2>1, <2>2 DEF OverrideDraft, IsSpec, Shaped
    <2> QED BY <1>6, <2>3 DEF OverrideDraft
<1>7. CASE InsertSpec
    <2>1. IsSpec(spec)
        BY <1>7 DEF InsertSpec
    <2> QED BY <1>7, <2>1, RowsAreTyped DEF InsertSpec, Storable
<1>8. CASE InsertSpecFails
    BY <1>8 DEF InsertSpecFails
<1>9. CASE GetSpec
    <2>1. IsSpec(spec) /\ found' = ToData(FromData(spec))
        BY <1>9 DEF GetSpec
    <2>2. found'.refs \in [Category -> Id \cup {None}]
        BY <2>1, ReadBack
    <2> QED BY <1>9, <2>2 DEF GetSpec, Storable
<1>10. CASE UNCHANGED vars
    BY <1>10 DEF vars, Storable
<1> QED BY <1>1, <1>2, <1>3, <1>4, <1>5, <1>6, <1>7, <1>8, <1>9, <1>10 DEF Next

(***************************************************************************)
(* The theorems.                                                           *)
(***************************************************************************)

\* The merge, the rows and what is read of them agree at every step of every
\* request, whatever the registry holds and whatever was asked for before.
THEOREM Inductive == Spec => []IInv
<1>1. Init => IInv
    BY AllCategories, CatalogAssumption DEF Init, IInv, TypeOK, MergeInv, StoreInv, Precedence, Final
<1>2. IInv /\ [Next]_vars => IInv'
    BY StoreStep, InvStep DEF IInv
<1> QED BY <1>1, <1>2, PTL DEF Spec

\* A draft, a spec under construction and its rows keep their types: no row
\* refers to uuid.Nil, and every stored parameter is the text of a number.
THEOREM TypeCorrect == Spec => []TypeOK
BY Inductive, PTL DEF IInv

\* A built spec follows the order of precedence, for every registry and every
\* sequence of requests.
THEOREM PrecedenceHolds == Spec => []Precedence
<1>1. IInv => Precedence
    BY DEF IInv, MergeInv
<1> QED BY <1>1, Inductive, PTL

\* What GetSpec reads of the rows FromData made is the spec that was built:
\* references in their categories, datasets of any number in their order, and
\* the number of every parameter.
THEOREM RoundTripHolds == Spec => []RoundTrip
<1>1. IInv => RoundTrip
    BY ReadBack DEF IInv, StoreInv, RoundTrip
<1> QED BY <1>1, Inductive, PTL

\* A whole number up to 2^53 that a client sent is read back as that number,
\* through float64, the merge, the text of the column and back.
THEOREM NumbersSurviveHolds == Spec => []NumbersSurvive
<1>1. ASSUME IInv PROVE NumbersSurvive
    <2> SUFFICES ASSUME phase = "read", NEW k \in DOMAIN request.params,
                        request.params[k].value <= Exact
                 PROVE  found.params[k].value = request.params[k].value
        BY DEF NumbersSurvive
    <2>1. /\ IsSpec(spec) /\ Storable /\ found = ToData(FromData(spec))
          /\ request \in Request
          /\ draft.params = [l \in DOMAIN request.params |-> Decode(request.params[l])]
        BY <1>1, DecodedIsSpec DEF IInv, StoreInv
    <2>2. /\ k \in Key /\ IsJSON(request.params[k])
        BY <2>1, RequestAssumption
    <2>3. k \in DOMAIN spec.params /\ spec.params[k] = Decode(request.params[k])
        <3>1. Precedence
            BY <1>1 DEF IInv, MergeInv
        <3>2. k \in DOMAIN draft.params /\ draft.params[k] = Decode(request.params[k])
            BY <2>1
        <3> QED BY <2>2, <3>1, <3>2 DEF Precedence
    <2>4. request.params[k] \in [type : {"number"}, value : Nat]
        BY <2>1, <2>2, <2>3 DEF Storable, Numeric, IsJSON, IsOther, Decode
    <2>5. spec.params[k].value = request.params[k].value
        <3>1. \A n \in Nat : n <= Exact => Float64(n) = n
            BY NumberAssumption DEF Float64
        <3> QED BY <2>3, <2>4, <3>1 DEF Decode
    <2>6. found.params[k] = FormatNumber(spec.params[k])
        BY <2>1, <2>3, ReadBack
    <2> QED BY <2>5, <2>6 DEF FormatNumber
<1> QED BY <1>1, Inductive, PTL
=============================================================================
