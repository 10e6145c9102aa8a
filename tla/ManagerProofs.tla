----------------------------- MODULE ManagerProofs -----------------------------
(***************************************************************************)
(* Safety of Manager for any number of processes, runs and edited presets. *)
(***************************************************************************)
EXTENDS Manager, TLAPS

(* The statements of the migration, one by one. *)
LEMMA MigrationStatements ==
    /\ Len(Migration) = 18 /\ DOMAIN Migration = 1..18
    /\ Migration[1] = Create("projects")
    /\ Migration[2] = Create("specs")
    /\ Migration[3] = Create("spec_datasets")
    /\ Migration[4] = Create("spec_training_parameters")
    /\ Migration[5] = Create("preset_categories")
    /\ Migration[6] = SeedCategories
    /\ Migration[7] = Create("presets")
    /\ Migration[8] = Create("trainer_presets")
    /\ Migration[9] = Create("preset_option_rules")
    /\ Migration[10] = Create("preset_default_values")
    /\ Migration[11] = SeedPresets
    /\ Migration[12] = SeedTrainerPresets
    /\ Migration[13] = SeedOptionRules
    /\ Migration[14] = SeedDefaultValues
    /\ Migration[15] = Create("spec_preset_refs")
    /\ Migration[16] = Create("runs")
    /\ Migration[17] = CreateIndex("idx_runs_project_created_at")
    /\ Migration[18] = Create("artifacts")
BY DEF Migration, CreateSpecTables, CreatePresetTables, CreateRunTables, Seeds

LEMMA NoRowsEmpty == DOMAIN NoRows = {}
BY DEF NoRows

(* The parts of a statement. *)
LEMMA CreateFields ==
    /\ \A table : /\ Create(table).op = "create" /\ Create(table).table = table
                  /\ DOMAIN Create(table).rows = {}
    /\ \A name : /\ CreateIndex(name).op = "index" /\ CreateIndex(name).table = name
                 /\ DOMAIN CreateIndex(name).rows = {}
BY NoRowsEmpty DEF Create, CreateIndex

LEMMA SeedFields ==
    /\ \A s \in {SeedCategories, SeedPresets, SeedTrainerPresets, SeedOptionRules,
                 SeedDefaultValues} : s.op = "seed"
    /\ SeedCategories.table = "preset_categories" /\ DOMAIN SeedCategories.rows = Category
    /\ SeedPresets.table = "presets" /\ DOMAIN SeedPresets.rows = PresetId
    /\ SeedTrainerPresets.table = "trainer_presets" /\ DOMAIN SeedTrainerPresets.rows = PresetId
    /\ SeedOptionRules.table = "preset_option_rules" /\ DOMAIN SeedOptionRules.rows = PresetId
    /\ SeedDefaultValues.table = "preset_default_values"
    /\ DOMAIN SeedDefaultValues.rows = PresetId
BY DEF Seed, SeedCategories, SeedPresets, SeedTrainerPresets, SeedOptionRules,
       SeedDefaultValues, SeedOptions

(* The table of each. *)
LEMMA StatementTables ==
    /\ Migration[1].table = "projects"
    /\ Migration[2].table = "specs"
    /\ Migration[3].table = "spec_datasets"
    /\ Migration[4].table = "spec_training_parameters"
    /\ Migration[5].table = "preset_categories"
    /\ Migration[6].table = "preset_categories"
    /\ Migration[7].table = "presets"
    /\ Migration[8].table = "trainer_presets"
    /\ Migration[9].table = "preset_option_rules"
    /\ Migration[10].table = "preset_default_values"
    /\ Migration[11].table = "presets"
    /\ Migration[12].table = "trainer_presets"
    /\ Migration[13].table = "preset_option_rules"
    /\ Migration[14].table = "preset_default_values"
    /\ Migration[15].table = "spec_preset_refs"
    /\ Migration[16].table = "runs"
    /\ Migration[17].table = "idx_runs_project_created_at"
    /\ Migration[18].table = "artifacts"
BY MigrationStatements, CreateFields, SeedFields

(* Which of them make something, and which seed what is made. *)
Makers  == {1, 2, 3, 4, 5, 7, 8, 9, 10, 15, 16, 17, 18}
Seeders == {6, 11, 12, 13, 14}

LEMMA StatementOps ==
    /\ \A i \in Makers : /\ Migration[i].op = IF i = 17 THEN "index" ELSE "create"
                         /\ DOMAIN Migration[i].rows = {}
    /\ \A i \in Seeders : Migration[i].op = "seed"
    /\ DOMAIN Migration[6].rows = Category
    /\ \A i \in {11, 12, 13, 14} : DOMAIN Migration[i].rows = PresetId
<1>1. \A i \in Makers : /\ Migration[i].op = IF i = 17 THEN "index" ELSE "create"
                        /\ DOMAIN Migration[i].rows = {}
    BY MigrationStatements, CreateFields DEF Makers
<1>2. \A i \in Seeders : Migration[i].op = "seed"
    BY MigrationStatements, SeedFields DEF Seeders
<1>3. DOMAIN Migration[6].rows = Category
    BY MigrationStatements, SeedFields
<1>4. \A i \in {11, 12, 13, 14} : DOMAIN Migration[i].rows = PresetId
    BY MigrationStatements, SeedFields
<1> QED BY <1>1, <1>2, <1>3, <1>4

(* Every statement is about a table or index of the schema, and every one  *)
(* of these is made.                                                       *)
LEMMA SchemaTables ==
    /\ \A i \in DOMAIN Migration : i \in Makers \cup Seeders /\ Migration[i].table \in Table
    /\ \A t \in Table : \E i \in DOMAIN Migration : Migration[i].table = t
<1>1. DOMAIN Migration = Makers \cup Seeders
    BY MigrationStatements DEF Makers, Seeders
<1>2. \A i \in DOMAIN Migration : Migration[i].table \in Table
    BY <1>1, StatementTables DEF Table, Makers, Seeders
<1>3. \A t \in Table : \E i \in DOMAIN Migration : Migration[i].table = t
    BY <1>1, StatementTables DEF Table, Makers, Seeders
<1> QED BY <1>1, <1>2, <1>3

(* The rows of other tables that rows of the seeded tables refer to. *)
LEMMA SeedReferences ==
    /\ \A key, value : References("preset_categories", key, value) = {}
    /\ \A key, value : References("presets", key, value) = {Ref("preset_categories", "trainer")}
    /\ \A table \in SeededOnly : \A key, value :
            References(table, key, value) = {Ref("presets", key)}
    /\ \A key, value : References("spec_preset_refs", key, value)
                         = {Ref("preset_categories", key[2]), Ref("presets", value)}
    /\ \A table, key : Ref(table, key).table = table /\ Ref(table, key).key = key
BY DEF References, Ref, SeededOnly

(* SQLite accepts a statement when the ones before it have been done: its  *)
(* table is there, and so is every row its rows refer to.                  *)
LEMMA Executability ==
    ASSUME NEW n \in DOMAIN Migration, MigratedBefore(n), NEW enforced
    PROVE  Executable(Migration[n], tables, rows, enforced)
<1>1. \A i \in 1..18 : i < n => Done(Migration[i])
    BY MigrationStatements DEF MigratedBefore
<1>2. CASE n \in Makers
    <2>1. n = 17 => "runs" \in tables
        BY <1>1, StatementTables DEF Done
    <2> QED BY <1>2, <2>1, StatementOps DEF Executable
<1>3. CASE n = 6
    <2>1. Migration[n].table \in tables /\ Migration[n].op = "seed"
        BY <1>1, <1>3, StatementTables, StatementOps DEF Done, Seeders
    <2> QED BY <1>3, <2>1, StatementTables, SeedReferences DEF Executable, Resolves
<1>4. CASE n = 11
    <2>1. Migration[n].table \in tables /\ Migration[n].op = "seed"
        BY <1>1, <1>4, StatementTables, StatementOps DEF Done, Seeders
    <2>2. "trainer" \in DOMAIN rows["preset_categories"]
        <3>1. Done(Migration[6])
            BY <1>1, <1>4
        <3> QED BY <3>1, StatementTables, StatementOps DEF Done, Category
    <2> QED BY <1>4, <2>1, <2>2, StatementTables, SeedReferences DEF Executable, Resolves, Present
<1>5. CASE n \in {12, 13, 14}
    <2>1. /\ Migration[n].table \in tables /\ Migration[n].op = "seed"
          /\ Migration[n].table \in SeededOnly /\ DOMAIN Migration[n].rows = PresetId
        BY <1>1, <1>5, StatementTables, StatementOps DEF Done, Seeders, SeededOnly
    <2>2. PresetId \subseteq DOMAIN rows["presets"]
        BY <1>1, <1>5, StatementTables, StatementOps DEF Done
    <2> QED BY <1>5, <2>1, <2>2, SeedReferences DEF Executable, Resolves, Present
<1> QED BY <1>2, <1>3, <1>4, <1>5, SchemaTables DEF Seeders

-----------------------------------------------------------------------------
(* The file changes in a statement of the migration, a Submit or by the    *)
(* operator's hand, and at no other step.                                  *)
LEMMA FileChanges ==
    ASSUME [Next]_vars
    PROVE  \/ UNCHANGED file
           \/ \E p \in Process : Migrate(p)
           \/ \E p \in Process, r \in RunId, c \in UsedCategory, id \in PresetId :
                Submit(p, r, c, id)
           \/ \E id \in Edited : Disable(id)
<1>1. ASSUME NEW p \in Process,
             Launch(p) \/ Step(p) \/ StatementFails(p) \/ ServeFails(p) \/ Kill(p)
             \/ ReplaceConn(p)
      PROVE  UNCHANGED file \/ Migrate(p)
    BY <1>1 DEF Launch, Step, Open, EnableForeignKeys, Ping, Migrated, StatementFails, Wire,
                Listen, ListenFails, ServeFails, CloseApp, Exit, Kill, ReplaceConn, file
<1>2. CASE UNCHANGED vars
    BY <1>2 DEF vars
<1> QED BY <1>1, <1>2 DEF Next

(* What a statement of the migration does: it adds what it makes or seeds, *)
(* and leaves what is there.                                               *)
LEMMA MigrateEffect ==
    ASSUME TypeOK, NEW p \in Process, Migrate(p)
    PROVE  /\ Statement(p).table \in Table
           /\ tables \subseteq tables' /\ tables' \subseteq tables \cup {Statement(p).table}
           /\ Statement(p).table \in tables'
           /\ DOMAIN rows' = Table
           /\ \A t \in Table \ {Statement(p).table} : rows'[t] = rows[t]
           /\ Statement(p).op # "seed" => rows' = rows
           /\ Statement(p).op = "seed" =>
                rows'[Statement(p).table]
                  = InsertOrIgnore(rows[Statement(p).table], Statement(p).rows)
           /\ DOMAIN Statement(p).rows \subseteq DOMAIN rows'[Statement(p).table]
<1> DEFINE stmt == Statement(p)
<1>1. next[p] \in DOMAIN Migration
    BY MigrationStatements DEF Migrate, Migrating, TypeOK
<1>2. /\ stmt.table \in Table
      /\ stmt.op \in {"create", "index", "seed"}
      /\ stmt.op # "seed" => DOMAIN stmt.rows = {}
    BY <1>1, SchemaTables, StatementOps DEF Statement
<1>3. /\ tables' = tables \cup IF stmt.op = "seed" THEN {} ELSE {stmt.table}
      /\ rows' = IF stmt.op = "seed"
                 THEN [rows EXCEPT ![stmt.table] = InsertOrIgnore(@, stmt.rows)] ELSE rows
      /\ stmt.op = "seed" => stmt.table \in tables
    BY <1>2 DEF Migrate, TablesAfter, RowsAfter, Accepted, Executable
<1>4. DOMAIN rows' = Table /\ \A t \in Table \ {stmt.table} : rows'[t] = rows[t]
    BY <1>2, <1>3 DEF TypeOK
<1>5. stmt.op = "seed" => rows'[stmt.table] = InsertOrIgnore(rows[stmt.table], stmt.rows)
    BY <1>2, <1>3 DEF TypeOK
<1>6. DOMAIN stmt.rows \subseteq DOMAIN rows'[stmt.table]
    <2>1. \A old, new : DOMAIN new \subseteq DOMAIN InsertOrIgnore(old, new)
        BY DEF InsertOrIgnore
    <2> QED BY <1>2, <1>3, <1>5, <2>1
<1> HIDE DEF stmt
<1>7. /\ stmt.table \in Table
      /\ tables \subseteq tables' /\ tables' \subseteq tables \cup {stmt.table}
      /\ stmt.table \in tables'
    BY <1>2, <1>3
<1> QED BY <1>2, <1>3, <1>4, <1>5, <1>6, <1>7 DEF stmt

(* What a Submit does: it adds a run and a reference to a preset. *)
LEMMA SubmitEffect ==
    ASSUME TypeOK, NEW p \in Process, NEW r, NEW c, NEW id, Submit(p, r, c, id)
    PROVE  /\ DOMAIN rows' = Table
           /\ \A t \in Table \ {"spec_preset_refs", "runs"} : rows'[t] = rows[t]
           /\ rows'["spec_preset_refs"] = Insert(rows["spec_preset_refs"], <<r, c>>, id)
           /\ rows'["runs"] = Insert(rows["runs"], r, "queued")
           /\ tables' = tables
BY DEF Submit, TypeOK, Table

(* What disabling a preset does. *)
LEMMA DisableEffect ==
    ASSUME TypeOK, NEW id \in Edited, Disable(id)
    PROVE  /\ DOMAIN rows' = Table /\ tables' = tables
           /\ \A t \in Table \ {"presets"} : rows'[t] = rows[t]
           /\ DOMAIN rows'["presets"] = DOMAIN rows["presets"]
BY DEF Disable, TypeOK, Table

(* Nothing in the file ever goes away. *)
LEMMA FileGrows ==
    ASSUME TypeOK, [Next]_vars
    PROVE  /\ tables \subseteq tables'
           /\ \A t \in Table : DOMAIN rows[t] \subseteq DOMAIN rows'[t]
<1>1. CASE UNCHANGED file
    BY <1>1 DEF file
<1>2. ASSUME NEW p \in Process, Migrate(p)
      PROVE  /\ tables \subseteq tables'
             /\ \A t \in Table : DOMAIN rows[t] \subseteq DOMAIN rows'[t]
    BY <1>2, MigrateEffect DEF InsertOrIgnore
<1>3. ASSUME NEW p \in Process, NEW r \in RunId, NEW c \in UsedCategory, NEW id \in PresetId,
             Submit(p, r, c, id)
      PROVE  /\ tables \subseteq tables'
             /\ \A t \in Table : DOMAIN rows[t] \subseteq DOMAIN rows'[t]
    <2>1. \A old, key, value : DOMAIN old \subseteq DOMAIN Insert(old, key, value)
        BY DEF Insert
    <2>2. /\ tables' = tables
          /\ \A t \in Table \ {"spec_preset_refs", "runs"} : rows'[t] = rows[t]
          /\ rows'["spec_preset_refs"] = Insert(rows["spec_preset_refs"], <<r, c>>, id)
          /\ rows'["runs"] = Insert(rows["runs"], r, "queued")
        BY <1>3, SubmitEffect
    <2> QED BY <2>1, <2>2
<1>4. ASSUME NEW id \in Edited, Disable(id)
      PROVE  /\ tables \subseteq tables'
             /\ \A t \in Table : DOMAIN rows[t] \subseteq DOMAIN rows'[t]
    BY <1>4, DisableEffect
<1> QED BY <1>1, <1>2, <1>3, <1>4, FileChanges

(* So what has been done stays done. *)
LEMMA DoneStays ==
    ASSUME TypeOK, [Next]_vars, NEW n, MigratedBefore(n)
    PROVE  MigratedBefore(n)'
BY FileGrows, SchemaTables DEF MigratedBefore, Done

(* A manager that has run the whole migration finds all that it makes. *)
LEMMA AllDone ==
    ASSUME MigratedBefore(Len(Migration) + 1), tables \subseteq Table
    PROVE  /\ tables = Table
           /\ \A i \in DOMAIN Migration :
                DOMAIN Migration[i].rows \subseteq DOMAIN rows[Migration[i].table]
<1>1. \A i \in DOMAIN Migration : Done(Migration[i])
    BY MigrationStatements DEF MigratedBefore
<1> QED BY <1>1, SchemaTables DEF Done

(* Typing: who listens has the port, who has ended has closed its database. *)
LEMMA TypeStep ==
    ASSUME TypeOK, ProgressInv, [Next]_vars
    PROVE  TypeOK'
<1> USE DEF TypeOK, file, Startup, Ending, Handle
<1>1. ASSUME NEW p \in Process,
             Launch(p) \/ Step(p) \/ StatementFails(p) \/ ServeFails(p) \/ Kill(p)
             \/ ReplaceConn(p)
      PROVE  TypeOK'
    <2>1. CASE Launch(p)
        BY <2>1 DEF Launch, Goto
    <2>2. CASE Open(p)
        BY <2>2 DEF Open, Goto
    <2>3. CASE EnableForeignKeys(p)
        BY <2>3 DEF EnableForeignKeys, Goto
    <2>4. CASE Ping(p)
        BY <2>4 DEF Ping, Goto
    <2>5. CASE Migrate(p)
        <3>1. tables' \subseteq Table /\ DOMAIN rows' = Table
            BY <2>5, MigrateEffect
        <3>2. \A t \in Table \ tables' : DOMAIN rows'[t] = {}
            BY <2>5, MigrateEffect
        <3>3. next' \in [Process -> 1..(Len(Migration) + 1)]
            BY <2>5, MigrationStatements DEF Migrate, Migrating
        <3> QED BY <2>5, <3>1, <3>2, <3>3 DEF Migrate
    <2>6. CASE Migrated(p)
        BY MigrationStatements, <2>6 DEF Migrated, Goto
    <2>7. CASE Wire(p)
        BY <2>7 DEF Wire, Goto
    <2>8. CASE Listen(p)
        BY NoneAssumption, <2>8 DEF Listen, Goto
    <2>9. CASE ListenFails(p)
        BY <2>9 DEF ListenFails, Goto
    <2>10. CASE CloseApp(p)
        BY <2>10 DEF CloseApp, Goto
    <2>11. CASE Exit(p)
        BY <2>11 DEF Exit, Goto
    <2>12. CASE StatementFails(p)
        BY MigrationStatements, <2>12 DEF StatementFails, Migrating
    <2>13. CASE ServeFails(p)
        BY NoneAssumption, <2>13 DEF ServeFails, Goto
    <2>14. CASE Kill(p)
        BY NoneAssumption, MigrationStatements, <2>14 DEF Kill
    <2>15. CASE ReplaceConn(p)
        BY <2>15 DEF ReplaceConn
    <2> QED BY <1>1, <2>1, <2>2, <2>3, <2>4, <2>5, <2>6, <2>7, <2>8, <2>9, <2>10,
               <2>11, <2>12, <2>13, <2>14, <2>15 DEF Step
<1>2. ASSUME NEW p \in Process, NEW r \in RunId, NEW c \in UsedCategory, NEW id \in PresetId,
             Submit(p, r, c, id)
      PROVE  TypeOK'
    BY SubmitEffect, AllDone, <1>2 DEF Submit, ProgressInv
<1>3. ASSUME NEW id \in Edited, Disable(id) PROVE TypeOK'
    BY DisableEffect, <1>3 DEF Disable, Present
<1>4. CASE UNCHANGED vars
    BY <1>4 DEF vars
<1> QED BY <1>1, <1>2, <1>3, <1>4 DEF Next

(* What a manager has passed has been done. *)
LEMMA ProgressStep ==
    ASSUME TypeOK, ProgressInv, [Next]_vars
    PROVE  ProgressInv'
<1> USE DEF TypeOK, ProgressInv, Startup, Ending
<1>1. ASSUME NEW p \in Process,
             Launch(p) \/ Step(p) \/ StatementFails(p) \/ ServeFails(p) \/ Kill(p)
             \/ ReplaceConn(p)
      PROVE  ProgressInv'
    <2>1. CASE Launch(p)
        BY DoneStays, <2>1 DEF Launch, Goto
    <2>2. CASE Open(p)
        BY DoneStays, <2>2 DEF Open, Goto
    <2>3. CASE EnableForeignKeys(p)
        BY DoneStays, <2>3 DEF EnableForeignKeys, Goto
    <2>4. CASE Ping(p)
        <3>1. MigratedBefore(1)'
            BY MigrationStatements DEF MigratedBefore
        <3> QED BY DoneStays, <2>4, <3>1 DEF Ping, Goto
    <2>5. CASE Migrate(p)
        <3>1. PICK n \in DOMAIN Migration : n = next[p]
            BY <2>5, MigrationStatements DEF Migrate, Migrating
        <3>2. next'[p] = n + 1 /\ n \in 1..18 /\ MigratedBefore(n)
            BY <2>5, <3>1, MigrationStatements DEF Migrate, Migrating
        <3>3. \A i \in DOMAIN Migration : i < n => Done(Migration[i])'
            BY <3>2, FileGrows, SchemaTables DEF MigratedBefore, Done
        <3>4. Done(Migration[n])'
            BY <2>5, <3>1, MigrateEffect DEF Done, Statement
        <3>5. MigratedBefore(n + 1)'
            BY <3>2, <3>3, <3>4, MigrationStatements DEF MigratedBefore
        <3>6. MigratedBefore(next[p])'
            BY <3>2, <3>5 DEF MigratedBefore
        <3> QED BY DoneStays, <2>5, <3>6 DEF Migrate, Migrating
    <2>6. CASE Migrated(p)
        BY DoneStays, <2>6 DEF Migrated, Goto
    <2>7. CASE Wire(p)
        BY DoneStays, <2>7 DEF Wire, Goto
    <2>8. CASE Listen(p)
        BY DoneStays, <2>8 DEF Listen, Goto
    <2>9. CASE ListenFails(p)
        BY DoneStays, <2>9 DEF ListenFails, Goto
    <2>10. CASE CloseApp(p)
        BY DoneStays, <2>10 DEF CloseApp, Goto
    <2>11. CASE Exit(p)
        BY DoneStays, <2>11 DEF Exit, Goto
    <2>12. CASE StatementFails(p)
        BY DoneStays, <2>12 DEF StatementFails
    <2>13. CASE ServeFails(p)
        BY DoneStays, <2>13 DEF ServeFails, Goto
    <2>14. CASE Kill(p)
        BY DoneStays, <2>14 DEF Kill
    <2>15. CASE ReplaceConn(p)
        BY DoneStays, <2>15 DEF ReplaceConn
    <2> QED BY <1>1, <2>1, <2>2, <2>3, <2>4, <2>5, <2>6, <2>7, <2>8, <2>9, <2>10,
               <2>11, <2>12, <2>13, <2>14, <2>15 DEF Step
<1>2. ASSUME NEW p \in Process, NEW r \in RunId, NEW c \in UsedCategory, NEW id \in PresetId,
             Submit(p, r, c, id)
      PROVE  ProgressInv'
    BY DoneStays, <1>2 DEF Submit
<1>3. ASSUME NEW id \in Edited, Disable(id) PROVE ProgressInv'
    BY DoneStays, <1>3 DEF Disable
<1>4. CASE UNCHANGED vars
    BY DoneStays, <1>4 DEF vars
<1> QED BY <1>1, <1>2, <1>3, <1>4 DEF Next

(* Nobody but the migration writes the seeded tables. *)
LEMMA SeededStep ==
    ASSUME TypeOK, ProgressInv, SeededInv, [Next]_vars
    PROVE  SeededInv'
<1> SUFFICES ASSUME NEW i \in DOMAIN Migration, Migration[i].op = "seed",
                    Migration[i].table \in SeededOnly,
                    NEW key \in DOMAIN rows'[Migration[i].table]
             PROVE  /\ key \in DOMAIN Migration[i].rows
                    /\ rows'[Migration[i].table][key] = Migration[i].rows[key]
    BY DEF SeededInv
<1> DEFINE table == Migration[i].table
<1>1. table \in Table
    BY SchemaTables
<1>2. CASE rows'[table] = rows[table]
    BY <1>2 DEF SeededInv
<1>3. ASSUME NEW p \in Process, Migrate(p), rows'[table] # rows[table]
      PROVE  /\ key \in DOMAIN Migration[i].rows
             /\ rows'[table][key] = Migration[i].rows[key]
    <2>1. Statement(p).table = table /\ Statement(p).op = "seed"
        BY <1>1, <1>3, MigrateEffect
    <2>2. Statement(p) = Migration[i]
        <3>1. next[p] \in DOMAIN Migration
            BY <1>3, MigrationStatements DEF Migrate, Migrating, TypeOK
        <3>2. i \in Seeders /\ next[p] \in Seeders
            BY <2>1, <3>1, SchemaTables, StatementOps DEF Statement
        <3> QED BY <2>1, <3>2, StatementTables DEF Seeders, Statement, SeededOnly
    <2>3. rows'[table] = InsertOrIgnore(rows[table], Migration[i].rows)
        BY <1>3, <2>1, <2>2, MigrateEffect
    <2>4. \A k \in DOMAIN rows[table] :
             k \in DOMAIN Migration[i].rows /\ rows[table][k] = Migration[i].rows[k]
        BY DEF SeededInv
    <2> QED BY <2>3, <2>4 DEF InsertOrIgnore
<1>4. ASSUME NEW p \in Process, NEW r \in RunId, NEW c \in UsedCategory, NEW id \in PresetId,
             Submit(p, r, c, id)
      PROVE  rows'[table] = rows[table]
    BY <1>1, <1>4, SubmitEffect DEF SeededOnly
<1>5. ASSUME NEW id \in Edited, Disable(id) PROVE rows'[table] = rows[table]
    BY <1>1, <1>5, DisableEffect DEF SeededOnly
<1>6. CASE UNCHANGED file
    BY <1>2, <1>6 DEF file
<1> QED BY <1>2, <1>3, <1>4, <1>5, <1>6, FileChanges

(* What a serving manager resolves can be referred to.  This follows from  *)
(* what it has migrated, not from what its connection enforces.            *)
LEMMA ServingStorable ==
    ASSUME TypeOK, ProgressInv, NEW p \in Process, pc[p] = "serving",
           NEW r, NEW c \in Category, NEW id \in DOMAIN registry[p]
    PROVE  Storable(r, c, id)
<1>1. \A i \in DOMAIN Migration :
         DOMAIN Migration[i].rows \subseteq DOMAIN rows[Migration[i].table]
    BY AllDone DEF ProgressInv, TypeOK
<1>2. Category \subseteq DOMAIN rows["preset_categories"] /\ PresetId \subseteq DOMAIN rows["presets"]
    BY <1>1, MigrationStatements, StatementTables, StatementOps
<1>3. id \in PresetId
    BY DEF ProgressInv, Phase0Presets, PresetId
<1> QED BY <1>2, <1>3, SeedReferences DEF Storable, Resolves, Present

(* A reference is inserted together with its run, and to a preset that is *)
(* there; neither is ever removed.                                        *)
LEMMA ReferenceStep ==
    ASSUME TypeOK, ProgressInv, ReferenceInv, [Next]_vars
    PROVE  ReferenceInv'
<1> DEFINE refs == "spec_preset_refs"
<1>1. {refs, "runs", "preset_categories", "presets"} \subseteq Table
    BY DEF Table
<1>2. \A t \in Table : \A key : Present(rows, t, key) => Present(rows', t, key)
    BY FileGrows DEF Present
<1>3. \A key, id : Resolves(rows, refs, key, id) => Resolves(rows', refs, key, id)
    BY <1>1, <1>2, SeedReferences DEF Resolves
<1>4. CASE rows'[refs] = rows[refs]
    BY <1>1, <1>2, <1>3, <1>4 DEF ReferenceInv
<1>5. ASSUME NEW p \in Process, Migrate(p)
      PROVE  rows'[refs] = rows[refs]
    <2>1. next[p] \in DOMAIN Migration
        BY <1>5, MigrationStatements DEF Migrate, Migrating, TypeOK
    <2>2. Statement(p).op = "seed" => Statement(p).table # refs
        BY <2>1, SchemaTables, StatementOps, StatementTables DEF Statement, Seeders, Makers
    <2> QED BY <1>1, <1>5, <2>2, MigrateEffect
<1>6. ASSUME NEW p \in Process, NEW r \in RunId, NEW c \in UsedCategory, NEW id \in PresetId,
             Submit(p, r, c, id)
      PROVE  ReferenceInv'
    <2>1. /\ rows'[refs] = Insert(rows[refs], <<r, c>>, id)
          /\ rows'["runs"] = Insert(rows["runs"], r, "queued")
        BY <1>6, SubmitEffect
    <2>2. Present(rows', "runs", r)
        BY <2>1 DEF Insert, Present
    <2>3. Resolves(rows', refs, <<r, c>>, id)
        <3>1. pc[p] = "serving" /\ c \in Category /\ id \in DOMAIN registry[p]
            BY <1>6, ClientAssumption DEF Submit
        <3>2. Storable(r, c, id)
            BY <3>1, ServingStorable
        <3> QED BY <1>3, <3>2 DEF Storable
    <2>4. \A ref \in DOMAIN rows'[refs] :
             \/ ref = <<r, c>> /\ rows'[refs][ref] = id
             \/ ref \in DOMAIN rows[refs] /\ rows'[refs][ref] = rows[refs][ref]
        BY <2>1 DEF Insert
    <2> QED BY <1>1, <1>2, <1>3, <2>2, <2>3, <2>4 DEF ReferenceInv
<1>7. ASSUME NEW id \in Edited, Disable(id)
      PROVE  rows'[refs] = rows[refs]
    BY <1>1, <1>7, DisableEffect
<1>8. CASE UNCHANGED file
    BY <1>4, <1>8 DEF file
<1> QED BY <1>4, <1>5, <1>6, <1>7, <1>8, FileChanges

-----------------------------------------------------------------------------
LEMMA InitInv == Init => IInv
<1> SUFFICES ASSUME Init PROVE IInv
    OBVIOUS
<1>1. DOMAIN rows = Table /\ \A t \in Table : DOMAIN rows[t] = {}
    BY NoRowsEmpty DEF Init
<1>2. TypeOK
    BY <1>1, MigrationStatements, NoneAssumption DEF Init, TypeOK, Handle
<1>3. ProgressInv
    BY DEF Init, ProgressInv
<1>4. SeededInv
    BY <1>1, SchemaTables DEF SeededInv
<1>5. ReferenceInv
    BY <1>1 DEF ReferenceInv, Table
<1> QED BY <1>2, <1>3, <1>4, <1>5 DEF IInv

LEMMA StepInv == IInv /\ [Next]_vars => IInv'
BY TypeStep, ProgressStep, SeededStep, ReferenceStep DEF IInv

(* The inductive invariant holds in every behaviour. *)
THEOREM Inductive == Spec => []IInv
BY InitInv, StepInv, PTL DEF Spec

(* Every variable keeps its type; in particular one process at most has    *)
(* the port, and a process that has ended has closed its database.         *)
THEOREM TypeCorrect == Spec => []TypeOK
BY Inductive, PTL DEF IInv

(* However many managers start, die and migrate the same file at the same  *)
(* time, SQLite never refuses the next statement of any of them (Migrate). *)
THEOREM MigrationIsRepeatableHolds == Spec => []MigrationIsRepeatable
<1>1. IInv => MigrationIsRepeatable
    BY Executability, MigrationStatements
    DEF IInv, TypeOK, ProgressInv, MigrationIsRepeatable, Migrating, Accepted, Statement
<1> QED BY <1>1, Inductive, PTL

(* A manager that serves has an open database with all tables, all seeded  *)
(* rows, and for every preset it resolves the rows that a reference to it  *)
(* needs, whether its connection enforces foreign keys or not (NewApp).    *)
THEOREM ServingIsReadyHolds == Spec => []ServingIsReady
<1>1. ASSUME IInv, NEW p \in Process, pc[p] = "serving"
      PROVE  /\ handle[p] # "closed"
             /\ tables = Table
             /\ \A i \in DOMAIN Migration :
                  DOMAIN Migration[i].rows \subseteq DOMAIN rows[Migration[i].table]
             /\ \A r \in RunId, c \in Category, id \in DOMAIN registry[p] : Storable(r, c, id)
    <2>1. handle[p] # "closed"
        BY <1>1 DEF IInv, ProgressInv
    <2>2. /\ tables = Table
          /\ \A i \in DOMAIN Migration :
               DOMAIN Migration[i].rows \subseteq DOMAIN rows[Migration[i].table]
        BY <1>1, AllDone DEF IInv, ProgressInv, TypeOK
    <2>3. \A r, c, id : c \in Category /\ id \in DOMAIN registry[p] => Storable(r, c, id)
        BY <1>1, ServingStorable DEF IInv
    <2> QED BY <2>1, <2>2, <2>3
<1>2. IInv => ServingIsReady
    BY <1>1 DEF ServingIsReady
<1> QED BY <1>2, Inductive, PTL

(* Every stored reference to a preset has its run, its category and its    *)
(* preset, also where the connection that inserted it, by then replaced,   *)
(* did not look (GetMany has resolved the preset, and the file holds all   *)
(* that GetMany can resolve).                                              *)
THEOREM ReferencesResolve == Spec => []ReferenceInv
BY Inductive, PTL DEF IInv

(* What a serving manager knows of its presets from fixtures.go is what    *)
(* the tables say of them, from the migration.                             *)
THEOREM PresetsAgreeHolds == Spec => []PresetsAgree
<1>1. IInv => PresetsAgree
    <2> SUFFICES ASSUME IInv, NEW p \in Process, pc[p] = "serving",
                        NEW id \in DOMAIN registry[p]
                 PROVE  /\ Present(rows, "presets", id)
                        /\ rows["trainer_presets"][id] = registry[p][id].image
                        /\ rows["preset_option_rules"][id] = registry[p][id].policy
                        /\ rows["preset_default_values"][id] = registry[p][id].defaults
        BY DEF PresetsAgree
    <2>1. registry[p] = Phase0Presets /\ id \in PresetId
        BY DEF IInv, ProgressInv, Phase0Presets, PresetId
    <2>2. \A i \in DOMAIN Migration :
             DOMAIN Migration[i].rows \subseteq DOMAIN rows[Migration[i].table]
        BY AllDone DEF IInv, ProgressInv, TypeOK
    <2>3. /\ id \in DOMAIN rows["presets"] /\ id \in DOMAIN rows["trainer_presets"]
          /\ id \in DOMAIN rows["preset_option_rules"]
          /\ id \in DOMAIN rows["preset_default_values"]
        BY <2>1, <2>2, MigrationStatements, StatementTables, StatementOps
    <2>4. \A i \in {12, 13, 14} : rows[Migration[i].table][id] = Migration[i].rows[id]
        BY <2>3, MigrationStatements, StatementTables, StatementOps
        DEF IInv, SeededInv, SeededOnly, Seeders
    <2>5. /\ rows["trainer_presets"][id] = SeedTrainerPresets.rows[id]
          /\ rows["preset_option_rules"][id] = SeedOptionRules.rows[id]
          /\ rows["preset_default_values"][id] = SeedDefaultValues.rows[id]
        BY <2>4, MigrationStatements, StatementTables
    <2>6. /\ SeedTrainerPresets.rows[id] = Phase0Presets[id].image
          /\ SeedOptionRules.rows[id] = SeededRules
          /\ SeedDefaultValues.rows[id] = SeededDefaults
        BY <2>1 DEF SeedTrainerPresets, SeedOptionRules, SeedDefaultValues, SeedOptions, Seed,
                    Phase0Presets, TrainerPreset, PresetId
    <2>7. /\ Phase0Presets[id].policy = SeededRules
          /\ Phase0Presets[id].defaults = SeededDefaults
        BY <2>1 DEF Phase0Presets, TrainerPreset, PresetId, loraSFTOptionPolicy, SeededRules,
                    DefaultValues, SeededDefaults
    <2> QED BY <2>1, <2>3, <2>5, <2>6, <2>7 DEF Present
<1> QED BY <1>1, Inductive, PTL

(* No step but an operator's changes or removes a row that is there: not   *)
(* the migration of a second manager, not a restart, not a Submit.         *)
THEOREM RowsSurviveHolds == Spec => RowsSurvive
<1> DEFINE Kept == \A t \in Table : \A key \in DOMAIN rows[t] :
                     Present(rows', t, key) /\ rows'[t][key] = rows[t][key]
<1>1. ASSUME IInv, [Next]_vars
      PROVE  UNCHANGED rows \/ (\E id \in Edited : Disable(id)) \/ Kept
    <2>1. TypeOK
        BY <1>1 DEF IInv
    <2>2. ASSUME NEW p \in Process, Migrate(p) PROVE Kept
        <3>1. \A t \in Table : rows'[t] = rows[t]
                               \/ \E new : rows'[t] = InsertOrIgnore(rows[t], new)
            BY <2>1, <2>2, MigrateEffect
        <3> QED BY <3>1 DEF InsertOrIgnore, Present
    <2>3. ASSUME NEW p \in Process, NEW r \in RunId, NEW c \in UsedCategory,
                 NEW id \in PresetId, Submit(p, r, c, id)
          PROVE  Kept
        <3>1. r \notin DOMAIN rows["runs"] /\ <<r, c>> \notin DOMAIN rows["spec_preset_refs"]
            BY <1>1, <2>3 DEF Submit, Present, IInv, ReferenceInv
        <3>2. /\ \A t \in Table \ {"spec_preset_refs", "runs"} : rows'[t] = rows[t]
              /\ rows'["spec_preset_refs"] = Insert(rows["spec_preset_refs"], <<r, c>>, id)
              /\ rows'["runs"] = Insert(rows["runs"], r, "queued")
            BY <2>1, <2>3, SubmitEffect
        <3>3. \A old, key, value : key \notin DOMAIN old =>
                 \A k \in DOMAIN old : /\ k \in DOMAIN Insert(old, key, value)
                                       /\ Insert(old, key, value)[k] = old[k]
            BY DEF Insert
        <3> QED BY <3>1, <3>2, <3>3 DEF Present
    <2> QED BY <1>1, <2>2, <2>3, FileChanges DEF file
<1> QED BY <1>1, Inductive, PTL DEF Spec, RowsSurvive
=============================================================================
