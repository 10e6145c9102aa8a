------------------------------- MODULE Schema -------------------------------
(***************************************************************************)
(* The migration of the ledger database (migrations/001_init.sql) as the   *)
(* sequence of its statements, and what SQLite does with each.  There is   *)
(* no transaction around them: a statement commits on its own, so what is  *)
(* in the file after a crash or between the statements of two processes is *)
(* any prefix of their effects.                                            *)
(*                                                                         *)
(* A table is a function from primary keys to values; a value stands for   *)
(* the columns that are not part of the key.  The rules of a preset, and   *)
(* its defaults, are inserted together and nothing tells one from another: *)
(* they are one row here, whose key is the preset.                         *)
(***************************************************************************)
EXTENDS Presets, Sequences

Category == {"trainer", "resource", "output"}

PresetId == {Axolotl, Unsloth}

(* The rows of other tables that a row refers to. *)
Ref(table, key) == [table |-> table, key |-> key]

References(table, key, value) ==
    CASE table = "presets" -> {Ref("preset_categories", "trainer")}
      [] table \in {"trainer_presets", "preset_option_rules", "preset_default_values"} ->
            {Ref("presets", key)}
      [] table = "spec_preset_refs" ->
            {Ref("preset_categories", key[2]), Ref("presets", value)}
      [] OTHER -> {}

-----------------------------------------------------------------------------
NoRows == [key \in {} |-> ""]

Create(table)     == [op |-> "create", table |-> table, rows |-> NoRows]
CreateIndex(name) == [op |-> "index", table |-> name, rows |-> NoRows]
Seed(table, rows) == [op |-> "seed", table |-> table, rows |-> rows]

CreateSpecTables ==
    << Create("projects"), Create("specs"), Create("spec_datasets"),
       Create("spec_training_parameters") >>

SeedCategories == Seed("preset_categories", [c \in Category |-> ""])

CreatePresetTables ==
    << Create("presets"), Create("trainer_presets"), Create("preset_option_rules"),
       Create("preset_default_values") >>

(* The value is column enabled, the one an operator has reason to change. *)
SeedPresets == Seed("presets", [id \in PresetId |-> "enabled"])

SeedTrainerPresets ==
    Seed("trainer_presets",
         [id \in PresetId |-> IF id = Axolotl THEN "axolotl:latest" ELSE "unsloth:latest"])

SeededRules ==
    [learning_rate    |-> Rule("float", 0, 1),
     num_epochs       |-> Rule("int", 1, 100),
     max_seq_length   |-> Rule("int", 128, 32768),
     lora_r           |-> Rule("int", 1, 256),
     lora_alpha       |-> Rule("int", 1, 512),
     micro_batch_size |-> Rule("int", 1, 64)]

(* Both presets have the same rules and the same defaults. *)
SeedOptions(table, options) ==
    Seed(table, [id \in PresetId |-> options])

SeedOptionRules == SeedOptions("preset_option_rules", SeededRules)

\* Faulty variant: a default is changed in fixtures.go and not here.
StaleDefaults ==
    [learning_rate    |-> Decimal(1, -4), num_epochs |-> Decimal(3, 0),
     max_seq_length   |-> Decimal(4096, 0), lora_r   |-> Decimal(16, 0),
     lora_alpha       |-> Decimal(32, 0),
     micro_batch_size |-> Decimal(1, 0)]

SeededDefaults ==
    [learning_rate    |-> Decimal(2, -4),
     num_epochs       |-> Decimal(3, 0),
     max_seq_length   |-> Decimal(4096, 0),
     lora_r           |-> Decimal(16, 0),
     lora_alpha       |-> Decimal(32, 0),
     micro_batch_size |-> Decimal(1, 0)]

SeedDefaultValues == SeedOptions("preset_default_values", SeededDefaults)

CreateRunTables ==
    << Create("spec_preset_refs"), Create("runs"),
       CreateIndex("idx_runs_project_created_at"), Create("artifacts") >>

\* Faulty variant: the seeds in the alphabetical order of their tables.
SeedsByName ==
    << SeedCategories, SeedDefaultValues, SeedOptionRules, SeedPresets, SeedTrainerPresets >>

(* In the order of the file, in which tables are created in between. *)
Seeds == << SeedCategories, SeedPresets, SeedTrainerPresets, SeedOptionRules, SeedDefaultValues >>

Migration ==
    CreateSpecTables
    \o << Create("preset_categories"), Seeds[1] >>
    \o CreatePresetTables
    \o SubSeq(Seeds, 2, Len(Seeds))
    \o CreateRunTables

(* What the migration makes: the tables, and the index. *)
Table ==
    {"projects", "specs", "spec_datasets", "spec_training_parameters", "preset_categories",
     "presets", "trainer_presets", "preset_option_rules", "preset_default_values",
     "spec_preset_refs", "runs", "idx_runs_project_created_at", "artifacts"}

-----------------------------------------------------------------------------
(***************************************************************************)
(* SQLite.  "rows" maps every table to its rows.                           *)
(***************************************************************************)
Present(rows, table, key) == key \in DOMAIN rows[table]

Resolves(rows, table, key, value) ==
    \A ref \in References(table, key, value) : Present(rows, ref.table, ref.key)

\* Faulty variant: INSERT OR REPLACE.
InsertOrReplace(old, new) ==
    [key \in DOMAIN old \cup DOMAIN new |-> IF key \in DOMAIN new THEN new[key] ELSE old[key]]

(* INSERT OR IGNORE: a row whose primary key is there already is skipped. *)
InsertOrIgnore(old, new) ==
    [key \in DOMAIN old \cup DOMAIN new |-> IF key \in DOMAIN old THEN old[key] ELSE new[key]]

(* INSERT of one row whose key is new. *)
Insert(old, key, value) ==
    [k \in DOMAIN old \cup {key} |-> IF k = key THEN value ELSE old[k]]

(* OR IGNORE is about keys, not about foreign keys: a row that is inserted *)
(* and refers to none is an error where foreign keys are enforced.         *)
Executable(stmt, tables, rows, enforced) ==
    \/ stmt.op = "create"
    \/ stmt.op = "index" /\ "runs" \in tables
    \/ /\ stmt.op = "seed"
       /\ stmt.table \in tables
       /\ enforced => \A key \in DOMAIN stmt.rows \ DOMAIN rows[stmt.table] :
                        Resolves(rows, stmt.table, key, stmt.rows[key])

(* IF NOT EXISTS: a table or an index that is there is left alone. *)
TablesAfter(stmt, tables) == tables \cup IF stmt.op = "seed" THEN {} ELSE {stmt.table}

RowsAfter(stmt, rows) ==
    IF stmt.op = "seed" THEN [rows EXCEPT ![stmt.table] = InsertOrIgnore(@, stmt.rows)] ELSE rows
=============================================================================
