----------------------------- MODULE Migrations -----------------------------
(****************************************************************************)
(* Alembic revisions 0001 to 0012 and the commands that run them.           *)
(*                                                                          *)
(* The API image runs `alembic upgrade head` before it serves, one command  *)
(* per replica that starts, and an operator may run `alembic downgrade`.    *)
(* migrations/env.py runs all the revisions of one command in ONE           *)
(* transaction, so a command commits all of them or none. What can go wrong *)
(* is in what it finds: rows the new constraints refuse, a schema another   *)
(* command has already changed, or a type or a key that an earlier          *)
(* downgrade left behind.                                                   *)
(****************************************************************************)
EXTENDS OrmSchema, Naturals, FiniteSets, Functions, SequencesExt

CONSTANTS
  Migrators,      \* processes that run alembic commands
  Idle,           \* a migrator that runs no command
  Targets,        \* the commands they run: "head", "back" (-1), "base"
  MaxRows         \* bound: rows of interest in the database at once

ASSUME MigrationsAssumption ==
  /\ IsFiniteSet(Migrators)
  /\ Targets \subseteq {"head", "back", "base"}
  /\ MaxRows \in Nat

VARIABLES
  db,             \* [tables, types, rows]: what PostgreSQL has committed
  revision,       \* alembic_version, 0 for an empty table
  command,        \* per migrator: the command it runs, or Idle
  outcome         \* how the last command to end ended

vars == <<db, revision, command, outcome>>

----------------------------------------------------------------------------
(* Statements, as the revisions issue them. "checks" and "indexes" hold     *)
(* names, "unique" and "foreign" map a name to its definition.              *)

create_table(t, def, types) == [do |-> "create_table", table |-> t, def |-> def, types |-> types]
drop_table(t) == [do |-> "drop_table", table |-> t]
create(field, t, name, def) ==
  [do |-> "create", field |-> field, table |-> t, name |-> name, def |-> def]
drop(field, t, name) == [do |-> "drop", field |-> field, table |-> t, name |-> name]
add_column(t, col, field, enum) ==
  [do |-> "add_column", table |-> t, col |-> col, field |-> field, enum |-> enum]
drop_column(t, col) == [do |-> "drop_column", table |-> t, col |-> col]
set_default(t, col, label) == [do |-> "set_default", table |-> t, col |-> col, label |-> label]
rename_value(type, old, new) == [do |-> "rename_value", type |-> type, old |-> old, new |-> new]
add_value(type, label) == [do |-> "add_value", type |-> type, label |-> label]
create_type(type, labels) == [do |-> "create_type", type |-> type, labels |-> labels]
rename_type(type, new) == [do |-> "rename_type", type |-> type, new |-> new]
drop_type(type) == [do |-> "drop_type", type |-> type]
retype(t, col, type, old, new) ==
  [do |-> "retype", table |-> t, col |-> col, type |-> type, old |-> old, new |-> new]
delete_rows(t, labels) == [do |-> "delete_rows", table |-> t, labels |-> labels]

PlainColumn == OfType("not an enum", NoDefault)

----------------------------------------------------------------------------
(* Rows, kept as the one thing a constraint of some revision asks of them:  *)
(* a document its status, a document relation its label, another child of a *)
(* document whether the document is of its own tenant, an evidence          *)
(* reference whether its locator is complete, and an engineering relation   *)
(* (or candidate) whether its entities are in its own package. (A relation  *)
(* between two tenants meets 0004 as the other children do.)                *)

LabelColumn == [documents |-> "status", document_relations |-> "relation_type"]

ChildTables == {"chunks", "document_profiles", "ingestion_jobs"}

EdgeTables == {"engineering_relations", "engineering_relation_candidates"}

RowTables == DOMAIN LabelColumn \cup ChildTables \cup EdgeTables \cup {"evidence_references"}

NoRows == [t \in RowTables |-> {}]

\* A foreign key of the table to the parent compares this column too.
Scoped(def, parent, column) ==
  \E f \in DOMAIN def.foreign :
    def.foreign[f].parent = parent /\ column \in Range(def.foreign[f].cols)

\* The row may stand in table t under the constraints of d.
Fits(d, t, row) ==
  /\ t \in DOMAIN d.tables
  /\ t \in DOMAIN LabelColumn => row \in d.types[d.tables[t].enums[LabelColumn[t]].type]
  /\ row = "strayed" => ~Scoped(d.tables[t], "documents", "tenant_id")
  /\ row = "incomplete" => "ck_evidence_references_locator" \notin d.tables[t].checks
  /\ row = "across" => ~Scoped(d.tables[t], "engineering_entities", "package_id")

\* The rows an application can write: what its labels, keys and locators allow.
Candidates(d, t) ==
  IF t \notin DOMAIN d.tables THEN {}
  ELSE IF t \in DOMAIN LabelColumn THEN d.types[d.tables[t].enums[LabelColumn[t]].type]
  ELSE IF t \in ChildTables THEN {"own", "strayed"}
  ELSE IF t \in EdgeTables THEN {"within", "across"}
  ELSE {"complete", "incomplete"}

CountRows(d) == Cardinality(UNION {{t} \X d.rows[t] : t \in RowTables})

Relabelled(d, type, old, new) ==
  [t \in RowTables |->
    IF t \in DOMAIN LabelColumn /\ t \in DOMAIN d.tables
         /\ d.tables[t].enums[LabelColumn[t]].type = type
      THEN {IF r = old THEN new ELSE r : r \in d.rows[t]}
      ELSE d.rows[t]]

----------------------------------------------------------------------------
(* What PostgreSQL does with a statement. d carries, beside tables, types   *)
(* and rows, the types this command has created (Alembic's memo, so an      *)
(* sa.Enum used by several tables is created once) and how far it got.      *)

Columns(def) == def.required \cup def.optional

SetFields == {"checks", "indexes"}

Names(def, field) == IF field \in SetFields THEN def[field] ELSE DOMAIN def[field]

With(def, field, name, value) ==
  [def EXCEPT ![field] = IF field \in SetFields THEN @ \cup {name} ELSE (name :> value) @@ @]

Without(def, field, name) ==
  [def EXCEPT ![field] =
     IF field \in SetFields THEN @ \ {name} ELSE Restrict(@, DOMAIN @ \ {name})]

Keys(def) == {{"id"}} \cup Range(def.unique)

TypesOf(def) == {def.enums[c].type : c \in DOMAIN def.enums}

\* A foreign key needs its columns, its parent, and a unique key to point at.
Referable(d, t, def, fk) ==
  /\ Range(fk.cols) \subseteq Columns(def)
  /\ fk.parent \in DOMAIN d.tables \cup {t}
  /\ Range(fk.key) \in Keys(IF fk.parent = t THEN def ELSE d.tables[fk.parent])

\* Some foreign key of d relies on this unique key of table t.
ReliedOn(d, t, key) ==
  \E u \in DOMAIN d.tables : \E f \in DOMAIN d.tables[u].foreign :
    LET fk == d.tables[u].foreign[f] IN fk.parent = t /\ Range(fk.key) = key

\* The condition under which PostgreSQL accepts the statement as such.
Legal(d, s) ==
  CASE s.do = "create_table" ->
         /\ s.table \notin DOMAIN d.tables
         /\ \A f \in DOMAIN s.def.foreign : Referable(d, s.table, s.def, s.def.foreign[f])
         /\ TypesOf(s.def) \cap DOMAIN d.types \subseteq d.memo
    [] s.do = "drop_table" ->
         /\ s.table \in DOMAIN d.tables
         /\ \A u \in DOMAIN d.tables \ {s.table} : \A f \in DOMAIN d.tables[u].foreign :
              d.tables[u].foreign[f].parent # s.table
    [] s.do = "create" ->
         /\ s.table \in DOMAIN d.tables
         /\ s.name \notin Names(d.tables[s.table], s.field)
         /\ s.field = "unique" => s.def \subseteq Columns(d.tables[s.table])
         /\ s.field = "foreign" => Referable(d, s.table, d.tables[s.table], s.def)
    [] s.do = "drop" ->
         /\ s.table \in DOMAIN d.tables
         /\ s.name \in Names(d.tables[s.table], s.field)
         /\ s.field = "unique" => ~ReliedOn(d, s.table, d.tables[s.table].unique[s.name])
    [] s.do = "add_column" ->
         /\ s.table \in DOMAIN d.tables
         /\ s.col \notin Columns(d.tables[s.table])
         /\ s.enum # PlainColumn => s.enum.type \in DOMAIN d.types
    [] s.do = "drop_column" ->
         s.table \in DOMAIN d.tables /\ s.col \in Columns(d.tables[s.table])
    [] s.do = "set_default" ->
         s.label \in d.types[d.tables[s.table].enums[s.col].type] \cup {NoDefault}
    [] s.do = "rename_value" ->
         s.type \in DOMAIN d.types /\ s.old \in d.types[s.type] /\ s.new \notin d.types[s.type]
    [] s.do = "add_value" -> s.type \in DOMAIN d.types
    [] s.do = "create_type" -> s.type \notin DOMAIN d.types
    [] s.do = "rename_type" -> s.type \in DOMAIN d.types /\ s.new \notin DOMAIN d.types
    [] s.do = "drop_type" ->
         \A t \in DOMAIN d.tables : s.type \notin TypesOf(d.tables[t])
    [] s.do = "retype" ->
         /\ s.type \in DOMAIN d.types
         /\ \A r \in d.rows[s.table] : (IF r = s.old THEN s.new ELSE r) \in d.types[s.type]
    [] s.do = "delete_rows" -> s.table \in DOMAIN d.tables

\* Its effect.
Effect(d, s) ==
  CASE s.do = "create_table" ->
         [d EXCEPT !.tables = (s.table :> s.def) @@ @,
                   !.types = @ @@ Restrict(s.types, TypesOf(s.def)),
                   !.memo = @ \cup TypesOf(s.def)]
    [] s.do = "drop_table" ->
         [d EXCEPT !.tables = Restrict(@, DOMAIN @ \ {s.table}),
                   !.rows = [t \in RowTables |-> IF t = s.table THEN {} ELSE @[t]]]
    [] s.do = "create" ->
         [d EXCEPT !.tables[s.table] = With(@, s.field, s.name, s.def)]
    [] s.do = "drop" ->
         [d EXCEPT !.tables[s.table] = Without(@, s.field, s.name)]
    [] s.do = "add_column" ->
         [d EXCEPT !.tables[s.table] =
            [@ EXCEPT ![s.field] = @ \cup {s.col},
                      !.enums = IF s.enum = PlainColumn THEN @ ELSE (s.col :> s.enum) @@ @]]
    [] s.do = "drop_column" ->
         [d EXCEPT !.tables[s.table] =
            [@ EXCEPT !.required = @ \ {s.col}, !.optional = @ \ {s.col},
                      !.enums = Restrict(@, DOMAIN @ \ {s.col})]]
    [] s.do = "set_default" ->
         [d EXCEPT !.tables[s.table].enums[s.col].default = s.label]
    [] s.do = "rename_value" ->
         [d EXCEPT !.types[s.type] = (@ \ {s.old}) \cup {s.new},
                   !.rows = Relabelled(d, s.type, s.old, s.new)]
    [] s.do = "add_value" -> [d EXCEPT !.types[s.type] = @ \cup {s.label}]
    [] s.do = "create_type" -> [d EXCEPT !.types = (s.type :> s.labels) @@ @]
    [] s.do = "rename_type" ->
         [d EXCEPT
            !.types = [ty \in (DOMAIN @ \ {s.type}) \cup {s.new} |->
                         IF ty = s.new THEN @[s.type] ELSE @[ty]],
            !.tables = [t \in DOMAIN @ |-> [@[t] EXCEPT !.enums =
              [c \in DOMAIN @ |-> IF @[c].type = s.type THEN [@[c] EXCEPT !.type = s.new] ELSE @[c]]]]]
    [] s.do = "drop_type" -> [d EXCEPT !.types = Restrict(@, DOMAIN @ \ {s.type})]
    [] s.do = "retype" ->
         [d EXCEPT !.tables[s.table].enums[s.col].type = s.type,
                   !.rows = Relabelled(d, d.tables[s.table].enums[s.col].type, s.old, s.new)]
    [] s.do = "delete_rows" -> [d EXCEPT !.rows[s.table] = @ \ s.labels]

Execute(d, s) ==
  IF d.state # "running" THEN d
  ELSE IF ~Legal(d, s) THEN [d EXCEPT !.state = "refused"]
  ELSE LET e == Effect(d, s)
       IN  IF \A t \in RowTables : \A r \in e.rows[t] : Fits(e, t, r)
             THEN e ELSE [e EXCEPT !.state = "rows"]

----------------------------------------------------------------------------
(* The revisions. A downgrade that drops a table first drops the table's    *)
(* own indexes; drop_table stands for both.                                 *)

CreateAll(names, defs, types) == [i \in DOMAIN names |-> create_table(names[i], defs[names[i]], types)]
DropAll(names) == [i \in DOMAIN names |-> drop_table(names[Len(names) + 1 - i])]
DropTypes(types) == [i \in DOMAIN types |-> drop_type(types[i])]

\* 0002_document_data_model
DocumentTables ==
  [tenants |-> tenants, documents |-> documents, chunks |-> chunks,
   document_profiles |-> document_profiles, document_relations |-> document_relations,
   ingestion_jobs |-> ingestion_jobs]

DocumentOrder ==
  <<"tenants", "documents", "chunks", "document_profiles", "document_relations",
    "ingestion_jobs">>

upgrade_0002 == CreateAll(DocumentOrder, DocumentTables, DocumentTypes)
downgrade_0002 ==
  DropAll(DocumentOrder) \o DropTypes(<<"document_status", "job_status", "relation_type">>)

\* 0003_document_status_queued
RenameStatus(old, new) ==
  <<set_default("documents", "status", NoDefault),
    rename_value("document_status", old, new),
    set_default("documents", "status", new)>>

\* Mutant: the default is taken to follow the renamed label, as it was dropped.
downgrade_0003_LosesDefault ==
  <<set_default("documents", "status", NoDefault),
    rename_value("document_status", "queued", "pending")>>

upgrade_0003 == RenameStatus("pending", "queued")
downgrade_0003 == RenameStatus("queued", "pending")

\* 0004_tenant_ownership: <<table, old name, new name, column>>
CHILD_FOREIGN_KEYS ==
  <<<<"chunks", "chunks_document_id_fkey", "fk_chunks_tenant_document", "document_id">>,
    <<"document_profiles", "document_profiles_document_id_fkey",
      "fk_document_profiles_tenant_document", "document_id">>,
    <<"document_relations", "document_relations_source_document_id_fkey",
      "fk_document_relations_tenant_source", "source_document_id">>,
    <<"document_relations", "document_relations_target_document_id_fkey",
      "fk_document_relations_tenant_target", "target_document_id">>,
    <<"ingestion_jobs", "ingestion_jobs_document_id_fkey",
      "fk_ingestion_jobs_tenant_document", "document_id">>>>

Swap(t, old, new, fk) == <<drop("foreign", t, old), create("foreign", t, new, fk)>>

\* Mutant: the last child table is forgotten.
upgrade_0004_ForgetsJobs ==
  <<create("unique", "documents", "uq_documents_tenant_id_id", OwnKey)>> \o
  FlattenSeq([i \in 1..4 |->
    LET k == CHILD_FOREIGN_KEYS[i]
    IN  Swap(k[1], k[2], k[3], InTenant(k[4], "documents", "CASCADE"))])

upgrade_0004 ==
  <<create("unique", "documents", "uq_documents_tenant_id_id", OwnKey)>> \o
  FlattenSeq([i \in DOMAIN CHILD_FOREIGN_KEYS |->
    LET k == CHILD_FOREIGN_KEYS[i]
    IN  Swap(k[1], k[2], k[3], InTenant(k[4], "documents", "CASCADE"))])

downgrade_0004 ==
  FlattenSeq([i \in DOMAIN CHILD_FOREIGN_KEYS |->
    LET k == Reverse(CHILD_FOREIGN_KEYS)[i]
    IN  Swap(k[1], k[3], k[2], ById(k[4], "documents", "CASCADE"))])
  \o <<drop("unique", "documents", "uq_documents_tenant_id_id")>>

\* 0005_normalized_artifact
upgrade_0005 ==
  <<add_column("documents", "normalized_key", "optional", PlainColumn),
    add_column("documents", "parser_name", "optional", PlainColumn)>>
downgrade_0005 ==
  <<drop_column("documents", "parser_name"), drop_column("documents", "normalized_key")>>

\* 0006_chunk_text_search: the extension it installs stays on a downgrade.
upgrade_0006 ==
  <<create("indexes", "chunks", "ix_chunks_text_search", {}),
    create("indexes", "chunks", "ix_chunks_text_trigram", {})>>
downgrade_0006 ==
  <<drop("indexes", "chunks", "ix_chunks_text_trigram"),
    drop("indexes", "chunks", "ix_chunks_text_search")>>

\* 0007_relation_signals
NEW_VALUES == <<"same_case", "same_entity">>

upgrade_0007 ==
  <<rename_value("relation_type", "version_of", "possible_version")>> \o
  [i \in DOMAIN NEW_VALUES |-> add_value("relation_type", NEW_VALUES[i])] \o
  <<add_column("document_relations", "reason", "required", PlainColumn)>>

\* Mutant: the renamed label is deleted along with the new ones.
downgrade_0007_DropsVersions ==
  <<drop_column("document_relations", "reason"),
    delete_rows("document_relations", Range(NEW_VALUES) \cup {"possible_version"}),
    rename_type("relation_type", "relation_type_old"),
    create_type("relation_type", {"exact_duplicate", "content_duplicate", "version_of", "related"}),
    retype("document_relations", "relation_type", "relation_type",
           "possible_version", "version_of"),
    drop_type("relation_type_old")>>

downgrade_0007 ==
  <<drop_column("document_relations", "reason"),
    delete_rows("document_relations", Range(NEW_VALUES)),
    rename_type("relation_type", "relation_type_old"),
    create_type("relation_type", {"exact_duplicate", "content_duplicate", "version_of", "related"}),
    retype("document_relations", "relation_type", "relation_type",
           "possible_version", "version_of"),
    drop_type("relation_type_old")>>

\* 0008_embedding_dim
upgrade_0008 ==
  <<add_column("documents", "embedding_dimensions", "optional", PlainColumn),
    create("checks", "documents", "ck_documents_embedding_dimensions_positive", {})>>
downgrade_0008 ==
  <<drop("checks", "documents", "ck_documents_embedding_dimensions_positive"),
    drop_column("documents", "embedding_dimensions")>>

\* 0009_engineering
EngineeringTables ==
  [machine_packages |-> machine_packages,
   derived_behavior_claims |-> derived_behavior_claims,
   engineering_conflicts |-> engineering_conflicts,
   human_overrides |-> human_overrides,
   machines |-> machines,
   package_documents |-> package_documents,
   unsupported_constructs |-> unsupported_constructs,
   assemblies |-> assemblies,
   evidence_references |-> evidence_references,
   plc_programs |-> plc_programs,
   engineering_entities |-> engineering_entities,
   evidence_bindings |-> evidence_bindings,
   package_assignments |-> package_assignments,
   plc_blocks |-> plc_blocks,
   engineering_entity_candidates |-> engineering_entity_candidates,
   engineering_relations |-> engineering_relations,
   plc_variables |-> plc_variables,
   engineering_relation_candidates |-> engineering_relation_candidates,
   plc_references |-> plc_references]

EngineeringOrder ==
  <<"machine_packages", "derived_behavior_claims", "engineering_conflicts", "human_overrides",
    "machines", "package_documents", "unsupported_constructs", "assemblies",
    "evidence_references", "plc_programs", "engineering_entities", "evidence_bindings",
    "package_assignments", "plc_blocks", "engineering_entity_candidates",
    "engineering_relations", "plc_variables", "engineering_relation_candidates",
    "plc_references">>

ENUM_TYPES ==
  <<"package_status", "identity_status", "assignment_state", "entity_kind",
    "engineering_relation_kind", "evidence_locator_kind", "evidence_subject_kind",
    "plc_dialect", "plc_reference_kind", "conflict_kind", "conflict_status",
    "behavior_claim_kind">>

\* Mutant: native enum types are taken to go with their tables.
downgrade_0009_LeavesTypes == DropAll(EngineeringOrder)

upgrade_0009 == CreateAll(EngineeringOrder, EngineeringTables, EngineeringTypes)
downgrade_0009 == DropAll(EngineeringOrder) \o DropTypes(ENUM_TYPES)

\* 0010_evidence_pkg: relation endpoints inside the relation's package.
\* within says what the four foreign keys keep their entities in.
SwapEndpoints(within) ==
  LET FK(col, act) == IF within = "package" THEN InPackage(col, "engineering_entities", act)
                      ELSE InTenant(col, "engineering_entities", act)
      r == "engineering_relations"
      c == "engineering_relation_candidates"
  IN  <<Swap(r, "fk_engineering_relations_tenant_source",
             "fk_engineering_relations_tenant_source", FK("source_entity_id", "CASCADE")),
        Swap(r, "fk_engineering_relations_tenant_target",
             "fk_engineering_relations_tenant_target", FK("target_entity_id", "CASCADE")),
        Swap(c, "fk_relation_candidates_tenant_source",
             "fk_relation_candidates_tenant_source", FK("source_entity_id", "SET NULL")),
        Swap(c, "fk_relation_candidates_tenant_target",
             "fk_relation_candidates_tenant_target", FK("target_entity_id", "SET NULL"))>>

upgrade_0010 ==
  <<create("unique", "engineering_entities", "uq_engineering_entities_tenant_package_id",
           {"tenant_id", "package_id", "id"})>> \o
  FlattenSeq(SwapEndpoints("package")) \o
  <<create("checks", "evidence_references", "ck_evidence_references_locator", {})>>

downgrade_0010 ==
  <<drop("checks", "evidence_references", "ck_evidence_references_locator")>> \o
  FlattenSeq(Reverse(SwapEndpoints("tenant"))) \o
  <<drop("unique", "engineering_entities", "uq_engineering_entities_tenant_package_id")>>

\* 0011_chunk_evidence
SwapChunk(action) ==
  Swap("evidence_references", "fk_evidence_references_tenant_source_id",
       "fk_evidence_references_tenant_source_id", ToChunk(action))

\* Mutant: the foreign key is restated with the action it had.
upgrade_0011_SameAction == SwapChunk("SET NULL")

upgrade_0011 == SwapChunk("RESTRICT")
downgrade_0011 == SwapChunk("SET NULL")

\* 0012_document_class
DOCUMENT_CLASSES ==
  {"schematic", "manual", "bom", "io_list", "hardware", "cables", "terminals", "alarms",
   "motor_drive", "plc_xml", "plc_scl", "s5_text", "cross_references", "photo", "revision",
   "manufacturer_facts", "package_container", "unrelated", "unknown"}

upgrade_0012 ==
  <<create_type("engineering_document_class", DOCUMENT_CLASSES),
    add_column("package_assignments", "relative_path", "optional", PlainColumn),
    add_column("package_assignments", "document_class", "required",
               OfType("engineering_document_class", "unknown")),
    create("indexes", "package_assignments", "ix_package_assignments_tenant_package_path", {})>>

downgrade_0012 ==
  <<drop("indexes", "package_assignments", "ix_package_assignments_tenant_package_path"),
    drop_column("package_assignments", "document_class"),
    drop_column("package_assignments", "relative_path"),
    drop_type("engineering_document_class")>>

HeadRevision == 12

\* 0001_initial_baseline changes nothing in either direction.
upgrade(n) ==
  <<<< >>, upgrade_0002, upgrade_0003, upgrade_0004, upgrade_0005, upgrade_0006,
    upgrade_0007, upgrade_0008, upgrade_0009, upgrade_0010, upgrade_0011, upgrade_0012>>[n]

downgrade(n) ==
  <<<< >>, downgrade_0002, downgrade_0003, downgrade_0004, downgrade_0005, downgrade_0006,
    downgrade_0007, downgrade_0008, downgrade_0009, downgrade_0010, downgrade_0011,
    downgrade_0012>>[n]

----------------------------------------------------------------------------
(* Commands. *)

\* The revision a command run at revision r ends at.
Target(kind, r) ==
  CASE kind = "head" -> HeadRevision
    [] kind = "base" -> 0
    [] kind = "back" -> IF r = 0 THEN 0 ELSE r - 1

\* The statements of one command, all revisions in one transaction.
Script(from, to) ==
  IF to >= from
    THEN FlattenSeq([i \in 1..(to - from) |-> upgrade(from + i)])
    ELSE FlattenSeq([i \in 1..(from - to) |-> downgrade(from + 1 - i)])

Begin(d) == [tables |-> d.tables, types |-> d.types, rows |-> d.rows,
             memo |-> {}, state |-> "running"]

run_migrations(d, from, to) == FoldLeft(Execute, Begin(d), Script(from, to))

Empty == [tables |-> NoEntries, types |-> NoEntries, rows |-> NoRows]

\* The schema that upgrading an empty database to each revision produces.
SchemaAt ==
  [r \in 0..HeadRevision |->
    LET d == run_migrations(Empty, 0, r) IN [tables |-> d.tables, types |-> d.types]]

Init ==
  /\ db = Empty
  /\ revision = 0
  /\ command = [m \in Migrators |-> Idle]
  /\ outcome = "none"

\* The command reads alembic_version and plans the revisions from it.
Start(m, kind) ==
  /\ command[m] = Idle
  /\ command' = [command EXCEPT ![m] = [from |-> revision, to |-> Target(kind, revision)]]
  /\ UNCHANGED <<db, revision, outcome>>

\* Another command has moved alembic_version since: a statement meets what the
\* other one did, or the update of alembic_version finds no row to change.
Overtaken(m) ==
  /\ command[m] # Idle
  /\ command[m].from # revision
  /\ command' = [command EXCEPT ![m] = Idle]
  /\ outcome' = "overtaken"
  /\ UNCHANGED <<db, revision>>

\* The transaction runs and commits, or rolls back at the first error.
Migrate(m) ==
  /\ command[m] # Idle
  /\ command[m].from = revision
  /\ LET d == run_migrations(db, command[m].from, command[m].to)
     IN  IF d.state = "running"
           THEN /\ db' = [tables |-> d.tables, types |-> d.types, rows |-> d.rows]
                /\ revision' = command[m].to
                /\ outcome' = "done"
           ELSE /\ outcome' = d.state
                /\ UNCHANGED <<db, revision>>
  /\ command' = [command EXCEPT ![m] = Idle]

\* The application writes a row the database accepts, or removes one.
WriteRow(t, row) ==
  /\ CountRows(db) < MaxRows
  /\ row \notin db.rows[t]
  /\ Fits(db, t, row)
  /\ db' = [db EXCEPT !.rows[t] = @ \cup {row}]
  /\ UNCHANGED <<revision, command, outcome>>

RemoveRow(t, row) ==
  /\ row \in db.rows[t]
  /\ db' = [db EXCEPT !.rows[t] = @ \ {row}]
  /\ UNCHANGED <<revision, command, outcome>>

Next ==
  \/ \E m \in Migrators, kind \in Targets : Start(m, kind)
  \/ \E m \in Migrators : Migrate(m) \/ Overtaken(m)
  \/ \E t \in RowTables : \E row \in Candidates(db, t) : WriteRow(t, row) \/ RemoveRow(t, row)

Spec == Init /\ [][Next]_vars

----------------------------------------------------------------------------

\* Whatever upgrades, downgrades and refused commands led here, and however
\* they overlapped, the committed schema is the one the revision stands for:
\* every downgrade undoes its upgrade exactly, types and defaults included, and
\* no command is applied twice.
RevisionFixesSchema ==
  /\ db.tables = SchemaAt[revision].tables
  /\ db.types = SchemaAt[revision].types

\* A migrated database is the one the models declare, foreign key actions,
\* enum labels and defaults included (test_models_and_migrations_do_not_drift).
HeadIsMetadata ==
  revision = HeadRevision => db.tables = OrmTables /\ db.types = OrmTypes

\* No command fails on the schema itself, whatever the history: no leftover
\* type, no key dropped while a foreign key relies on it, no table dropped
\* before its children. What can refuse a command is a row (0004's tenant-scoped
\* foreign keys, 0010's locator check and package-scoped ones) or another
\* command's commit.
OnlyRowsRefuse == outcome # "refused"

\* From 0004 on, a foreign key between tenant-owned tables carries tenant_id on
\* both sides, so a row cannot point at another tenant's parent.
ReferencesStayInTenant ==
  revision >= 4 =>
    \A t \in DOMAIN db.tables : \A f \in DOMAIN db.tables[t].foreign :
      LET fk == db.tables[t].foreign[f]
      IN  fk.parent # "tenants" => /\ fk.cols[1] = "tenant_id"
                                   /\ fk.key[1] = "tenant_id"

\* A migration loses rows only in a downgrade: with their table, or, crossing
\* 0007, the two labels it had added. An upgrade keeps every row, and every
\* other row of a downgrade survives under its label of then.
RowsSurvive ==
  [][revision' # revision =>
       \A t \in RowTables :
         LET lost == IF t = "document_relations" /\ revision >= 7 /\ revision' < 7
                       THEN Range(NEW_VALUES) ELSE {}
         IN  t \in DOMAIN db'.tables =>
               Cardinality(db'.rows[t]) = Cardinality(db.rows[t] \ lost)]_vars
=============================================================================
